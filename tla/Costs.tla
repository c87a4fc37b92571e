---------------------------------- MODULE Costs ----------------------------------
(***************************************************************************)
(* One cost calculation and its lines of material and labor:               *)
(* core-api/app/entities/costs/{service,repo,router,schemas}.py.           *)
(*                                                                         *)
(* Every change of a line or of the calculation recomputes five columns of *)
(* the calculation from all its lines, read line by line and committed     *)
(* with nothing locked but the rows already flushed.                       *)
(*                                                                         *)
(* Quantities and prices are multiples of what their columns hold; a cost  *)
(* per unit is kept as the fraction it is.  The answer to a PATCH reads    *)
(* updated_at, which its UPDATE has expired and an async session cannot    *)
(* load: whether the request gets to its commit is left open here.         *)
(***************************************************************************)
EXTENDS Integers, FiniteSets, Functions

CONSTANTS
  Materials,  \* lines of material
  Labor,      \* lines of labor
  Quantities, Prices,  \* of a line of material, as requests name them
  Hours, Rates,        \* of a line of labor
  Pieces,     \* quantities of the calculation that requests name
  Margins,    \* profit margins that requests name
  MaxCommits, \* bound: requests ever committed on one calculation
  Workers,    \* requests served at the same time
  NULL        \* an absent value

Lines == Materials \cup Labor

VARIABLES
  calc,   \* cost_calculations row, NULL when there is none
  lines,  \* line -> its row, NULL when there is none
  tx,     \* worker -> its open transaction
  count,  \* requests committed on the calculation
  stale,  \* history: the totals were written by a request that overlapped a commit
  torn    \* history: lines last edited by such a request

vars == <<calc, lines, tx, count, stale, torn>>

LineRows == [quantity: Nat, price: Nat, total: Nat]
CalcRows == [quantity: Nat \ {0}, margin: Nat, material: Nat, labor: Nat, total: Nat,
             unit: Nat \X (Nat \ {0}), suggested: Nat \X (Nat \ {0}) \X Nat]
Columns == {"quantity", "margin", "material", "labor", "total", "unit", "suggested"}
Operations == {"add", "edit", "drop", "revise", "remove"}

\* What the constants are.
CostsAssumption ==
  /\ IsFiniteSet(Lines) /\ Materials \cap Labor = {}
  /\ Quantities \cup Prices \cup Hours \cup Rates \cup Margins \subseteq Nat
  /\ Pieces \subseteq Nat \ {0}
  /\ MaxCommits \in Nat
  /\ NULL \notin Int \cup Lines \cup LineRows \cup CalcRows \cup Operations

\* A request has loaded its line as old and makes it new, and has loaded the
\* calculation and makes it row.
Idle == [at |-> "idle", op |-> NULL, line |-> NULL, old |-> NULL, new |-> NULL,
         loaded |-> NULL, row |-> NULL, overlapped |-> FALSE]

TypeOK ==
  /\ calc \in CalcRows \cup {NULL}
  /\ lines \in [Lines -> LineRows \cup {NULL}]
  /\ tx \in [Workers -> [at: {"idle", "line", "calc", "listed"},
                         op: Operations \cup {NULL},
                         line: Lines \cup {NULL}, old: LineRows \cup {NULL},
                         new: LineRows \cup {NULL}, loaded: CalcRows \cup {NULL},
                         row: CalcRows \cup {NULL}, overlapped: BOOLEAN]]
  /\ count \in 0..MaxCommits
  /\ stale \in BOOLEAN
  /\ torn \subseteq Lines

Init ==
  /\ calc = NULL
  /\ lines = [l \in Lines |-> NULL]
  /\ tx = [w \in Workers |-> Idle]
  /\ count = 0
  /\ stale = FALSE
  /\ torn = {}

-----------------------------------------------------------------------------
\* calc_material_total and calc_labor_total.
Line(quantity, price) == [quantity |-> quantity, price |-> price, total |-> quantity * price]

\* recalculate_totals, once the lines are summed up.
Recalculated(quantity, margin, material, labor) ==
  LET total == material + labor
  IN [quantity |-> quantity, margin |-> margin, material |-> material, labor |-> labor,
      total |-> total, unit |-> <<total, quantity>>, suggested |-> <<total, quantity, margin>>]

\* The sum of some lines' totals in a table of lines.
Total(table, some) == SumFunction([l \in some |-> IF table[l] = NULL THEN 0 ELSE table[l].total])

\* The lines as worker w selects them: what is committed, but its own line as the
\* session holds it, and none that it has deleted.
Seen(w) ==
  IF tx[w].line = NULL THEN lines ELSE [lines EXCEPT ![tx[w].line] = tx[w].new]

\* What the flushes of v keep others from writing until it ends.
LocksLine(v, l) ==
  tx[v].line = l /\ (tx[v].at = "listed" \/ (tx[v].op = "edit" /\ tx[v].at = "calc"))

LocksCalc(v) ==
  /\ tx[v].op = "revise"
  /\ tx[v].at = "listed"
  /\ tx[v].row.quantity # tx[v].loaded.quantity \/ tx[v].row.margin # tx[v].loaded.margin

Abort(w) ==
  /\ tx[w].at # "idle"
  /\ tx' = [tx EXCEPT ![w] = Idle]
  /\ UNCHANGED <<calc, lines, count, stale, torn>>

\* After a commit of w: what the other requests have read is old.
Committed(w) ==
  [v \in Workers |->
     IF v = w THEN Idle
     ELSE IF tx[v].at = "idle" THEN tx[v]
     ELSE [tx[v] EXCEPT !.overlapped = TRUE]]

(* POST /cost-calculations *)
CreateCalculation(quantity, margin) ==
  /\ calc = NULL
  /\ calc' = Recalculated(quantity, margin, 0, 0)
  /\ count' = 0
  /\ stale' = FALSE
  /\ UNCHANGED <<lines, tx, torn>>

(* POST .../materials and .../labor *)
LoadForAdd(w, l, quantity, price) ==
  /\ tx[w].at = "idle"
  /\ calc # NULL
  /\ lines[l] = NULL
  /\ \A v \in Workers : tx[v].line # l
  /\ tx' = [tx EXCEPT ![w] = [Idle EXCEPT !.at = "calc", !.op = "add", !.line = l,
                                          !.new = Line(quantity, price),
                                          !.loaded = calc, !.row = calc]]
  /\ UNCHANGED <<calc, lines, count, stale, torn>>

(* PATCH and DELETE of a line *)

\* Wrong variant: the total is left alone when only the price is given.
LoadLineForEditForgetting(w, l, quantity, price) ==
  /\ tx[w].at = "idle"
  /\ lines[l] # NULL
  /\ LET old == lines[l]
         new == Line(IF quantity = NULL THEN old.quantity ELSE quantity,
                     IF price = NULL THEN old.price ELSE price)
     IN tx' = [tx EXCEPT ![w] =
          [Idle EXCEPT !.at = "line", !.op = "edit", !.line = l, !.old = old,
                       !.new = IF quantity = NULL THEN [new EXCEPT !.total = old.total] ELSE new]]
  /\ UNCHANGED <<calc, lines, count, stale, torn>>

\* A field absent from the body is left as it was loaded.
LoadLineForEdit(w, l, quantity, price) ==
  /\ tx[w].at = "idle"
  /\ lines[l] # NULL
  /\ LET old == lines[l]
     IN tx' = [tx EXCEPT ![w] =
          [Idle EXCEPT !.at = "line", !.op = "edit", !.line = l, !.old = old,
                       !.new = Line(IF quantity = NULL THEN old.quantity ELSE quantity,
                                    IF price = NULL THEN old.price ELSE price)]]
  /\ UNCHANGED <<calc, lines, count, stale, torn>>

LoadLineForDrop(w, l) ==
  /\ tx[w].at = "idle"
  /\ lines[l] # NULL
  /\ tx' = [tx EXCEPT ![w] = [Idle EXCEPT !.at = "line", !.op = "drop", !.line = l, !.old = lines[l]]]
  /\ UNCHANGED <<calc, lines, count, stale, torn>>

\* ensure_calculation_for_org.  The query flushes the edit of the line first, which
\* waits for its lock and fails if the line is gone.
LoadCalculation(w) ==
  /\ tx[w].at = "line"
  /\ calc # NULL
  /\ tx[w].op = "edit" =>
       lines[tx[w].line] # NULL /\ \A v \in Workers \ {w} : ~LocksLine(v, tx[w].line)
  /\ tx' = [tx EXCEPT ![w] = [@ EXCEPT !.at = "calc", !.loaded = calc, !.row = calc]]
  /\ UNCHANGED <<calc, lines, count, stale, torn>>

(* PATCH and DELETE /cost-calculations/{calculation_id} *)

LoadForRevision(w, quantity, margin) ==
  /\ tx[w].at = "idle"
  /\ calc # NULL
  /\ tx' = [tx EXCEPT ![w] = [Idle EXCEPT
       !.at = "calc", !.op = "revise", !.loaded = calc,
       !.row = [calc EXCEPT !.quantity = IF quantity = NULL THEN @ ELSE quantity,
                            !.margin = IF margin = NULL THEN @ ELSE margin]]]
  /\ UNCHANGED <<calc, lines, count, stale, torn>>

LoadForRemoval(w) ==
  /\ tx[w].at = "idle"
  /\ calc # NULL
  /\ tx' = [tx EXCEPT ![w] = [Idle EXCEPT !.at = "listed", !.op = "remove", !.loaded = calc]]
  /\ UNCHANGED <<calc, lines, count, stale, torn>>

\* The lines go with it; the DELETE waits for whoever has flushed one of them, and
\* the other requests, whose rows are gone, have nothing left to commit.
CommitRemoval(w) ==
  /\ tx[w].op = "remove"
  /\ \A v \in Workers \ {w} : ~LocksCalc(v) /\ \A l \in Lines : ~LocksLine(v, l)
  /\ calc' = NULL
  /\ lines' = [l \in Lines |-> NULL]
  /\ count' = 0
  /\ tx' = [v \in Workers |-> Idle]
  /\ stale' = FALSE
  /\ torn' = {}

-----------------------------------------------------------------------------
(* recalculate_totals *)

\* The INSERT, UPDATE or DELETE is flushed, then all lines are selected.  (The code
\* selects materials and labor one after the other: a commit in between overlaps
\* the request like one at any other time.)
ListLines(w) ==
  /\ tx[w].at = "calc"
  /\ \A v \in Workers \ {w} :
       IF tx[w].op = "revise" THEN ~LocksCalc(v) ELSE ~LocksLine(v, tx[w].line)
  /\ LET row == tx[w].row
     IN tx' = [tx EXCEPT ![w] =
          [@ EXCEPT !.at = "listed",
                    !.row = Recalculated(row.quantity, row.margin, Total(Seen(w), Materials),
                                         Total(Seen(w), Labor))]]
  /\ UNCHANGED <<calc, lines, count, stale, torn>>

\* An UPDATE sets the columns whose value differs from what was loaded.
Merged(row, loaded, written, columns) ==
  [c \in columns |-> IF written[c] = loaded[c] THEN row[c] ELSE written[c]]

\* The line after the commit of w.
LineAfter(w) ==
  LET t == tx[w]
  IN IF t.op = "edit"
     THEN Merged(lines[t.line], t.old, t.new, {"quantity", "price", "total"})
     ELSE t.new

\* Wrong variant: only the sums are stored, not what is computed from them.
CommitSums(w) ==
  /\ tx[w].at = "listed" /\ tx[w].op # "remove"
  /\ count < MaxCommits
  /\ count' = count + 1
  /\ \A v \in Workers \ {w} : ~LocksCalc(v)
  /\ LET t == tx[w]
     IN /\ calc' = [Merged(calc, t.loaded, t.row, Columns) EXCEPT !.suggested = calc.suggested]
        /\ lines' = IF t.line = NULL THEN lines ELSE [lines EXCEPT ![t.line] = LineAfter(w)]
        /\ stale' = t.overlapped
        /\ torn' = IF t.overlapped /\ t.op = "edit" THEN torn \cup {t.line} ELSE torn \ {t.line}
  /\ tx' = Committed(w)

\* The totals are flushed, which waits for a revision's lock, and committed.
Commit(w) ==
  /\ tx[w].at = "listed" /\ tx[w].op # "remove"
  /\ count < MaxCommits
  /\ count' = count + 1
  /\ \A v \in Workers \ {w} : ~LocksCalc(v)
  /\ LET t == tx[w]
     IN /\ calc' = Merged(calc, t.loaded, t.row, Columns)
        /\ lines' = IF t.line = NULL THEN lines ELSE [lines EXCEPT ![t.line] = LineAfter(w)]
        /\ stale' = t.overlapped
        /\ torn' = IF t.overlapped /\ t.op = "edit" THEN torn \cup {t.line} ELSE torn \ {t.line}
  /\ tx' = Committed(w)

-----------------------------------------------------------------------------
(* How the requests on lines begin *)

CreateMaterial(w) == \E l \in Materials, q \in Quantities, p \in Prices : LoadForAdd(w, l, q, p)
CreateLabor(w) == \E l \in Labor, h \in Hours, r \in Rates : LoadForAdd(w, l, h, r)

UpdateMaterial(w) ==
  \E l \in Materials, q \in Quantities \cup {NULL}, p \in Prices \cup {NULL} : LoadLineForEdit(w, l, q, p)
UpdateLabor(w) ==
  \E l \in Labor, h \in Hours \cup {NULL}, r \in Rates \cup {NULL} : LoadLineForEdit(w, l, h, r)

DeleteMaterial(w) == \E l \in Materials : LoadLineForDrop(w, l)
DeleteLabor(w) == \E l \in Labor : LoadLineForDrop(w, l)

Next ==
  \/ \E q \in Pieces, m \in Margins \cup {0} : CreateCalculation(q, m)
  \/ \E w \in Workers :
       \/ CreateMaterial(w) \/ UpdateMaterial(w) \/ DeleteMaterial(w)
       \/ CreateLabor(w) \/ UpdateLabor(w) \/ DeleteLabor(w)
       \/ \E q \in Pieces \cup {NULL}, m \in Margins \cup {NULL} : LoadForRevision(w, q, m)
       \/ LoadForRemoval(w) \/ LoadCalculation(w) \/ ListLines(w)
       \/ Commit(w) \/ CommitRemoval(w) \/ Abort(w)

Spec == Init /\ [][Next]_vars

-----------------------------------------------------------------------------
\* The totals, the cost per unit and the suggested price are those of the present
\* lines, quantity and margin unless the request that wrote them overlapped
\* another commit: the next request that runs alone repairs them, whichever line
\* it changes.
TotalsAreTheLines ==
  calc # NULL /\ ~stale =>
    calc = Recalculated(calc.quantity, calc.margin, Total(lines, Materials), Total(lines, Labor))

\* A line costs its quantity times its price, unless an edit of one of them
\* overlapped another commit: each edit computes the total from the other value
\* as it was loaded.  Rollbacks, deletions and revisions do not tear a line.
LinesAreProducts ==
  \A l \in Lines : lines[l] # NULL /\ l \notin torn => lines[l].total = lines[l].quantity * lines[l].price
=============================================================================
