----------------------------- MODULE TechnicalSheets -----------------------------
(***************************************************************************)
(* One technical sheet: core-api/app/entities/technical_sheets/router.py.  *)
(*                                                                         *)
(* A PATCH loads the sheet, sets what the body names, and then reads and   *)
(* sets one row after the other of the steps the body names.  Each read    *)
(* flushes what was set before it, so row locks are taken one by one, in   *)
(* the order of the body, and columns of a row that two requests set are   *)
(* merged.                                                                 *)
(*                                                                         *)
(* The sizes are a JSON text in the database; two texts of the same sizes  *)
(* in another order are the same value here.                               *)
(***************************************************************************)
EXTENDS Integers, Sequences, FiniteSets, Functions

CONSTANTS
  Sizes,    \* names of sizes
  Rows,     \* rows of technical_sheet_steps and of technical_sheet_step_enabled,
            \* by the step they are about
  Known,    \* those of WORKFLOW_STEP_ORDER
  Dates,    \* completion dates
  Bodies,   \* bodies of PATCH: what they say of sizes, and of rows in turn
  MaxCommits,  \* bound: requests ever committed on the sheet
  Workers,  \* requests served at the same time
  NULL      \* an absent value

States == [completed: BOOLEAN, date: Dates \cup {NULL}]
Steps == [row: Rows, state: States]

Sheet == "sheet"   \* the sheet's own row, among the rows a request locks

VARIABLES
  sheet,   \* technical_sheets row: sizes and total, NULL when there is none
  steps,   \* row -> its state, NULL when there is none
  tx,      \* worker -> its open transaction
  count,   \* requests committed on the sheet
  asked,   \* history: row -> the state the last request committed on it named
  torn     \* history: the rows, of which that request overlapped another commit

vars == <<sheet, steps, tx, count, asked, torn>>

SheetRows == [sizes: [Sizes -> Nat], total: Nat]
Default == [completed |-> FALSE, date |-> NULL]

\* What the constants are.
SheetsAssumption ==
  /\ IsFiniteSet(Sizes) /\ Known \subseteq Rows
  /\ \A body \in Bodies :
       /\ body.sizes \in [Sizes -> Int] \cup {NULL}
       /\ body.steps \in Seq(Steps)
       /\ \A i, j \in DOMAIN body.steps : body.steps[i].row = body.steps[j].row => i = j
  /\ MaxCommits \in Nat
  /\ NULL \notin Rows \cup Dates \cup States \cup SheetRows
  /\ Sheet \notin Rows

\* todo: what the body says of rows not yet read; dirty: a row that is set and not
\* yet flushed.
Idle == [at |-> "idle", old |-> NULL, new |-> NULL, todo |-> <<>>, dirty |-> {}, held |-> {},
         read |-> [r \in Rows |-> NULL], set |-> [r \in Rows |-> NULL], overlapped |-> FALSE]

TypeOK ==
  /\ sheet \in SheetRows \cup {NULL}
  /\ steps \in [Rows -> States \cup {NULL}]
  /\ tx \in [Workers -> [at: {"idle", "open"}, old: SheetRows \cup {NULL}, new: SheetRows \cup {NULL},
                         todo: Seq(Steps), dirty: SUBSET (Rows \cup {Sheet}),
                         held: SUBSET (Rows \cup {Sheet}), read: [Rows -> States \cup {NULL}],
                         set: [Rows -> States \cup {NULL}], overlapped: BOOLEAN]]
  /\ count \in 0..MaxCommits
  /\ asked \in [Rows -> States \cup {NULL}]
  /\ torn \subseteq Rows \cup {Sheet}

Init ==
  /\ sheet = NULL
  /\ steps = [r \in Rows |-> NULL]
  /\ tx = [w \in Workers |-> Idle]
  /\ count = 0
  /\ asked = steps
  /\ torn = {}

-----------------------------------------------------------------------------
Total(sizes) == SumFunction(sizes)

\* Wrong variant: the total counts what the sizes leave out.
RowOfAll(sizes) ==
  [sizes |-> [s \in Sizes |-> IF sizes[s] > 0 THEN sizes[s] ELSE 0], total |-> Total(sizes)]

\* The columns made of the sizes of a body: those that are not positive are left out.
RowOf(sizes) ==
  LET kept == [s \in Sizes |-> IF sizes[s] > 0 THEN sizes[s] ELSE 0]
  IN [sizes |-> kept, total |-> Total(kept)]

(* POST /technical-sheets: the sheet and the rows of the known steps, at once. *)
CreateSheet(sizes) ==
  /\ sheet = NULL
  /\ sheet' = RowOf(sizes)
  /\ steps' = [r \in Rows |-> IF r \in Known THEN Default ELSE NULL]
  /\ asked' = steps'
  /\ UNCHANGED <<tx, count, torn>>

(* PATCH /technical-sheets/{sheet_id} *)

LoadSheet(w, body) ==
  /\ tx[w].at = "idle"
  /\ sheet # NULL
  /\ LET new == IF body.sizes = NULL THEN sheet ELSE RowOf(body.sizes)
     IN tx' = [tx EXCEPT ![w] = [Idle EXCEPT !.at = "open", !.old = sheet, !.new = new, !.todo = body.steps,
                                             !.dirty = IF new = sheet THEN {} ELSE {Sheet}]]
  /\ UNCHANGED <<sheet, steps, count, asked, torn>>

\* A flush waits for the locks of others; an INSERT fails when the row is there
\* (uq_sheet_step, uq_sheet_step_enabled).
CanFlush(w) ==
  \A r \in tx[w].dirty :
    /\ \A v \in Workers \ {w} : r \notin tx[v].held
    /\ r # Sheet /\ tx[w].read[r] = NULL => steps[r] = NULL

\* The next row is selected, which flushes first, and set in the session.
ReadStep(w) ==
  /\ tx[w].at = "open"
  /\ tx[w].todo # <<>>
  /\ CanFlush(w)
  /\ LET t == tx[w]
         r == Head(t.todo).row
     IN tx' = [tx EXCEPT ![w] =
          [t EXCEPT !.held = @ \cup t.dirty, !.todo = Tail(@),
                    !.dirty = IF Head(t.todo).state = steps[r] THEN {} ELSE {r},
                    !.read[r] = steps[r], !.set[r] = Head(t.todo).state]]
  /\ UNCHANGED <<sheet, steps, count, asked, torn>>

\* An UPDATE sets the columns whose value differs from what was loaded.
Merged(row, loaded, written) ==
  [column \in DOMAIN row |->
     IF written[column] = loaded[column] THEN row[column] ELSE written[column]]

\* The row r after the commit of w.
StepAfter(w, r) ==
  IF tx[w].set[r] = NULL THEN steps[r]
  ELSE IF tx[w].read[r] = NULL THEN tx[w].set[r]
  ELSE Merged(steps[r], tx[w].read[r], tx[w].set[r])

Commit(w) ==
  /\ tx[w].at = "open"
  /\ tx[w].todo = <<>>
  /\ CanFlush(w)
  /\ count < MaxCommits
  /\ count' = count + 1
  /\ LET t == tx[w]
         named == {r \in Rows : t.set[r] # NULL}
         rows == named \cup IF t.new = t.old THEN {} ELSE {Sheet}
     IN /\ sheet' = Merged(sheet, t.old, t.new)
        /\ steps' = [r \in Rows |-> StepAfter(w, r)]
        /\ asked' = [r \in Rows |-> IF r \in named THEN t.set[r] ELSE asked[r]]
        /\ torn' = IF t.overlapped THEN torn \cup rows ELSE torn \ rows
        /\ tx' = [v \in Workers |->
                    IF v = w THEN Idle ELSE IF tx[v].at = "idle" THEN tx[v]
                    ELSE [tx[v] EXCEPT !.overlapped = TRUE]]

\* Among others, what PostgreSQL does to one of two requests that wait for each other.
Abort(w) ==
  /\ tx[w].at # "idle"
  /\ tx' = [tx EXCEPT ![w] = Idle]
  /\ UNCHANGED <<sheet, steps, count, asked, torn>>

Next ==
  \/ \E body \in Bodies : body.sizes # NULL /\ CreateSheet(body.sizes)
  \/ \E w \in Workers :
       \/ \E body \in Bodies : LoadSheet(w, body)
       \/ ReadStep(w) \/ Commit(w) \/ Abort(w)

Spec == Init /\ [][Next]_vars

-----------------------------------------------------------------------------
\* The total is the sum of the sizes and a step is as the last request that named
\* it left it, all its columns together, unless that request overlapped the
\* commit of another one and its columns were merged with the other's.
SheetIsConsistent ==
  sheet # NULL =>
    /\ Sheet \notin torn => sheet.total = Total(sheet.sizes)
    /\ \A r \in Rows \ torn : steps[r] = asked[r]
=============================================================================
