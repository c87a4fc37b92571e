-------------------------------- MODULE Inventory --------------------------------
(***************************************************************************)
(* One inventory item and its movements:                                   *)
(* core-api/app/entities/inventory/{service,repo,router}.py.               *)
(*                                                                         *)
(* A movement reads the item's stock, checks it, writes the new stock as a *)
(* value (not as an increment) and inserts the movement, in a transaction  *)
(* that locks nothing until it writes.                                     *)
(*                                                                         *)
(* Quantities are floats in the requests and Numeric(12, 3) in the         *)
(* database.  Here they are whole numbers of ten-thousandths, and a column *)
(* holds multiples of Unit.                                                *)
(***************************************************************************)
EXTENDS Integers

CONSTANTS
  Quantities,    \* quantities that requests name, in ten-thousandths
  MaxMovements,  \* bound: movements ever committed
  MaxStock,      \* bound: the stock a movement may lead to
  Workers,       \* requests served at the same time
  NULL           \* an absent value

Unit == 10       \* one thousandth, the columns' last decimal

ASSUME QuantityAssumption == Quantities \subseteq Nat \ {0}
ASSUME BoundAssumption == MaxMovements \in Nat /\ MaxStock \in Nat
ASSUME NullAssumption == NULL \notin Int

VARIABLES
  stock,   \* current_stock, NULL while there is no item
  min,     \* min_stock
  opening, \* history: the stock the item was created with
  moves,   \* the item's committed movements: [count, in, out], their total quantities
  tx,      \* worker -> its open transaction
  drifted  \* history: has a movement been lost, or rounded away

vars == <<stock, min, opening, moves, tx, drifted>>

Kinds == {"entrada", "saida"}
NoMoves == [count |-> 0, in |-> 0, out |-> 0]

Idle == [at |-> "idle", kind |-> NULL, quantity |-> 0, loaded |-> 0, min |-> 0, written |-> 0,
         gone |-> FALSE, overlapped |-> FALSE]

TypeOK ==
  /\ stock \in Nat \cup {NULL}
  /\ stock # NULL => stock % Unit = 0
  /\ min \in Nat
  /\ opening \in Nat
  /\ moves \in [count: 0..MaxMovements, in: Nat, out: Nat]
  /\ tx \in [Workers -> [at: {"idle", "moving", "editing", "deleting"},
                         kind: Kinds \cup {NULL}, quantity: Nat, loaded: Nat, min: Nat, written: Nat,
                         gone: BOOLEAN, overlapped: BOOLEAN]]
  /\ drifted \in BOOLEAN

Init ==
  /\ stock = NULL
  /\ min = 0
  /\ opening = 0
  /\ moves = NoMoves
  /\ tx = [w \in Workers |-> Idle]
  /\ drifted = FALSE

-----------------------------------------------------------------------------
\* Wrong variant: the columns keep every decimal.
StoredExact(x) == x

\* What a Numeric(12, 3) column makes of a value: rounded, halves up.
Stored(x) == Unit * ((2 * x + Unit) \div (2 * Unit))

\* Does the stock fall by less than the movement says?  l - q is rounded up where
\* q is rounded up.
RoundsAway(kind, q) == kind = "saida" /\ (2 * q) % (2 * Unit) = Unit

Exists == stock # NULL
Others(w, gone) ==
  [v \in Workers |->
     IF v = w THEN Idle
     ELSE IF tx[v].at = "idle" THEN tx[v]
     ELSE [tx[v] EXCEPT !.overlapped = TRUE, !.gone = @ \/ gone]]

Abort(w) ==
  /\ tx[w].at # "idle"
  /\ tx' = [tx EXCEPT ![w] = Idle]
  /\ UNCHANGED <<stock, min, opening, moves, drifted>>

(* POST /inventory/items *)
CreateItem(q, m) ==
  /\ ~Exists
  /\ stock' = Stored(q)
  /\ opening' = Stored(q)
  /\ min' = Stored(m)
  /\ moves' = NoMoves
  /\ drifted' = FALSE
  /\ UNCHANGED tx

(* PATCH /inventory/items/{item_id} *)

LoadForEdit(w, m) ==
  /\ tx[w].at = "idle"
  /\ Exists
  /\ tx' = [tx EXCEPT ![w] = [Idle EXCEPT !.at = "editing", !.loaded = stock, !.min = min,
                                          !.written = m]]
  /\ UNCHANGED <<stock, min, opening, moves, drifted>>

\* Wrong variant: the whole row is written back.
CommitEditWholeRow(w) ==
  /\ tx[w].at = "editing"
  /\ Exists /\ ~tx[w].gone
  /\ min' = Stored(tx[w].written)
  /\ stock' = tx[w].loaded
  /\ tx' = Others(w, FALSE)
  /\ UNCHANGED <<opening, moves, drifted>>

\* Only the columns whose value changed are written, never the stock.
CommitEdit(w) ==
  /\ tx[w].at = "editing"
  /\ Exists /\ ~tx[w].gone
  /\ min' = IF tx[w].written = tx[w].min THEN min ELSE Stored(tx[w].written)
  /\ tx' = Others(w, FALSE)
  /\ UNCHANGED <<stock, opening, moves, drifted>>

(* DELETE /inventory/items/{item_id} takes the movements with it. *)

LoadForDelete(w) ==
  /\ tx[w].at = "idle"
  /\ Exists
  /\ tx' = [tx EXCEPT ![w] = [Idle EXCEPT !.at = "deleting"]]
  /\ UNCHANGED <<stock, min, opening, moves, drifted>>

CommitDelete(w) ==
  /\ tx[w].at = "deleting"
  /\ IF tx[w].gone
     THEN tx' = [tx EXCEPT ![w] = Idle] /\ UNCHANGED <<stock, moves>>
     ELSE tx' = Others(w, TRUE) /\ stock' = NULL /\ moves' = NoMoves
  /\ UNCHANGED <<min, opening, drifted>>

(* POST /inventory/items/{item_id}/movements *)

LoadForMovement(w, kind, q) ==
  /\ tx[w].at = "idle"
  /\ Exists
  /\ moves.count < MaxMovements
  /\ LET after == IF kind = "entrada" THEN stock + q ELSE stock - q
     IN /\ after >= 0                            \* 400 "insufficient stock"
        /\ after <= MaxStock
        /\ tx' = [tx EXCEPT ![w] = [Idle EXCEPT !.at = "moving", !.kind = kind, !.quantity = q,
                                                !.loaded = stock, !.written = after]]
  /\ UNCHANGED <<stock, min, opening, moves, drifted>>

\* The UPDATE fails on a deleted item, the INSERT on a quantity that is rounded
\* to zero (chk_inventory_movement_quantity).
CommitMovement(w) ==
  /\ tx[w].at = "moving"
  /\ Exists /\ ~tx[w].gone
  /\ moves.count < MaxMovements
  /\ Stored(tx[w].quantity) > 0
  /\ Stored(tx[w].written) >= 0
  /\ stock' = Stored(tx[w].written)
  /\ LET q == Stored(tx[w].quantity)
     IN moves' = [count |-> moves.count + 1,
                  in  |-> IF tx[w].kind = "entrada" THEN moves.in + q ELSE moves.in,
                  out |-> IF tx[w].kind = "saida" THEN moves.out + q ELSE moves.out]
  /\ drifted' = (drifted \/ tx[w].overlapped \/ RoundsAway(tx[w].kind, tx[w].quantity))
  /\ tx' = Others(w, FALSE)
  /\ UNCHANGED <<min, opening>>

Next ==
  \/ \E q \in Quantities \cup {0}, m \in {0} \cup Quantities : CreateItem(q, m)
  \/ \E w \in Workers :
       \/ \E m \in Quantities : LoadForEdit(w, m)
       \/ \E kind \in Kinds, q \in Quantities : LoadForMovement(w, kind, q)
       \/ LoadForDelete(w)
       \/ CommitEdit(w) \/ CommitMovement(w) \/ CommitDelete(w) \/ Abort(w)

Spec == Init /\ [][Next]_vars

-----------------------------------------------------------------------------
\* The stock is what was there plus what came in minus what went out, and there
\* are only two ways for it to drift from its movements: a movement whose
\* request overlapped another commit (the lost update), and a withdrawal of an
\* odd multiple of half a thousandth.  Edits, deletions and rollbacks, however
\* they overlap with movements, are not.
StockIsItsMovements ==
  Exists /\ ~drifted => stock = opening + moves.in - moves.out
=============================================================================
