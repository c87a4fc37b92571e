--------------------------------- MODULE Orders ---------------------------------
(***************************************************************************)
(* The orders of an organization, their batches, and what a checkout       *)
(* charges for them: core-api/app/entities/orders/{service,repo,router}.py *)
(* and the amounts of marketplace_payments/service.py.                     *)
(*                                                                         *)
(* An order is edited while checkouts and webhooks write its financial     *)
(* status and take copies of its amount; nothing is locked while a request *)
(* waits.  How payments move is MarketplacePayments' matter: here a        *)
(* webhook is one step that writes the status of an order.                 *)
(*                                                                         *)
(* An order is known by its code, which no two rows of an organization     *)
(* share.  Prices are in ten-thousandths, amounts in cents.                *)
(***************************************************************************)
EXTENDS Integers

CONSTANTS
  Codes,       \* order codes that requests name, or that are generated for them
  Batches,     \* ids of batches
  Lots,        \* lot numbers
  Payments,    \* ids of payments
  Quantities, Prices,  \* of an order, as requests name them
  Percent, MinFee,     \* PLATFORM_FEE_PERCENT, PLATFORM_FEE_MIN_CENTS
  Workers,     \* requests served at the same time
  NULL         \* an absent value

VARIABLES
  orders,    \* code -> its row, NULL when there is none
  batches,   \* batch -> its row, NULL when there is none
  payments,  \* payment -> its row, NULL when there is none
  tx,        \* worker -> its open transaction
  reported,  \* history: code -> the status that payments last gave the order
  edited     \* history: payments whose order has changed since their amount was read

vars == <<orders, batches, payments, tx, reported, edited>>

Statuses == {"awaiting_payment", "paid", "payment_failed"}
OrderRows == [quantity: Quantities, price: Prices, financial: Statuses]
BatchRows == [order: Codes, lot: Lots]
PaymentRows == [order: Codes, amount: Nat \ {0}, fee: Nat, net: Nat]

\* What the constants are.
OrdersAssumption ==
  /\ Quantities \cup Prices \subseteq Nat
  /\ Percent \in 0..100 /\ MinFee \in Nat
  /\ NULL \notin Int \cup Codes \cup Batches \cup Lots \cup Payments \cup OrderRows \cup BatchRows \cup PaymentRows

Idle == [at |-> "idle", order |-> NULL, loaded |-> NULL, written |-> NULL, batch |-> NULL,
         lot |-> NULL, pay |-> NULL, gone |-> FALSE, edited |-> FALSE]

TypeOK ==
  /\ orders \in [Codes -> OrderRows \cup {NULL}]
  /\ batches \in [Batches -> BatchRows \cup {NULL}]
  /\ payments \in [Payments -> PaymentRows \cup {NULL}]
  /\ tx \in [Workers -> [at: {"idle", "creating", "editing", "batching", "relotting", "charging", "posting"},
                         order: Codes \cup {NULL}, loaded: OrderRows \cup {NULL},
                         written: OrderRows \cup {NULL}, batch: Batches \cup {NULL},
                         lot: Lots \cup {NULL}, pay: Payments \cup {NULL},
                         gone: BOOLEAN, edited: BOOLEAN]]
  /\ reported \in [Codes -> Statuses]
  /\ edited \subseteq Payments

Init ==
  /\ orders = [c \in Codes |-> NULL]
  /\ batches = [b \in Batches |-> NULL]
  /\ payments = [p \in Payments |-> NULL]
  /\ tx = [w \in Workers |-> Idle]
  /\ reported = [c \in Codes |-> "awaiting_payment"]
  /\ edited = {}

-----------------------------------------------------------------------------
(* What a checkout charges *)

\* Wrong variant: the fraction of a cent is cut off.
AmountCut(quantity, price) == (quantity * price) \div 100

\* _order_amount_cents: rounded, halves up.
Amount(quantity, price) == (quantity * price + 50) \div 100

\* calculate_platform_fee_cents.
Fee(amount) ==
  LET percent == (amount * Percent + 50) \div 100
  IN IF percent > MinFee THEN percent ELSE MinFee

Net(amount) == IF amount > Fee(amount) THEN amount - Fee(amount) ELSE 0

-----------------------------------------------------------------------------
Begin(w, t) == tx' = [tx EXCEPT ![w] = t]
End(w) == tx' = [tx EXCEPT ![w] = Idle]

Abort(w) ==
  /\ tx[w].at # "idle"
  /\ End(w)
  /\ UNCHANGED <<orders, batches, payments, reported, edited>>

(* POST /orders *)

LookUpCode(w, c, quantity, price) ==
  /\ tx[w].at = "idle"
  /\ orders[c] = NULL                            \* 409 "order_code already exists"
  /\ Begin(w, [Idle EXCEPT !.at = "creating", !.order = c,
                           !.written = [quantity |-> quantity, price |-> price,
                                        financial |-> "awaiting_payment"]])
  /\ UNCHANGED <<orders, batches, payments, reported, edited>>

\* uq_order_org_code
CommitCreate(w) ==
  /\ tx[w].at = "creating"
  /\ orders[tx[w].order] = NULL
  /\ orders' = [orders EXCEPT ![tx[w].order] = tx[w].written]
  /\ reported' = [reported EXCEPT ![tx[w].order] = "awaiting_payment"]
  /\ End(w)
  /\ UNCHANGED <<batches, payments, edited>>

(* PATCH /orders/{order_id} *)

LoadForEdit(w, c, quantity, price) ==
  /\ tx[w].at = "idle"
  /\ orders[c] # NULL
  /\ Begin(w, [Idle EXCEPT !.at = "editing", !.order = c, !.loaded = orders[c],
                           !.written = [orders[c] EXCEPT
                              !.quantity = IF quantity = NULL THEN @ ELSE quantity,
                              !.price = IF price = NULL THEN @ ELSE price]])
  /\ UNCHANGED <<orders, batches, payments, reported, edited>>

\* An UPDATE sets the columns whose value differs from what was loaded.
Merged(row, loaded, written) ==
  [column \in DOMAIN row |->
     IF written[column] = loaded[column] THEN row[column] ELSE written[column]]

SameAmount(one, other) == one.quantity = other.quantity /\ one.price = other.price

\* What an edit of order c leads to, given the order's row after it.
Edited(w, c, row) ==
  LET changed == ~SameAmount(row, orders[c])
  IN /\ orders' = [orders EXCEPT ![c] = row]
     /\ edited' = IF changed
                  THEN edited \cup {p \in Payments : payments[p] # NULL /\ payments[p].order = c}
                  ELSE edited
     /\ tx' = [v \in Workers |->
                 IF v = w THEN Idle
                 ELSE [tx[v] EXCEPT !.edited = @ \/ (changed /\ tx[v].order = c)]]

\* Wrong variant: every column is written back.
CommitEditWholeRow(w) ==
  /\ tx[w].at = "editing" /\ ~tx[w].gone
  /\ Edited(w, tx[w].order, tx[w].written)
  /\ UNCHANGED <<batches, payments, reported>>

CommitEdit(w) ==
  /\ tx[w].at = "editing" /\ ~tx[w].gone
  /\ Edited(w, tx[w].order, Merged(orders[tx[w].order], tx[w].loaded, tx[w].written))
  /\ UNCHANGED <<batches, payments, reported>>

(* DELETE /orders/{order_id}: a DELETE by id, with nothing to check after the row
   is found.  Batches and payments go with the order; a checkout that has inserted
   its payment holds the order. *)
DeleteOrder(c) ==
  /\ orders[c] # NULL
  /\ \A v \in Workers : ~(tx[v].at = "posting" /\ tx[v].order = c)
  /\ orders' = [orders EXCEPT ![c] = NULL]
  /\ batches' = [b \in Batches |-> IF batches[b] # NULL /\ batches[b].order = c THEN NULL ELSE batches[b]]
  /\ payments' = [p \in Payments |-> IF payments[p] # NULL /\ payments[p].order = c THEN NULL ELSE payments[p]]
  /\ edited' = edited \ {p \in Payments : payments[p] # NULL /\ payments[p].order = c}
  /\ tx' = [v \in Workers |->
              IF tx[v].order = c /\ tx[v].at # "creating" THEN [tx[v] EXCEPT !.gone = TRUE] ELSE tx[v]]
  /\ reported' = [reported EXCEPT ![c] = "awaiting_payment"]

-----------------------------------------------------------------------------
(* Batches *)

LotTaken(c, lot) == \E b \in Batches : batches[b] = [order |-> c, lot |-> lot]

(* POST /orders/{order_id}/batches *)
LookUpLot(w, c, b, lot) ==
  /\ tx[w].at = "idle"
  /\ orders[c] # NULL
  /\ batches[b] = NULL
  /\ \A v \in Workers : tx[v].batch # b
  /\ ~LotTaken(c, lot)                           \* 409 "lot_number already exists"
  /\ Begin(w, [Idle EXCEPT !.at = "batching", !.order = c, !.batch = b, !.lot = lot])
  /\ UNCHANGED <<orders, batches, payments, reported, edited>>

(* PATCH /order-batches/{batch_id} with another lot number *)
LoadBatch(w, b, lot) ==
  /\ tx[w].at = "idle"
  /\ batches[b] # NULL
  /\ batches[b].lot # lot
  /\ ~LotTaken(batches[b].order, lot)
  /\ Begin(w, [Idle EXCEPT !.at = "relotting", !.order = batches[b].order, !.batch = b, !.lot = lot])
  /\ UNCHANGED <<orders, batches, payments, reported, edited>>

\* The foreign key and uq_order_batch_lot.
CommitBatch(w) ==
  /\ tx[w].at \in {"batching", "relotting"} /\ ~tx[w].gone
  /\ LET row == [order |-> tx[w].order, lot |-> tx[w].lot]
     IN /\ \A b \in Batches \ {tx[w].batch} : batches[b] # row
        /\ batches' = [batches EXCEPT ![tx[w].batch] = row]
  /\ End(w)
  /\ UNCHANGED <<orders, payments, reported, edited>>

(* DELETE /order-batches/{batch_id} *)
DeleteBatch(b) ==
  /\ batches[b] # NULL
  /\ batches' = [batches EXCEPT ![b] = NULL]
  /\ tx' = [v \in Workers |-> IF tx[v].batch = b THEN [tx[v] EXCEPT !.gone = TRUE] ELSE tx[v]]
  /\ UNCHANGED <<orders, payments, reported, edited>>

-----------------------------------------------------------------------------
(* POST /marketplace/orders/{order_id}/checkout-session *)

LoadForCheckout(w, c, p) ==
  /\ tx[w].at = "idle"
  /\ orders[c] # NULL
  /\ orders[c].financial # "paid"                \* 409 "order already paid"
  /\ Amount(orders[c].quantity, orders[c].price) > 0
  /\ payments[p] = NULL
  /\ \A v \in Workers : tx[v].pay # p
  /\ Begin(w, [Idle EXCEPT !.at = "charging", !.order = c, !.loaded = orders[c], !.pay = p])
  /\ UNCHANGED <<orders, batches, payments, reported, edited>>

\* The payment is inserted, then Mercado Pago is awaited.
PostCheckout(w) ==
  /\ tx[w].at = "charging" /\ ~tx[w].gone
  /\ Begin(w, [tx[w] EXCEPT !.at = "posting"])
  /\ UNCHANGED <<orders, batches, payments, reported, edited>>

CommitCheckout(w) ==
  /\ tx[w].at = "posting"
  /\ LET t == tx[w]
         amount == Amount(t.loaded.quantity, t.loaded.price)
         row == Merged(orders[t.order], t.loaded, [t.loaded EXCEPT !.financial = "awaiting_payment"])
     IN /\ orders' = [orders EXCEPT ![t.order] = row]
        /\ reported' = [reported EXCEPT ![t.order] = row.financial]
        /\ payments' = [payments EXCEPT ![t.pay] =
             [order |-> t.order, amount |-> amount, fee |-> Fee(amount), net |-> Net(amount)]]
        /\ edited' = IF t.edited THEN edited \cup {t.pay} ELSE edited
  /\ End(w)
  /\ UNCHANGED batches

\* A webhook on one of the order's payments.
PaymentReported(p, status) ==
  /\ payments[p] # NULL
  /\ orders' = [orders EXCEPT ![payments[p].order].financial = status]
  /\ reported' = [reported EXCEPT ![payments[p].order] = status]
  /\ UNCHANGED <<batches, payments, tx, edited>>

Next ==
  \/ \E w \in Workers :
       \/ \E c \in Codes, q \in Quantities, r \in Prices : LookUpCode(w, c, q, r)
       \/ \E c \in Codes, q \in Quantities \cup {NULL}, r \in Prices \cup {NULL} : LoadForEdit(w, c, q, r)
       \/ \E c \in Codes, b \in Batches, lot \in Lots : LookUpLot(w, c, b, lot)
       \/ \E b \in Batches, lot \in Lots : LoadBatch(w, b, lot)
       \/ \E c \in Codes, p \in Payments : LoadForCheckout(w, c, p)
       \/ CommitCreate(w) \/ CommitEdit(w) \/ CommitBatch(w)
       \/ PostCheckout(w) \/ CommitCheckout(w) \/ Abort(w)
  \/ \E c \in Codes : DeleteOrder(c)
  \/ \E b \in Batches : DeleteBatch(b)
  \/ \E p \in Payments, status \in Statuses \ {"awaiting_payment"} : PaymentReported(p, status)

Spec == Init /\ [][Next]_vars

-----------------------------------------------------------------------------
\* A payment charges the order's price times its quantity, to the nearest cent,
\* unless the order has been edited since the checkout read it; the fee and the
\* seller's net make up the amount, or the minimum fee takes all of it and more.
ChargesAreTheOrder ==
  \A p \in Payments : payments[p] # NULL =>
    LET row == payments[p]
        exact == orders[row.order].quantity * orders[row.order].price
    IN /\ p \notin edited => 100 * row.amount - exact \in -49..50
       /\ row.fee + row.net = row.amount \/ (row.net = 0 /\ row.fee = MinFee /\ MinFee > row.amount)

\* No request of the orders API, whatever it overlaps with, changes the financial
\* status that payments gave an order.
StatusIsPayments ==
  \A c \in Codes : orders[c] # NULL => orders[c].financial = reported[c]
=============================================================================
