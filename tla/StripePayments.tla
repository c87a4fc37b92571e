----------------------------- MODULE StripePayments -----------------------------
(***************************************************************************)
(* Payments of one order that were begun at Stripe, before the marketplace *)
(* moved to Mercado Pago: the order's side of POST /billing/webhook        *)
(* (core-api/app/entities/plans/router.py) and the mark_* functions of     *)
(* marketplace_payments/service.py.                                        *)
(*                                                                         *)
(* No code of the repository begins such a payment any more; the rows it   *)
(* left have a checkout session each, and Stripe still reports on them, in *)
(* any order, more than once, and again after an answer other than 2xx.    *)
(* A row paid through session r has the payment intent r.  New rows are    *)
(* Mercado Pago's.  The order is not deleted here.                         *)
(***************************************************************************)
EXTENDS Naturals, FiniteSets

CONSTANTS
  Sessions,   \* bound: rows left over from Stripe
  MaxRows,    \* bound: rows of the order, in the order of created_at
  Workers,    \* requests served at the same time
  NULL        \* an absent value

Rows == 1..MaxRows
Intents == 1..Sessions

ASSUME RowsAssumption == Sessions \in Nat \ {0} /\ MaxRows \in Nat /\ Sessions <= MaxRows
ASSUME NullAssumption == NULL \notin Nat

PAID     == "paid"
AWAITING == "awaiting_payment"
CREATED  == "checkout_created"
PAYOUT   == "payout_sent"
REFUNDED == "refunded"
DISPUTED == "disputed"
FAILED   == "payment_failed"

Kinds == {"completed", "failed", "payout", "refunded", "disputed"}
PayStatuses == {PAID, CREATED, PAYOUT, REFUNDED, DISPUTED, FAILED}
FinStatuses == {PAID, AWAITING, PAYOUT, REFUNDED, DISPUTED, FAILED}

\* The events that Stripe may deliver, once more or for the first time, of a payment:
\* its session may be completed before it or by it.
Reports == [none |-> {}, open |-> {"completed"},
            failed |-> {"completed", "failed"},
            charged |-> {"completed", "payout"},
            returned |-> {"completed", "payout", "refunded", "disputed"}]

VARIABLES
  last,      \* the newest row
  status,    \* row -> status
  intent,    \* row -> stripe_payment_intent_id
  order,     \* the order's financial_status
  charge,    \* intent -> what has become of it at Stripe
  tx,        \* worker -> its open transaction
  written,   \* history: the row that the last commit wrote, with the order; NULL when it
             \* was an event's whose request another one overlapped, or a checkout's
  guessed,   \* history: rows whose intent comes from the order named in an event
  settled    \* history: rows whose payout or refund was recorded, by a request that no
             \* other one overlapped, and not contested since

vars == <<last, status, intent, order, charge, tx, written, guessed, settled>>

Idle == [at |-> "idle", kind |-> NULL, intent |-> NULL, row |-> NULL, status |-> NULL, bound |-> NULL,
         fin |-> NULL, fallback |-> FALSE, overlapped |-> FALSE]

TypeOK ==
  /\ last \in 1..MaxRows
  /\ status \in [Rows -> PayStatuses]
  /\ intent \in [Rows -> Intents \cup {NULL}]
  /\ order \in FinStatuses
  /\ charge \in [Intents -> DOMAIN Reports]
  /\ tx \in [Workers -> [at: {"idle", "payment", "order", "checkout"}, kind: Kinds \cup {NULL},
                         intent: Intents \cup {NULL}, row: Rows \cup {NULL},
                         status: PayStatuses \cup {NULL}, bound: Intents \cup {NULL},
                         fin: FinStatuses \cup {NULL}, fallback: BOOLEAN, overlapped: BOOLEAN]]
  /\ written \in Rows \cup {NULL}
  /\ guessed \subseteq Rows
  /\ settled \subseteq Rows

Init ==
  /\ last \in 1..Sessions
  /\ status = [r \in Rows |-> CREATED]
  /\ intent = [r \in Rows |-> NULL]
  /\ order = AWAITING
  /\ charge = [i \in Intents |-> IF i <= last THEN "open" ELSE "none"]
  /\ tx = [w \in Workers |-> Idle]
  /\ written = NULL
  /\ guessed = {}
  /\ settled = {}

-----------------------------------------------------------------------------
(* Stripe: a payment fails or is charged, and what was charged can be returned *)
StripeStep(i) ==
  /\ \/ charge[i] = "open" /\ charge' = [charge EXCEPT ![i] = "failed"]
     \/ charge[i] = "open" /\ charge' = [charge EXCEPT ![i] = "charged"]
     \/ charge[i] = "charged" /\ charge' = [charge EXCEPT ![i] = "returned"]
  /\ UNCHANGED <<last, status, intent, order, tx, written, guessed, settled>>

-----------------------------------------------------------------------------
\* After a commit: what the other requests have read is old.
Overlapped(v) == IF tx[v].at = "idle" THEN Idle ELSE [tx[v] EXCEPT !.overlapped = TRUE]
Overlap(w) == [v \in Workers |-> IF v = w THEN Idle ELSE Overlapped(v)]

(* A checkout at Mercado Pago *)

\* The order is read, and its newest row; then the request waits for Mercado Pago.
\* Bound: one checkout of the order at a time.
LoadCheckout(w) ==
  /\ tx[w].at = "idle"
  /\ \A v \in Workers : tx[v].at # "checkout"
  /\ last < MaxRows
  /\ order # PAID
  /\ status[last] # PAID
  /\ tx' = [tx EXCEPT ![w] = [Idle EXCEPT !.at = "checkout", !.fin = order]]
  /\ UNCHANGED <<last, status, intent, order, charge, written, guessed, settled>>

\* Only the columns whose value differs from what was loaded are written.
Merged(column, loaded, value) == IF value = loaded THEN column ELSE value

\* Wrong variant: the row starts as its order does.
CommitCheckoutAwaiting(w) ==
  /\ tx[w].at = "checkout"
  /\ last' = last + 1
  /\ status' = [status EXCEPT ![last + 1] = AWAITING]
  /\ order' = Merged(order, tx[w].fin, AWAITING)
  /\ tx' = Overlap(w)
  /\ written' = NULL
  /\ UNCHANGED <<intent, charge, guessed, settled>>

\* Mercado Pago answered: the row is inserted, and the order awaits its payment.
CommitCheckout(w) ==
  /\ tx[w].at = "checkout"
  /\ last' = last + 1
  /\ order' = Merged(order, tx[w].fin, AWAITING)
  /\ tx' = Overlap(w)
  /\ written' = NULL
  /\ UNCHANGED <<status, intent, charge, guessed, settled>>

-----------------------------------------------------------------------------
(* POST /billing/webhook *)

Loaded(w, kind, i, r, fallback) ==
  tx' = [tx EXCEPT ![w] = [Idle EXCEPT !.at = "payment", !.kind = kind, !.intent = i, !.row = r,
                                       !.status = status[r], !.bound = intent[r], !.fallback = fallback]]

\* Wrong variant: the session's row is taken to be the order's newest.
LoadByNewest(w, kind, i) ==
  /\ tx[w].at = "idle"
  /\ kind \in {"completed", "failed"} /\ kind \in Reports[charge[i]]
  /\ Loaded(w, kind, i, last, FALSE)
  /\ UNCHANGED <<last, status, intent, order, charge, written, guessed, settled>>

\* get_payment_by_checkout_session, for what Stripe says of a session.
LoadBySession(w, kind, i) ==
  /\ tx[w].at = "idle"
  /\ kind \in {"completed", "failed"} /\ kind \in Reports[charge[i]]
  /\ Loaded(w, kind, i, i, FALSE)
  /\ UNCHANGED <<last, status, intent, order, charge, written, guessed, settled>>

Bound(i) == {r \in 1..last : intent[r] = i}

\* get_payment_by_payment_intent, for what Stripe says of a charge: it raises when
\* two rows have the intent.
LoadByIntent(w, kind, i) ==
  /\ tx[w].at = "idle"
  /\ kind \notin {"completed", "failed"} /\ kind \in Reports[charge[i]]
  /\ Cardinality(Bound(i)) = 1
  /\ \E r \in Bound(i) : Loaded(w, kind, i, r, FALSE)
  /\ UNCHANGED <<last, status, intent, order, charge, written, guessed, settled>>

\* get_current_payment: no row has the intent, and the event names the order.  (One
\* that does not is answered and forgotten.)
LoadByOrder(w, kind, i) ==
  /\ tx[w].at = "idle"
  /\ kind \notin {"completed", "failed"} /\ kind \in Reports[charge[i]]
  /\ Bound(i) = {}
  /\ Loaded(w, kind, i, last, TRUE)
  /\ UNCHANGED <<last, status, intent, order, charge, written, guessed, settled>>

\* get_order
LoadOrder(w) ==
  /\ tx[w].at = "payment"
  /\ tx' = [tx EXCEPT ![w].at = "order", ![w].fin = order]
  /\ UNCHANGED <<last, status, intent, order, charge, written, guessed, settled>>

\* Wrong variant: a completed session is paid, whatever came before.
OutcomeAlwaysPaid(kind, before) ==
  CASE kind = "completed" -> PAID    [] kind = "failed" -> FAILED
    [] kind = "payout" -> PAYOUT     [] kind = "refunded" -> REFUNDED
    [] kind = "disputed" -> DISPUTED

\* What an event makes of a row's status.
Outcome(kind, before) ==
  CASE kind = "completed" -> IF before \in {PAYOUT, REFUNDED} THEN before ELSE PAID
    [] kind = "failed" -> FAILED     [] kind = "payout" -> PAYOUT
    [] kind = "refunded" -> REFUNDED [] kind = "disputed" -> DISPUTED

\* The rows whose payout or refund stands after the event of t was recorded: it is
\* contested by a dispute, by a session that failed, and by a session that was
\* completed in a request that another one overlapped.
Standing(t) ==
  CASE t.kind \in {"failed", "disputed"} -> settled \ {t.row}
    [] t.kind = "completed" -> IF t.overlapped THEN settled \ {t.row} ELSE settled
    [] OTHER -> IF t.overlapped THEN settled ELSE settled \cup {t.row}

\* Wrong variant: the order of a completed session is paid, whatever its row is.
CommitPaid(w) ==
  /\ tx[w].at = "order"
  /\ LET t == tx[w]
         r == t.row
         outcome == Outcome(t.kind, t.status)
         i == IF t.kind = "failed" THEN t.bound ELSE t.intent
     IN /\ status' = [status EXCEPT ![r] = Merged(@, t.status, outcome)]
        /\ intent' = [intent EXCEPT ![r] = Merged(@, t.bound, i)]
        /\ order' = Merged(order, t.fin, IF t.kind = "completed" THEN PAID ELSE outcome)
        /\ written' = IF t.overlapped THEN NULL ELSE r
        /\ guessed' = IF t.fallback THEN guessed \cup {r}
                      ELSE IF i # t.bound THEN guessed \ {r} ELSE guessed
        /\ settled' = Standing(t)
  /\ tx' = Overlap(w)
  /\ UNCHANGED <<last, charge>>

\* The event's outcome is set on the row and on the order.
Commit(w) ==
  /\ tx[w].at = "order"
  /\ LET t == tx[w]
         r == t.row
         outcome == Outcome(t.kind, t.status)
         i == IF t.kind = "failed" THEN t.bound ELSE t.intent
     IN /\ status' = [status EXCEPT ![r] = Merged(@, t.status, outcome)]
        /\ intent' = [intent EXCEPT ![r] = Merged(@, t.bound, i)]
        /\ order' = Merged(order, t.fin, outcome)
        /\ written' = IF t.overlapped THEN NULL ELSE r
        /\ guessed' = IF t.fallback THEN guessed \cup {r}
                      ELSE IF i # t.bound THEN guessed \ {r} ELSE guessed
        /\ settled' = Standing(t)
  /\ tx' = Overlap(w)
  /\ UNCHANGED <<last, charge>>

Abort(w) ==
  /\ tx[w].at # "idle"
  /\ tx' = [tx EXCEPT ![w] = Idle]
  /\ UNCHANGED <<last, status, intent, order, charge, written, guessed, settled>>

Next ==
  \/ \E i \in Intents : StripeStep(i)
  \/ \E w \in Workers :
       \/ \E kind \in Kinds, i \in Intents :
            LoadBySession(w, kind, i) \/ LoadByIntent(w, kind, i) \/ LoadByOrder(w, kind, i)
       \/ LoadOrder(w) \/ Commit(w) \/ Abort(w)
       \/ LoadCheckout(w) \/ CommitCheckout(w)

Spec == Init /\ [][Next]_vars

-----------------------------------------------------------------------------
\* A row has an intent of another one only if an event on a charge came before the
\* session's own and was put down to the newest row of the order.  (From then on
\* the intent may be on two rows, and every event on its charge fails for ever.)
IntentsAreOwn ==
  \A r \in Rows \ guessed : intent[r] \in {r, NULL}

\* The order has the status of the row that was written last, unless the two were
\* merged with what another request wrote at the same time.
OrderMirrorsLastEvent ==
  written # NULL => order = status[written]

\* A payment whose payout or refund was recorded without an overlap stays passed on or
\* refunded, however late and however often its session is completed, until one of
\* three things was recorded of it: a dispute, a session that failed, or a completed
\* session whose request overlapped another one.  (After a dispute nothing remembers
\* the payout: the session's event, delivered once more, makes the payment paid.)
PayoutIsNotUndone ==
  \A r \in settled : status[r] \in {PAYOUT, REFUNDED}
=============================================================================
