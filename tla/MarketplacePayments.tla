------------------------- MODULE MarketplacePayments -------------------------
(***************************************************************************)
(* Payment of orders through Mercado Pago (MP):                            *)
(* core-api/app/entities/marketplace_payments/{service,repo,router}.py.    *)
(*                                                                         *)
(* One organization.  Its database holds orders (only financial_status is  *)
(* kept) and order_payments rows; MP holds one preference per row whose    *)
(* checkout URL was handed out and any number of MP payments on it.  The   *)
(* HTTP requests run concurrently, each in one transaction of its worker:  *)
(* a checkout, a refund and a webhook all read rows, await MP, and only    *)
(* then write and commit.  What is read is never locked and never read     *)
(* again.  A request that raises, times out or crashes is rolled back.     *)
(*                                                                         *)
(* Payment ids are numbered in the order in which their transactions       *)
(* begin: created_at is the database's now(), the transaction's start.     *)
(***************************************************************************)
EXTENDS Naturals

CONSTANTS
  Orders,       \* orders of the organization, with a positive amount
  MaxPayments,  \* bound: checkouts ever begun
  MpPayments,   \* payments that buyers make at MP
  Workers,      \* requests served at the same time
  NULL          \* an absent value

Payments == 1..MaxPayments

ASSUME BoundAssumption == MaxPayments \in Nat
ASSUME NullAssumption == NULL \notin Orders \cup Payments \cup MpPayments

PAID      == "paid"
AWAITING  == "awaiting_payment"
CREATED   == "checkout_created"
PAYOUT    == "payout_sent"
PENDING   == "refund_pending"
REFUNDED  == "refunded"
DISPUTED  == "disputed"
FAILED    == "payment_failed"
CANCELLED == "cancelled"
ABSENT    == "absent"          \* no such row

Settled == {PAID, PAYOUT, PENDING, REFUNDED, DISPUTED, FAILED, CANCELLED}
PayStatuses == Settled \cup {CREATED}
FinStatuses == Settled \cup {AWAITING}

MpStatuses == {"pending", "approved", "rejected", "cancelled", "refunded", "charged_back"}

\* The status transitions of one payment at MP.
MpNext == [pending      |-> {"approved", "rejected", "cancelled"},
           approved     |-> {"refunded", "charged_back"},
           rejected     |-> {}, cancelled |-> {},
           refunded     |-> {}, charged_back |-> {}]

Requests == {"idle", "checkout_order", "checkout_posting",
             "refund_order", "refund_posting", "refund_accepted",
             "hook_payment", "hook_fetched", "hook_order"}

VARIABLES
  connected,  \* is there a connected MP account row
  orders,     \* order -> financial_status, ABSENT once deleted
  payStatus,  \* payment -> status, ABSENT when there is no committed row
  payOrder,   \* payment -> its order (kept when the row is deleted)
  payMp,      \* payment -> mercado_pago_payment_id
  begun,      \* checkouts begun: the ids 1..begun are in use
  urls,       \* payments whose checkout URL reached the buyer
  mpOf,       \* MP payment -> the payment named by its external_reference
  mpStatus,   \* MP payment -> its status at MP
  mpSeen,     \* MP payment -> every status it has had
  notify,     \* MP payments with an undelivered notification
  tx,         \* worker -> its open transaction
  torn        \* history: payments written by a transaction that read before
              \* another one's commit on the same payment or order

db   == <<orders, payStatus, payOrder, payMp>>
mp   == <<mpOf, mpStatus, mpSeen>>
vars == <<connected, orders, payStatus, payOrder, payMp, begun, urls,
          mpOf, mpStatus, mpSeen, notify, tx, torn>>

Idle == [at |-> "idle", order |-> NULL, fin |-> NULL, pay |-> NULL, status |-> NULL,
         payMp |-> NULL, mp |-> NULL, read |-> NULL, stale |-> FALSE]

TxType == [at: Requests, order: Orders \cup {NULL}, fin: FinStatuses \cup {NULL},
           pay: Payments \cup {NULL}, status: PayStatuses \cup {NULL},
           payMp: MpPayments \cup {NULL}, mp: MpPayments \cup {NULL},
           read: MpStatuses \cup {NULL}, stale: BOOLEAN]

TypeOK ==
  /\ connected \in BOOLEAN
  /\ orders \in [Orders -> FinStatuses \cup {ABSENT}]
  /\ payStatus \in [Payments -> PayStatuses \cup {ABSENT}]
  /\ payOrder \in [Payments -> Orders \cup {NULL}]
  /\ payMp \in [Payments -> MpPayments \cup {NULL}]
  /\ begun \in 0..MaxPayments
  /\ urls \subseteq Payments
  /\ mpOf \in [MpPayments -> Payments \cup {NULL}]
  /\ mpStatus \in [MpPayments -> MpStatuses]
  /\ mpSeen \in [MpPayments -> SUBSET MpStatuses]
  /\ notify \subseteq MpPayments
  /\ tx \in [Workers -> TxType]
  /\ torn \subseteq Payments

Init ==
  /\ connected = FALSE
  /\ orders = [o \in Orders |-> AWAITING]
  /\ payStatus = [p \in Payments |-> ABSENT]
  /\ payOrder = [p \in Payments |-> NULL]
  /\ payMp = [p \in Payments |-> NULL]
  /\ begun = 0
  /\ urls = {}
  /\ mpOf = [m \in MpPayments |-> NULL]
  /\ mpStatus = [m \in MpPayments |-> "pending"]
  /\ mpSeen = [m \in MpPayments |-> {}]
  /\ notify = {}
  /\ tx = [w \in Workers |-> Idle]
  /\ torn = {}

-----------------------------------------------------------------------------
\* The session's unit of work: an UPDATE sets exactly the columns whose value
\* differs from what the session loaded, to the value the session computed.
Merged(column, loaded, written) == IF written = loaded THEN column ELSE written

\* The rows of an order, and its current payment: the one created last.
RowsOf(o) == {p \in Payments : payStatus[p] # ABSENT /\ payOrder[p] = o}
IsCurrent(p, o) == p \in RowsOf(o) /\ \A q \in RowsOf(o) : q <= p

\* A commit on payment p and order o makes what others read of them stale.
Staled(w, p, o) ==
  [v \in Workers |->
     IF v = w THEN Idle
     ELSE IF p = tx[v].pay \/ o = tx[v].order THEN [tx[v] EXCEPT !.stale = TRUE]
     ELSE tx[v]]

\* OAuth callback: the organization's MP account row is created or refreshed.
ConnectAccount ==
  /\ connected' = TRUE
  /\ UNCHANGED <<db, begun, urls, mp, notify, tx, torn>>

\* Wrong variant: an error is answered with 200, MP does not repeat the notification.
AbortAcknowledging(w) ==
  /\ tx[w].at # "idle"
  /\ tx' = [tx EXCEPT ![w] = Idle]
  /\ UNCHANGED <<connected, db, begun, urls, mp, notify, torn>>

\* Any request may end with a rollback: an HTTPException, MP answering with an
\* error or not in time, a failed flush, a crash.  MP keeps what it did; a
\* notification that was not answered with 200 is sent again.
Abort(w) ==
  /\ tx[w].at # "idle"
  /\ tx' = [tx EXCEPT ![w] = Idle]
  /\ notify' = IF tx[w].mp # NULL THEN notify \cup {tx[w].mp} ELSE notify
  /\ UNCHANGED <<connected, db, begun, urls, mp, torn>>

-----------------------------------------------------------------------------
(* POST /orders/{order_id}/payments/checkout-session *)

LoadCheckoutOrder(w, o) ==
  /\ tx[w].at = "idle"
  /\ begun < MaxPayments
  /\ orders[o] \notin {ABSENT, PAID}            \* 404, 409 "order already paid"
  /\ begun' = begun + 1
  /\ tx' = [tx EXCEPT ![w] = [Idle EXCEPT !.at = "checkout_order", !.order = o,
                                          !.fin = orders[o], !.pay = begun + 1]]
  /\ UNCHANGED <<connected, db, urls, mp, notify, torn>>

\* Wrong variant: the URL leaves before the row is committed.
InsertPaymentHandingOut(w) ==
  /\ tx[w].at = "checkout_order"
  /\ connected
  /\ orders[tx[w].order] # ABSENT
  /\ \A p \in Payments : IsCurrent(p, tx[w].order) => payStatus[p] # PAID
  /\ tx' = [tx EXCEPT ![w].at = "checkout_posting"]
  /\ urls' = urls \cup {tx[w].pay}
  /\ UNCHANGED <<connected, db, begun, mp, notify, torn>>

\* The checks on the account and on the current payment, then the INSERT of the
\* new row: not visible to others, but its foreign key locks the order.
InsertPayment(w) ==
  /\ tx[w].at = "checkout_order"
  /\ connected
  /\ orders[tx[w].order] # ABSENT
  /\ \A p \in Payments : IsCurrent(p, tx[w].order) => payStatus[p] # PAID
  /\ tx' = [tx EXCEPT ![w].at = "checkout_posting"]
  /\ UNCHANGED <<connected, db, begun, urls, mp, notify, torn>>

\* Wrong variant: the order gets the payment's initial status.
CommitCheckoutMislabelled(w) ==
  /\ tx[w].at = "checkout_posting"
  /\ LET p == tx[w].pay
         o == tx[w].order
     IN /\ payStatus' = [payStatus EXCEPT ![p] = CREATED]
        /\ payOrder' = [payOrder EXCEPT ![p] = o]
        /\ orders' = [orders EXCEPT ![o] = Merged(@, tx[w].fin, CREATED)]
        /\ urls' \in {urls, urls \cup {p}}
        /\ tx' = Staled(w, p, o)
  /\ UNCHANGED <<connected, payMp, begun, mp, notify, torn>>

\* MP answered with the preference; the commit, then the response.  The buyer
\* gets the URL only if the response arrives.
CommitCheckout(w) ==
  /\ tx[w].at = "checkout_posting"
  /\ LET p == tx[w].pay
         o == tx[w].order
     IN /\ payStatus' = [payStatus EXCEPT ![p] = CREATED]
        /\ payOrder' = [payOrder EXCEPT ![p] = o]
        /\ orders' = [orders EXCEPT ![o] = Merged(@, tx[w].fin, AWAITING)]
        /\ urls' \in {urls, urls \cup {p}}
        /\ tx' = Staled(w, p, o)
  /\ UNCHANGED <<connected, payMp, begun, mp, notify, torn>>

-----------------------------------------------------------------------------
(* POST /orders/{order_id}/payments/refund *)

LoadRefundOrder(w, o) ==
  /\ tx[w].at = "idle"
  /\ orders[o] # ABSENT
  /\ tx' = [tx EXCEPT ![w] = [Idle EXCEPT !.at = "refund_order", !.order = o, !.fin = orders[o]]]
  /\ UNCHANGED <<connected, db, begun, urls, mp, notify, torn>>

\* The guards on the order's current payment; then the request leaves for MP.
LoadRefundPayment(w, p) ==
  /\ tx[w].at = "refund_order"
  /\ IsCurrent(p, tx[w].order)
  /\ payStatus[p] \in {PAID, PAYOUT}
  /\ payMp[p] # NULL
  /\ connected
  /\ tx' = [tx EXCEPT ![w] = [@ EXCEPT !.at = "refund_posting", !.pay = p,
                                       !.status = payStatus[p], !.payMp = payMp[p]]]
  /\ UNCHANGED <<connected, db, begun, urls, mp, notify, torn>>

\* MP refunds an approved payment, and will notify; it refuses any other.
MpAcceptsRefund(w) ==
  /\ tx[w].at = "refund_posting"
  /\ LET m == tx[w].payMp
     IN /\ mpStatus[m] = "approved"
        /\ mpStatus' = [mpStatus EXCEPT ![m] = "refunded"]
        /\ mpSeen' = [mpSeen EXCEPT ![m] = @ \cup {"refunded"}]
        /\ notify' = notify \cup {m}
  /\ tx' = [tx EXCEPT ![w].at = "refund_accepted"]
  /\ UNCHANGED <<connected, db, begun, urls, mpOf, torn>>

\* Wrong variant: refund_pending is recorded without MP's answer.
CommitRefundUnanswered(w) ==
  /\ tx[w].at \in {"refund_posting", "refund_accepted"}
  /\ LET p == tx[w].pay
         o == tx[w].order
     IN /\ payStatus[p] # ABSENT
        /\ payStatus' = [payStatus EXCEPT ![p] = Merged(@, tx[w].status, PENDING)]
        /\ orders' = [orders EXCEPT ![o] = Merged(@, tx[w].fin, PENDING)]
        /\ tx' = Staled(w, p, o)
        /\ torn' = IF tx[w].stale THEN torn \cup {p} ELSE torn
  /\ UNCHANGED <<connected, payOrder, payMp, begun, urls, mp, notify>>

CommitRefund(w) ==
  /\ tx[w].at = "refund_accepted"
  /\ LET p == tx[w].pay
         o == tx[w].order
     IN /\ payStatus[p] # ABSENT
        /\ payStatus' = [payStatus EXCEPT ![p] = Merged(@, tx[w].status, PENDING)]
        /\ orders' = [orders EXCEPT ![o] = Merged(@, tx[w].fin, PENDING)]
        /\ tx' = Staled(w, p, o)
        /\ torn' = IF tx[w].stale THEN torn \cup {p} ELSE torn
  /\ UNCHANGED <<connected, payOrder, payMp, begun, urls, mp, notify>>

-----------------------------------------------------------------------------
(* POST /marketplace/mercado-pago/webhook *)

\* Wrong variants: the row is the order's current payment, or is found only by
\* an MP payment id that it may not know yet.
NamesCurrent(p, m) ==
  \E q \in Payments : mpOf[m] = q /\ IsCurrent(p, payOrder[q])
NamesById(p, m) == payStatus[p] # ABSENT /\ payMp[p] = m

\* The row a notification about m is for: by the payment_id of its URL, else by
\* the MP payment id.
Names(p, m) ==
  /\ payStatus[p] # ABSENT
  /\ \/ mpOf[m] = p
     \/ payMp[p] = m /\ \A q \in Payments : mpOf[m] = q => payStatus[q] = ABSENT

StartWebhook(w, m) ==
  /\ tx[w].at = "idle"
  /\ m \in notify
  /\ connected
  /\ \E p \in Payments :
       /\ Names(p, m)
       /\ tx' = [tx EXCEPT ![w] = [Idle EXCEPT !.at = "hook_payment", !.pay = p, !.mp = m,
                                               !.status = payStatus[p], !.payMp = payMp[p]]]
  /\ notify' = notify \ {m}
  /\ UNCHANGED <<connected, db, begun, urls, mp, torn>>

\* No row, or no account: answered with 200, and nothing is done.
IgnoreWebhook(m) ==
  /\ m \in notify
  /\ ~connected \/ \A p \in Payments : ~Names(p, m)
  /\ notify' = notify \ {m}
  /\ UNCHANGED <<connected, db, begun, urls, mp, tx, torn>>

\* Wrong variant: MP is not asked, the notification is taken at its word.
FetchMpPaymentNot(w) ==
  /\ tx[w].at = "hook_payment"
  /\ tx' = [tx EXCEPT ![w].at = "hook_fetched", ![w].read = "approved"]
  /\ UNCHANGED <<connected, db, begun, urls, mp, notify, torn>>

FetchMpPayment(w) ==
  /\ tx[w].at = "hook_payment"
  /\ tx' = [tx EXCEPT ![w].at = "hook_fetched", ![w].read = mpStatus[tx[w].mp]]
  /\ UNCHANGED <<connected, db, begun, urls, mp, notify, torn>>

LoadWebhookOrder(w) ==
  /\ tx[w].at = "hook_fetched"
  /\ LET o == payOrder[tx[w].pay]
     IN /\ orders[o] # ABSENT
        /\ tx' = [tx EXCEPT ![w] = [@ EXCEPT !.at = "hook_order", !.order = o, !.fin = orders[o]]]
  /\ UNCHANGED <<connected, db, begun, urls, mp, notify, torn>>

\* Wrong variants: whatever is not a failure means paid; the order is forgotten
\* when the buyer disputes.
OrderAfterOptimist(fin, status, read) ==
  CASE read \in {"approved", "pending"} -> IF status = PAYOUT THEN PAYOUT ELSE PAID
    [] OTHER                            -> status
OrderAfterNoDispute(fin, status, read) ==
  CASE read = "approved" -> IF status = PAYOUT THEN PAYOUT ELSE PAID
    [] read \in {"pending", "charged_back"} -> fin
    [] OTHER             -> status

\* What an MP status makes of the payment, and then of the order.
PaymentAfter(status, read) ==
  CASE read = "approved"     -> IF status \in {PAYOUT, REFUNDED} THEN status ELSE PAID
    [] read = "refunded"     -> REFUNDED
    [] read = "charged_back" -> DISPUTED
    [] read = "rejected"     -> FAILED
    [] read = "cancelled"    -> CANCELLED
    [] OTHER                 -> status

OrderAfter(fin, status, read) ==
  CASE read = "approved" -> IF status = PAYOUT THEN PAYOUT ELSE PAID
    [] read = "pending"  -> fin
    [] OTHER             -> status

CommitWebhook(w) ==
  /\ tx[w].at = "hook_order"
  /\ LET p == tx[w].pay
         o == tx[w].order
         status == PaymentAfter(tx[w].status, tx[w].read)
     IN /\ payStatus[p] # ABSENT
        /\ payStatus' = [payStatus EXCEPT ![p] = Merged(@, tx[w].status, status)]
        /\ payMp' = [payMp EXCEPT ![p] = Merged(@, tx[w].payMp, tx[w].mp)]
        /\ orders' = [orders EXCEPT ![o] =
                        Merged(@, tx[w].fin, OrderAfter(tx[w].fin, status, tx[w].read))]
        /\ tx' = Staled(w, p, o)
        /\ torn' = IF tx[w].stale THEN torn \cup {p} ELSE torn
  /\ UNCHANGED <<connected, payOrder, begun, urls, mp, notify>>

-----------------------------------------------------------------------------
(* orders: DELETE /orders/{order_id} takes its payments with it.  It waits for
   a checkout that has inserted a payment of the order. *)
DeleteOrder(o) ==
  /\ orders[o] # ABSENT
  /\ \A w \in Workers : ~(tx[w].at = "checkout_posting" /\ tx[w].order = o)
  /\ orders' = [orders EXCEPT ![o] = ABSENT]
  /\ payStatus' = [p \in Payments |-> IF payOrder[p] = o THEN ABSENT ELSE payStatus[p]]
  /\ payMp' = [p \in Payments |-> IF payOrder[p] = o THEN NULL ELSE payMp[p]]
  /\ UNCHANGED <<connected, payOrder, begun, urls, mp, notify, tx, torn>>

(* MP and the buyers *)

\* A buyer with the checkout URL pays; again after a failure, or once more.
BuyerPays(m, p, s) ==
  /\ p \in urls
  /\ mpOf[m] = NULL
  /\ mpOf' = [mpOf EXCEPT ![m] = p]
  /\ mpStatus' = [mpStatus EXCEPT ![m] = s]
  /\ mpSeen' = [mpSeen EXCEPT ![m] = {s}]
  /\ notify' = notify \cup {m}
  /\ UNCHANGED <<connected, db, begun, urls, tx, torn>>

MpAdvances(m, s) ==
  /\ mpOf[m] # NULL
  /\ s \in MpNext[mpStatus[m]]
  /\ mpStatus' = [mpStatus EXCEPT ![m] = s]
  /\ mpSeen' = [mpSeen EXCEPT ![m] = @ \cup {s}]
  /\ notify' = notify \cup {m}
  /\ UNCHANGED <<connected, db, begun, urls, mpOf, tx, torn>>

\* Notifications are delivered at least once, in any order.
Redeliver(m) ==
  /\ mpOf[m] # NULL
  /\ notify' = notify \cup {m}
  /\ UNCHANGED <<connected, db, begun, urls, mp, tx, torn>>

Next ==
  \/ ConnectAccount
  \/ \E w \in Workers :
       \/ \E o \in Orders : LoadCheckoutOrder(w, o) \/ LoadRefundOrder(w, o)
       \/ \E p \in Payments : LoadRefundPayment(w, p)
       \/ \E m \in MpPayments : StartWebhook(w, m)
       \/ InsertPayment(w) \/ CommitCheckout(w)
       \/ MpAcceptsRefund(w) \/ CommitRefund(w)
       \/ FetchMpPayment(w) \/ LoadWebhookOrder(w) \/ CommitWebhook(w)
       \/ Abort(w)
  \/ \E o \in Orders : DeleteOrder(o)
  \/ \E m \in MpPayments :
       \/ \E p \in Payments, s \in {"pending", "approved", "rejected"} : BuyerPays(m, p, s)
       \/ \E s \in MpStatuses : MpAdvances(m, s)
       \/ IgnoreWebhook(m) \/ Redeliver(m)

Spec == Init /\ [][Next]_vars

(* The fairness of the deployment: an open request ends (the HTTP client times
   out after 20 seconds); MP repeats a notification until it is answered with
   200; and what is tried over and over does not fail every time. *)
FairSpec ==
  /\ Spec
  /\ \A w \in Workers :
       WF_vars(Abort(w) \/ CommitCheckout(w) \/ CommitRefund(w) \/ CommitWebhook(w))
  /\ \A m \in MpPayments :
       /\ SF_vars(\E w \in Workers : StartWebhook(w, m))
       /\ SF_vars(\E w \in Workers : tx[w].mp = m /\ FetchMpPayment(w))
       /\ SF_vars(\E w \in Workers : tx[w].mp = m /\ LoadWebhookOrder(w))
       /\ SF_vars(\E w \in Workers : tx[w].mp = m /\ CommitWebhook(w))

-----------------------------------------------------------------------------
Attempts(p) == {m \in MpPayments : mpOf[m] = p}
Reports(p) == UNION {mpSeen[m] : m \in Attempts(p)}

\* The ledger that the rows and MP's reports make up.
ledgerStatus ==
  [p \in Payments |-> IF payStatus[p] # ABSENT THEN payStatus[p]
                      ELSE IF payOrder[p] = NULL THEN "none" ELSE "deleted"]
ledgerReports == [p \in Payments |-> Reports(p)]

Ledger == INSTANCE PaymentLedger WITH status <- ledgerStatus, reports <- ledgerReports

\* The payments' rows implement PaymentLedger: no MP payment without a committed
\* row, no status without the MP report that justifies it, no way back to
\* checkout_created - across stale writes, rollbacks and lost responses.
ImplementsLedger == Ledger!LedgerSpec

\* An order's financial status is always explained by one of its payments: what
\* financial_status says happened, MP reported for a payment of that order.
OrderIsBacked ==
  \A o \in Orders :
    orders[o] \notin {ABSENT, AWAITING} =>
      \E p \in RowsOf(o) : /\ orders[o] \in DOMAIN Ledger!Backing
                           /\ Ledger!Backing[orders[o]] \in Reports(p)

\* A row's mercado_pago_payment_id is a payment of that very row, so a refund
\* never reaches the money of another payment or order; and a refund request in
\* flight names one as well, even if the row has moved on.
RefundHitsOwnPayment ==
  /\ \A p \in Payments : payMp[p] # NULL => payStatus[p] # ABSENT /\ mpOf[payMp[p]] = p
  /\ \A w \in Workers : tx[w].at = "refund_posting" => mpOf[tx[w].payMp] = tx[w].pay

\* A buyer can only ever pay for a row that was committed: an MP payment whose
\* row is missing belongs to an order that was deleted, so no notification of a
\* live order is answered with 200 and forgotten.
EveryChargeHasItsRow ==
  \A m \in MpPayments :
    mpOf[m] # NULL => /\ mpOf[m] \in urls
                      /\ \/ payStatus[mpOf[m]] # ABSENT
                         \/ payOrder[mpOf[m]] # NULL /\ orders[payOrder[mpOf[m]]] = ABSENT

\* Every notification about the payment was answered and no request is on it.
Quiet(p) ==
  /\ payStatus[p] # ABSENT
  /\ Attempts(p) \cap notify = {}
  /\ \A w \in Workers : tx[w].pay # p

\* Once quiet, a payment shows what MP shows of one of its attempts (the status
\* MP has now, not one it had), unless a transaction that had read the row
\* before another one's commit wrote to it: the lost update is the only way to
\* be wrong.  Timeouts, rollbacks, lost responses, repeated and reordered
\* notifications are not.
QuietMeansMirrored ==
  \A p \in Payments \ torn :
    Quiet(p) =>
      LET settled == {mpStatus[m] : m \in Attempts(p)} \ {"pending"}
      IN IF settled = {} THEN payStatus[p] = CREATED
         ELSE \E s \in settled : payStatus[p] = PaymentAfter(CREATED, s)

\* Unless such a write tore it, an order's only payment and the order show the same
\* at any time, in the middle of a webhook's retries too, except that the order
\* reads "paid" when a refunded payment is paid again.
OrderFollowsPayment ==
  \A o \in Orders : \A p \in Payments \ torn :
    RowsOf(o) = {p} =>
      \/ orders[o] = payStatus[p]
      \/ payStatus[p] = CREATED /\ orders[o] = AWAITING
      \/ payStatus[p] = REFUNDED /\ orders[o] = PAID

\* Money taken is money recorded: after MP approved a payment, its row leaves
\* checkout_created, whatever fails on the way (or the order is deleted).
CaptureIsRecorded ==
  \A m \in MpPayments : \A p \in Payments :
    (mpOf[m] = p /\ "approved" \in mpSeen[m]) ~> (payStatus[p] # CREATED)
=============================================================================
