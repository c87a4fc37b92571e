--------------------- MODULE MarketplacePayments_proofs ---------------------
(***************************************************************************)
(* Proofs about MarketplacePayments, for any number of orders, payments,   *)
(* buyers' attempts and concurrent requests.                               *)
(***************************************************************************)
EXTENDS MarketplacePayments, TLAPS

\* What each phase of a request knows of the rows it works on.
CheckoutShape(w) ==
  tx[w].at \in {"checkout_order", "checkout_posting"} =>
    /\ tx[w].order \in Orders
    /\ tx[w].pay \in 1..begun
    /\ tx[w].mp = NULL
    /\ payStatus[tx[w].pay] = ABSENT
    /\ payOrder[tx[w].pay] = NULL
    /\ tx[w].at = "checkout_posting" => orders[tx[w].order] # ABSENT
    /\ \A v \in Workers \ {w} :
         tx[v].at \in {"checkout_order", "checkout_posting"} => tx[v].pay # tx[w].pay

RefundShape(w) ==
  /\ tx[w].at = "refund_order" => tx[w].order \in Orders /\ tx[w].mp = NULL
  /\ tx[w].at \in {"refund_posting", "refund_accepted"} =>
       /\ tx[w].pay \in Payments
       /\ tx[w].mp = NULL
       /\ tx[w].order = payOrder[tx[w].pay]
       /\ tx[w].order \in Orders
       /\ tx[w].payMp \in MpPayments
       /\ mpOf[tx[w].payMp] = tx[w].pay
  /\ tx[w].at = "refund_accepted" => "refunded" \in mpSeen[tx[w].payMp]

WebhookShape(w) ==
  /\ tx[w].at \in {"hook_payment", "hook_fetched", "hook_order"} =>
       /\ tx[w].pay \in Payments
       /\ tx[w].mp \in MpPayments
       /\ tx[w].status \in PayStatuses
       /\ mpOf[tx[w].mp] = tx[w].pay
       /\ payOrder[tx[w].pay] \in Orders
  /\ tx[w].at \in {"hook_fetched", "hook_order"} =>
       tx[w].read \in MpStatuses /\ tx[w].read \in mpSeen[tx[w].mp]
  /\ tx[w].at = "hook_order" =>
       tx[w].order = payOrder[tx[w].pay] /\ tx[w].fin \in FinStatuses

TxShape == \A w \in Workers : CheckoutShape(w) /\ RefundShape(w) /\ WebhookShape(w)

\* How rows, orders and URLs hang together.
RowShape ==
  \A p \in Payments :
    /\ payOrder[p] # NULL => p <= begun
    /\ payStatus[p] # ABSENT => payOrder[p] # NULL /\ orders[payOrder[p]] # ABSENT
    /\ payOrder[p] # NULL /\ payStatus[p] = ABSENT => orders[payOrder[p]] = ABSENT
    /\ p \in urls => payOrder[p] # NULL
    /\ payMp[p] # NULL => payStatus[p] # ABSENT /\ mpOf[payMp[p]] = p

MpShape ==
  \A m \in MpPayments :
    /\ mpOf[m] # NULL => mpOf[m] \in urls /\ mpStatus[m] \in mpSeen[m]
    /\ mpOf[m] = NULL => m \notin notify

IInv == TypeOK /\ TxShape /\ RowShape /\ MpShape

-----------------------------------------------------------------------------
USE BoundAssumption, NullAssumption DEF Payments

(* Lemmas about transactions *)

LEMMA IdleType == Idle \in TxType
  BY DEF Idle, TxType, Requests

\* v's request reads the same after the step (but for its freshness).
SameRequest(v) ==
  /\ tx'[v].at = tx[v].at
  /\ tx'[v].order = tx[v].order
  /\ tx'[v].fin = tx[v].fin
  /\ tx'[v].pay = tx[v].pay
  /\ tx'[v].status = tx[v].status
  /\ tx'[v].payMp = tx[v].payMp
  /\ tx'[v].mp = tx[v].mp
  /\ tx'[v].read = tx[v].read

\* A commit leaves the other requests as they are.
LEMMA StaledFields ==
  ASSUME tx \in [Workers -> TxType], NEW w \in Workers, NEW p, NEW o, tx' = Staled(w, p, o)
  PROVE  /\ tx' \in [Workers -> TxType]
         /\ tx'[w] = Idle
         /\ \A v \in Workers \ {w} : SameRequest(v)
<1>1. \A t \in TxType : [t EXCEPT !.stale = TRUE] \in TxType
  BY DEF TxType
<1>2. tx' \in [Workers -> TxType]
  BY <1>1, IdleType DEF Staled
<1>3. tx'[w] = Idle
  BY DEF Staled
<1>4. ASSUME NEW v \in Workers \ {w} PROVE SameRequest(v)
  <2>1. CASE tx'[v] = tx[v]
    BY <2>1 DEF SameRequest
  <2>2. CASE tx'[v] = [tx[v] EXCEPT !.stale = TRUE]
    BY <2>2 DEF SameRequest, TxType
  <2> QED BY <2>1, <2>2 DEF Staled
<1> QED BY <1>2, <1>3, <1>4

\* What is never taken back: the order of a row, the payment that an MP payment
\* is for, the statuses it had.
Grows ==
  /\ \A p \in Payments : payOrder[p] # NULL => payOrder'[p] = payOrder[p]
  /\ \A m \in MpPayments :
       mpOf[m] # NULL => mpOf'[m] = mpOf[m] /\ mpSeen[m] \subseteq mpSeen'[m]

LEMMA ShapeKept ==
  ASSUME IInv, NEW v \in Workers, SameRequest(v), Grows
  PROVE  RefundShape(v)' /\ WebhookShape(v)'
<1>1. RefundShape(v) /\ WebhookShape(v)
  BY DEF IInv, TxShape
<1>2. RefundShape(v)'
  BY <1>1 DEF RefundShape, SameRequest, Grows
<1>3. WebhookShape(v)'
  BY <1>1 DEF WebhookShape, SameRequest, Grows
<1> QED BY <1>2, <1>3

\* A checkout's shape survives a step that commits no row, unless an order goes.
LEMMA CheckoutKept ==
  ASSUME IInv, NEW v \in Workers, SameRequest(v),
         \A u \in Workers : tx'[u].at \in {"checkout_order", "checkout_posting"} =>
                              /\ tx[u].at \in {"checkout_order", "checkout_posting"}
                              /\ tx'[u].pay = tx[u].pay,
         UNCHANGED begun,
         tx[v].at \in {"checkout_order", "checkout_posting"} =>
           /\ payStatus[tx[v].pay] = ABSENT => payStatus'[tx[v].pay] = ABSENT
           /\ payOrder'[tx[v].pay] = payOrder[tx[v].pay],
         tx[v].at = "checkout_posting" /\ orders[tx[v].order] # ABSENT =>
           orders'[tx[v].order] # ABSENT
  PROVE  CheckoutShape(v)'
<1>1. CheckoutShape(v)
  BY DEF IInv, TxShape
<1> QED BY <1>1 DEF CheckoutShape, SameRequest

LEMMA InitIInv == Init => IInv
<1> SUFFICES ASSUME Init PROVE IInv OBVIOUS
<1>1. tx \in [Workers -> TxType]
  BY IdleType DEF Init
<1>2. /\ orders \in [Orders -> FinStatuses \cup {ABSENT}]
      /\ payStatus \in [Payments -> PayStatuses \cup {ABSENT}]
      /\ payOrder \in [Payments -> Orders \cup {NULL}]
      /\ payMp \in [Payments -> MpPayments \cup {NULL}]
  BY DEF Init, FinStatuses
<1>3. /\ mpOf \in [MpPayments -> Payments \cup {NULL}]
      /\ mpStatus \in [MpPayments -> MpStatuses]
      /\ mpSeen \in [MpPayments -> SUBSET MpStatuses]
  BY DEF Init, MpStatuses
<1>4. connected \in BOOLEAN
  BY DEF Init
<1>5. begun \in 0..MaxPayments /\ urls \subseteq Payments /\ notify \subseteq MpPayments
      /\ torn \subseteq Payments
  BY DEF Init
<1>6. TypeOK
  BY <1>1, <1>2, <1>3, <1>4, <1>5 DEF TypeOK
<1>7. TxShape
  BY DEF Init, TxShape, CheckoutShape, RefundShape, WebhookShape, Idle
<1>8. RowShape
  BY DEF Init, RowShape, ABSENT
<1>9. MpShape
  BY DEF Init, MpShape
<1> QED BY <1>6, <1>7, <1>8, <1>9 DEF IInv

-----------------------------------------------------------------------------
(* One lemma per action *)

LEMMA ConnectAccountStep == ASSUME IInv, ConnectAccount PROVE IInv'
<1>1. TypeOK'
  BY DEF ConnectAccount, IInv, TypeOK, db, mp
<1>2. TxShape'
  BY DEF ConnectAccount, IInv, TxShape, CheckoutShape, RefundShape, WebhookShape, db, mp
<1>3. RowShape' /\ MpShape'
  BY DEF ConnectAccount, IInv, RowShape, MpShape, db, mp
<1> QED BY <1>1, <1>2, <1>3 DEF IInv

LEMMA LoadCheckoutOrderStep ==
  ASSUME IInv, NEW w \in Workers, NEW o \in Orders, LoadCheckoutOrder(w, o)
  PROVE  IInv'
<1> DEFINE t == [Idle EXCEPT !.at = "checkout_order", !.order = o,
                            !.fin = orders[o], !.pay = begun + 1]
<1>1. tx' = [tx EXCEPT ![w] = t] /\ begun + 1 \in Payments /\ orders[o] \in FinStatuses
  BY DEF IInv, TypeOK, LoadCheckoutOrder
<1>2. t \in TxType
  BY <1>1 DEF TxType, Idle, Requests
<1>3. t.at = "checkout_order" /\ t.order = o /\ t.pay = begun + 1 /\ t.mp = NULL
  BY DEF Idle
<1>4. tx \in [Workers -> TxType]
  BY DEF IInv, TypeOK
<1> HIDE DEF t
<1>5. TypeOK'
  <2>1. tx' \in [Workers -> TxType]
    BY <1>1, <1>2, <1>4
  <2> QED BY <2>1 DEF IInv, TypeOK, LoadCheckoutOrder, db, mp
<1>6. TxShape'
  <2>1. payStatus[begun + 1] = ABSENT /\ payOrder[begun + 1] = NULL
    BY <1>1 DEF IInv, TypeOK, RowShape
  <2>2. begun' = begun + 1 /\ begun \in Nat
    BY DEF IInv, TypeOK, LoadCheckoutOrder
  <2>3. CheckoutShape(w)'
    <3>1. tx'[w] = t /\ \A v \in Workers \ {w} : tx'[v] = tx[v]
      BY <1>1, <1>4
    <3>2. \A v \in Workers \ {w} :
            tx[v].at \in {"checkout_order", "checkout_posting"} => tx[v].pay # begun + 1
      BY <2>2 DEF IInv, TxShape, CheckoutShape
    <3>3. begun + 1 \in 1..begun'
      BY <2>2
    <3> QED BY <1>3, <2>1, <3>1, <3>2, <3>3 DEF CheckoutShape, LoadCheckoutOrder, db
  <2>4. ASSUME NEW v \in Workers \ {w} PROVE CheckoutShape(v)'
    BY <1>1, <1>3, <1>4, <2>2 DEF IInv, TxShape, CheckoutShape, LoadCheckoutOrder, db
  <2>5. ASSUME NEW v \in Workers PROVE RefundShape(v)' /\ WebhookShape(v)'
    BY <1>1, <1>3, <1>4 DEF IInv, TxShape, RefundShape, WebhookShape, LoadCheckoutOrder, db, mp
  <2> QED BY <2>3, <2>4, <2>5 DEF TxShape
<1>7. RowShape'
  BY DEF IInv, TypeOK, RowShape, LoadCheckoutOrder, db, mp
<1>8. MpShape'
  BY DEF IInv, MpShape, LoadCheckoutOrder, mp
<1> QED BY <1>5, <1>6, <1>7, <1>8 DEF IInv

LEMMA LoadRefundOrderStep ==
  ASSUME IInv, NEW w \in Workers, NEW o \in Orders, LoadRefundOrder(w, o)
  PROVE  IInv'
<1> DEFINE t == [Idle EXCEPT !.at = "refund_order", !.order = o, !.fin = orders[o]]
<1>1. tx' = [tx EXCEPT ![w] = t] /\ orders[o] \in FinStatuses
  BY DEF IInv, TypeOK, LoadRefundOrder
<1>2. t \in TxType
  BY <1>1 DEF TxType, Idle, Requests
<1>3. t.at = "refund_order" /\ t.order = o /\ t.mp = NULL
  BY DEF Idle
<1>4. tx \in [Workers -> TxType]
  BY DEF IInv, TypeOK
<1> HIDE DEF t
<1>5. TypeOK'
  <2>1. tx' \in [Workers -> TxType]
    BY <1>1, <1>2, <1>4
  <2> QED BY <2>1 DEF IInv, TypeOK, LoadRefundOrder, db, mp
<1>6. TxShape'
  <2>1. ASSUME NEW v \in Workers PROVE CheckoutShape(v)'
    BY <1>1, <1>3, <1>4 DEF IInv, TxShape, CheckoutShape, LoadRefundOrder, db
  <2>2. ASSUME NEW v \in Workers PROVE RefundShape(v)' /\ WebhookShape(v)'
    BY <1>1, <1>3, <1>4 DEF IInv, TxShape, RefundShape, WebhookShape, LoadRefundOrder, db, mp
  <2> QED BY <2>1, <2>2 DEF TxShape
<1>7. RowShape' /\ MpShape'
  BY DEF IInv, RowShape, MpShape, LoadRefundOrder, db, mp
<1> QED BY <1>5, <1>6, <1>7 DEF IInv

LEMMA LoadRefundPaymentStep ==
  ASSUME IInv, NEW w \in Workers, NEW p \in Payments, LoadRefundPayment(w, p)
  PROVE  IInv'
<1> DEFINE t == [tx[w] EXCEPT !.at = "refund_posting", !.pay = p,
                              !.status = payStatus[p], !.payMp = payMp[p]]
<1>1. tx' = [tx EXCEPT ![w] = t] /\ payStatus[p] \in PayStatuses /\ payMp[p] \in MpPayments
  BY DEF IInv, TypeOK, LoadRefundPayment, IsCurrent, RowsOf
<1>2. tx[w] \in TxType
  BY DEF IInv, TypeOK
<1>3. t \in TxType
  BY <1>1, <1>2 DEF TxType, Requests
<1>4. t.at = "refund_posting" /\ t.pay = p /\ t.payMp = payMp[p]
      /\ t.order = tx[w].order /\ t.mp = tx[w].mp
  BY <1>2 DEF TxType
<1>5. tx \in [Workers -> TxType]
  BY DEF IInv, TypeOK
<1>6. tx[w].at = "refund_order" /\ tx[w].order = payOrder[p]
  BY DEF LoadRefundPayment, IsCurrent, RowsOf
<1> HIDE DEF t
<1>7. TypeOK'
  <2>1. tx' \in [Workers -> TxType]
    BY <1>1, <1>3, <1>5
  <2> QED BY <2>1 DEF IInv, TypeOK, LoadRefundPayment, db, mp
<1>8. TxShape'
  <2>1. mpOf[payMp[p]] = p
    BY <1>1 DEF IInv, RowShape
  <2>2. ASSUME NEW v \in Workers PROVE CheckoutShape(v)'
    BY <1>1, <1>4, <1>5 DEF IInv, TxShape, CheckoutShape, LoadRefundPayment, db
  <2>3. ASSUME NEW v \in Workers PROVE RefundShape(v)' /\ WebhookShape(v)'
    BY <1>1, <1>4, <1>5, <1>6, <2>1
       DEF IInv, TxShape, RefundShape, WebhookShape, LoadRefundPayment, db, mp
  <2> QED BY <2>2, <2>3 DEF TxShape
<1>9. RowShape' /\ MpShape'
  BY DEF IInv, RowShape, MpShape, LoadRefundPayment, db, mp
<1> QED BY <1>7, <1>8, <1>9 DEF IInv

LEMMA StartWebhookStep ==
  ASSUME IInv, NEW w \in Workers, NEW m \in MpPayments, StartWebhook(w, m)
  PROVE  IInv'
<1> PICK p \in Payments :
         /\ Names(p, m)
         /\ tx' = [tx EXCEPT ![w] = [Idle EXCEPT !.at = "hook_payment", !.pay = p, !.mp = m,
                                                 !.status = payStatus[p], !.payMp = payMp[p]]]
  BY DEF StartWebhook
<1> DEFINE t == [Idle EXCEPT !.at = "hook_payment", !.pay = p, !.mp = m,
                            !.status = payStatus[p], !.payMp = payMp[p]]
<1>1. /\ tx' = [tx EXCEPT ![w] = t]
      /\ payStatus[p] \in PayStatuses /\ payMp[p] \in MpPayments \cup {NULL}
  BY DEF IInv, TypeOK, Names
<1>2. t \in TxType
  BY <1>1 DEF TxType, Idle, Requests
<1>3. t.at = "hook_payment" /\ t.pay = p /\ t.mp = m /\ t.status = payStatus[p]
  BY DEF Idle
<1>4. tx \in [Workers -> TxType]
  BY DEF IInv, TypeOK
<1> HIDE DEF t
<1>5. TypeOK'
  <2>1. tx' \in [Workers -> TxType]
    BY <1>1, <1>2, <1>4
  <2> QED BY <2>1 DEF IInv, TypeOK, StartWebhook, db, mp
<1>6. TxShape'
  <2>1. mpOf[m] = p
    BY DEF IInv, RowShape, Names
  <2>2. payOrder[p] \in Orders
    BY DEF IInv, TypeOK, RowShape, Names
  <2>3. ASSUME NEW v \in Workers PROVE CheckoutShape(v)'
    BY <1>1, <1>3, <1>4 DEF IInv, TxShape, CheckoutShape, StartWebhook, db
  <2>4. ASSUME NEW v \in Workers PROVE RefundShape(v)' /\ WebhookShape(v)'
    BY <1>1, <1>3, <1>4, <2>1, <2>2
       DEF IInv, TxShape, RefundShape, WebhookShape, StartWebhook, db, mp
  <2> QED BY <2>3, <2>4 DEF TxShape
<1>7. RowShape' /\ MpShape'
  BY DEF IInv, RowShape, MpShape, StartWebhook, db, mp
<1> QED BY <1>5, <1>6, <1>7 DEF IInv

LEMMA InsertPaymentStep ==
  ASSUME IInv, NEW w \in Workers, InsertPayment(w)
  PROVE  IInv'
<1> DEFINE t == [tx[w] EXCEPT !.at = "checkout_posting"]
<1>1. tx' = [tx EXCEPT ![w] = t] /\ tx[w].at = "checkout_order" /\ orders[tx[w].order] # ABSENT
  BY DEF InsertPayment
<1>2. tx \in [Workers -> TxType]
  BY DEF IInv, TypeOK
<1>3. t \in TxType
  BY <1>2 DEF TxType, Requests
<1>4. t.at = "checkout_posting" /\ t.pay = tx[w].pay /\ t.order = tx[w].order /\ t.mp = tx[w].mp
  BY <1>2 DEF TxType
<1> HIDE DEF t
<1>5. TypeOK'
  <2>1. tx' \in [Workers -> TxType]
    BY <1>1, <1>2, <1>3
  <2> QED BY <2>1 DEF IInv, TypeOK, InsertPayment, db, mp
<1>6. TxShape'
  <2>1. ASSUME NEW v \in Workers PROVE CheckoutShape(v)'
    BY <1>1, <1>2, <1>4 DEF IInv, TxShape, CheckoutShape, InsertPayment, db
  <2>2. ASSUME NEW v \in Workers PROVE RefundShape(v)' /\ WebhookShape(v)'
    BY <1>1, <1>2, <1>4 DEF IInv, TxShape, RefundShape, WebhookShape, InsertPayment, db, mp
  <2> QED BY <2>1, <2>2 DEF TxShape
<1>7. RowShape' /\ MpShape'
  BY DEF IInv, RowShape, MpShape, InsertPayment, db, mp
<1> QED BY <1>5, <1>6, <1>7 DEF IInv

LEMMA CommitCheckoutStep ==
  ASSUME IInv, NEW w \in Workers, CommitCheckout(w)
  PROVE  IInv'
<1> DEFINE p == tx[w].pay
           o == tx[w].order
<1>1. /\ tx[w].at = "checkout_posting"
      /\ payStatus' = [payStatus EXCEPT ![p] = CREATED]
      /\ payOrder' = [payOrder EXCEPT ![p] = o]
      /\ orders' = [orders EXCEPT ![o] = Merged(@, tx[w].fin, AWAITING)]
      /\ urls' \in {urls, urls \cup {p}}
      /\ tx' = Staled(w, p, o)
      /\ UNCHANGED <<connected, payMp, begun, mpOf, mpStatus, mpSeen, notify, torn>>
  BY DEF CommitCheckout, mp
<1>2. /\ p \in Payments /\ p <= begun /\ o \in Orders
      /\ payStatus[p] = ABSENT /\ payOrder[p] = NULL /\ orders[o] # ABSENT
  BY <1>1 DEF IInv, TypeOK, TxShape, CheckoutShape
<1>3. tx' \in [Workers -> TxType] /\ tx'[w] = Idle /\ \A v \in Workers \ {w} : SameRequest(v)
  BY <1>1, StaledFields DEF IInv, TypeOK
<1>4. orders' \in [Orders -> FinStatuses \cup {ABSENT}]
      /\ \A q \in Orders : orders'[q] = ABSENT <=> orders[q] = ABSENT
  BY <1>1, <1>2 DEF IInv, TypeOK, Merged, FinStatuses, AWAITING, ABSENT
<1> HIDE DEF p, o
<1>5. TypeOK'
  <2>1. payStatus' \in [Payments -> PayStatuses \cup {ABSENT}]
    BY <1>1 DEF IInv, TypeOK, PayStatuses
  <2>2. payOrder' \in [Payments -> Orders \cup {NULL}]
    BY <1>1, <1>2 DEF IInv, TypeOK
  <2>3. urls' \subseteq Payments
    BY <1>1, <1>2 DEF IInv, TypeOK
  <2> QED BY <1>1, <1>3, <1>4, <2>1, <2>2, <2>3 DEF IInv, TypeOK
<1>6. TxShape'
  <2>1. CheckoutShape(w)' /\ RefundShape(w)' /\ WebhookShape(w)'
    BY <1>3 DEF CheckoutShape, RefundShape, WebhookShape, Idle
  <2>2. ASSUME NEW v \in Workers \ {w} PROVE RefundShape(v)' /\ WebhookShape(v)'
    <3>1. Grows
      BY <1>1, <1>2 DEF IInv, TypeOK, Grows
    <3> QED BY <1>3, <3>1, ShapeKept
  <2>3. ASSUME NEW v \in Workers \ {w} PROVE CheckoutShape(v)'
    <3>1. CheckoutShape(v) /\ CheckoutShape(w)
      BY DEF IInv, TxShape
    <3>2. tx[v].at \in {"checkout_order", "checkout_posting"} => tx[v].pay # p
      BY <1>1, <3>1 DEF CheckoutShape, p
    <3>3. \A u \in Workers : tx'[u].at \in {"checkout_order", "checkout_posting"} =>
                              /\ tx[u].at \in {"checkout_order", "checkout_posting"}
                              /\ tx'[u].pay = tx[u].pay
      BY <1>3 DEF SameRequest, Idle
    <3>4. tx[v].at \in {"checkout_order", "checkout_posting"} =>
            payStatus'[tx[v].pay] = payStatus[tx[v].pay] /\ payOrder'[tx[v].pay] = payOrder[tx[v].pay]
      BY <1>1, <3>1, <3>2 DEF IInv, TypeOK, CheckoutShape
    <3>5. tx[v].at = "checkout_posting" /\ orders[tx[v].order] # ABSENT =>
            orders'[tx[v].order] # ABSENT
      BY <1>4, <3>1 DEF CheckoutShape
    <3> QED BY <1>1, <1>3, <3>3, <3>4, <3>5, CheckoutKept
  <2> QED BY <2>1, <2>2, <2>3 DEF TxShape
<1>7. RowShape'
  BY <1>1, <1>2, <1>4 DEF IInv, TypeOK, RowShape, CREATED, ABSENT
<1>8. MpShape'
  BY <1>1 DEF IInv, MpShape
<1> QED BY <1>5, <1>6, <1>7, <1>8 DEF IInv

LEMMA MpAcceptsRefundStep ==
  ASSUME IInv, NEW w \in Workers, MpAcceptsRefund(w)
  PROVE  IInv'
<1> DEFINE m == tx[w].payMp
           t == [tx[w] EXCEPT !.at = "refund_accepted"]
<1>1. /\ tx[w].at = "refund_posting"
      /\ mpStatus' = [mpStatus EXCEPT ![m] = "refunded"]
      /\ mpSeen' = [mpSeen EXCEPT ![m] = @ \cup {"refunded"}]
      /\ notify' = notify \cup {m}
      /\ tx' = [tx EXCEPT ![w] = t]
      /\ UNCHANGED <<connected, orders, payStatus, payOrder, payMp, begun, urls, mpOf, torn>>
  BY DEF MpAcceptsRefund, db
<1>2. m \in MpPayments /\ mpOf[m] = tx[w].pay /\ tx[w].pay \in Payments
  BY <1>1 DEF IInv, TxShape, RefundShape
<1>3. tx \in [Workers -> TxType]
  BY DEF IInv, TypeOK
<1>4. t \in TxType
  BY <1>3 DEF TxType, Requests
<1>5. t.at = "refund_accepted" /\ t.order = tx[w].order /\ t.pay = tx[w].pay
      /\ t.payMp = m /\ t.mp = tx[w].mp
  BY <1>3 DEF TxType
<1> HIDE DEF m, t
<1>6. TypeOK'
  <2>1. tx' \in [Workers -> TxType]
    BY <1>1, <1>3, <1>4
  <2>2. mpStatus' \in [MpPayments -> MpStatuses] /\ mpSeen' \in [MpPayments -> SUBSET MpStatuses]
    BY <1>1 DEF IInv, TypeOK, MpStatuses
  <2> QED BY <1>1, <1>2, <2>1, <2>2 DEF IInv, TypeOK
<1>7. TxShape'
  <2>1. Grows
    BY <1>1 DEF IInv, TypeOK, Grows
  <2>2. "refunded" \in mpSeen'[m]
    BY <1>1, <1>2 DEF IInv, TypeOK
  <2>3. RefundShape(w) /\ WebhookShape(w)
    BY DEF IInv, TxShape
  <2>4. CheckoutShape(w)' /\ RefundShape(w)' /\ WebhookShape(w)'
    BY <1>1, <1>3, <1>5, <2>2, <2>3 DEF m, CheckoutShape, RefundShape, WebhookShape
  <2>5. ASSUME NEW v \in Workers \ {w} PROVE RefundShape(v)' /\ WebhookShape(v)'
    <3>1. SameRequest(v)
      BY <1>1, <1>3 DEF SameRequest
    <3> QED BY <2>1, <3>1, ShapeKept
  <2>6. ASSUME NEW v \in Workers \ {w} PROVE CheckoutShape(v)'
    BY <1>1, <1>3, <1>5 DEF IInv, TxShape, CheckoutShape
  <2> QED BY <2>4, <2>5, <2>6 DEF TxShape
<1>8. RowShape'
  BY <1>1 DEF IInv, RowShape
<1>9. MpShape'
  BY <1>1, <1>2 DEF IInv, TypeOK, MpShape
<1> QED BY <1>6, <1>7, <1>8, <1>9 DEF IInv

LEMMA CommitRefundStep ==
  ASSUME IInv, NEW w \in Workers, CommitRefund(w)
  PROVE  IInv'
<1> DEFINE p == tx[w].pay
           o == tx[w].order
<1>1. /\ tx[w].at = "refund_accepted"
      /\ payStatus[p] # ABSENT
      /\ payStatus' = [payStatus EXCEPT ![p] = Merged(@, tx[w].status, PENDING)]
      /\ orders' = [orders EXCEPT ![o] = Merged(@, tx[w].fin, PENDING)]
      /\ tx' = Staled(w, p, o)
      /\ torn' \in {torn, torn \cup {p}}
      /\ UNCHANGED <<connected, payOrder, payMp, begun, urls, mpOf, mpStatus, mpSeen, notify>>
  BY DEF CommitRefund, mp
<1>2. /\ p \in Payments /\ o \in Orders /\ o = payOrder[p]
  BY <1>1 DEF IInv, TxShape, RefundShape
<1>3. orders[o] # ABSENT
  BY <1>1, <1>2 DEF IInv, RowShape
<1>4. tx' \in [Workers -> TxType] /\ tx'[w] = Idle /\ \A v \in Workers \ {w} : SameRequest(v)
  BY <1>1, StaledFields DEF IInv, TypeOK
<1>5. orders' \in [Orders -> FinStatuses \cup {ABSENT}]
      /\ \A q \in Orders : orders'[q] = ABSENT <=> orders[q] = ABSENT
  BY <1>1, <1>2, <1>3 DEF IInv, TypeOK, Merged, FinStatuses, Settled, PENDING, ABSENT
<1>6. payStatus' \in [Payments -> PayStatuses \cup {ABSENT}]
      /\ \A q \in Payments : payStatus'[q] = ABSENT <=> payStatus[q] = ABSENT
  BY <1>1, <1>2 DEF IInv, TypeOK, Merged, PayStatuses, Settled, PENDING, ABSENT
<1> HIDE DEF p, o
<1>7. TypeOK'
  BY <1>1, <1>2, <1>4, <1>5, <1>6 DEF IInv, TypeOK
<1>8. TxShape'
  <2>1. CheckoutShape(w)' /\ RefundShape(w)' /\ WebhookShape(w)'
    BY <1>4 DEF CheckoutShape, RefundShape, WebhookShape, Idle
  <2>2. ASSUME NEW v \in Workers \ {w} PROVE RefundShape(v)' /\ WebhookShape(v)'
    <3>1. Grows
      BY <1>1 DEF Grows
    <3> QED BY <1>4, <3>1, ShapeKept
  <2>3. ASSUME NEW v \in Workers \ {w} PROVE CheckoutShape(v)'
    <3>1. \A u \in Workers : tx'[u].at \in {"checkout_order", "checkout_posting"} =>
                              /\ tx[u].at \in {"checkout_order", "checkout_posting"}
                              /\ tx'[u].pay = tx[u].pay
      BY <1>4 DEF SameRequest, Idle
    <3>2. tx[v].at \in {"checkout_order", "checkout_posting"} =>
            tx[v].pay \in Payments /\ tx[v].order \in Orders
      BY DEF IInv, TypeOK, TxShape, CheckoutShape
    <3> QED BY <1>1, <1>4, <1>5, <1>6, <3>1, <3>2, CheckoutKept
  <2> QED BY <2>1, <2>2, <2>3 DEF TxShape
<1>9. RowShape' /\ MpShape'
  BY <1>1, <1>5, <1>6 DEF IInv, TypeOK, RowShape, MpShape
<1> QED BY <1>7, <1>8, <1>9 DEF IInv

LEMMA FetchMpPaymentStep ==
  ASSUME IInv, NEW w \in Workers, FetchMpPayment(w)
  PROVE  IInv'
<1> DEFINE t == [tx[w] EXCEPT !.at = "hook_fetched", !.read = mpStatus[tx[w].mp]]
<1>1. tx' = [tx EXCEPT ![w] = t] /\ tx[w].at = "hook_payment"
  BY DEF FetchMpPayment, IInv, TypeOK, TxType
<1>2. tx \in [Workers -> TxType]
  BY DEF IInv, TypeOK
<1>3. WebhookShape(w)
  BY DEF IInv, TxShape
<1>4. mpStatus[tx[w].mp] \in MpStatuses /\ mpStatus[tx[w].mp] \in mpSeen[tx[w].mp]
  BY <1>1, <1>3 DEF WebhookShape, IInv, TypeOK, MpShape
<1>5. t \in TxType
  BY <1>2, <1>4 DEF TxType, Requests
<1>6. t.at = "hook_fetched" /\ t.pay = tx[w].pay /\ t.mp = tx[w].mp
      /\ t.status = tx[w].status /\ t.read = mpStatus[tx[w].mp]
  BY <1>2 DEF TxType
<1> HIDE DEF t
<1>7. TypeOK'
  <2>1. tx' \in [Workers -> TxType]
    BY <1>1, <1>2, <1>5
  <2> QED BY <2>1 DEF IInv, TypeOK, FetchMpPayment, db, mp
<1>8. TxShape'
  <2>1. ASSUME NEW v \in Workers PROVE CheckoutShape(v)'
    BY <1>1, <1>2, <1>6 DEF IInv, TxShape, CheckoutShape, FetchMpPayment, db
  <2>2. ASSUME NEW v \in Workers PROVE RefundShape(v)' /\ WebhookShape(v)'
    BY <1>1, <1>2, <1>3, <1>4, <1>6
       DEF IInv, TxShape, RefundShape, WebhookShape, FetchMpPayment, db, mp
  <2> QED BY <2>1, <2>2 DEF TxShape
<1>9. RowShape' /\ MpShape'
  BY DEF IInv, RowShape, MpShape, FetchMpPayment, db, mp
<1> QED BY <1>7, <1>8, <1>9 DEF IInv

LEMMA LoadWebhookOrderStep ==
  ASSUME IInv, NEW w \in Workers, LoadWebhookOrder(w)
  PROVE  IInv'
<1> DEFINE o == payOrder[tx[w].pay]
           t == [tx[w] EXCEPT !.at = "hook_order", !.order = o, !.fin = orders[o]]
<1>1. tx' = [tx EXCEPT ![w] = t] /\ tx[w].at = "hook_fetched" /\ orders[o] # ABSENT
  BY DEF LoadWebhookOrder
<1>2. tx \in [Workers -> TxType]
  BY DEF IInv, TypeOK
<1>3. WebhookShape(w)
  BY DEF IInv, TxShape
<1>4. o \in Orders /\ orders[o] \in FinStatuses
  BY <1>1, <1>3 DEF WebhookShape, IInv, TypeOK
<1>5. t \in TxType
  BY <1>2, <1>4 DEF TxType, Requests
<1>6. t.at = "hook_order" /\ t.pay = tx[w].pay /\ t.mp = tx[w].mp /\ t.order = o
      /\ t.status = tx[w].status /\ t.read = tx[w].read /\ t.fin = orders[o]
  BY <1>2 DEF TxType
<1> HIDE DEF t
<1>7. TypeOK'
  <2>1. tx' \in [Workers -> TxType]
    BY <1>1, <1>2, <1>5
  <2> QED BY <2>1 DEF IInv, TypeOK, LoadWebhookOrder, db, mp
<1>8. TxShape'
  <2>1. ASSUME NEW v \in Workers PROVE CheckoutShape(v)'
    BY <1>1, <1>2, <1>6 DEF IInv, TxShape, CheckoutShape, LoadWebhookOrder, db
  <2>2. ASSUME NEW v \in Workers PROVE RefundShape(v)' /\ WebhookShape(v)'
    BY <1>1, <1>2, <1>3, <1>4, <1>6
       DEF IInv, TxShape, RefundShape, WebhookShape, LoadWebhookOrder, db, mp
  <2> QED BY <2>1, <2>2 DEF TxShape
<1>9. RowShape' /\ MpShape'
  BY DEF IInv, RowShape, MpShape, LoadWebhookOrder, db, mp
<1> QED BY <1>7, <1>8, <1>9 DEF IInv

LEMMA CommitWebhookStep ==
  ASSUME IInv, NEW w \in Workers, CommitWebhook(w)
  PROVE  IInv'
<1> DEFINE p == tx[w].pay
           o == tx[w].order
           status == PaymentAfter(tx[w].status, tx[w].read)
<1>1. /\ tx[w].at = "hook_order"
      /\ payStatus[p] # ABSENT
      /\ payStatus' = [payStatus EXCEPT ![p] = Merged(@, tx[w].status, status)]
      /\ payMp' = [payMp EXCEPT ![p] = Merged(@, tx[w].payMp, tx[w].mp)]
      /\ orders' = [orders EXCEPT ![o] =
                      Merged(@, tx[w].fin, OrderAfter(tx[w].fin, status, tx[w].read))]
      /\ tx' = Staled(w, p, o)
      /\ torn' \in {torn, torn \cup {p}}
      /\ UNCHANGED <<connected, payOrder, begun, urls, mpOf, mpStatus, mpSeen, notify>>
  BY DEF CommitWebhook, mp
<1>2. /\ p \in Payments /\ o \in Orders /\ o = payOrder[p]
      /\ tx[w].mp \in MpPayments /\ mpOf[tx[w].mp] = p
      /\ tx[w].read \in MpStatuses /\ tx[w].status \in PayStatuses /\ tx[w].fin \in FinStatuses
  BY <1>1 DEF IInv, TxShape, WebhookShape
<1>3. orders[o] # ABSENT
  BY <1>1, <1>2 DEF IInv, RowShape
<1>4. tx' \in [Workers -> TxType] /\ tx'[w] = Idle /\ \A v \in Workers \ {w} : SameRequest(v)
  BY <1>1, StaledFields DEF IInv, TypeOK
<1>5. status \in PayStatuses /\ status # ABSENT
  BY <1>2 DEF PaymentAfter, PayStatuses, Settled, MpStatuses, PAID, PAYOUT, REFUNDED, DISPUTED,
              FAILED, CANCELLED, PENDING, CREATED, ABSENT
<1>6. OrderAfter(tx[w].fin, status, tx[w].read) \in FinStatuses
  BY <1>2 DEF OrderAfter, PaymentAfter, FinStatuses, Settled, MpStatuses
<1>7. ABSENT \notin FinStatuses
  BY DEF FinStatuses, Settled, AWAITING, PAID, PAYOUT, REFUNDED, DISPUTED,
         FAILED, CANCELLED, PENDING, ABSENT
<1> HIDE DEF p, o, status
<1>8. orders' \in [Orders -> FinStatuses \cup {ABSENT}]
      /\ \A q \in Orders : orders'[q] = ABSENT <=> orders[q] = ABSENT
  BY <1>1, <1>2, <1>3, <1>6, <1>7 DEF IInv, TypeOK, Merged
<1>9. payStatus' \in [Payments -> PayStatuses \cup {ABSENT}]
      /\ \A q \in Payments : payStatus'[q] = ABSENT <=> payStatus[q] = ABSENT
  BY <1>1, <1>2, <1>5 DEF IInv, TypeOK, Merged
<1>10. payMp' \in [Payments -> MpPayments \cup {NULL}]
       /\ payMp'[p] \in {payMp[p], tx[w].mp}
       /\ \A q \in Payments \ {p} : payMp'[q] = payMp[q]
  BY <1>1, <1>2 DEF IInv, TypeOK, Merged
<1>11. TypeOK'
  BY <1>1, <1>2, <1>4, <1>8, <1>9, <1>10 DEF IInv, TypeOK
<1>12. TxShape'
  <2>1. CheckoutShape(w)' /\ RefundShape(w)' /\ WebhookShape(w)'
    BY <1>4 DEF CheckoutShape, RefundShape, WebhookShape, Idle
  <2>2. ASSUME NEW v \in Workers \ {w} PROVE RefundShape(v)' /\ WebhookShape(v)'
    <3>1. Grows
      BY <1>1 DEF Grows
    <3> QED BY <1>4, <3>1, ShapeKept
  <2>3. ASSUME NEW v \in Workers \ {w} PROVE CheckoutShape(v)'
    <3>1. \A u \in Workers : tx'[u].at \in {"checkout_order", "checkout_posting"} =>
                              /\ tx[u].at \in {"checkout_order", "checkout_posting"}
                              /\ tx'[u].pay = tx[u].pay
      BY <1>4 DEF SameRequest, Idle
    <3>2. tx[v].at \in {"checkout_order", "checkout_posting"} =>
            tx[v].pay \in Payments /\ tx[v].order \in Orders
      BY DEF IInv, TypeOK, TxShape, CheckoutShape
    <3> QED BY <1>1, <1>4, <1>8, <1>9, <3>1, <3>2, CheckoutKept
  <2> QED BY <2>1, <2>2, <2>3 DEF TxShape
<1>13. RowShape'
  BY <1>1, <1>2, <1>8, <1>9, <1>10 DEF IInv, TypeOK, RowShape
<1>14. MpShape'
  BY <1>1 DEF IInv, MpShape
<1> QED BY <1>11, <1>12, <1>13, <1>14 DEF IInv

LEMMA AbortStep ==
  ASSUME IInv, NEW w \in Workers, Abort(w)
  PROVE  IInv'
<1>1. tx \in [Workers -> TxType] /\ tx' = [tx EXCEPT ![w] = Idle]
  BY DEF IInv, TypeOK, Abort
<1>2. tx[w].mp # NULL => tx[w].mp \in MpPayments /\ mpOf[tx[w].mp] # NULL
  <2>1. tx[w] \in TxType /\ tx[w].at # "idle"
    BY <1>1 DEF Abort
  <2> QED BY <2>1 DEF TxType, Requests, IInv, TxShape, CheckoutShape, RefundShape, WebhookShape
<1>3. TypeOK'
  <2>1. tx' \in [Workers -> TxType]
    BY <1>1, IdleType
  <2>2. notify' \subseteq MpPayments
    BY <1>2 DEF IInv, TypeOK, Abort
  <2> QED BY <2>1, <2>2 DEF IInv, TypeOK, Abort, db, mp
<1>4. TxShape'
  BY <1>1 DEF IInv, TxShape, CheckoutShape, RefundShape, WebhookShape, Idle, Abort, db, mp
<1>5. RowShape'
  BY DEF IInv, RowShape, Abort, db, mp
<1>6. MpShape'
  BY <1>2 DEF IInv, MpShape, Abort, mp
<1> QED BY <1>3, <1>4, <1>5, <1>6 DEF IInv

LEMMA DeleteOrderStep ==
  ASSUME IInv, NEW o \in Orders, DeleteOrder(o)
  PROVE  IInv'
<1>1. TypeOK'
  BY DEF IInv, TypeOK, DeleteOrder, mp
<1>2. TxShape'
  BY DEF IInv, TypeOK, TxShape, CheckoutShape, RefundShape, WebhookShape, DeleteOrder, mp
<1>3. RowShape'
  BY DEF IInv, TypeOK, RowShape, DeleteOrder, mp
<1>4. MpShape'
  BY DEF IInv, MpShape, DeleteOrder, mp
<1> QED BY <1>1, <1>2, <1>3, <1>4 DEF IInv

LEMMA BuyerPaysStep ==
  ASSUME IInv, NEW m \in MpPayments, NEW p \in Payments, NEW s \in MpStatuses, BuyerPays(m, p, s)
  PROVE  IInv'
<1>1. TypeOK'
  BY DEF IInv, TypeOK, BuyerPays, db
<1>2. TxShape'
  <2>1. Grows
    BY DEF IInv, TypeOK, BuyerPays, db, Grows
  <2> QED BY <2>1 DEF IInv, TxShape, CheckoutShape, RefundShape, WebhookShape, BuyerPays, db
<1>3. RowShape'
  BY DEF IInv, TypeOK, RowShape, BuyerPays, db
<1>4. MpShape'
  BY DEF IInv, TypeOK, MpShape, BuyerPays
<1> QED BY <1>1, <1>2, <1>3, <1>4 DEF IInv

LEMMA MpAdvancesStep ==
  ASSUME IInv, NEW m \in MpPayments, NEW s \in MpStatuses, MpAdvances(m, s)
  PROVE  IInv'
<1>1. TypeOK'
  BY DEF IInv, TypeOK, MpAdvances, db
<1>2. TxShape'
  BY DEF IInv, TypeOK, TxShape, CheckoutShape, RefundShape, WebhookShape, MpAdvances, db
<1>3. RowShape'
  BY DEF IInv, RowShape, MpAdvances, db
<1>4. MpShape'
  BY DEF IInv, TypeOK, MpShape, MpAdvances
<1> QED BY <1>1, <1>2, <1>3, <1>4 DEF IInv

LEMMA NotifyStep ==
  ASSUME IInv, NEW m \in MpPayments, IgnoreWebhook(m) \/ Redeliver(m)
  PROVE  IInv'
<1>1. TypeOK'
  BY DEF IInv, TypeOK, IgnoreWebhook, Redeliver, db, mp
<1>2. TxShape'
  BY DEF IInv, TxShape, CheckoutShape, RefundShape, WebhookShape, IgnoreWebhook, Redeliver, db, mp
<1>3. RowShape' /\ MpShape'
  BY DEF IInv, RowShape, MpShape, IgnoreWebhook, Redeliver, db, mp
<1> QED BY <1>1, <1>2, <1>3 DEF IInv

LEMMA StutterStep == ASSUME IInv, UNCHANGED vars PROVE IInv'
<1>1. TypeOK'
  BY DEF IInv, TypeOK, vars
<1>2. TxShape'
  BY DEF IInv, TxShape, CheckoutShape, RefundShape, WebhookShape, vars
<1>3. RowShape' /\ MpShape'
  BY DEF IInv, RowShape, MpShape, vars
<1> QED BY <1>1, <1>2, <1>3 DEF IInv

LEMMA NextIInv == IInv /\ [Next]_vars => IInv'
  BY ConnectAccountStep, LoadCheckoutOrderStep, LoadRefundOrderStep, LoadRefundPaymentStep,
     StartWebhookStep, InsertPaymentStep, CommitCheckoutStep, MpAcceptsRefundStep,
     CommitRefundStep, FetchMpPaymentStep, LoadWebhookOrderStep, CommitWebhookStep, AbortStep,
     DeleteOrderStep, BuyerPaysStep, MpAdvancesStep, NotifyStep, StutterStep
     DEF Next, MpStatuses

-----------------------------------------------------------------------------
\* The inductive invariant holds of every behaviour.
THEOREM Invariance == Spec => []IInv
  BY InitIInv, NextIInv, PTL DEF Spec

\* Type correctness.
THEOREM TypeCorrect == Spec => []TypeOK
<1>1. IInv => TypeOK
  BY DEF IInv
<1> QED BY <1>1, Invariance, PTL

\* A refund never reaches the money of another payment.
THEOREM RefundsAreTheirOwn == Spec => []RefundHitsOwnPayment
<1>1. IInv => RefundHitsOwnPayment
  BY DEF IInv, RowShape, TxShape, RefundShape, RefundHitsOwnPayment
<1> QED BY <1>1, Invariance, PTL

\* Every charge at MP has a committed row, unless its order was deleted.
THEOREM ChargesHaveRows == Spec => []EveryChargeHasItsRow
<1>1. IInv => EveryChargeHasItsRow
  BY DEF IInv, TypeOK, RowShape, MpShape, EveryChargeHasItsRow
<1> QED BY <1>1, Invariance, PTL

-----------------------------------------------------------------------------
(* The rows implement PaymentLedger *)

LEMMA SameStatus ==
  ASSUME UNCHANGED <<payStatus, payOrder>>
  PROVE  ledgerStatus' = ledgerStatus
  BY DEF ledgerStatus

LEMMA SameReports ==
  ASSUME UNCHANGED <<mpOf, mpSeen>>
  PROVE  ledgerReports' = ledgerReports
  BY DEF ledgerReports, Reports, Attempts

LEMMA ReportsAre ==
  ASSUME NEW p \in Payments, NEW r
  PROVE  r \in Reports(p) <=> \E m \in MpPayments : mpOf[m] = p /\ r \in mpSeen[m]
  BY DEF Reports, Attempts

LEMMA ReportsAreNext ==
  ASSUME NEW p \in Payments, NEW r
  PROVE  r \in Reports(p)' <=> \E m \in MpPayments : mpOf'[m] = p /\ r \in mpSeen'[m]
  BY DEF Reports, Attempts

LEMMA InitLedger == Init => Ledger!LedgerInit
<1> SUFFICES ASSUME Init PROVE Ledger!LedgerInit OBVIOUS
<1>1. ledgerStatus = [p \in Payments |-> "none"]
  BY DEF Init, ledgerStatus, ABSENT
<1>2. ASSUME NEW p \in Payments PROVE Reports(p) = {}
  BY DEF Init, Reports, Attempts
<1>3. ledgerReports = [p \in Payments |-> {}]
  BY <1>2 DEF ledgerReports
<1> QED BY <1>1, <1>3 DEF Ledger!LedgerInit

\* A status written over a committed row, with its report at hand, settles the
\* payment; a merge that writes nothing leaves it alone.
LEMMA SettleStep ==
  ASSUME IInv, NEW p \in Payments, NEW s \in DOMAIN Ledger!Backing,
         payStatus[p] # ABSENT,
         payStatus' = [payStatus EXCEPT ![p] = s] \/ UNCHANGED payStatus,
         UNCHANGED <<payOrder, mpOf, mpSeen>>,
         payStatus' # payStatus => Ledger!Backing[s] \in Reports(p)
  PROVE  [Ledger!LedgerNext]_(Ledger!ledgerVars)
<1>1. ledgerReports' = ledgerReports
  BY SameReports
<1>2. CASE UNCHANGED payStatus
  BY <1>1, <1>2, SameStatus DEF Ledger!ledgerVars
<1>3. CASE payStatus' # payStatus
  <2>1. s # ABSENT
    BY DEF Ledger!Backing, ABSENT
  <2>2. ledgerStatus' = [ledgerStatus EXCEPT ![p] = s]
    BY <1>3, <2>1 DEF IInv, TypeOK, ledgerStatus
  <2>3. p \in Ledger!Opened
    BY DEF IInv, TypeOK, ledgerStatus, Ledger!Opened, PayStatuses, Settled, PAID, PAYOUT, PENDING,
           REFUNDED, DISPUTED, FAILED, CANCELLED, CREATED, ABSENT
  <2>4. Ledger!Backing[s] \in ledgerReports[p]
    BY <1>3 DEF ledgerReports
  <2>5. Ledger!Settle(p)
    BY <1>1, <2>2, <2>3, <2>4 DEF Ledger!Settle
  <2> QED BY <2>5 DEF Ledger!LedgerNext
<1> QED BY <1>2, <1>3

\* MP reports s of its payment m, which is for payment p.
LEMMA ReportStep ==
  ASSUME IInv, NEW m \in MpPayments, NEW p \in Payments, NEW s \in MpStatuses,
         p \in urls, UNCHANGED <<payStatus, payOrder>>,
         mpOf'[m] = p, \A n \in MpPayments \ {m} : mpOf'[n] = mpOf[n] /\ mpSeen'[n] = mpSeen[n],
         \/ mpOf[m] = NULL /\ mpSeen'[m] = {s}
         \/ mpOf[m] = p /\ mpSeen'[m] = mpSeen[m] \cup {s}
  PROVE  Ledger!Report(p)
<1>1. ledgerStatus' = ledgerStatus
  BY SameStatus
<1>2. ledgerStatus[p] # "none"
  BY DEF IInv, TypeOK, RowShape, ledgerStatus, PayStatuses, Settled, PAID, PAYOUT, PENDING,
         REFUNDED, DISPUTED, FAILED, CANCELLED, CREATED, ABSENT
<1>3. Reports(p)' = Reports(p) \cup {s}
  BY ReportsAre, ReportsAreNext
<1>4. ASSUME NEW q \in Payments \ {p} PROVE Reports(q)' = Reports(q)
  <2>1. ASSUME NEW n \in MpPayments
        PROVE  mpOf'[n] = q <=> mpOf[n] = q
    BY DEF IInv, TypeOK
  <2>2. ASSUME NEW n \in MpPayments, mpOf[n] = q
        PROVE  mpSeen'[n] = mpSeen[n]
    BY <2>2
  <2>3. ASSUME NEW r PROVE r \in Reports(q)' <=> r \in Reports(q)
    BY <2>1, <2>2, ReportsAre, ReportsAreNext
  <2> QED BY <2>3 DEF Reports, Attempts
<1>5. ledgerReports' = [ledgerReports EXCEPT ![p] = @ \cup {s}]
  BY <1>3, <1>4 DEF ledgerReports
<1> QED BY <1>1, <1>2, <1>5 DEF Ledger!Report, MpStatuses

LEMMA CommitCheckoutLedger ==
  ASSUME IInv, NEW w \in Workers, CommitCheckout(w)
  PROVE  Ledger!Open(tx[w].pay) /\ tx[w].pay \in Payments
<1> DEFINE p == tx[w].pay
<1>1. p \in Payments /\ payStatus[p] = ABSENT /\ payOrder[p] = NULL
  BY DEF CommitCheckout, IInv, TypeOK, TxShape, CheckoutShape
<1>2. payStatus' = [payStatus EXCEPT ![p] = CREATED] /\ payOrder' = [payOrder EXCEPT ![p] = tx[w].order]
  BY DEF CommitCheckout
<1>3. ledgerReports' = ledgerReports
  BY SameReports DEF CommitCheckout, mp
<1> HIDE DEF p
<1>4. ledgerStatus[p] = "none"
  BY <1>1 DEF ledgerStatus
<1>5. ledgerStatus' = [ledgerStatus EXCEPT ![p] = "checkout_created"]
  BY <1>1, <1>2 DEF IInv, TypeOK, ledgerStatus, CREATED, ABSENT
<1> QED BY <1>1, <1>3, <1>4, <1>5 DEF Ledger!Open, p

LEMMA CommitRefundLedger ==
  ASSUME IInv, NEW w \in Workers, CommitRefund(w)
  PROVE  [Ledger!LedgerNext]_(Ledger!ledgerVars)
<1> DEFINE p == tx[w].pay
<1>1. p \in Payments /\ "refunded" \in Reports(p)
  BY ReportsAre DEF CommitRefund, IInv, TxShape, RefundShape
<1>2. payStatus' = [payStatus EXCEPT ![p] = PENDING] \/ UNCHANGED payStatus
  BY DEF CommitRefund, Merged, IInv, TypeOK
<1>3. PENDING \in DOMAIN Ledger!Backing /\ Ledger!Backing[PENDING] = "refunded"
  BY DEF Ledger!Backing, PENDING
<1> QED BY <1>1, <1>2, <1>3, SettleStep DEF CommitRefund, mp

LEMMA CommitWebhookLedger ==
  ASSUME IInv, NEW w \in Workers, CommitWebhook(w)
  PROVE  [Ledger!LedgerNext]_(Ledger!ledgerVars)
<1> DEFINE p == tx[w].pay
           s == PaymentAfter(tx[w].status, tx[w].read)
<1>1. /\ p \in Payments /\ tx[w].read \in Reports(p) /\ tx[w].read \in MpStatuses
      /\ payStatus[p] # ABSENT
  BY ReportsAre DEF CommitWebhook, IInv, TxShape, WebhookShape
<1>2. payStatus' = [payStatus EXCEPT ![p] = Merged(@, tx[w].status, s)]
  BY DEF CommitWebhook
<1>3. UNCHANGED <<payOrder, mpOf, mpSeen>>
  BY DEF CommitWebhook, mp
<1>4. s # tx[w].status => s \in DOMAIN Ledger!Backing /\ Ledger!Backing[s] = tx[w].read
  BY <1>1 DEF PaymentAfter, MpStatuses, Ledger!Backing, PAID, PAYOUT, REFUNDED, DISPUTED,
              FAILED, CANCELLED
<1> HIDE DEF p, s
<1>5. CASE s = tx[w].status
  <2>1. UNCHANGED payStatus
    BY <1>1, <1>2, <1>5 DEF Merged, IInv, TypeOK
  <2> QED BY <1>3, <2>1, SameStatus, SameReports DEF Ledger!ledgerVars
<1>6. CASE s # tx[w].status
  <2>1. payStatus' = [payStatus EXCEPT ![p] = s]
    BY <1>2, <1>6 DEF Merged
  <2> QED BY <1>1, <1>3, <1>4, <1>6, <2>1, SettleStep
<1> QED BY <1>5, <1>6

LEMMA DeleteOrderLedger ==
  ASSUME IInv, NEW o \in Orders, DeleteOrder(o)
  PROVE  Ledger!Delete
<1> DEFINE gone == {p \in Payments : payOrder[p] = o /\ payStatus[p] # ABSENT}
<1>1. gone \in SUBSET Ledger!Opened
  BY DEF IInv, TypeOK, ledgerStatus, Ledger!Opened, PayStatuses, Settled, PAID, PAYOUT, PENDING,
         REFUNDED, DISPUTED, FAILED, CANCELLED, CREATED, ABSENT
<1>2. ledgerStatus' = [p \in Payments |-> IF p \in gone THEN "deleted" ELSE ledgerStatus[p]]
  BY DEF DeleteOrder, IInv, TypeOK, ledgerStatus
<1>3. ledgerReports' = ledgerReports
  BY SameReports DEF DeleteOrder, mp
<1> QED BY <1>1, <1>2, <1>3 DEF Ledger!Delete

LEMMA NextLedger == IInv /\ [Next]_vars => [Ledger!LedgerNext]_(Ledger!ledgerVars)
<1> SUFFICES ASSUME IInv, [Next]_vars PROVE [Ledger!LedgerNext]_(Ledger!ledgerVars)
  OBVIOUS
<1>1. CASE UNCHANGED <<payStatus, payOrder, mpOf, mpSeen>>
  BY <1>1, SameStatus, SameReports DEF Ledger!ledgerVars
<1>2. ASSUME NEW w \in Workers, CommitCheckout(w) PROVE Ledger!LedgerNext
  BY <1>2, CommitCheckoutLedger DEF Ledger!LedgerNext
<1>3. ASSUME NEW w \in Workers, MpAcceptsRefund(w) PROVE Ledger!LedgerNext
  <2> DEFINE m == tx[w].payMp
             p == tx[w].pay
  <2>1. m \in MpPayments /\ p \in Payments /\ mpOf[m] = p /\ p \in urls
    BY <1>3 DEF MpAcceptsRefund, IInv, TxShape, RefundShape, MpShape
  <2>2. /\ mpOf' = mpOf /\ UNCHANGED <<payStatus, payOrder>>
        /\ mpSeen' = [mpSeen EXCEPT ![m] = @ \cup {"refunded"}]
    BY <1>3 DEF MpAcceptsRefund, db
  <2>3. mpSeen \in [MpPayments -> SUBSET MpStatuses] /\ "refunded" \in MpStatuses
    BY DEF IInv, TypeOK, MpStatuses
  <2> HIDE DEF m, p
  <2>4. Ledger!Report(p)
    BY <2>1, <2>2, <2>3, ReportStep
  <2> QED BY <2>1, <2>4 DEF Ledger!LedgerNext
<1>4. ASSUME NEW o \in Orders, DeleteOrder(o) PROVE Ledger!LedgerNext
  BY <1>4, DeleteOrderLedger DEF Ledger!LedgerNext
<1>5. ASSUME NEW m \in MpPayments, NEW p \in Payments, NEW s \in MpStatuses, BuyerPays(m, p, s)
      PROVE  Ledger!LedgerNext
  <2>1. Ledger!Report(p)
    BY <1>5, ReportStep DEF BuyerPays, db, IInv, TypeOK
  <2> QED BY <2>1 DEF Ledger!LedgerNext
<1>6. ASSUME NEW m \in MpPayments, NEW s \in MpStatuses, MpAdvances(m, s)
      PROVE  Ledger!LedgerNext
  <2>1. mpOf[m] \in Payments /\ mpOf[m] \in urls
    BY <1>6 DEF MpAdvances, IInv, TypeOK, MpShape
  <2>2. Ledger!Report(mpOf[m])
    BY <1>6, <2>1, ReportStep DEF MpAdvances, db, IInv, TypeOK
  <2> QED BY <2>1, <2>2 DEF Ledger!LedgerNext
<1>7. ASSUME NEW w \in Workers, CommitRefund(w) \/ CommitWebhook(w)
      PROVE  [Ledger!LedgerNext]_(Ledger!ledgerVars)
  BY <1>7, CommitRefundLedger, CommitWebhookLedger
<1> QED BY <1>1, <1>2, <1>3, <1>4, <1>5, <1>6, <1>7
        DEF Next, vars, db, mp, MpStatuses, ConnectAccount, LoadCheckoutOrder, LoadRefundOrder,
            LoadRefundPayment, StartWebhook, InsertPayment, FetchMpPayment, LoadWebhookOrder,
            Abort, IgnoreWebhook, Redeliver

\* Every behaviour of the payments, seen through the ledger, is one of the
\* ledger's: a committed row for every charge, a report for every status.
THEOREM RefinesLedger == Spec => ImplementsLedger
<1>1. IInv /\ [Next]_vars => [Ledger!LedgerNext]_(Ledger!ledgerVars)
  BY NextLedger
<1> QED BY <1>1, InitLedger, Invariance, PTL DEF Spec, ImplementsLedger, Ledger!LedgerSpec

-----------------------------------------------------------------------------
(* What an order's financial_status says is backed by one of its payments *)

\* Nothing in this path records a payout (the guards against downgrading one
\* are for the payments that Stripe made).
NoPayout ==
  /\ \A p \in Payments : payStatus[p] # PAYOUT
  /\ \A w \in Workers : tx[w].at \in {"hook_payment", "hook_fetched", "hook_order"} =>
                          tx[w].status # PAYOUT

OrderBacked(o) ==
  orders[o] \notin {ABSENT, AWAITING} =>
    \E p \in RowsOf(o) : orders[o] \in DOMAIN Ledger!Backing
                         /\ Ledger!Backing[orders[o]] \in Reports(p)

LEMMA NextNoPayout == IInv /\ NoPayout /\ [Next]_vars => NoPayout'
<1> SUFFICES ASSUME IInv, NoPayout, [Next]_vars PROVE NoPayout'
  OBVIOUS
<1>0. tx \in [Workers -> TxType]
  BY DEF IInv, TypeOK
<1>1. ASSUME NEW w \in Workers, CommitCheckout(w) PROVE NoPayout'
  <2>1. \A v \in Workers \ {w} : SameRequest(v)
    BY <1>0, <1>1, StaledFields DEF CommitCheckout
  <2>2. tx'[w] = Idle
    BY <1>0, <1>1, StaledFields DEF CommitCheckout
  <2>3. \A p \in Payments : payStatus'[p] # PAYOUT
    BY <1>1 DEF NoPayout, CommitCheckout, IInv, TypeOK, CREATED, PAYOUT
  <2> QED BY <2>1, <2>2, <2>3 DEF NoPayout, SameRequest, Idle
<1>2. ASSUME NEW w \in Workers, CommitRefund(w) PROVE NoPayout'
  <2>1. \A v \in Workers \ {w} : SameRequest(v)
    BY <1>0, <1>2, StaledFields DEF CommitRefund
  <2>2. tx'[w] = Idle
    BY <1>0, <1>2, StaledFields DEF CommitRefund
  <2>3. \A p \in Payments : payStatus'[p] # PAYOUT
    BY <1>2 DEF NoPayout, CommitRefund, IInv, TypeOK, Merged, PENDING, PAYOUT
  <2> QED BY <2>1, <2>2, <2>3 DEF NoPayout, SameRequest, Idle
<1>3. ASSUME NEW w \in Workers, CommitWebhook(w) PROVE NoPayout'
  <2>1. \A v \in Workers \ {w} : SameRequest(v)
    BY <1>0, <1>3, StaledFields DEF CommitWebhook
  <2>2. tx'[w] = Idle
    BY <1>0, <1>3, StaledFields DEF CommitWebhook
  <2>3. PaymentAfter(tx[w].status, tx[w].read) # PAYOUT
    BY <1>3 DEF NoPayout, CommitWebhook, PaymentAfter, PAYOUT, PAID, REFUNDED, DISPUTED, FAILED,
                CANCELLED
  <2>4. \A p \in Payments : payStatus'[p] # PAYOUT
    BY <1>3, <2>3 DEF NoPayout, CommitWebhook, Merged, IInv, TypeOK
  <2> QED BY <2>1, <2>2, <2>4 DEF NoPayout, SameRequest, Idle
<1>4. ASSUME NEW o \in Orders, DeleteOrder(o) PROVE NoPayout'
  BY <1>4 DEF NoPayout, DeleteOrder, ABSENT, PAYOUT
<1>5. ASSUME NEW w \in Workers, NEW m \in MpPayments, StartWebhook(w, m) PROVE NoPayout'
  BY <1>0, <1>5 DEF NoPayout, StartWebhook, db, Idle
<1>6. ASSUME NEW w \in Workers,
             FetchMpPayment(w) \/ LoadWebhookOrder(w) \/ InsertPayment(w)
             \/ MpAcceptsRefund(w) \/ Abort(w)
      PROVE  NoPayout'
  <2>1. UNCHANGED payStatus
    BY <1>6 DEF FetchMpPayment, LoadWebhookOrder, InsertPayment, MpAcceptsRefund, Abort, db
  <2>2. ASSUME NEW v \in Workers,
               tx'[v].at \in {"hook_payment", "hook_fetched", "hook_order"}
        PROVE  /\ tx[v].at \in {"hook_payment", "hook_fetched", "hook_order"}
               /\ tx'[v].status = tx[v].status
    <3>1. CASE FetchMpPayment(w)
      BY <1>0, <2>2, <3>1 DEF FetchMpPayment, TxType
    <3>2. CASE LoadWebhookOrder(w)
      BY <1>0, <2>2, <3>2 DEF LoadWebhookOrder, TxType
    <3>3. CASE InsertPayment(w)
      BY <1>0, <2>2, <3>3 DEF InsertPayment, TxType
    <3>4. CASE MpAcceptsRefund(w)
      BY <1>0, <2>2, <3>4 DEF MpAcceptsRefund, TxType
    <3>5. CASE Abort(w)
      BY <1>0, <2>2, <3>5 DEF Abort, Idle
    <3> QED BY <1>6, <3>1, <3>2, <3>3, <3>4, <3>5
  <2> QED BY <2>1, <2>2 DEF NoPayout
<1>7. ASSUME NEW w \in Workers, NEW o \in Orders,
             LoadCheckoutOrder(w, o) \/ LoadRefundOrder(w, o)
      PROVE  NoPayout'
  BY <1>0, <1>7 DEF NoPayout, LoadCheckoutOrder, LoadRefundOrder, db, Idle
<1>8. ASSUME NEW w \in Workers, NEW p \in Payments, LoadRefundPayment(w, p) PROVE NoPayout'
  BY <1>0, <1>8 DEF NoPayout, LoadRefundPayment, db, TxType
<1>9. CASE UNCHANGED <<payStatus, tx>>
  BY <1>9 DEF NoPayout
<1> QED BY <1>1, <1>2, <1>3, <1>4, <1>5, <1>6, <1>7, <1>8, <1>9
        DEF Next, vars, db, ConnectAccount, BuyerPays, MpAdvances, IgnoreWebhook, Redeliver

LEMMA NextGrows == IInv /\ [Next]_vars => Grows
<1> SUFFICES ASSUME IInv, [Next]_vars PROVE Grows
  OBVIOUS
<1>1. CASE UNCHANGED <<payOrder, mpOf, mpSeen>>
  BY <1>1 DEF Grows
<1>2. ASSUME NEW w \in Workers, CommitCheckout(w) PROVE Grows
  <2>1. payOrder[tx[w].pay] = NULL
    BY <1>2 DEF CommitCheckout, IInv, TxShape, CheckoutShape
  <2> QED BY <1>2, <2>1 DEF CommitCheckout, mp, IInv, TypeOK, Grows
<1>3. ASSUME NEW w \in Workers, MpAcceptsRefund(w) PROVE Grows
  BY <1>3 DEF MpAcceptsRefund, db, IInv, TypeOK, Grows
<1>4. ASSUME NEW m \in MpPayments, NEW p \in Payments, NEW s \in MpStatuses, BuyerPays(m, p, s)
      PROVE  Grows
  BY <1>4 DEF BuyerPays, db, IInv, TypeOK, Grows
<1>5. ASSUME NEW m \in MpPayments, NEW s \in MpStatuses, MpAdvances(m, s) PROVE Grows
  BY <1>5 DEF MpAdvances, db, IInv, TypeOK, Grows
<1> QED BY <1>1, <1>2, <1>3, <1>4, <1>5
        DEF Next, vars, db, mp, MpStatuses, ConnectAccount, LoadCheckoutOrder, LoadRefundOrder,
            LoadRefundPayment, StartWebhook, InsertPayment, CommitRefund, FetchMpPayment,
            LoadWebhookOrder, CommitWebhook, Abort, DeleteOrder, IgnoreWebhook, Redeliver

\* MP's reports of a payment only grow.
LEMMA ReportsGrow ==
  ASSUME Grows, NEW p \in Payments
  PROVE  Reports(p) \subseteq Reports(p)'
<1> SUFFICES ASSUME NEW r \in Reports(p) PROVE r \in Reports(p)'
  OBVIOUS
<1> PICK m \in MpPayments : mpOf[m] = p /\ r \in mpSeen[m]
  BY ReportsAre
<1>1. mpOf'[m] = p /\ r \in mpSeen'[m]
  BY DEF Grows
<1> QED BY <1>1, ReportsAreNext

LEMMA BackedKept ==
  ASSUME IInv, NEW o \in Orders, OrderBacked(o), Grows,
         orders'[o] \in {orders[o], AWAITING, ABSENT},
         orders'[o] # ABSENT => \A p \in RowsOf(o) : payStatus'[p] # ABSENT
  PROVE  OrderBacked(o)'
<1> SUFFICES ASSUME orders'[o] \notin {ABSENT, AWAITING}
             PROVE  \E p \in RowsOf(o)' : orders'[o] \in DOMAIN Ledger!Backing
                                          /\ Ledger!Backing[orders'[o]] \in Reports(p)'
  BY DEF OrderBacked, Ledger!Backing
<1>1. orders'[o] = orders[o]
  OBVIOUS
<1> PICK p \in RowsOf(o) : orders[o] \in DOMAIN Ledger!Backing
                           /\ Ledger!Backing[orders[o]] \in Reports(p)
  BY <1>1 DEF OrderBacked
<1>2. p \in RowsOf(o)'
  BY DEF RowsOf, Grows
<1>3. Ledger!Backing[orders'[o]] \in Reports(p)'
  BY <1>1, ReportsGrow DEF RowsOf
<1> QED BY <1>1, <1>2, <1>3

\* A request writes s on the order of payment p, with its report at hand.
LEMMA BackedWritten ==
  ASSUME IInv, NEW p \in Payments, NEW s \in DOMAIN Ledger!Backing,
         payStatus[p] # ABSENT, Ledger!Backing[s] \in Reports(p),
         orders' = [orders EXCEPT ![payOrder[p]] = s],
         \A q \in Payments : payStatus[q] # ABSENT => payStatus'[q] # ABSENT,
         Grows, OrderIsBacked
  PROVE  OrderIsBacked'
<1>1. payOrder[p] \in Orders
  BY DEF IInv, TypeOK, RowShape
<1>2. p \in RowsOf(payOrder[p])'
  BY <1>1 DEF RowsOf, Grows
<1>3. Ledger!Backing[s] \in Reports(p)'
  BY ReportsGrow
<1>4. OrderBacked(payOrder[p])'
  <2>1. orders'[payOrder[p]] = s
    BY <1>1 DEF IInv, TypeOK
  <2>2. payOrder'[p] = payOrder[p]
    BY <1>1 DEF Grows
  <2> QED BY <1>2, <1>3, <2>1, <2>2 DEF OrderBacked, Ledger!Backing
<1>5. ASSUME NEW o \in Orders \ {payOrder[p]} PROVE OrderBacked(o)'
  <2>1. orders'[o] = orders[o]
    BY DEF IInv, TypeOK
  <2>2. OrderBacked(o)
    BY DEF OrderIsBacked, OrderBacked
  <2> QED BY <2>1, <2>2, BackedKept DEF RowsOf
<1>6. payOrder'[p] = payOrder[p]
  BY <1>1 DEF Grows
<1> QED BY <1>4, <1>5, <1>6 DEF OrderIsBacked, OrderBacked

LEMMA NextOrderBacked ==
  IInv /\ NoPayout /\ OrderIsBacked /\ [Next]_vars => OrderIsBacked'
<1> SUFFICES ASSUME IInv, NoPayout, OrderIsBacked, [Next]_vars PROVE OrderIsBacked'
  OBVIOUS
<1>0. \A o \in Orders : OrderBacked(o)
  BY DEF OrderIsBacked, OrderBacked
<1>1. Grows
  BY NextGrows
<1>2. ASSUME \A o \in Orders : /\ orders'[o] \in {orders[o], AWAITING, ABSENT}
                               /\ orders'[o] # ABSENT =>
                                    \A p \in RowsOf(o) : payStatus'[p] # ABSENT
      PROVE  OrderIsBacked'
  <2>1. \A o \in Orders : OrderBacked(o)'
    BY <1>0, <1>1, <1>2, BackedKept
  <2> QED BY <2>1 DEF OrderIsBacked, OrderBacked
<1>3. CASE UNCHANGED <<orders, payStatus>>
  BY <1>2, <1>3 DEF RowsOf
<1>4. ASSUME NEW w \in Workers, CommitCheckout(w) PROVE OrderIsBacked'
  BY <1>2, <1>4 DEF CommitCheckout, Merged, IInv, TypeOK, RowsOf, CREATED, ABSENT
<1>5. ASSUME NEW o \in Orders, DeleteOrder(o) PROVE OrderIsBacked'
  BY <1>2, <1>5 DEF DeleteOrder, IInv, TypeOK, RowsOf
<1>6. ASSUME NEW w \in Workers, CommitRefund(w) PROVE OrderIsBacked'
  <2> DEFINE p == tx[w].pay
  <2>1. /\ p \in Payments /\ tx[w].order = payOrder[p] /\ payOrder[p] \in Orders
        /\ payStatus[p] # ABSENT /\ "refunded" \in Reports(p)
    BY <1>6, ReportsAre DEF CommitRefund, IInv, TxShape, RefundShape
  <2>2. \A q \in Payments : payStatus[q] # ABSENT => payStatus'[q] # ABSENT
    BY <1>6 DEF CommitRefund, Merged, IInv, TypeOK, PENDING, ABSENT
  <2>3. orders' = [orders EXCEPT ![payOrder[p]] = PENDING] \/ orders' = orders
    BY <1>6, <2>1 DEF CommitRefund, Merged, IInv, TypeOK
  <2>4. PENDING \in DOMAIN Ledger!Backing /\ Ledger!Backing[PENDING] = "refunded"
    BY DEF Ledger!Backing, PENDING
  <2> HIDE DEF p
  <2>5. CASE orders' = orders
    BY <1>2, <2>2, <2>5 DEF RowsOf
  <2>6. CASE orders' = [orders EXCEPT ![payOrder[p]] = PENDING]
    BY <1>1, <2>1, <2>2, <2>4, <2>6, BackedWritten
  <2> QED BY <2>3, <2>5, <2>6
<1>7. ASSUME NEW w \in Workers, CommitWebhook(w) PROVE OrderIsBacked'
  <2> DEFINE p == tx[w].pay
             r == tx[w].read
             status == PaymentAfter(tx[w].status, r)
             s == OrderAfter(tx[w].fin, status, r)
  <2>1. /\ p \in Payments /\ tx[w].order = payOrder[p] /\ payOrder[p] \in Orders
        /\ payStatus[p] # ABSENT /\ r \in Reports(p) /\ r \in MpStatuses
    BY <1>7, ReportsAre DEF CommitWebhook, IInv, TxShape, WebhookShape
  <2>2. status # PAYOUT
    BY <1>7 DEF NoPayout, CommitWebhook, PaymentAfter, PAYOUT, PAID, REFUNDED, DISPUTED, FAILED,
                CANCELLED
  <2>3. status # ABSENT
    BY <1>7, <2>1 DEF IInv, TxShape, WebhookShape, CommitWebhook, PaymentAfter, PayStatuses, Settled,
        PAID, PAYOUT, PENDING, REFUNDED, DISPUTED, FAILED, CANCELLED, CREATED, ABSENT
  <2>4. \A q \in Payments : payStatus[q] # ABSENT => payStatus'[q] # ABSENT
    BY <1>7, <2>3 DEF CommitWebhook, Merged, IInv, TypeOK
  <2>5. orders' = [orders EXCEPT ![payOrder[p]] = Merged(@, tx[w].fin, s)]
    BY <1>7, <2>1 DEF CommitWebhook
  <2>6. s # tx[w].fin => s \in DOMAIN Ledger!Backing /\ Ledger!Backing[s] = r
    BY <2>1, <2>2 DEF OrderAfter, PaymentAfter, MpStatuses, Ledger!Backing, PAID, PAYOUT, REFUNDED,
                      DISPUTED, FAILED, CANCELLED
  <2> HIDE DEF p, r, status, s
  <2>7. CASE s = tx[w].fin
    <3>1. orders' = orders
      BY <2>1, <2>5, <2>7 DEF Merged, IInv, TypeOK
    <3> QED BY <1>2, <2>4, <3>1 DEF RowsOf
  <2>8. CASE s # tx[w].fin
    <3>1. orders' = [orders EXCEPT ![payOrder[p]] = s]
      BY <2>5, <2>8 DEF Merged
    <3> QED BY <1>1, <2>1, <2>4, <2>6, <2>8, <3>1, BackedWritten
  <2> QED BY <2>7, <2>8
<1> QED BY <1>3, <1>4, <1>5, <1>6, <1>7
        DEF Next, vars, db, ConnectAccount, LoadCheckoutOrder, LoadRefundOrder, LoadRefundPayment,
            StartWebhook, InsertPayment, MpAcceptsRefund, FetchMpPayment, LoadWebhookOrder,
            Abort, BuyerPays, MpAdvances, IgnoreWebhook, Redeliver

\* An order's financial status is always explained by one of its payments.
THEOREM OrdersAreBacked == Spec => []OrderIsBacked
<1>1. Init => NoPayout /\ OrderIsBacked
  BY DEF Init, NoPayout, OrderIsBacked, Idle, ABSENT, PAYOUT
<1>2. IInv /\ NoPayout /\ OrderIsBacked /\ [Next]_vars => NoPayout' /\ OrderIsBacked'
  BY NextNoPayout, NextOrderBacked
<1> QED BY <1>1, <1>2, Invariance, PTL DEF Spec

-----------------------------------------------------------------------------
(* The rows mirror MP.  A second invariant, on top of IInv: a row that no stale
   write tore shows one of its payments at MP as it is, or somebody is still to
   hear of that payment. *)

Hooks == {"hook_payment", "hook_fetched", "hook_order"}
Refunds == {"refund_posting", "refund_accepted"}

\* w's webhook will write what MP says of m now.
Watching(w, m) ==
  /\ tx[w].at \in Hooks /\ tx[w].mp = m
  /\ tx[w].at = "hook_payment" \/ tx[w].read = mpStatus[m]

\* m is notified of, or a webhook is on it that has read nothing older.
Awaited(m) == m \in notify \/ \E w \in Workers : Watching(w, m)

\* A payment at MP that is pending was never anything else, and a refunded one
\* remains refunded; nobody pays before an account is connected.
MpSound ==
  /\ \A m \in MpPayments :
       mpOf[m] # NULL => /\ mpStatus[m] = "pending" => mpSeen[m] = {"pending"}
                         /\ "refunded" \in mpSeen[m] => mpStatus[m] = "refunded"
  /\ urls # {} => connected
  /\ \A w \in Workers : tx[w].at = "checkout_posting" => connected

\* What a request that no commit made stale has read is still so; what MP changed
\* since is awaited.
FreshSound(w) ==
  ~tx[w].stale =>
    /\ tx[w].at \in Hooks \cup Refunds => payStatus[tx[w].pay] \in {tx[w].status, ABSENT}
    /\ tx[w].at \in Refunds \cup {"refund_order", "hook_order"} => orders[tx[w].order] \in {tx[w].fin, ABSENT}
    /\ tx[w].at \in {"hook_fetched", "hook_order"} /\ payStatus[tx[w].pay] # ABSENT =>
         tx[w].read = mpStatus[tx[w].mp] \/ Awaited(tx[w].mp)
    /\ tx[w].at = "refund_accepted" /\ payStatus[tx[w].pay] # ABSENT => Awaited(tx[w].payMp)

Shows(p, m) == payStatus[p] = PaymentAfter(CREATED, mpStatus[m])

\* A row shows one of its payments at MP as it is, or that one is awaited; a row that
\* shows nothing awaits them all; and "refunded", which stays, is so at MP.
RowMirrors(p) ==
  p \notin torn =>
    /\ payStatus[p] = CREATED => \A m \in Attempts(p) : mpStatus[m] # "pending" => Awaited(m)
    /\ payStatus[p] \notin {CREATED, ABSENT} =>
         \E m \in Attempts(p) : mpStatus[m] # "pending" /\ (Awaited(m) \/ Shows(p, m))
    /\ payStatus[p] = REFUNDED => \E m \in Attempts(p) : mpStatus[m] = "refunded"

\* The pairs of statuses that an order and its only payment can have.
Agree(fin, status) ==
  fin = status \/ (status = CREATED /\ fin = AWAITING) \/ (status = REFUNDED /\ fin = PAID)

OnlyRowAgrees(o) ==
  \A p \in Payments \ torn : RowsOf(o) = {p} => Agree(orders[o], payStatus[p])

MirrorInv ==
  /\ MpSound
  /\ \A w \in Workers : FreshSound(w)
  /\ \A p \in Payments : RowMirrors(p)
  /\ \A o \in Orders : OnlyRowAgrees(o)

-----------------------------------------------------------------------------
(* What MP shows of a payment, and what is still to be read of it *)

\* A step takes an MP payment further only by notifying of it, and what is awaited
\* remains so as long as its row is there.
MpMoves(m) ==
  mpOf[m] # NULL =>
    /\ mpOf'[m] = mpOf[m]
    /\ mpStatus'[m] = mpStatus[m] \/ (m \in notify' /\ mpStatus'[m] # "pending")
    /\ mpStatus[m] = "refunded" => mpStatus'[m] = "refunded"
    /\ Awaited(m) /\ payStatus'[mpOf[m]] # ABSENT => Awaited(m)'

\* v's request has read nothing that the step makes untrue.
StillFresh(v) ==
  /\ tx'[v].stale = tx[v].stale
  /\ tx[v].at \in Hooks \cup Refunds => payStatus'[tx[v].pay] \in {payStatus[tx[v].pay], ABSENT}
  /\ tx[v].at \in Refunds \cup {"refund_order", "hook_order"} =>
       orders'[tx[v].order] \in {orders[tx[v].order], ABSENT}
  /\ tx[v].at \in Hooks => MpMoves(tx[v].mp)
  /\ tx[v].at \in Refunds => MpMoves(tx[v].payMp)

LEMMA FreshKept ==
  ASSUME IInv, NEW v \in Workers, FreshSound(v), SameRequest(v), tx'[v].stale \/ StillFresh(v)
  PROVE  FreshSound(v)'
<1> SUFFICES ASSUME ~tx'[v].stale
             PROVE  FreshSound(v)'
  BY DEF FreshSound
<1>1. StillFresh(v) /\ ~tx[v].stale
  BY DEF StillFresh
<1>2. /\ tx[v].at \in Hooks => mpOf[tx[v].mp] = tx[v].pay /\ tx[v].pay \in Payments
      /\ tx[v].at \in Refunds => mpOf[tx[v].payMp] = tx[v].pay /\ tx[v].pay \in Payments
  BY DEF IInv, TxShape, RefundShape, WebhookShape, Hooks, Refunds
<1>3. tx'[v].at \in Hooks \cup Refunds => payStatus'[tx'[v].pay] \in {tx'[v].status, ABSENT}
  BY <1>1 DEF SameRequest, StillFresh, FreshSound
<1>4. tx'[v].at \in Refunds \cup {"refund_order", "hook_order"} =>
        orders'[tx'[v].order] \in {tx'[v].fin, ABSENT}
  BY <1>1 DEF SameRequest, StillFresh, FreshSound
<1>5. ASSUME tx'[v].at \in {"hook_fetched", "hook_order"}, payStatus'[tx'[v].pay] # ABSENT
      PROVE  (tx[v].read = mpStatus[tx[v].mp] \/ Awaited(tx[v].mp))'
  <2>1. /\ tx[v].at \in {"hook_fetched", "hook_order"} /\ tx[v].at \in Hooks
        /\ payStatus[tx[v].pay] # ABSENT
    BY <1>1, <1>2, <1>5 DEF SameRequest, StillFresh, Hooks
  <2> PICK m \in MpPayments : m = tx[v].mp
    BY <2>1 DEF IInv, TxShape, WebhookShape, Hooks
  <2>2. MpMoves(m) /\ mpOf[m] # NULL /\ payStatus'[mpOf[m]] # ABSENT
    BY <1>1, <1>2, <1>5, <2>1 DEF StillFresh, SameRequest
  <2>3. tx[v].read = mpStatus[m] \/ Awaited(m)
    BY <1>1, <2>1 DEF FreshSound
  <2>4. m \in notify' => Awaited(m)'
    BY DEF Awaited
  <2>5. tx[v].read = mpStatus'[m] \/ Awaited(m)'
    BY <2>1, <2>2, <2>3, <2>4 DEF MpMoves
  <2>6. tx'[v].mp = m /\ tx'[v].read = tx[v].read
    BY DEF SameRequest
  <2> QED BY <2>5, <2>6 DEF Awaited, Watching
<1>6. ASSUME tx'[v].at = "refund_accepted", payStatus'[tx'[v].pay] # ABSENT
      PROVE  Awaited(tx[v].payMp)'
  <2>1. /\ tx[v].at = "refund_accepted" /\ tx[v].at \in Refunds
        /\ payStatus[tx[v].pay] # ABSENT
    BY <1>1, <1>2, <1>6 DEF SameRequest, StillFresh, Refunds
  <2> PICK m \in MpPayments : m = tx[v].payMp
    BY <2>1 DEF IInv, TxShape, RefundShape
  <2>2. MpMoves(m) /\ mpOf[m] # NULL /\ payStatus'[mpOf[m]] # ABSENT
    BY <1>1, <1>2, <1>6, <2>1 DEF StillFresh, SameRequest
  <2>3. Awaited(m)'
    BY <1>1, <2>1, <2>2 DEF FreshSound, MpMoves
  <2>4. tx'[v].payMp = m
    BY DEF SameRequest
  <2> QED BY <2>3, <2>4 DEF Awaited, Watching
<1> QED BY <1>3, <1>4, <1>5, <1>6 DEF FreshSound

\* A step that writes no row leaves them as true as they were.
LEMMA RowsKept ==
  ASSUME IInv, MirrorInv, UNCHANGED <<payStatus, payOrder, orders, torn>>,
         \A m \in MpPayments : MpMoves(m) /\ (mpOf[m] = NULL /\ mpOf'[m] # NULL => m \in notify')
  PROVE  /\ \A p \in Payments : RowMirrors(p)'
         /\ \A o \in Orders : OnlyRowAgrees(o)'
<1>1. ASSUME NEW p \in Payments, p \notin torn PROVE RowMirrors(p)'
  <2>1. /\ payStatus[p] = CREATED => \A m \in Attempts(p) : mpStatus[m] # "pending" => Awaited(m)
        /\ payStatus[p] \notin {CREATED, ABSENT} =>
             \E m \in Attempts(p) : mpStatus[m] # "pending" /\ (Awaited(m) \/ Shows(p, m))
        /\ payStatus[p] = REFUNDED => \E m \in Attempts(p) : mpStatus[m] = "refunded"
    BY <1>1 DEF MirrorInv, RowMirrors
  <2>2. \A m \in Attempts(p) : m \in MpPayments /\ mpOf[m] = p /\ p # NULL
    BY DEF Attempts
  <2>3. \A m \in MpPayments : m \in notify' => Awaited(m)'
    BY DEF Awaited
  <2>4. ASSUME payStatus'[p] = CREATED, NEW m \in Attempts(p)', mpStatus'[m] # "pending" PROVE Awaited(m)'
    <3>1. m \in MpPayments /\ mpOf'[m] = p /\ p # NULL /\ payStatus[p] = CREATED /\ payStatus'[p] # ABSENT
      BY <2>4 DEF Attempts, CREATED, ABSENT
    <3>2. CASE mpOf[m] = NULL
      BY <2>3, <3>1, <3>2
    <3>3. CASE mpOf[m] # NULL
      <4>1. mpOf[m] = p /\ m \in Attempts(p)
        BY <3>1, <3>3 DEF MpMoves, Attempts
      <4> QED BY <2>1, <2>3, <2>4, <3>1, <3>3, <4>1 DEF MpMoves
    <3> QED BY <3>2, <3>3
  <2>5. ASSUME payStatus'[p] \notin {CREATED, ABSENT}
        PROVE  \E m \in Attempts(p)' : mpStatus'[m] # "pending" /\ (Awaited(m)' \/ Shows(p, m)')
    <3>1. PICK m \in Attempts(p) : mpStatus[m] # "pending" /\ (Awaited(m) \/ Shows(p, m))
      BY <2>1, <2>5
    <3>2. m \in MpPayments /\ mpOf[m] = p /\ mpOf[m] # NULL /\ MpMoves(m) /\ payStatus'[mpOf[m]] # ABSENT
      BY <2>2, <2>5
    <3>3. m \in Attempts(p)'
      BY <3>2 DEF MpMoves, Attempts
    <3>4. mpStatus'[m] # "pending" /\ (Awaited(m)' \/ Shows(p, m)')
      BY <2>3, <3>1, <3>2 DEF MpMoves, Shows
    <3> QED BY <3>3, <3>4
  <2>6. ASSUME payStatus'[p] = REFUNDED PROVE \E m \in Attempts(p)' : mpStatus'[m] = "refunded"
    <3>1. PICK m \in Attempts(p) : mpStatus[m] = "refunded"
      BY <2>1, <2>6
    <3> QED BY <2>2, <3>1 DEF MpMoves, Attempts
  <2> QED BY <2>4, <2>5, <2>6 DEF RowMirrors
<1>2. \A p \in Payments : RowMirrors(p)'
  BY <1>1 DEF RowMirrors
<1>3. \A o \in Orders : OnlyRowAgrees(o)'
  BY DEF MirrorInv, OnlyRowAgrees, RowsOf, Agree
<1> QED BY <1>2, <1>3

-----------------------------------------------------------------------------
(* Requests that read *)

\* What w's request is about to know holds, if no commit made it stale.
Sees(t) ==
  ~t.stale =>
    /\ t.at \in Hooks \cup Refunds => payStatus[t.pay] \in {t.status, ABSENT}
    /\ t.at \in Refunds \cup {"refund_order", "hook_order"} => orders[t.order] \in {t.fin, ABSENT}
    /\ t.at \in {"hook_fetched", "hook_order"} /\ payStatus[t.pay] # ABSENT =>
         t.read = mpStatus[t.mp] \/ Awaited(t.mp)
    /\ t.at # "refund_accepted"

Watches(t, m) == t.at \in Hooks /\ t.mp = m /\ (t.at = "hook_payment" \/ t.read = mpStatus[m])

\* A request reads, begins or is rolled back, and lets go of no notification.
LEMMA ReadingStep ==
  ASSUME IInv, MirrorInv, NEW w \in Workers, NEW t \in TxType, tx' = [tx EXCEPT ![w] = t],
         UNCHANGED <<connected, db, urls, mp, torn>>,
         \A m \in MpPayments : m \in notify \/ Watching(w, m) => m \in notify' \/ Watches(t, m),
         Sees(t), t.at \in Hooks => t.mp \in MpPayments, t.at = "checkout_posting" => connected
  PROVE  MirrorInv'
<1>0. tx'[w] = t /\ \A v \in Workers \ {w} : tx'[v] = tx[v]
  BY DEF IInv, TypeOK
<1>1. ASSUME NEW m, m \in notify \/ Watching(w, m) => m \in notify' \/ Watches(t, m), Awaited(m)
      PROVE  Awaited(m)'
  <2>1. mpStatus'[m] = mpStatus[m]
    BY DEF mp
  <2>2. Watches(t, m) => Awaited(m)'
    BY <1>0, <2>1 DEF Awaited, Watching, Watches
  <2>3. ASSUME NEW v \in Workers \ {w}, Watching(v, m) PROVE Awaited(m)'
    BY <1>0, <2>1, <2>3 DEF Awaited, Watching
  <2>4. m \in notify' => Awaited(m)'
    BY DEF Awaited
  <2> QED BY <1>1, <2>2, <2>3, <2>4 DEF Awaited
<1>2. ASSUME NEW m \in MpPayments PROVE MpMoves(m)
  BY <1>1 DEF MpMoves, mp
<1>3. (\A p \in Payments : RowMirrors(p)') /\ (\A o \in Orders : OnlyRowAgrees(o)')
  BY <1>2, RowsKept DEF db, mp
<1>4. ASSUME NEW v \in Workers \ {w} PROVE FreshSound(v)'
  <2>1. FreshSound(v) /\ tx'[v] = tx[v] /\ SameRequest(v)
    BY <1>0 DEF MirrorInv, SameRequest
  <2>2. /\ tx[v].at \in Hooks => tx[v].mp \in MpPayments
        /\ tx[v].at \in Refunds => tx[v].payMp \in MpPayments
    BY DEF IInv, TxShape, RefundShape, WebhookShape, Hooks, Refunds
  <2>3. StillFresh(v)
    BY <1>2, <2>1, <2>2 DEF StillFresh, db
  <2> QED BY <2>1, <2>3, FreshKept
<1>5. FreshSound(w)'
  <2>1. ASSUME t.at \in {"hook_fetched", "hook_order"}, payStatus[t.pay] # ABSENT, ~t.stale
        PROVE  t.read = mpStatus[t.mp] \/ Awaited(t.mp)'
    <3>1. t.mp \in MpPayments
      BY <2>1 DEF Hooks
    <3> QED BY <1>1, <2>1, <3>1 DEF Sees
  <2> QED BY <1>0, <2>1 DEF Sees, FreshSound, db, mp
<1>6. MpSound'
  BY <1>0 DEF MirrorInv, MpSound, mp
<1> QED BY <1>3, <1>4, <1>5, <1>6 DEF MirrorInv

LEMMA LoadCheckoutOrderMirrors ==
  ASSUME IInv, MirrorInv, NEW w \in Workers, NEW o \in Orders, LoadCheckoutOrder(w, o)
  PROVE  MirrorInv'
<1> DEFINE t == [Idle EXCEPT !.at = "checkout_order", !.order = o,
                            !.fin = orders[o], !.pay = begun + 1]
<1>1. tx' = [tx EXCEPT ![w] = t] /\ begun + 1 \in Payments /\ orders[o] \in FinStatuses
  BY DEF IInv, TypeOK, LoadCheckoutOrder
<1>2. t \in TxType /\ t.at = "checkout_order"
  BY <1>1 DEF TxType, Idle, Requests
<1> HIDE DEF t
<1>3. Sees(t) /\ t.at \notin Hooks
  BY <1>2 DEF Sees, Hooks, Refunds
<1>4. \A m \in MpPayments : ~Watching(w, m)
  BY DEF LoadCheckoutOrder, Watching, Hooks
<1> QED BY <1>1, <1>2, <1>3, <1>4, ReadingStep DEF LoadCheckoutOrder

LEMMA LoadRefundOrderMirrors ==
  ASSUME IInv, MirrorInv, NEW w \in Workers, NEW o \in Orders, LoadRefundOrder(w, o)
  PROVE  MirrorInv'
<1> DEFINE t == [Idle EXCEPT !.at = "refund_order", !.order = o, !.fin = orders[o]]
<1>1. tx' = [tx EXCEPT ![w] = t] /\ orders[o] \in FinStatuses
  BY DEF IInv, TypeOK, LoadRefundOrder
<1>2. t \in TxType /\ t.at = "refund_order" /\ t.order = o /\ t.fin = orders[o]
  BY <1>1 DEF TxType, Idle, Requests
<1> HIDE DEF t
<1>3. Sees(t) /\ t.at \notin Hooks
  BY <1>2 DEF Sees, Hooks, Refunds
<1>4. \A m \in MpPayments : ~Watching(w, m)
  BY DEF LoadRefundOrder, Watching, Hooks
<1> QED BY <1>1, <1>2, <1>3, <1>4, ReadingStep DEF LoadRefundOrder

LEMMA InsertPaymentMirrors ==
  ASSUME IInv, MirrorInv, NEW w \in Workers, InsertPayment(w)
  PROVE  MirrorInv'
<1> DEFINE t == [tx[w] EXCEPT !.at = "checkout_posting"]
<1>1. tx' = [tx EXCEPT ![w] = t] /\ tx[w] \in TxType /\ connected
  BY DEF IInv, TypeOK, InsertPayment
<1>2. t \in TxType /\ t.at = "checkout_posting"
  BY <1>1 DEF TxType, Requests
<1> HIDE DEF t
<1>3. Sees(t) /\ t.at \notin Hooks
  BY <1>2 DEF Sees, Hooks, Refunds
<1>4. \A m \in MpPayments : ~Watching(w, m)
  BY DEF InsertPayment, Watching, Hooks
<1> QED BY <1>1, <1>2, <1>3, <1>4, ReadingStep DEF InsertPayment

LEMMA LoadRefundPaymentMirrors ==
  ASSUME IInv, MirrorInv, NEW w \in Workers, NEW p \in Payments, LoadRefundPayment(w, p)
  PROVE  MirrorInv'
<1> DEFINE t == [tx[w] EXCEPT !.at = "refund_posting", !.pay = p,
                              !.status = payStatus[p], !.payMp = payMp[p]]
<1>1. /\ tx' = [tx EXCEPT ![w] = t] /\ tx[w] \in TxType /\ tx[w].at = "refund_order"
      /\ payStatus[p] \in PayStatuses /\ payMp[p] \in MpPayments \cup {NULL}
  BY DEF IInv, TypeOK, LoadRefundPayment, PAID, PAYOUT, PayStatuses, Settled
<1>2. /\ t \in TxType /\ t.at = "refund_posting" /\ t.pay = p /\ t.status = payStatus[p]
      /\ t.order = tx[w].order /\ t.fin = tx[w].fin /\ t.stale = tx[w].stale
  BY <1>1 DEF TxType, Requests
<1> HIDE DEF t
<1>3. ~tx[w].stale => orders[tx[w].order] \in {tx[w].fin, ABSENT}
  BY <1>1 DEF MirrorInv, FreshSound
<1>4. Sees(t) /\ t.at \notin Hooks
  BY <1>2, <1>3 DEF Sees, Hooks, Refunds
<1>5. \A m \in MpPayments : ~Watching(w, m)
  BY DEF LoadRefundPayment, Watching, Hooks
<1> QED BY <1>1, <1>2, <1>4, <1>5, ReadingStep DEF LoadRefundPayment

LEMMA StartWebhookMirrors ==
  ASSUME IInv, MirrorInv, NEW w \in Workers, NEW m \in MpPayments, StartWebhook(w, m)
  PROVE  MirrorInv'
<1> PICK p \in Payments :
      /\ Names(p, m)
      /\ tx' = [tx EXCEPT ![w] = [Idle EXCEPT !.at = "hook_payment", !.pay = p, !.mp = m,
                                              !.status = payStatus[p], !.payMp = payMp[p]]]
  BY DEF StartWebhook
<1> DEFINE t == [Idle EXCEPT !.at = "hook_payment", !.pay = p, !.mp = m,
                             !.status = payStatus[p], !.payMp = payMp[p]]
<1>1. /\ tx' = [tx EXCEPT ![w] = t] /\ payStatus[p] \in PayStatuses
      /\ payMp[p] \in MpPayments \cup {NULL}
  BY DEF IInv, TypeOK, Names
<1>2. /\ t \in TxType /\ t.at = "hook_payment" /\ t.mp = m
      /\ t.pay = p /\ t.status = payStatus[p]
  BY <1>1 DEF TxType, Idle, Requests
<1> HIDE DEF t
<1>3. Sees(t)
  BY <1>2 DEF Sees, Refunds
<1>4. Watches(t, m) /\ \A n \in MpPayments : ~Watching(w, n)
  BY <1>2 DEF StartWebhook, Watches, Watching, Hooks
<1>5. \A n \in MpPayments : n \in notify \/ Watching(w, n) => n \in notify' \/ Watches(t, n)
  BY <1>4 DEF StartWebhook
<1> QED BY <1>1, <1>2, <1>3, <1>5, ReadingStep DEF StartWebhook

LEMMA FetchMpPaymentMirrors ==
  ASSUME IInv, MirrorInv, NEW w \in Workers, FetchMpPayment(w)
  PROVE  MirrorInv'
<1> DEFINE t == [tx[w] EXCEPT !.at = "hook_fetched", !.read = mpStatus[tx[w].mp]]
<1>1. /\ tx' = [tx EXCEPT ![w] = t] /\ tx[w] \in TxType /\ tx[w].at = "hook_payment"
      /\ tx[w].mp \in MpPayments /\ mpStatus[tx[w].mp] \in MpStatuses
  <2>1. tx[w] \in TxType /\ tx[w].at = "hook_payment" /\ tx[w].mp \in MpPayments
    BY DEF IInv, TypeOK, FetchMpPayment, TxShape, WebhookShape
  <2> QED BY <2>1 DEF IInv, TypeOK, FetchMpPayment
<1>2. /\ t \in TxType /\ t.at = "hook_fetched" /\ t.mp = tx[w].mp /\ t.read = mpStatus[t.mp]
      /\ t.pay = tx[w].pay /\ t.status = tx[w].status /\ t.stale = tx[w].stale
  BY <1>1 DEF TxType, Requests
<1> HIDE DEF t
<1>3. ~tx[w].stale => payStatus[tx[w].pay] \in {tx[w].status, ABSENT}
  BY <1>1 DEF MirrorInv, FreshSound, Hooks
<1>4. Sees(t)
  BY <1>2, <1>3 DEF Sees, Refunds
<1>5. \A m \in MpPayments : Watching(w, m) => Watches(t, m)
  BY <1>2 DEF Watches, Watching, Hooks
<1> QED BY <1>1, <1>2, <1>4, <1>5, ReadingStep DEF FetchMpPayment

LEMMA LoadWebhookOrderMirrors ==
  ASSUME IInv, MirrorInv, NEW w \in Workers, LoadWebhookOrder(w)
  PROVE  MirrorInv'
<1> DEFINE o == payOrder[tx[w].pay]
           t == [tx[w] EXCEPT !.at = "hook_order", !.order = o, !.fin = orders[o]]
<1>1. /\ tx' = [tx EXCEPT ![w] = t] /\ tx[w] \in TxType /\ tx[w].at = "hook_fetched"
      /\ tx[w].mp \in MpPayments /\ o \in Orders /\ orders[o] \in FinStatuses
  <2>1. tx[w] \in TxType /\ tx[w].at = "hook_fetched" /\ tx[w].mp \in MpPayments /\ o \in Orders
    BY DEF IInv, TypeOK, LoadWebhookOrder, TxShape, WebhookShape
  <2> QED BY <2>1 DEF IInv, TypeOK, LoadWebhookOrder
<1> HIDE DEF o
<1>2. /\ t \in TxType /\ t.at = "hook_order" /\ t.mp = tx[w].mp /\ t.read = tx[w].read
      /\ t.order = o /\ t.fin = orders[o]
      /\ t.pay = tx[w].pay /\ t.status = tx[w].status /\ t.stale = tx[w].stale
  BY <1>1 DEF TxType, Requests
<1> HIDE DEF t
<1>3. ~tx[w].stale =>
        /\ payStatus[tx[w].pay] \in {tx[w].status, ABSENT}
        /\ payStatus[tx[w].pay] # ABSENT => tx[w].read = mpStatus[tx[w].mp] \/ Awaited(tx[w].mp)
  BY <1>1 DEF MirrorInv, FreshSound, Hooks
<1>4. Sees(t)
  BY <1>2, <1>3 DEF Sees, Refunds
<1>5. \A m \in MpPayments : Watching(w, m) => Watches(t, m)
  BY <1>1, <1>2 DEF Watches, Watching, Hooks
<1> QED BY <1>1, <1>2, <1>4, <1>5, ReadingStep DEF LoadWebhookOrder

LEMMA AbortMirrors ==
  ASSUME IInv, MirrorInv, NEW w \in Workers, Abort(w)
  PROVE  MirrorInv'
<1>1. Idle \in TxType /\ Idle.at = "idle"
  BY IdleType DEF Idle
<1>2. Sees(Idle) /\ Idle.at \notin Hooks
  BY <1>1 DEF Sees, Hooks, Refunds
<1>3. \A m \in MpPayments : m \in notify \/ Watching(w, m) => m \in notify'
  BY DEF Abort, Watching
<1> QED BY <1>1, <1>2, <1>3, ReadingStep DEF Abort

-----------------------------------------------------------------------------
(* MP, the buyers, and the deletion of an order *)

LEMMA AwaitedKept ==
  ASSUME NEW m, UNCHANGED tx, m \in notify => m \in notify', mpStatus'[m] = mpStatus[m], Awaited(m)
  PROVE  Awaited(m)'
  BY DEF Awaited, Watching

LEMMA MpStep ==
  ASSUME IInv, MirrorInv, UNCHANGED <<db, torn, tx>>, MpSound',
         \A m \in MpPayments : MpMoves(m) /\ (mpOf[m] = NULL /\ mpOf'[m] # NULL => m \in notify')
  PROVE  MirrorInv'
<1>1. (\A p \in Payments : RowMirrors(p)') /\ (\A o \in Orders : OnlyRowAgrees(o)')
  BY RowsKept DEF db
<1>2. ASSUME NEW v \in Workers PROVE FreshSound(v)'
  <2>1. FreshSound(v) /\ SameRequest(v)
    BY DEF MirrorInv, SameRequest
  <2>2. /\ tx[v].at \in Hooks => tx[v].mp \in MpPayments
        /\ tx[v].at \in Refunds => tx[v].payMp \in MpPayments
    BY DEF IInv, TxShape, RefundShape, WebhookShape, Hooks, Refunds
  <2>3. StillFresh(v)
    BY <2>1, <2>2 DEF StillFresh, db
  <2> QED BY <2>1, <2>3, FreshKept
<1> QED BY <1>1, <1>2 DEF MirrorInv

LEMMA ConnectAccountMirrors ==
  ASSUME IInv, MirrorInv, ConnectAccount
  PROVE  MirrorInv'
<1>1. ASSUME NEW m \in MpPayments PROVE MpMoves(m) /\ mpOf'[m] = mpOf[m]
  BY AwaitedKept DEF ConnectAccount, mp, MpMoves
<1>2. MpSound'
  BY DEF ConnectAccount, mp, MirrorInv, MpSound
<1> QED BY <1>1, <1>2, MpStep DEF ConnectAccount

LEMMA BuyerPaysMirrors ==
  ASSUME IInv, MirrorInv, NEW m \in MpPayments, NEW p \in Payments,
         NEW s \in {"pending", "approved", "rejected"}, BuyerPays(m, p, s)
  PROVE  MirrorInv'
<1>1. ASSUME NEW n \in MpPayments PROVE MpMoves(n) /\ (mpOf[n] = NULL /\ mpOf'[n] # NULL => n \in notify')
  <2>1. CASE n = m
    BY <2>1 DEF BuyerPays, MpMoves
  <2>2. CASE n # m
    <3>1. mpOf'[n] = mpOf[n] /\ mpStatus'[n] = mpStatus[n] /\ (n \in notify => n \in notify')
      BY <2>2 DEF BuyerPays, IInv, TypeOK
    <3> QED BY <3>1, AwaitedKept DEF BuyerPays, MpMoves
  <2> QED BY <2>1, <2>2
<1>2. MpSound'
  BY DEF BuyerPays, MirrorInv, MpSound, IInv, TypeOK
<1> QED BY <1>1, <1>2, MpStep DEF BuyerPays

LEMMA MpAdvancesMirrors ==
  ASSUME IInv, MirrorInv, NEW m \in MpPayments, NEW s \in MpStatuses, MpAdvances(m, s)
  PROVE  MirrorInv'
<1>0. /\ mpStatus[m] \in MpStatuses /\ s \in MpNext[mpStatus[m]] /\ s # "pending"
      /\ mpStatus[m] # "refunded" /\ (mpStatus[m] = "refunded" => s = "refunded")
      /\ mpOf[m] # NULL
  <2>1. mpStatus[m] \in MpStatuses /\ s \in MpNext[mpStatus[m]] /\ mpOf[m] # NULL
    BY DEF MpAdvances, IInv, TypeOK
  <2> QED BY <2>1 DEF MpNext, MpStatuses
<1>1. ASSUME NEW n \in MpPayments PROVE MpMoves(n) /\ mpOf'[n] = mpOf[n]
  <2>1. CASE n = m
    <3>1. mpOf'[m] = mpOf[m] /\ mpStatus'[m] = s /\ m \in notify'
      BY DEF MpAdvances, IInv, TypeOK
    <3> QED BY <1>0, <2>1, <3>1 DEF MpMoves, Awaited
  <2>2. CASE n # m
    <3>1. mpOf'[n] = mpOf[n] /\ mpStatus'[n] = mpStatus[n] /\ (n \in notify => n \in notify')
      BY <2>2 DEF MpAdvances, IInv, TypeOK
    <3> QED BY <3>1, AwaitedKept DEF MpAdvances, MpMoves
  <2> QED BY <2>1, <2>2
<1>2. MpSound'
  <2>1. ASSUME NEW n \in MpPayments, mpOf'[n] # NULL
        PROVE  /\ mpStatus'[n] = "pending" => mpSeen'[n] = {"pending"}
               /\ "refunded" \in mpSeen'[n] => mpStatus'[n] = "refunded"
    <3>1. CASE n = m
      <4>1. mpStatus'[m] = s /\ mpSeen'[m] = mpSeen[m] \cup {s}
        BY DEF MpAdvances, IInv, TypeOK
      <4> QED BY <1>0, <3>1, <4>1 DEF MirrorInv, MpSound
    <3>2. CASE n # m
      BY <2>1, <3>2 DEF MpAdvances, IInv, TypeOK, MirrorInv, MpSound
    <3> QED BY <3>1, <3>2
  <2> QED BY <2>1 DEF MpAdvances, MirrorInv, MpSound
<1> QED BY <1>1, <1>2, MpStep DEF MpAdvances

LEMMA RedeliverMirrors ==
  ASSUME IInv, MirrorInv, NEW m \in MpPayments, Redeliver(m)
  PROVE  MirrorInv'
<1>1. ASSUME NEW n \in MpPayments PROVE MpMoves(n) /\ mpOf'[n] = mpOf[n]
  BY AwaitedKept DEF Redeliver, mp, MpMoves
<1>2. MpSound'
  BY DEF Redeliver, mp, MirrorInv, MpSound
<1> QED BY <1>1, <1>2, MpStep DEF Redeliver

\* No notification of a payment whose row is there is ignored.
LEMMA IgnoreWebhookMirrors ==
  ASSUME IInv, MirrorInv, NEW m \in MpPayments, IgnoreWebhook(m)
  PROVE  MirrorInv'
<1>1. ASSUME NEW n \in MpPayments PROVE MpMoves(n) /\ mpOf'[n] = mpOf[n]
  <2>1. CASE n = m
    <3>1. ASSUME mpOf[m] # NULL PROVE payStatus[mpOf[m]] = ABSENT
      <4>1. mpOf[m] \in Payments /\ mpOf[m] \in urls
        BY <3>1 DEF IInv, TypeOK, MpShape
      <4>2. connected
        BY <4>1 DEF MirrorInv, MpSound
      <4> QED BY <4>1, <4>2 DEF IgnoreWebhook, Names
    <3> QED BY <2>1, <3>1 DEF IgnoreWebhook, MpMoves, mp, db
  <2>2. CASE n # m
    BY <2>2, AwaitedKept DEF IgnoreWebhook, mp, MpMoves
  <2> QED BY <2>1, <2>2
<1>2. MpSound'
  BY DEF IgnoreWebhook, mp, MirrorInv, MpSound
<1> QED BY <1>1, <1>2, MpStep DEF IgnoreWebhook

LEMMA MpAcceptsRefundMirrors ==
  ASSUME IInv, MirrorInv, NEW w \in Workers, MpAcceptsRefund(w)
  PROVE  MirrorInv'
<1> PICK m \in MpPayments : m = tx[w].payMp
  BY DEF MpAcceptsRefund, IInv, TxShape, RefundShape
<1>1. /\ tx[w].at = "refund_posting" /\ mpStatus[m] = "approved" /\ mpOf[m] = tx[w].pay
      /\ mpStatus' = [mpStatus EXCEPT ![m] = "refunded"]
      /\ mpSeen' = [mpSeen EXCEPT ![m] = @ \cup {"refunded"}]
      /\ notify' = notify \cup {m} /\ mpOf' = mpOf
      /\ tx' = [tx EXCEPT ![w].at = "refund_accepted"] /\ tx[w] \in TxType
      /\ UNCHANGED <<connected, db, urls, torn>>
  BY DEF MpAcceptsRefund, IInv, TypeOK, TxShape, RefundShape
<1>2. /\ tx'[w] = [tx[w] EXCEPT !.at = "refund_accepted"]
      /\ \A v \in Workers \ {w} : tx'[v] = tx[v]
  BY <1>1 DEF IInv, TypeOK
<1>3. /\ mpStatus'[m] = "refunded" /\ mpSeen'[m] = mpSeen[m] \cup {"refunded"}
      /\ \A n \in MpPayments \ {m} : mpStatus'[n] = mpStatus[n] /\ mpSeen'[n] = mpSeen[n]
  BY <1>1 DEF IInv, TypeOK
<1>4. ASSUME NEW n \in MpPayments PROVE MpMoves(n) /\ mpOf'[n] = mpOf[n]
  <2>1. CASE n = m
    BY <1>1, <1>3, <2>1 DEF MpMoves, Awaited
  <2>2. CASE n # m
    <3>1. ASSUME NEW v \in Workers, Watching(v, n) PROVE Watching(v, n)'
      <4>1. v # w
        BY <1>1, <3>1 DEF Watching, Hooks
      <4> QED BY <1>2, <1>3, <2>2, <3>1, <4>1 DEF Watching
    <3>2. Awaited(n) => Awaited(n)'
      BY <1>1, <3>1 DEF Awaited
    <3> QED BY <1>1, <1>3, <2>2, <3>2 DEF MpMoves
  <2> QED BY <2>1, <2>2
<1>5. (\A p \in Payments : RowMirrors(p)') /\ (\A o \in Orders : OnlyRowAgrees(o)')
  BY <1>1, <1>4, RowsKept DEF db
<1>6. ASSUME NEW v \in Workers \ {w} PROVE FreshSound(v)'
  <2>1. FreshSound(v) /\ tx'[v] = tx[v] /\ SameRequest(v)
    BY <1>2 DEF MirrorInv, SameRequest
  <2>2. /\ tx[v].at \in Hooks => tx[v].mp \in MpPayments
        /\ tx[v].at \in Refunds => tx[v].payMp \in MpPayments
    BY DEF IInv, TxShape, RefundShape, WebhookShape, Hooks, Refunds
  <2>3. StillFresh(v)
    BY <1>1, <1>4, <2>1, <2>2 DEF StillFresh, db
  <2> QED BY <2>1, <2>3, FreshKept
<1>7. FreshSound(w)'
  <2>1. /\ tx'[w].at = "refund_accepted" /\ tx'[w].stale = tx[w].stale /\ tx'[w].pay = tx[w].pay
        /\ tx'[w].status = tx[w].status /\ tx'[w].order = tx[w].order /\ tx'[w].fin = tx[w].fin
        /\ tx'[w].payMp = m
    BY <1>1, <1>2 DEF TxType
  <2>2. ~tx[w].stale => /\ payStatus[tx[w].pay] \in {tx[w].status, ABSENT}
                        /\ orders[tx[w].order] \in {tx[w].fin, ABSENT}
    BY <1>1 DEF MirrorInv, FreshSound, Refunds
  <2>3. Awaited(tx[w].payMp)'
    BY <1>1, <2>1 DEF Awaited
  <2> QED BY <1>1, <2>1, <2>2, <2>3 DEF FreshSound, db
<1>8. MpSound'
  <2>1. \A v \in Workers : tx'[v].at = "checkout_posting" => tx[v].at = "checkout_posting"
    BY <1>1, <1>2 DEF TxType
  <2> QED BY <1>1, <1>3, <2>1 DEF MirrorInv, MpSound
<1> QED BY <1>5, <1>6, <1>7, <1>8 DEF MirrorInv

LEMMA DeleteOrderMirrors ==
  ASSUME IInv, MirrorInv, NEW o \in Orders, DeleteOrder(o)
  PROVE  MirrorInv'
<1>1. /\ UNCHANGED <<connected, payOrder, urls, mpOf, mpStatus, mpSeen, notify, tx, torn>>
      /\ \A p \in Payments : payStatus'[p] = IF payOrder[p] = o THEN ABSENT ELSE payStatus[p]
      /\ orders'[o] = ABSENT /\ \A q \in Orders \ {o} : orders'[q] = orders[q]
  BY DEF DeleteOrder, mp, IInv, TypeOK
<1>2. \A m : Awaited(m)' <=> Awaited(m)
  BY <1>1 DEF Awaited, Watching
<1>3. ASSUME NEW v \in Workers PROVE FreshSound(v)'
  <2>1. FreshSound(v) /\ SameRequest(v)
    BY <1>1 DEF MirrorInv, SameRequest
  <2>2. \A m \in MpPayments : MpMoves(m)
    BY <1>1, <1>2 DEF MpMoves
  <2>3. /\ tx[v].at \in Hooks => tx[v].mp \in MpPayments /\ tx[v].pay \in Payments
        /\ tx[v].at \in Refunds => tx[v].payMp \in MpPayments /\ tx[v].pay \in Payments
        /\ tx[v].at \in Refunds \cup {"refund_order", "hook_order"} => tx[v].order \in Orders
    BY DEF IInv, TxShape, RefundShape, WebhookShape, Hooks, Refunds
  <2>4. StillFresh(v)
    BY <1>1, <2>2, <2>3 DEF StillFresh
  <2> QED BY <2>1, <2>4, FreshKept
<1>4. ASSUME NEW p \in Payments PROVE RowMirrors(p)'
  <2>1. payStatus'[p] = payStatus[p] \/ payStatus'[p] = ABSENT
    BY <1>1
  <2>2. Attempts(p)' = Attempts(p) /\ \A m : Shows(p, m) /\ payStatus'[p] = payStatus[p] => Shows(p, m)'
    BY <1>1 DEF Attempts, Shows
  <2>3. CASE payStatus'[p] = payStatus[p]
    BY <1>1, <1>2, <2>2, <2>3 DEF MirrorInv, RowMirrors
  <2>4. CASE payStatus'[p] = ABSENT
    BY <2>4 DEF RowMirrors, ABSENT, CREATED, REFUNDED
  <2> QED BY <2>1, <2>3, <2>4
<1>5. ASSUME NEW q \in Orders PROVE OnlyRowAgrees(q)'
  <2>1. CASE q = o
    BY <1>1, <2>1 DEF OnlyRowAgrees, RowsOf
  <2>2. CASE q # o
    <3>1. RowsOf(q)' = RowsOf(q) /\ orders'[q] = orders[q]
      BY <1>1, <2>2 DEF RowsOf
    <3>2. \A p \in RowsOf(q) : payStatus'[p] = payStatus[p]
      BY <1>1, <2>2 DEF RowsOf
    <3> QED BY <1>1, <3>1, <3>2 DEF MirrorInv, OnlyRowAgrees, Agree
  <2> QED BY <2>1, <2>2
<1>6. MpSound'
  BY <1>1 DEF MirrorInv, MpSound
<1> QED BY <1>3, <1>4, <1>5, <1>6 DEF MirrorInv

-----------------------------------------------------------------------------
(* Commits *)

\* A commit makes what is read of its payment or order stale.
LEMMA StaledStale ==
  ASSUME tx \in [Workers -> TxType], NEW w \in Workers, NEW p, NEW o, tx' = Staled(w, p, o),
         NEW v \in Workers \ {w}
  PROVE  tx'[v].stale \/ (tx[v].pay # p /\ tx[v].order # o /\ tx'[v].stale = tx[v].stale)
  BY DEF Staled, TxType

\* w commits on payment p and order o: the rest stays as true as it was.
LEMMA CommitStep ==
  ASSUME IInv, MirrorInv, NEW w \in Workers, NEW p \in Payments, NEW o \in Orders,
         tx' = Staled(w, p, o), UNCHANGED <<connected, mp, notify>>, urls' # {} => connected,
         torn \subseteq torn', payOrder[p] \in {o, NULL}, payOrder'[p] = o,
         \A q \in Payments \ {p} : payStatus'[q] = payStatus[q] /\ payOrder'[q] = payOrder[q],
         \A q \in Orders \ {o} : orders'[q] = orders[q],
         tx[w].at \in Hooks => tx[w].pay = p
  PROVE  /\ \A m \in MpPayments : Awaited(m) /\ ~Watching(w, m) => Awaited(m)'
         /\ RowMirrors(p)' /\ OnlyRowAgrees(o)' => MirrorInv'
<1>0. /\ tx'[w] = Idle
      /\ \A v \in Workers \ {w} : SameRequest(v)
      /\ \A v \in Workers \ {w} :
           tx'[v].stale \/ (tx[v].pay # p /\ tx[v].order # o /\ tx'[v].stale = tx[v].stale)
  BY StaledFields, StaledStale DEF IInv, TypeOK
<1>1. ASSUME NEW m \in MpPayments, Awaited(m), ~Watching(w, m) PROVE Awaited(m)'
  <2>1. ASSUME NEW v \in Workers, Watching(v, m) PROVE Watching(v, m)'
    BY <1>0, <1>1, <2>1 DEF Watching, SameRequest, mp
  <2> QED BY <1>1, <2>1 DEF Awaited
<1>2. ASSUME NEW m \in MpPayments, mpOf[m] # p
      PROVE  MpMoves(m) /\ mpOf'[m] = mpOf[m] /\ mpStatus'[m] = mpStatus[m] /\ (Awaited(m) => Awaited(m)')
  <2>1. ~Watching(w, m)
    BY <1>2 DEF Watching, IInv, TxShape, WebhookShape, Hooks
  <2> QED BY <1>1, <2>1 DEF MpMoves, mp
<1>3. ASSUME NEW v \in Workers \ {w} PROVE FreshSound(v)'
  <2>1. FreshSound(v) /\ SameRequest(v)
    BY <1>0 DEF MirrorInv
  <2>2. CASE tx'[v].stale
    BY <2>1, <2>2, FreshKept
  <2>3. CASE tx[v].pay # p /\ tx[v].order # o /\ tx'[v].stale = tx[v].stale
    <3>1. /\ tx[v].at \in Hooks =>
               tx[v].mp \in MpPayments /\ tx[v].pay \in Payments /\ mpOf[tx[v].mp] = tx[v].pay
          /\ tx[v].at \in Refunds =>
               tx[v].payMp \in MpPayments /\ tx[v].pay \in Payments /\ mpOf[tx[v].payMp] = tx[v].pay
          /\ tx[v].at \in Refunds \cup {"refund_order", "hook_order"} => tx[v].order \in Orders
      BY DEF IInv, TxShape, RefundShape, WebhookShape, Hooks, Refunds
    <3>2. StillFresh(v)
      BY <1>2, <2>3, <3>1 DEF StillFresh
    <3> QED BY <2>1, <3>2, FreshKept
  <2> QED BY <1>0, <2>2, <2>3
<1>4. FreshSound(w)'
  BY <1>0 DEF FreshSound, Idle, Hooks, Refunds
<1>5. ASSUME NEW q \in Payments \ {p} PROVE RowMirrors(q)'
  <2>1. RowMirrors(q) /\ payStatus'[q] = payStatus[q] /\ (q \notin torn' => q \notin torn)
    BY DEF MirrorInv
  <2>2. \A m \in Attempts(q) : m \in MpPayments /\ mpOf[m] = q
    BY DEF Attempts
  <2>3. /\ Attempts(q)' = Attempts(q)
        /\ \A m \in Attempts(q) : /\ mpStatus'[m] = mpStatus[m] /\ (Awaited(m) => Awaited(m)')
                                  /\ Shows(q, m) => Shows(q, m)'
    BY <1>2, <2>1, <2>2 DEF Attempts, Shows, mp
  <2> QED BY <2>1, <2>3 DEF RowMirrors
<1>6. ASSUME NEW x \in Orders \ {o} PROVE OnlyRowAgrees(x)'
  <2>1. OnlyRowAgrees(x) /\ orders'[x] = orders[x] /\ x # NULL
    BY DEF MirrorInv
  <2>2. RowsOf(x)' = RowsOf(x) /\ p \notin RowsOf(x)
    BY <2>1 DEF RowsOf
  <2> QED BY <2>1, <2>2 DEF OnlyRowAgrees, Agree
<1>7. MpSound'
  <2>1. \A v \in Workers : tx'[v].at = "checkout_posting" => tx[v].at = "checkout_posting"
    BY <1>0 DEF SameRequest, Idle
  <2> QED BY <2>1 DEF MirrorInv, MpSound, mp
<1> QED BY <1>1, <1>3, <1>4, <1>5, <1>6, <1>7 DEF MirrorInv

LEMMA CommitCheckoutMirrors ==
  ASSUME IInv, OrderIsBacked, MirrorInv, NEW w \in Workers, CommitCheckout(w)
  PROVE  MirrorInv'
<1> PICK p \in Payments, o \in Orders : p = tx[w].pay /\ o = tx[w].order
  BY DEF CommitCheckout, IInv, TypeOK, TxShape, CheckoutShape
<1>1. /\ tx[w].at = "checkout_posting" /\ tx' = Staled(w, p, o)
      /\ payStatus' = [payStatus EXCEPT ![p] = CREATED]
      /\ payOrder' = [payOrder EXCEPT ![p] = o]
      /\ orders' = [orders EXCEPT ![o] = Merged(@, tx[w].fin, AWAITING)]
      /\ UNCHANGED <<connected, mp, notify, torn>>
  BY DEF CommitCheckout
<1>2. payStatus[p] = ABSENT /\ payOrder[p] = NULL /\ orders[o] # ABSENT /\ connected
  BY <1>1 DEF IInv, TxShape, CheckoutShape, MirrorInv, MpSound
<1>3. /\ payStatus'[p] = CREATED /\ payOrder'[p] = o /\ orders'[o] = Merged(orders[o], tx[w].fin, AWAITING)
      /\ \A q \in Payments \ {p} : payStatus'[q] = payStatus[q] /\ payOrder'[q] = payOrder[q]
      /\ \A q \in Orders \ {o} : orders'[q] = orders[q]
  BY <1>1 DEF IInv, TypeOK
<1>4. RowMirrors(p)'
  <2>1. Attempts(p)' = {}
    <3>1. \A m \in MpPayments : mpOf[m] # p
      BY <1>2 DEF IInv, MpShape, RowShape
    <3> QED BY <1>1, <3>1 DEF Attempts, mp
  <2> QED BY <1>3, <2>1 DEF RowMirrors, CREATED, REFUNDED
<1>5. OnlyRowAgrees(o)'
  <2>1. ASSUME NEW q \in Payments, RowsOf(o)' = {q} PROVE q = p /\ orders'[o] = AWAITING
    <3>1. p \in RowsOf(o)'
      BY <1>3 DEF RowsOf, CREATED, ABSENT
    <3>2. q = p
      BY <2>1, <3>1
    <3>3. \A x \in Payments : x \notin RowsOf(o)
      BY <1>2, <1>3, <2>1, <3>2 DEF RowsOf
    <3>4. orders[o] = AWAITING
      BY <1>2, <3>3 DEF OrderIsBacked, RowsOf
    <3> QED BY <1>3, <3>2, <3>4 DEF Merged
  <2> QED BY <1>3, <2>1 DEF OnlyRowAgrees, Agree
<1>6. tx[w].at \notin Hooks
  BY <1>1 DEF Hooks
<1> QED BY <1>1, <1>2, <1>3, <1>4, <1>5, <1>6, CommitStep

\* The only row of an order is the one that is being written.
LEMMA OnlyRowIs ==
  ASSUME NEW p \in Payments, NEW o \in Orders, payStatus[p] # ABSENT, payStatus'[p] # ABSENT,
         payOrder[p] = o, UNCHANGED payOrder,
         \A q \in Payments \ {p} : payStatus'[q] = payStatus[q],
         NEW q \in Payments, RowsOf(o)' = {q}
  PROVE  q = p /\ RowsOf(o) = {p}
<1>1. p \in RowsOf(o)' /\ RowsOf(o)' = RowsOf(o)
  BY DEF RowsOf
<1> QED BY <1>1

LEMMA CommitRefundMirrors ==
  ASSUME IInv, MirrorInv, NEW w \in Workers, CommitRefund(w)
  PROVE  MirrorInv'
<1> PICK p \in Payments, o \in Orders, m \in MpPayments : p = tx[w].pay /\ o = tx[w].order /\ m = tx[w].payMp
  BY DEF CommitRefund, IInv, TxShape, RefundShape
<1>1. /\ tx[w].at = "refund_accepted" /\ tx' = Staled(w, p, o) /\ payStatus[p] # ABSENT
      /\ payStatus' = [payStatus EXCEPT ![p] = Merged(@, tx[w].status, PENDING)]
      /\ orders' = [orders EXCEPT ![o] = Merged(@, tx[w].fin, PENDING)]
      /\ torn' = IF tx[w].stale THEN torn \cup {p} ELSE torn
      /\ UNCHANGED <<connected, payOrder, urls, mp, notify>>
  BY DEF CommitRefund
<1>2. payOrder[p] = o /\ mpOf[m] = p /\ "refunded" \in mpSeen[m] /\ orders[o] # ABSENT
  BY <1>1 DEF IInv, TxShape, RefundShape, RowShape
<1>3. /\ payStatus'[p] = Merged(payStatus[p], tx[w].status, PENDING)
      /\ orders'[o] = Merged(orders[o], tx[w].fin, PENDING)
      /\ \A q \in Payments \ {p} : payStatus'[q] = payStatus[q]
      /\ \A q \in Orders \ {o} : orders'[q] = orders[q]
  BY <1>1 DEF IInv, TypeOK
<1>4. tx[w].at \notin Hooks
  BY <1>1 DEF Hooks
<1>5. urls' # {} => connected
  BY <1>1 DEF MirrorInv, MpSound
<1>6. Awaited(m) => Awaited(m)'
  BY <1>1, <1>2, <1>3, <1>4, <1>5, CommitStep DEF Watching
<1>7. ~tx[w].stale => payStatus'[p] = PENDING /\ orders'[o] = PENDING /\ Awaited(m)
  BY <1>1, <1>2, <1>3 DEF MirrorInv, FreshSound, Merged, Refunds
<1>8. RowMirrors(p)'
  <2>1. CASE tx[w].stale
    BY <1>1, <2>1 DEF RowMirrors
  <2>2. CASE ~tx[w].stale
    <3>1. m \in Attempts(p)' /\ mpStatus'[m] # "pending"
      BY <1>1, <1>2 DEF Attempts, mp, MirrorInv, MpSound
    <3> QED BY <1>6, <1>7, <2>2, <3>1 DEF RowMirrors, PENDING, CREATED, REFUNDED
  <2> QED BY <2>1, <2>2
<1>9. OnlyRowAgrees(o)'
  <2>1. payStatus'[p] # ABSENT
    BY <1>1, <1>3 DEF Merged, PENDING, ABSENT
  <2>2. ASSUME NEW q \in Payments \ torn', RowsOf(o)' = {q} PROVE Agree(orders'[o], payStatus'[q])
    <3>1. q = p
      BY <1>1, <1>2, <1>3, <2>1, <2>2, OnlyRowIs
    <3>2. ~tx[w].stale
      BY <1>1, <3>1
    <3> QED BY <1>7, <3>1, <3>2 DEF Agree
  <2> QED BY <2>2 DEF OnlyRowAgrees, Agree
<1> QED BY <1>1, <1>2, <1>3, <1>4, <1>5, <1>8, <1>9, CommitStep

LEMMA CommitWebhookMirrors ==
  ASSUME IInv, NoPayout, MirrorInv, NEW w \in Workers, CommitWebhook(w)
  PROVE  MirrorInv'
<1> PICK p \in Payments, o \in Orders, n \in MpPayments, r \in MpStatuses :
      p = tx[w].pay /\ o = tx[w].order /\ n = tx[w].mp /\ r = tx[w].read
  BY DEF CommitWebhook, IInv, TxShape, WebhookShape
<1> DEFINE s == payStatus[p]
           written == PaymentAfter(tx[w].status, r)
<1>1. /\ tx[w].at = "hook_order" /\ tx' = Staled(w, p, o) /\ payStatus[p] # ABSENT
      /\ payStatus' = [payStatus EXCEPT ![p] = Merged(@, tx[w].status, written)]
      /\ orders' = [orders EXCEPT ![o] = Merged(@, tx[w].fin, OrderAfter(tx[w].fin, written, r))]
      /\ torn' = IF tx[w].stale THEN torn \cup {p} ELSE torn
      /\ UNCHANGED <<connected, payOrder, urls, mp, notify>>
  BY DEF CommitWebhook
<1>2. /\ payOrder[p] = o /\ mpOf[n] = p /\ r \in mpSeen[n] /\ orders[o] # ABSENT
      /\ tx[w].status # PAYOUT /\ s # PAYOUT /\ s \in PayStatuses
  BY <1>1 DEF IInv, TypeOK, TxShape, WebhookShape, RowShape, NoPayout
<1>3. /\ payStatus'[p] = Merged(s, tx[w].status, written)
      /\ orders'[o] = Merged(orders[o], tx[w].fin, OrderAfter(tx[w].fin, written, r))
      /\ \A q \in Payments \ {p} : payStatus'[q] = payStatus[q]
      /\ \A q \in Orders \ {o} : orders'[q] = orders[q]
  BY <1>1 DEF IInv, TypeOK
<1>4. urls' # {} => connected
  BY <1>1 DEF MirrorInv, MpSound
<1>5. ASSUME NEW m \in MpPayments, Awaited(m) PROVE Awaited(m)' \/ (m = n /\ mpStatus[m] = r)
  <2>1. Watching(w, m) => m = n /\ mpStatus[m] = r
    BY <1>1 DEF Watching
  <2> QED BY <1>1, <1>2, <1>3, <1>4, <1>5, <2>1, CommitStep
<1>6. ~tx[w].stale => /\ tx[w].status = s /\ payStatus'[p] = PaymentAfter(s, r)
                      /\ tx[w].fin = orders[o] /\ orders'[o] = OrderAfter(orders[o], payStatus'[p], r)
                      /\ r = mpStatus[n] \/ Awaited(n)
  BY <1>1, <1>2, <1>3 DEF MirrorInv, FreshSound, Merged, Hooks
\* What MP said of n is what it says now, or is read again.
<1>7. /\ r = "refunded" => mpStatus[n] = "refunded"
      /\ r # "pending" => mpStatus[n] # "pending"
      /\ r # mpStatus[n] => mpStatus[n] # "pending"
  BY <1>2 DEF MirrorInv, MpSound
<1>8. n \in Attempts(p)' /\ Attempts(p)' = Attempts(p) /\ mpStatus' = mpStatus
  BY <1>1, <1>2 DEF Attempts, mp
<1> HIDE DEF s, written
<1>9. ASSUME ~tx[w].stale, p \notin torn PROVE RowMirrors(p)'
  <2>1. /\ s = CREATED => \A m \in Attempts(p) : mpStatus[m] # "pending" => Awaited(m)
        /\ s # CREATED => \E m \in Attempts(p) : mpStatus[m] # "pending" /\ (Awaited(m) \/ Shows(p, m))
        /\ s = REFUNDED => \E m \in Attempts(p) : mpStatus[m] = "refunded"
    BY <1>1, <1>9 DEF s, MirrorInv, RowMirrors
  <2>2. CASE r = "pending"
    <3>1. payStatus'[p] = s
      BY <1>6, <1>9, <2>2 DEF PaymentAfter
    <3>2. \A m \in Attempts(p) : mpStatus[m] # "pending" /\ Awaited(m) => Awaited(m)'
      BY <1>5, <2>2 DEF Attempts
    <3>3. \A m \in Attempts(p) : Shows(p, m) => Shows(p, m)'
      BY <1>8, <3>1 DEF Shows, s
    <3> QED BY <1>8, <2>1, <3>1, <3>2, <3>3 DEF RowMirrors
  <2>3. CASE r = "approved" /\ s = REFUNDED
    <3>1. payStatus'[p] = REFUNDED
      BY <1>6, <1>9, <2>3 DEF PaymentAfter
    <3>2. PICK m \in Attempts(p) : mpStatus[m] = "refunded"
      BY <2>1, <2>3
    <3>3. Shows(p, m)'
      BY <1>8, <3>1, <3>2 DEF Shows, PaymentAfter
    <3> QED BY <1>8, <3>1, <3>2, <3>3 DEF RowMirrors, CREATED, REFUNDED
  <2>4. CASE r # "pending" /\ ~(r = "approved" /\ s = REFUNDED)
    <3>1. /\ payStatus'[p] = PaymentAfter(CREATED, r) /\ payStatus'[p] # CREATED
          /\ payStatus'[p] = REFUNDED => r = "refunded"
      BY <1>2, <1>6, <1>9, <2>4
         DEF PaymentAfter, MpStatuses, CREATED, PAID, PAYOUT, REFUNDED, DISPUTED, FAILED, CANCELLED
    <3>2. mpStatus'[n] # "pending" /\ (Awaited(n)' \/ Shows(p, n)')
      BY <1>5, <1>6, <1>7, <1>8, <1>9, <2>4, <3>1 DEF Shows
    <3> QED BY <1>7, <1>8, <3>1, <3>2 DEF RowMirrors
  <2> QED BY <2>2, <2>3, <2>4
<1>10. RowMirrors(p)'
  <2>1. p \in torn' => RowMirrors(p)'
    BY DEF RowMirrors
  <2>2. p \notin torn' => ~tx[w].stale /\ p \notin torn
    BY <1>1
  <2> QED BY <1>9, <2>1, <2>2
<1>11. OnlyRowAgrees(o)'
  <2>1. payStatus'[p] # ABSENT
    <3>1. written \in PayStatuses
      BY <1>1 DEF written, IInv, TxShape, WebhookShape, PaymentAfter, PayStatuses, Settled
    <3> QED BY <1>2, <1>3, <3>1 DEF Merged, PayStatuses, Settled, PAID, PAYOUT, PENDING, REFUNDED,
            DISPUTED, FAILED, CANCELLED, CREATED, ABSENT
  <2>2. ASSUME NEW q \in Payments \ torn', RowsOf(o)' = {q} PROVE Agree(orders'[o], payStatus'[q])
    <3>1. q = p /\ RowsOf(o) = {p}
      BY <1>1, <1>2, <1>3, <2>1, <2>2, OnlyRowIs
    <3>2. ~tx[w].stale /\ p \notin torn
      BY <1>1, <3>1
    <3>3. Agree(orders[o], s)
      BY <3>1, <3>2 DEF MirrorInv, OnlyRowAgrees, s
    <3> QED BY <1>2, <1>6, <3>1, <3>2, <3>3
            DEF Agree, OrderAfter, PaymentAfter, MpStatuses, CREATED, PAID, PAYOUT, REFUNDED, DISPUTED,
                FAILED, CANCELLED, AWAITING
  <2> QED BY <2>2 DEF OnlyRowAgrees, Agree
<1>12. tx[w].at \in Hooks => tx[w].pay = p
  OBVIOUS
<1> QED BY <1>1, <1>2, <1>3, <1>4, <1>10, <1>11, <1>12, CommitStep

LEMMA MirrorsStart == Init => MirrorInv
<1> SUFFICES ASSUME Init PROVE MirrorInv
  OBVIOUS
<1>1. MpSound
  BY DEF Init, MpSound, Idle
<1>2. \A w \in Workers : FreshSound(w)
  BY DEF Init, FreshSound, Idle, Hooks, Refunds
<1>3. \A p \in Payments : RowMirrors(p)
  BY DEF Init, RowMirrors, CREATED, REFUNDED, ABSENT
<1>4. \A o \in Orders : OnlyRowAgrees(o)
  BY DEF Init, OnlyRowAgrees, RowsOf
<1> QED BY <1>1, <1>2, <1>3, <1>4 DEF MirrorInv

LEMMA NextMirrors ==
  IInv /\ NoPayout /\ OrderIsBacked /\ MirrorInv /\ [Next]_vars => MirrorInv'
<1> SUFFICES ASSUME IInv, NoPayout, OrderIsBacked, MirrorInv, [Next]_vars PROVE MirrorInv'
  OBVIOUS
<1>1. CASE UNCHANGED vars
  <2>1. \A m \in MpPayments : MpMoves(m) /\ mpOf'[m] = mpOf[m]
    BY <1>1, AwaitedKept DEF vars, MpMoves
  <2>2. MpSound'
    BY <1>1 DEF vars, MirrorInv, MpSound
  <2> QED BY <1>1, <2>1, <2>2, MpStep DEF vars, db
<1>2. ASSUME NEW w \in Workers, NEW o \in Orders, LoadCheckoutOrder(w, o) \/ LoadRefundOrder(w, o)
      PROVE  MirrorInv'
  BY <1>2, LoadCheckoutOrderMirrors, LoadRefundOrderMirrors
<1>3. ASSUME NEW w \in Workers,
             \/ \E p \in Payments : LoadRefundPayment(w, p)
             \/ \E m \in MpPayments : StartWebhook(w, m)
             \/ InsertPayment(w) \/ CommitCheckout(w)
             \/ MpAcceptsRefund(w) \/ CommitRefund(w)
             \/ FetchMpPayment(w) \/ LoadWebhookOrder(w) \/ CommitWebhook(w)
             \/ Abort(w)
      PROVE  MirrorInv'
  BY <1>3, LoadRefundPaymentMirrors, StartWebhookMirrors, InsertPaymentMirrors, CommitCheckoutMirrors,
     MpAcceptsRefundMirrors, CommitRefundMirrors, FetchMpPaymentMirrors, LoadWebhookOrderMirrors,
     CommitWebhookMirrors, AbortMirrors
<1>4. ASSUME NEW m \in MpPayments,
             \/ \E p \in Payments, s \in {"pending", "approved", "rejected"} : BuyerPays(m, p, s)
             \/ \E s \in MpStatuses : MpAdvances(m, s)
             \/ IgnoreWebhook(m) \/ Redeliver(m)
      PROVE  MirrorInv'
  BY <1>4, BuyerPaysMirrors, MpAdvancesMirrors, IgnoreWebhookMirrors, RedeliverMirrors
<1> QED BY <1>1, <1>2, <1>3, <1>4, ConnectAccountMirrors, DeleteOrderMirrors DEF Next

LEMMA MirrorsHold == Spec => [](IInv /\ MirrorInv)
<1>1. Init => NoPayout /\ OrderIsBacked
  BY DEF Init, NoPayout, OrderIsBacked, Idle, ABSENT, PAYOUT
<1>2. IInv /\ NoPayout /\ OrderIsBacked /\ MirrorInv /\ [Next]_vars => NoPayout' /\ OrderIsBacked' /\ MirrorInv'
  BY NextNoPayout, NextOrderBacked, NextMirrors
<1> QED BY <1>1, <1>2, MirrorsStart, Invariance, PTL DEF Spec

\* A quiet payment awaits nothing.
LEMMA QuietAwaitsNothing ==
  ASSUME IInv, NEW p \in Payments, Quiet(p), NEW m \in Attempts(p)
  PROVE  ~Awaited(m)
  BY DEF Quiet, Awaited, Watching, Attempts, IInv, TxShape, WebhookShape, Hooks

\* Once every notification of a payment is answered and no request is on it, its row
\* shows the present status of one of its payments at MP, for any number of attempts
\* and requests: a write of a request that had read before another one's commit is
\* the only way to be wrong.
THEOREM QuietIsMirrored == Spec => []QuietMeansMirrored
<1>1. ASSUME IInv, MirrorInv PROVE QuietMeansMirrored
  <2> SUFFICES ASSUME NEW p \in Payments \ torn, Quiet(p)
               PROVE  LET settled == {mpStatus[m] : m \in Attempts(p)} \ {"pending"}
                      IN IF settled = {} THEN payStatus[p] = CREATED
                         ELSE \E s \in settled : payStatus[p] = PaymentAfter(CREATED, s)
    BY DEF QuietMeansMirrored
  <2> DEFINE settled == {mpStatus[m] : m \in Attempts(p)} \ {"pending"}
  <2>1. RowMirrors(p) /\ payStatus[p] # ABSENT /\ \A m \in Attempts(p) : ~Awaited(m)
    BY <1>1, QuietAwaitsNothing DEF MirrorInv, Quiet
  <2>2. CASE payStatus[p] = CREATED
    BY <2>1, <2>2 DEF RowMirrors
  <2>3. CASE payStatus[p] # CREATED
    <3>1. PICK m \in Attempts(p) : mpStatus[m] # "pending" /\ Shows(p, m)
      BY <2>1, <2>3 DEF RowMirrors
    <3>2. mpStatus[m] \in settled
      BY <3>1
    <3> QED BY <3>1, <3>2 DEF Shows
  <2> QED BY <2>2, <2>3
<1> QED BY <1>1, MirrorsHold, PTL

\* An order with one payment that no stale write tore shows that payment's status at
\* any time, except that it reads "paid" when a refunded payment is paid again.
THEOREM OrderFollows == Spec => []OrderFollowsPayment
<1>1. ASSUME MirrorInv PROVE OrderFollowsPayment
  BY <1>1 DEF MirrorInv, OnlyRowAgrees, Agree, OrderFollowsPayment
<1> QED BY <1>1, MirrorsHold, PTL
=============================================================================
