--------------------------- MODULE Subscription_proofs ---------------------------
(***************************************************************************)
(* Proofs about Subscription, for any subscriptions, paid plans, workers   *)
(* and number of changes at Stripe.                                        *)
(***************************************************************************)
EXTENDS Subscription, TLAPS

\* The type of one request's transaction.
Transactions == [at: {"idle", "hook", "calling_change", "calling_cancel", "writing"},
                 event: Events \cup {NULL}, plan: Plans \cup {NULL},
                 status: RowStatuses \cup {NULL}, sub: Subs \cup {NULL},
                 loaded: RowStatuses \cup {NULL}, writes: SUBSET Columns,
                 inserts: BOOLEAN, stale: BOOLEAN]

\* What Stripe has has a plan.
StripeSound == \A s \in Subs : stripe[s].status # "none" => stripe[s].plan \in Plans

\* An event tells of a change that was made; the newest one, of what Stripe has now.
EventSound(e) ==
  /\ e.n <= emitted
  /\ e.status # "none" /\ stripe[e.sub].status # "none"
  /\ e.kind = "deleted" <=> e.status = "canceled"
  /\ e.kind = "completed" \/ e.status = "active" => e.plan \in paid[e.sub]
  /\ e.n = emitted => stripe[e.sub].status = e.status /\ stripe[e.sub].plan = e.plan

\* How the row shows a status at Stripe.
Shown(status) == IF status = "canceled" THEN "cancelled" ELSE status

\* A request that handles an event writes what the event says.
EventHeld(w) ==
  tx[w].event # NULL =>
    /\ tx[w].at \in {"hook", "writing"}
    /\ EventSound(tx[w].event)
    /\ tx[w].plan = tx[w].event.plan /\ tx[w].sub = tx[w].event.sub /\ tx[w].status \in RowStatuses
    /\ tx[w].event.n = emitted => tx[w].status = Shown(stripe[tx[w].event.sub].status)

\* What a request is about to write is complete, and a paid plan in it was paid.
RequestSound(w) ==
  /\ tx[w].at = "idle" => tx[w].event = NULL
  /\ tx[w].at = "hook" => tx[w].event # NULL /\ ~tx[w].inserts /\ ~tx[w].stale
  /\ tx[w].at \in {"calling_change", "calling_cancel"} =>
       tx[w].event = NULL /\ tx[w].sub \in Subs /\ ~tx[w].inserts
  /\ tx[w].at = "calling_change" => tx[w].plan \in PaidPlans
  /\ tx[w].at = "calling_cancel" => tx[w].plan \in Plans /\ tx[w].status = "cancel_at_period_end"
  /\ tx[w].at = "writing" => tx[w].plan \in Plans /\ tx[w].status \in RowStatuses
  /\ tx[w].at \in {"hook", "writing"} /\ tx[w].status = "active" /\ tx[w].plan \in PaidPlans =>
       tx[w].sub \in Subs /\ tx[w].plan \in paid[tx[w].sub]

\* A request that nothing was committed under leaves what it does not write as it
\* is; and if it has changed something at Stripe, the event of that is to come.
ReadSound(w) ==
  tx[w].at \notin {"idle", "hook"} =>
    /\ ~tx[w].inserts => row # NULL
    /\ ~tx[w].stale /\ ~tx[w].inserts =>
         /\ "plan" \notin tx[w].writes => tx[w].plan = row.plan
         /\ "status" \notin tx[w].writes => tx[w].status = row.status
         /\ "sub" \notin tx[w].writes => tx[w].sub = row.sub
    /\ ~tx[w].stale /\ tx[w].at = "calling_change" => tx[w].loaded = row.status
    /\ ~tx[w].stale /\ tx[w].at = "writing" /\ tx[w].event = NULL /\ tx[w].plan # BASIC =>
         newest < emitted \/ (row # NULL /\ row.sub = NULL)

\* Until the newest event is committed it is pending, or held by a request.
NothingLost ==
  /\ newest <= emitted
  /\ newest < emitted =>
       \/ \E e \in events : e.n = emitted
       \/ \E w \in Workers : tx[w].event # NULL /\ tx[w].event.n = emitted

Mirrored ==
  \E s \in Subs : row = [plan |-> stripe[s].plan, status |-> Shown(stripe[s].status), sub |-> s]

\* Once the newest event is committed, the row is Stripe's, but for Excuses.
MirroredSinceNewest == newest = emitted /\ emitted > 0 /\ excused = {} => Mirrored

WorkerSound(w) == EventHeld(w) /\ RequestSound(w) /\ ReadSound(w)

SubscriptionInv ==
  /\ TypeOK
  /\ StripeSound
  /\ \A e \in events : EventSound(e)
  /\ \A w \in Workers : WorkerSound(w)
  /\ NothingLost
  /\ PaidPlanWasPaid
  /\ MirroredSinceNewest

USE PlansAssumption, EventsAssumption, NullAssumption

-----------------------------------------------------------------------------
\* TypeOK, with the type of a transaction named.
LEMMA TypeSplit ==
  TypeOK <=> /\ row \in Rows \cup {NULL}
             /\ stripe \in [Subs -> [status: StripeStatuses, plan: Plans \cup {NULL}]]
             /\ paid \in [Subs -> SUBSET Plans]
             /\ emitted \in 0..MaxEvents
             /\ events \subseteq Events
             /\ tx \in [Workers -> Transactions]
             /\ newest \in 0..MaxEvents
             /\ excused \subseteq {"late", "stale", "local"}
  BY DEF TypeOK, Transactions

LEMMA TypeNext ==
  TypeOK' <=> /\ row' \in Rows \cup {NULL}
              /\ stripe' \in [Subs -> [status: StripeStatuses, plan: Plans \cup {NULL}]]
              /\ paid' \in [Subs -> SUBSET Plans]
              /\ emitted' \in 0..MaxEvents
              /\ events' \subseteq Events
              /\ tx' \in [Workers -> Transactions]
              /\ newest' \in 0..MaxEvents
              /\ excused' \subseteq {"late", "stale", "local"}
  BY DEF TypeOK, Transactions

LEMMA IdleType == Idle \in Transactions
  BY DEF Idle, Transactions

LEMMA PlanTypes == PaidPlans \subseteq Plans /\ BASIC \in Plans /\ BASIC \notin PaidPlans
  BY DEF Plans

\* A request that is done is sound.
LEMMA IdleSound ==
  ASSUME NEW w \in Workers, tx[w] = Idle
  PROVE  WorkerSound(w)
  BY DEF Idle, WorkerSound, EventHeld, RequestSound, ReadSound

LEMMA IdleSoundNext ==
  ASSUME NEW w \in Workers, tx'[w] = Idle
  PROVE  WorkerSound(w)'
  BY DEF Idle, WorkerSound, EventHeld, RequestSound, ReadSound

LEMMA SubscriptionInit == Init => SubscriptionInv
<1> SUFFICES ASSUME Init PROVE SubscriptionInv
  OBVIOUS
<1> USE DEF Init
<1>1. TypeOK
  BY IdleType, TypeSplit DEF StripeStatuses
<1>2. StripeSound /\ \A e \in events : EventSound(e)
  BY DEF StripeSound
<1>3. \A w \in Workers : WorkerSound(w)
  BY IdleSound
<1>4. NothingLost /\ MirroredSinceNewest
  BY DEF NothingLost, MirroredSinceNewest
<1>5. PaidPlanWasPaid
  BY PlanTypes DEF PaidPlanWasPaid, Entitled
<1> QED BY <1>1, <1>2, <1>3, <1>4, <1>5 DEF SubscriptionInv

-----------------------------------------------------------------------------
\* A step of one request that changes neither the row nor Stripe.
LEMMA PrivateStep ==
  ASSUME SubscriptionInv, NEW w \in Workers, NEW t \in Transactions, tx' = [tx EXCEPT ![w] = t],
         UNCHANGED <<row, stripe, paid, emitted, newest, excused>>, events' \subseteq Events,
         \A e \in events' : EventSound(e), WorkerSound(w)', NothingLost'
  PROVE  SubscriptionInv'
<1>1. TypeOK'
  BY TypeSplit, TypeNext DEF SubscriptionInv
<1>2. \A e \in events' : EventSound(e)'
  BY DEF EventSound
<1>3. ASSUME NEW v \in Workers PROVE WorkerSound(v)'
  <2>1. CASE v = w
    BY <2>1
  <2>2. CASE v # w
    <3>1. tx'[v] = tx[v] /\ WorkerSound(v)
      BY <2>2 DEF SubscriptionInv, TypeOK
    <3> QED BY <3>1 DEF WorkerSound, EventHeld, EventSound, RequestSound, ReadSound
  <2> QED BY <2>1, <2>2
<1>4. StripeSound' /\ PaidPlanWasPaid' /\ MirroredSinceNewest'
  BY DEF SubscriptionInv, StripeSound, PaidPlanWasPaid, Entitled, MirroredSinceNewest, Mirrored
<1> QED BY <1>1, <1>2, <1>3, <1>4 DEF SubscriptionInv

\* As long as the request keeps its event, none is lost.
LEMMA KeepsEvent ==
  ASSUME SubscriptionInv, NEW w \in Workers, NEW t \in Transactions, tx' = [tx EXCEPT ![w] = t],
         t.event = tx[w].event, UNCHANGED <<newest, emitted, events>>
  PROVE  NothingLost'
<1>1. \A v \in Workers : tx'[v].event = tx[v].event
  BY DEF SubscriptionInv, TypeOK
<1> QED BY <1>1 DEF SubscriptionInv, NothingLost

LEMMA AbortStep ==
  ASSUME SubscriptionInv, NEW w \in Workers, Abort(w)
  PROVE  SubscriptionInv'
<1>1. /\ tx' = [tx EXCEPT ![w] = Idle] /\ tx'[w] = Idle
      /\ UNCHANGED <<row, stripe, paid, emitted, newest, excused>>
      /\ events' = IF tx[w].event = NULL THEN events ELSE events \cup {tx[w].event}
  BY DEF Abort, history, SubscriptionInv, TypeOK
<1>2. tx[w] \in Transactions /\ EventHeld(w)
  BY TypeSplit DEF SubscriptionInv, WorkerSound
<1>3. events' \subseteq Events /\ \A e \in events' : EventSound(e)
  BY <1>1, <1>2 DEF Transactions, EventHeld, SubscriptionInv, TypeOK
<1>4. NothingLost'
  <2>1. newest' <= emitted'
    BY <1>1 DEF SubscriptionInv, NothingLost
  <2>2. ASSUME newest' < emitted'
        PROVE  \/ \E e \in events' : e.n = emitted'
               \/ \E v \in Workers : tx'[v].event # NULL /\ tx'[v].event.n = emitted'
    <3>1. CASE \E e \in events : e.n = emitted
      BY <1>1, <3>1
    <3>2. ASSUME NEW v \in Workers, tx[v].event # NULL, tx[v].event.n = emitted
          PROVE  \/ \E e \in events' : e.n = emitted'
                 \/ \E u \in Workers : tx'[u].event # NULL /\ tx'[u].event.n = emitted'
      <4>1. CASE v = w
        BY <1>1, <3>2, <4>1
      <4>2. CASE v # w
        <5>1. tx'[v] = tx[v]
          BY <1>1, <4>2 DEF SubscriptionInv, TypeOK
        <5> QED BY <1>1, <3>2, <5>1
      <4> QED BY <4>1, <4>2
    <3> QED BY <1>1, <2>2, <3>1, <3>2 DEF SubscriptionInv, NothingLost
  <2> QED BY <2>1, <2>2 DEF NothingLost
<1> QED BY <1>1, <1>3, <1>4, IdleType, IdleSoundNext, PrivateStep

-----------------------------------------------------------------------------
\* What a request that begins to write holds.
LEMMA PreparedSound ==
  ASSUME SubscriptionInv, NEW t \in Transactions, ~t.inserts, ~t.stale
  PROVE  /\ Prepared(t) \in Transactions /\ Prepared(t).at = "writing"
         /\ Prepared(t).event = t.event /\ Prepared(t).plan = t.plan /\ Prepared(t).status = t.status
         /\ Prepared(t).sub = t.sub /\ Prepared(t).loaded = t.loaded /\ ~Prepared(t).stale
         /\ Prepared(t).inserts <=> row = NULL
         /\ row # NULL =>
              /\ "plan" \notin Prepared(t).writes => t.plan = row.plan
              /\ "status" \notin Prepared(t).writes => t.status = row.status
              /\ "sub" \notin Prepared(t).writes => t.sub = row.sub
<1>1. CASE row = NULL
  <2>1. Prepared(t) = [t EXCEPT !.at = "writing", !.inserts = TRUE]
    BY <1>1 DEF Prepared
  <2> QED BY <1>1, <2>1 DEF Transactions
<1>2. CASE row # NULL
  <2> DEFINE differs == {c \in Columns : t[c] # row[c]}
  <2>1. Prepared(t) = [t EXCEPT !.at = "writing", !.writes = differs]
    BY <1>2 DEF Prepared
  <2>2. /\ differs \in SUBSET Columns
        /\ "plan" \notin differs => t.plan = row.plan
        /\ "status" \notin differs => t.status = row.status
        /\ "sub" \notin differs => t.sub = row.sub
    BY DEF Columns
  <2> HIDE DEF differs
  <2> QED BY <1>2, <2>1, <2>2 DEF Transactions
<1> QED BY <1>1, <1>2

\* What an event says of the status is what Stripe says, if it is the newest.
LEMMA StatusOfSound ==
  ASSUME SubscriptionInv, NEW e \in events
  PROVE  /\ StatusOf(e) \in RowStatuses
         /\ e.n = emitted => StatusOf(e) = Shown(stripe[e.sub].status)
         /\ StatusOf(e) = "active" => e.plan \in paid[e.sub]
         /\ e \in Events /\ EventSound(e) /\ e # NULL
<1>1. e \in Events /\ EventSound(e) /\ e # NULL
  BY DEF SubscriptionInv, TypeOK
<1>2. e.status \in StripeStatuses /\ stripe[e.sub].status \in StripeStatuses
  BY <1>1 DEF Events, SubscriptionInv, TypeOK
<1> QED BY <1>1, <1>2 DEF StatusOf, Shown, EventSound, StripeStatuses, RowStatuses

LEMMA ReceiveStep ==
  ASSUME SubscriptionInv, NEW w \in Workers, NEW e \in events, ReceiveEvent(w, e)
  PROVE  SubscriptionInv'
<1> DEFINE t == [Idle EXCEPT !.event = e, !.plan = e.plan, !.status = StatusOf(e), !.sub = e.sub]
           u == IF e.kind = "completed" THEN [t EXCEPT !.at = "hook"] ELSE Prepared(t)
<1>1. /\ StatusOf(e) \in RowStatuses /\ e \in Events /\ EventSound(e) /\ e # NULL
      /\ e.n = emitted => StatusOf(e) = Shown(stripe[e.sub].status)
      /\ StatusOf(e) = "active" => e.plan \in paid[e.sub]
      /\ e.plan \in Plans /\ e.sub \in Subs
  BY StatusOfSound DEF Events
<1>2. /\ t \in Transactions /\ t.event = e /\ t.plan = e.plan /\ t.status = StatusOf(e) /\ t.sub = e.sub
      /\ t.inserts = FALSE /\ t.stale = FALSE
  <2>1. /\ t.event = e /\ t.plan = e.plan /\ t.status = StatusOf(e) /\ t.sub = e.sub
        /\ t \in Transactions
    BY <1>1, IdleType DEF Transactions
  <2>2. t.inserts = FALSE /\ t.stale = FALSE
    BY DEF Idle
  <2> QED BY <2>1, <2>2
<1> HIDE DEF t
<1>3. /\ u \in Transactions /\ u.event = e /\ u.plan = e.plan /\ u.status = StatusOf(e) /\ u.sub = e.sub
      /\ u.at \in {"hook", "writing"}
      /\ u.at = "hook" => ~u.inserts /\ ~u.stale
      /\ u.at # "hook" => /\ ~u.stale /\ (u.inserts <=> row = NULL)
                          /\ row # NULL =>
                               /\ "plan" \notin u.writes => u.plan = row.plan
                               /\ "status" \notin u.writes => u.status = row.status
                               /\ "sub" \notin u.writes => u.sub = row.sub
  <2>1. CASE e.kind = "completed"
    BY <1>2, <2>1 DEF Transactions
  <2>2. CASE e.kind # "completed"
    BY <1>2, <2>2, PreparedSound
  <2> QED BY <2>1, <2>2
<1>4. /\ tx' = [tx EXCEPT ![w] = u] /\ tx'[w] = u /\ events' \in {events, events \ {e}} /\ tx[w].at = "idle"
      /\ UNCHANGED <<row, stripe, paid, emitted, newest, excused>>
  BY DEF ReceiveEvent, history, SubscriptionInv, TypeOK, t
<1> HIDE DEF u
<1>5. events' \subseteq Events /\ \A f \in events' : EventSound(f)
  BY <1>4 DEF SubscriptionInv, TypeOK
<1>6. WorkerSound(w)'
  <2>1. EventHeld(w)'
    BY <1>1, <1>3, <1>4 DEF EventHeld, EventSound
  <2>2. RequestSound(w)'
    BY <1>1, <1>3, <1>4 DEF RequestSound
  <2>3. ReadSound(w)'
    BY <1>1, <1>3, <1>4 DEF ReadSound
  <2> QED BY <2>1, <2>2, <2>3 DEF WorkerSound
<1>7. NothingLost'
  <2>1. newest' <= emitted'
    BY <1>4 DEF SubscriptionInv, NothingLost
  <2>2. tx[w].event = NULL
    BY <1>4 DEF SubscriptionInv, WorkerSound, RequestSound
  <2>3. \A f \in events : f \in events' \/ f = tx'[w].event
    BY <1>3, <1>4
  <2>4. \A v \in Workers : tx[v].event # NULL => tx'[v].event = tx[v].event
    BY <1>4, <2>2 DEF SubscriptionInv, TypeOK
  <2>5. tx'[w].event # NULL
    BY <1>1, <1>3, <1>4
  <2> QED BY <1>4, <2>1, <2>3, <2>4, <2>5 DEF SubscriptionInv, NothingLost
<1> QED BY <1>3, <1>4, <1>5, <1>6, <1>7, PrivateStep

LEMMA LoadForEventStep ==
  ASSUME SubscriptionInv, NEW w \in Workers, LoadForEvent(w)
  PROVE  SubscriptionInv'
<1> DEFINE t == tx[w]
           u == Prepared(t)
<1>1. /\ t \in Transactions /\ EventHeld(w) /\ RequestSound(w) /\ t.at = "hook"
      /\ t.event # NULL /\ ~t.inserts /\ ~t.stale
  BY TypeSplit DEF LoadForEvent, SubscriptionInv, WorkerSound, RequestSound
<1>2. /\ tx' = [tx EXCEPT ![w] = u] /\ tx'[w] = u
      /\ UNCHANGED <<row, stripe, paid, emitted, newest, excused, events>>
  BY DEF LoadForEvent, history, SubscriptionInv, TypeOK
<1>3. /\ u \in Transactions /\ u.at = "writing" /\ u.event = t.event /\ u.plan = t.plan
      /\ u.status = t.status /\ u.sub = t.sub /\ ~u.stale /\ (u.inserts <=> row = NULL)
      /\ row # NULL => /\ "plan" \notin u.writes => u.plan = row.plan
                       /\ "status" \notin u.writes => u.status = row.status
                       /\ "sub" \notin u.writes => u.sub = row.sub
  BY <1>1, PreparedSound
<1>4. t.plan \in Plans
  BY <1>1 DEF EventHeld, Transactions, Events
<1> HIDE DEF u
<1>5. WorkerSound(w)'
  <2>1. EventHeld(w)'
    BY <1>1, <1>2, <1>3 DEF EventHeld, EventSound
  <2>2. RequestSound(w)'
    BY <1>1, <1>2, <1>3, <1>4 DEF RequestSound, EventHeld
  <2>3. ReadSound(w)'
    BY <1>1, <1>2, <1>3 DEF ReadSound
  <2> QED BY <2>1, <2>2, <2>3 DEF WorkerSound
<1>6. NothingLost'
  BY <1>2, <1>3, KeepsEvent
<1>7. events' \subseteq Events /\ \A e \in events' : EventSound(e)
  BY <1>2 DEF SubscriptionInv, TypeOK
<1> QED BY <1>2, <1>3, <1>5, <1>6, <1>7, PrivateStep

\* A request of the organization that loads the row: it holds no event.
LEMMA LoadStep ==
  ASSUME SubscriptionInv, NEW w \in Workers, NEW u \in Transactions, tx' = [tx EXCEPT ![w] = u],
         tx[w].at = "idle", u.event = NULL, RequestSound(w)', ReadSound(w)',
         UNCHANGED <<row, stripe, paid, emitted, newest, excused, events>>
  PROVE  SubscriptionInv'
<1>1. tx'[w] = u
  BY DEF SubscriptionInv, TypeOK
<1>2. WorkerSound(w)'
  BY <1>1 DEF WorkerSound, EventHeld
<1>3. tx[w].event = NULL
  BY DEF SubscriptionInv, WorkerSound, RequestSound
<1>4. NothingLost'
  BY <1>3, KeepsEvent
<1>5. events' \subseteq Events /\ \A e \in events' : EventSound(e)
  BY DEF SubscriptionInv, TypeOK
<1> QED BY <1>2, <1>4, <1>5, PrivateStep

LEMMA LoadForBasicStep ==
  ASSUME SubscriptionInv, NEW w \in Workers, LoadForBasic(w)
  PROVE  SubscriptionInv'
<1> DEFINE t == [Idle EXCEPT !.plan = BASIC, !.status = "active",
                             !.sub = IF row = NULL THEN NULL ELSE row.sub]
           u == Prepared(t)
<1>1. /\ t \in Transactions /\ t.event = NULL /\ t.plan = BASIC /\ t.status = "active"
      /\ ~t.inserts /\ ~t.stale
  <2>1. (IF row = NULL THEN NULL ELSE row.sub) \in Subs \cup {NULL}
    BY DEF SubscriptionInv, TypeOK, Rows
  <2>2. t \in Transactions /\ t.plan = BASIC /\ t.status = "active"
    BY <2>1, IdleType, PlanTypes DEF Transactions, RowStatuses
  <2>3. t.event = NULL /\ ~t.inserts /\ ~t.stale
    BY DEF Idle
  <2> QED BY <2>2, <2>3
<1>2. /\ tx' = [tx EXCEPT ![w] = u] /\ tx'[w] = u /\ tx[w].at = "idle"
      /\ UNCHANGED <<row, stripe, paid, emitted, newest, excused, events>>
  BY DEF LoadForBasic, history, SubscriptionInv, TypeOK
<1> HIDE DEF t
<1>3. /\ u \in Transactions /\ u.at = "writing" /\ u.event = NULL /\ u.plan = BASIC
      /\ u.status = "active" /\ ~u.stale /\ (u.inserts <=> row = NULL)
      /\ row # NULL => /\ "plan" \notin u.writes => u.plan = row.plan
                       /\ "status" \notin u.writes => u.status = row.status
                       /\ "sub" \notin u.writes => u.sub = row.sub
  BY <1>1, PreparedSound
<1> HIDE DEF u
<1>4. RequestSound(w)' /\ ReadSound(w)'
  BY <1>2, <1>3, PlanTypes DEF RequestSound, ReadSound, RowStatuses
<1> QED BY <1>2, <1>3, <1>4, LoadStep

LEMMA LoadForChangeStep ==
  ASSUME SubscriptionInv, NEW w \in Workers, NEW plan \in PaidPlans, LoadForChange(w, plan)
  PROVE  SubscriptionInv'
<1> DEFINE t == [Idle EXCEPT !.plan = plan, !.sub = row.sub]
           u == Prepared(t)
           v == [u EXCEPT !.at = "calling_change", !.loaded = row.status]
<1>1. row # NULL /\ row \in Rows /\ row.sub \in Subs /\ row.status \in RowStatuses
  BY DEF LoadForChange, SubscriptionInv, TypeOK, Rows
<1>2. t \in Transactions /\ t.event = NULL /\ t.plan = plan /\ t.sub = row.sub /\ ~t.inserts /\ ~t.stale
  <2>1. t \in Transactions /\ t.plan = plan /\ t.sub = row.sub
    BY <1>1, IdleType, PlanTypes DEF Transactions
  <2>2. t.event = NULL /\ ~t.inserts /\ ~t.stale
    BY DEF Idle
  <2> QED BY <2>1, <2>2
<1>3. /\ tx' = [tx EXCEPT ![w] = v] /\ tx'[w] = v /\ tx[w].at = "idle"
      /\ UNCHANGED <<row, stripe, paid, emitted, newest, excused, events>>
  BY DEF LoadForChange, history, SubscriptionInv, TypeOK
<1> HIDE DEF t
<1>4. /\ u \in Transactions /\ u.event = NULL /\ u.plan = plan /\ u.sub = row.sub
      /\ ~u.stale /\ ~u.inserts
      /\ "plan" \notin u.writes => u.plan = row.plan
      /\ "status" \notin u.writes => u.status = row.status
      /\ "sub" \notin u.writes => u.sub = row.sub
  BY <1>1, <1>2, PreparedSound
<1> HIDE DEF u
<1>5. /\ v \in Transactions /\ v.at = "calling_change" /\ v.loaded = row.status
      /\ v.event = NULL /\ v.plan = plan /\ v.sub = row.sub /\ ~v.stale /\ ~v.inserts
      /\ "plan" \notin v.writes => v.plan = row.plan
      /\ "status" \notin v.writes => v.status = row.status
      /\ "sub" \notin v.writes => v.sub = row.sub
  BY <1>1, <1>4 DEF Transactions
<1> HIDE DEF v
<1>6. RequestSound(w)' /\ ReadSound(w)'
  BY <1>1, <1>3, <1>5 DEF RequestSound, ReadSound
<1> QED BY <1>3, <1>5, <1>6, LoadStep

LEMMA LoadForCancelStep ==
  ASSUME SubscriptionInv, NEW w \in Workers, LoadForCancel(w)
  PROVE  SubscriptionInv'
<1> DEFINE t == [Idle EXCEPT !.plan = row.plan, !.sub = row.sub]
<1>1. /\ row # NULL /\ row \in Rows /\ row.sub \in Subs \cup {NULL} /\ row.plan \in Plans
      /\ tx[w].at = "idle" /\ UNCHANGED <<row, stripe, paid, emitted, newest, excused, events>>
  BY DEF LoadForCancel, history, SubscriptionInv, TypeOK, Rows
<1>2. t \in Transactions /\ t.event = NULL /\ t.plan = row.plan /\ t.sub = row.sub /\ ~t.inserts /\ ~t.stale
  <2>1. t \in Transactions /\ t.plan = row.plan /\ t.sub = row.sub
    BY <1>1, IdleType DEF Transactions
  <2>2. t.event = NULL /\ ~t.inserts /\ ~t.stale
    BY DEF Idle
  <2> QED BY <2>1, <2>2
<1>3. CASE row.sub = NULL
  <2> DEFINE c == [t EXCEPT !.status = "cancelled"]
             u == Prepared(c)
  <2>1. tx' = [tx EXCEPT ![w] = u] /\ tx'[w] = u
    BY <1>3 DEF LoadForCancel, SubscriptionInv, TypeOK
  <2> HIDE DEF t
  <2>2. /\ c \in Transactions /\ c.event = NULL /\ c.plan = row.plan /\ c.sub = row.sub
        /\ c.status = "cancelled" /\ ~c.inserts /\ ~c.stale
    BY <1>2 DEF Transactions, RowStatuses
  <2> HIDE DEF c
  <2>3. /\ u \in Transactions /\ u.at = "writing" /\ u.event = NULL /\ u.plan = row.plan
        /\ u.status = "cancelled" /\ ~u.stale /\ ~u.inserts
        /\ "plan" \notin u.writes => u.plan = row.plan
        /\ "status" \notin u.writes => u.status = row.status
        /\ "sub" \notin u.writes => u.sub = row.sub
    BY <1>1, <2>2, PreparedSound
  <2> HIDE DEF u
  <2>4. RequestSound(w)' /\ ReadSound(w)'
    BY <1>1, <1>3, <2>1, <2>3 DEF RequestSound, ReadSound, RowStatuses
  <2> QED BY <1>1, <2>1, <2>3, <2>4, LoadStep
<1>4. CASE row.sub # NULL
  <2> DEFINE c == [t EXCEPT !.status = "cancel_at_period_end"]
             p == Prepared(c)
             u == [p EXCEPT !.at = "calling_cancel"]
  <2>1. tx' = [tx EXCEPT ![w] = u] /\ tx'[w] = u
    BY <1>4 DEF LoadForCancel, SubscriptionInv, TypeOK
  <2> HIDE DEF t
  <2>2. /\ c \in Transactions /\ c.event = NULL /\ c.plan = row.plan /\ c.sub = row.sub
        /\ c.status = "cancel_at_period_end" /\ ~c.inserts /\ ~c.stale
    BY <1>2 DEF Transactions, RowStatuses
  <2> HIDE DEF c
  <2>3. /\ p \in Transactions /\ p.event = NULL /\ p.plan = row.plan /\ p.sub = row.sub
        /\ p.status = "cancel_at_period_end" /\ ~p.stale /\ ~p.inserts
        /\ "plan" \notin p.writes => p.plan = row.plan
        /\ "status" \notin p.writes => p.status = row.status
        /\ "sub" \notin p.writes => p.sub = row.sub
    BY <1>1, <2>2, PreparedSound
  <2> HIDE DEF p
  <2>4. /\ u \in Transactions /\ u.at = "calling_cancel" /\ u.event = NULL /\ u.plan = row.plan /\ u.sub = row.sub
        /\ u.status = "cancel_at_period_end" /\ ~u.stale /\ ~u.inserts
        /\ "plan" \notin u.writes => u.plan = row.plan
        /\ "status" \notin u.writes => u.status = row.status
        /\ "sub" \notin u.writes => u.sub = row.sub
    BY <2>3 DEF Transactions
  <2> HIDE DEF u
  <2>5. RequestSound(w)' /\ ReadSound(w)'
    BY <1>1, <1>4, <2>1, <2>4 DEF RequestSound, ReadSound
  <2> QED BY <1>1, <2>1, <2>4, <2>5, LoadStep
<1> QED BY <1>3, <1>4

-----------------------------------------------------------------------------
\* What a change at Stripe leaves sound, with the events that it emits.
LEMMA EmitSound ==
  ASSUME SubscriptionInv, NEW s \in Subs, NEW status \in {"active", "past_due", "canceled"}, NEW plan \in Plans,
         NEW kinds \in SUBSET Kinds, kinds # {}, Emit(s, status, plan, kinds),
         \A k \in kinds : (k = "deleted" <=> status = "canceled") /\ (k = "completed" => status = "active"),
         UNCHANGED <<row, newest, excused>>
  PROVE  /\ stripe' \in [Subs -> [status: StripeStatuses, plan: Plans \cup {NULL}]]
         /\ paid' \in [Subs -> SUBSET Plans] /\ emitted' \in 0..MaxEvents /\ events' \subseteq Events
         /\ stripe'[s].status = status /\ stripe'[s].plan = plan
         /\ status = "active" => plan \in paid'[s]
         /\ \A q \in Subs : paid[q] \subseteq paid'[q]
         /\ emitted' = emitted + 1 /\ newest < emitted'
         /\ StripeSound' /\ PaidPlanWasPaid' /\ MirroredSinceNewest'
         /\ \A e \in events' : EventSound(e)'
         /\ \E e \in events' : e.n = emitted'
         /\ \A e \in Events : EventSound(e) => EventSound(e)' /\ e.n # emitted'
<1> DEFINE new == {[n |-> emitted + 1, kind |-> k, sub |-> s, plan |-> plan, status |-> status] : k \in kinds}
<1>1. /\ emitted < MaxEvents /\ emitted' = emitted + 1 /\ emitted \in 0..MaxEvents /\ newest <= emitted
      /\ stripe' = [stripe EXCEPT ![s] = [status |-> status, plan |-> plan]]
      /\ paid' = [paid EXCEPT ![s] = IF status = "active" THEN @ \cup {plan} ELSE @]
      /\ events' = events \cup new
      /\ newest \in 0..MaxEvents
  BY DEF Emit, SubscriptionInv, TypeOK, NothingLost
<1>2. /\ stripe' \in [Subs -> [status: StripeStatuses, plan: Plans \cup {NULL}]]
      /\ stripe'[s].status = status /\ stripe'[s].plan = plan
      /\ \A q \in Subs \ {s} : stripe'[q] = stripe[q]
  BY <1>1 DEF StripeStatuses, SubscriptionInv, TypeOK
<1>3. /\ paid' \in [Subs -> SUBSET Plans] /\ (status = "active" => plan \in paid'[s])
      /\ \A q \in Subs : paid[q] \subseteq paid'[q]
  BY <1>1 DEF SubscriptionInv, TypeOK
<1>4. emitted' \in 0..MaxEvents /\ newest < emitted'
  BY <1>1
<1>5. ASSUME NEW e \in new PROVE e \in Events /\ e.n = emitted' /\ EventSound(e)'
  <2>1. PICK k \in kinds : e = [n |-> emitted + 1, kind |-> k, sub |-> s, plan |-> plan, status |-> status]
    BY <1>5
  <2>2. /\ e.n = emitted' /\ e.kind = k /\ e.sub = s /\ e.plan = plan /\ e.status = status
    BY <1>1, <2>1
  <2>3. e \in Events
    BY <1>1, <2>1 DEF Events, StripeStatuses
  <2>4. EventSound(e)'
    BY <1>1, <1>2, <1>3, <2>2 DEF EventSound
  <2> QED BY <2>2, <2>3, <2>4
<1>6. ASSUME NEW e \in Events, EventSound(e) PROVE EventSound(e)' /\ e.n # emitted'
  <2>1. e.n <= emitted /\ e.n \in Nat /\ e.sub \in Subs
    BY <1>6 DEF EventSound, Events
  <2>2. e.n <= emitted' /\ e.n # emitted'
    BY <1>1, <2>1
  <2>3. stripe'[e.sub].status # "none"
    BY <1>2, <1>6, <2>1 DEF EventSound
  <2> QED BY <1>3, <1>6, <2>1, <2>2, <2>3 DEF EventSound
<1>7. events' \subseteq Events /\ (\A e \in events' : EventSound(e)') /\ \E e \in events' : e.n = emitted'
  <2>1. new # {}
    OBVIOUS
  <2>2. \A e \in events : e \in Events /\ EventSound(e)
    BY DEF SubscriptionInv, TypeOK
  <2> HIDE DEF new
  <2> QED BY <1>1, <1>5, <1>6, <2>1, <2>2
<1>8. StripeSound'
  BY <1>2 DEF SubscriptionInv, StripeSound
<1>9. PaidPlanWasPaid'
  <2>1. row # NULL => row \in Rows
    BY DEF SubscriptionInv, TypeOK
  <2> SUFFICES ASSUME row # NULL, row.status = "active", row.plan \in PaidPlans, "stale" \notin excused
               PROVE  row.sub # NULL /\ row.plan \in paid'[row.sub]
    BY DEF PaidPlanWasPaid, Entitled, Plans
  <2>2. row.sub # NULL /\ row.plan \in paid[row.sub]
    BY DEF SubscriptionInv, PaidPlanWasPaid, Entitled
  <2> QED BY <1>3, <2>1, <2>2 DEF Rows
<1>10. MirroredSinceNewest'
  BY <1>1, <1>4 DEF MirroredSinceNewest
<1> QED BY <1>1, <1>2, <1>3, <1>4, <1>6, <1>7, <1>8, <1>9, <1>10

\* What a change at Stripe leaves of a request that does not take part in it.
LEMMA OthersSound ==
  ASSUME SubscriptionInv, NEW v \in Workers, tx'[v] = tx[v], UNCHANGED <<row, newest>>, emitted' = emitted + 1,
         \A q \in Subs : paid[q] \subseteq paid'[q],
         \A e \in Events : EventSound(e) => EventSound(e)' /\ e.n # emitted'
  PROVE  WorkerSound(v)'
<1>1. WorkerSound(v) /\ tx[v] \in Transactions /\ emitted \in Nat /\ newest \in Nat
  BY TypeSplit DEF SubscriptionInv
<1>2. EventHeld(v)'
  BY <1>1 DEF WorkerSound, EventHeld, Transactions
<1>3. RequestSound(v)'
  BY <1>1 DEF WorkerSound, RequestSound
<1>4. ReadSound(v)'
  BY <1>1 DEF WorkerSound, ReadSound
<1> QED BY <1>2, <1>3, <1>4 DEF WorkerSound

\* A change at Stripe that no request makes.
LEMMA StripeStep ==
  ASSUME SubscriptionInv, NEW s \in Subs,
         \/ \E plan \in PaidPlans : Subscribe(s, plan)
         \/ \E status \in StripeStatuses : StripeChanges(s, status)
         \/ StripeEnds(s)
  PROVE  SubscriptionInv'
<1>1. UNCHANGED <<row, newest, excused, tx>>
  BY DEF Subscribe, StripeChanges, StripeEnds, history
<1> DEFINE Emits ==
      \E status \in {"active", "past_due", "canceled"}, plan \in Plans, kinds \in SUBSET Kinds :
        /\ kinds # {} /\ Emit(s, status, plan, kinds)
        /\ \A k \in kinds : (k = "deleted" <=> status = "canceled") /\ (k = "completed" => status = "active")
<1>2. Emits
  <2>1. ASSUME NEW plan \in PaidPlans, Subscribe(s, plan) PROVE Emits
    <3>1. Emit(s, "active", plan, {"created", "completed"})
      BY <2>1 DEF Subscribe
    <3> QED BY <3>1, PlanTypes DEF Kinds
  <2>2. ASSUME NEW status \in StripeStatuses, StripeChanges(s, status) PROVE Emits
    <3>1. Emit(s, status, stripe[s].plan, {"updated"}) /\ status \in {"active", "past_due"}
      BY <2>2 DEF StripeChanges
    <3>2. stripe[s].plan \in Plans
      BY <2>2 DEF StripeChanges, Live, SubscriptionInv, StripeSound
    <3> QED BY <3>1, <3>2 DEF Kinds
  <2>3. CASE StripeEnds(s)
    <3>1. Emit(s, "canceled", stripe[s].plan, {"deleted"})
      BY <2>3 DEF StripeEnds
    <3>2. stripe[s].plan \in Plans
      BY <2>3 DEF StripeEnds, Live, SubscriptionInv, StripeSound
    <3> QED BY <3>1, <3>2 DEF Kinds
  <2> QED BY <2>1, <2>2, <2>3
<1>3. PICK status \in {"active", "past_due", "canceled"}, plan \in Plans, kinds \in SUBSET Kinds :
        /\ kinds # {} /\ Emit(s, status, plan, kinds)
        /\ \A k \in kinds : (k = "deleted" <=> status = "canceled") /\ (k = "completed" => status = "active")
  BY <1>2
<1>4. /\ stripe' \in [Subs -> [status: StripeStatuses, plan: Plans \cup {NULL}]]
      /\ paid' \in [Subs -> SUBSET Plans] /\ emitted' \in 0..MaxEvents /\ events' \subseteq Events
      /\ \A q \in Subs : paid[q] \subseteq paid'[q]
      /\ emitted' = emitted + 1 /\ newest < emitted'
      /\ StripeSound' /\ PaidPlanWasPaid' /\ MirroredSinceNewest'
      /\ \A e \in events' : EventSound(e)'
      /\ \E e \in events' : e.n = emitted'
      /\ \A e \in Events : EventSound(e) => EventSound(e)' /\ e.n # emitted'
  BY <1>1, <1>3, EmitSound
<1>5. \A v \in Workers : WorkerSound(v)'
  BY <1>1, <1>4, OthersSound
<1>6. TypeOK'
  BY <1>1, <1>4, TypeSplit, TypeNext DEF SubscriptionInv
<1>7. NothingLost'
  BY <1>1, <1>4 DEF NothingLost, SubscriptionInv, TypeOK
<1> QED BY <1>4, <1>5, <1>6, <1>7 DEF SubscriptionInv

\* A change at Stripe that a request makes, before it writes.
LEMMA CallStep ==
  ASSUME SubscriptionInv, NEW w \in Workers, StripeModifies(w) \/ StripeCancels(w)
  PROVE  SubscriptionInv'
<1> DEFINE s == tx[w].sub
           status == stripe[s].status
           plan == IF tx[w].at = "calling_change" THEN tx[w].plan ELSE stripe[s].plan
<1>1. /\ tx[w] \in Transactions /\ RequestSound(w) /\ ReadSound(w)
      /\ tx[w].at \in {"calling_change", "calling_cancel"}
  BY TypeSplit DEF StripeModifies, StripeCancels, SubscriptionInv, WorkerSound
<1>2. s \in Subs /\ tx[w].event = NULL /\ ~tx[w].inserts
  BY <1>1 DEF RequestSound
<1>3. /\ UNCHANGED <<row, newest, excused>> /\ status \in {"active", "past_due"}
      /\ Emit(s, status, plan, {"updated"})
  BY DEF StripeModifies, StripeCancels, Live, history
<1>4. plan \in Plans
  BY <1>1, <1>2, <1>3, PlanTypes DEF RequestSound, SubscriptionInv, StripeSound
<1>5. status \in RowStatuses
  BY <1>3 DEF RowStatuses
<1> HIDE DEF status, plan
<1>6. /\ stripe' \in [Subs -> [status: StripeStatuses, plan: Plans \cup {NULL}]]
      /\ paid' \in [Subs -> SUBSET Plans] /\ emitted' \in 0..MaxEvents /\ events' \subseteq Events
      /\ status = "active" => plan \in paid'[s]
      /\ \A q \in Subs : paid[q] \subseteq paid'[q]
      /\ emitted' = emitted + 1 /\ newest < emitted'
      /\ StripeSound' /\ PaidPlanWasPaid' /\ MirroredSinceNewest'
      /\ \A e \in events' : EventSound(e)'
      /\ \E e \in events' : e.n = emitted'
      /\ \A e \in Events : EventSound(e) => EventSound(e)' /\ e.n # emitted'
  <2> DEFINE kinds == {"updated"}
  <2>1. /\ kinds \in SUBSET Kinds /\ kinds # {} /\ Emit(s, status, plan, kinds)
        /\ status \in {"active", "past_due", "canceled"}
        /\ \A k \in kinds : (k = "deleted" <=> status = "canceled") /\ (k = "completed" => status = "active")
    BY <1>3 DEF Kinds
  <2> HIDE DEF kinds, s
  <2> QED BY <1>2, <1>3, <1>4, <2>1, EmitSound
<1>7. \E t \in Transactions :
        /\ tx' = [tx EXCEPT ![w] = t] /\ t.at = "writing" /\ t.event = NULL /\ t.plan = tx[w].plan /\ t.sub = s
        /\ ~t.inserts /\ t.stale = tx[w].stale /\ t.status \in RowStatuses
        /\ t.status = "active" => t.status = status /\ t.plan = plan
        /\ "plan" \notin t.writes => "plan" \notin tx[w].writes
        /\ "sub" \notin t.writes => "sub" \notin tx[w].writes
        /\ ~t.stale /\ "status" \notin t.writes => t.status = row.status
  <2>1. CASE StripeModifies(w)
    <3> DEFINE writes == IF status = tx[w].loaded THEN tx[w].writes \ {"status"} ELSE tx[w].writes \cup {"status"}
               t == [tx[w] EXCEPT !.at = "writing", !.status = stripe[tx[w].sub].status, !.loaded = NULL,
                                  !.writes = IF stripe[tx[w].sub].status = tx[w].loaded THEN @ \ {"status"}
                                             ELSE @ \cup {"status"}]
    <3>1. tx' = [tx EXCEPT ![w] = t] /\ tx[w].at = "calling_change"
      BY <2>1 DEF StripeModifies
    <3>2. /\ writes \in SUBSET Columns
          /\ "plan" \notin writes => "plan" \notin tx[w].writes
          /\ "sub" \notin writes => "sub" \notin tx[w].writes
          /\ "status" \notin writes => status = tx[w].loaded
      BY <1>1 DEF Transactions, Columns
    <3>3. /\ t \in Transactions /\ t.at = "writing" /\ t.event = NULL /\ t.plan = tx[w].plan /\ t.sub = s
          /\ ~t.inserts /\ t.stale = tx[w].stale /\ t.status = status /\ t.writes = writes
      BY <1>1, <1>2, <1>5, <3>2 DEF Transactions, status
    <3>4. ~tx[w].stale => tx[w].loaded = row.status
      BY <1>1, <3>1 DEF ReadSound
    <3> HIDE DEF t, writes
    <3> QED BY <1>5, <3>1, <3>2, <3>3, <3>4 DEF plan
  <2>2. CASE StripeCancels(w)
    <3> DEFINE t == [tx[w] EXCEPT !.at = "writing"]
    <3>1. tx' = [tx EXCEPT ![w] = t] /\ tx[w].at = "calling_cancel"
      BY <2>2 DEF StripeCancels
    <3>2. /\ t \in Transactions /\ t.at = "writing" /\ t.event = NULL /\ t.plan = tx[w].plan /\ t.sub = s
          /\ ~t.inserts /\ t.stale = tx[w].stale /\ t.status = tx[w].status /\ t.writes = tx[w].writes
      BY <1>1, <1>2 DEF Transactions
    <3>3. t.status = "cancel_at_period_end" /\ t.status \in RowStatuses
      BY <1>1, <3>1, <3>2 DEF RequestSound, RowStatuses
    <3>4. ~tx[w].stale /\ "status" \notin tx[w].writes => tx[w].status = row.status
      BY <1>1, <1>2, <3>1 DEF ReadSound
    <3> HIDE DEF t
    <3> QED BY <3>1, <3>2, <3>3, <3>4
  <2> QED BY <2>1, <2>2
<1>8. PICK t \in Transactions :
        /\ tx' = [tx EXCEPT ![w] = t] /\ t.at = "writing" /\ t.event = NULL /\ t.plan = tx[w].plan /\ t.sub = s
        /\ ~t.inserts /\ t.stale = tx[w].stale /\ t.status \in RowStatuses
        /\ t.status = "active" => t.status = status /\ t.plan = plan
        /\ "plan" \notin t.writes => "plan" \notin tx[w].writes
        /\ "sub" \notin t.writes => "sub" \notin tx[w].writes
        /\ ~t.stale /\ "status" \notin t.writes => t.status = row.status
  BY <1>7
<1>9. tx'[w] = t /\ tx' \in [Workers -> Transactions] /\ \A v \in Workers \ {w} : tx'[v] = tx[v]
  BY <1>8, TypeSplit DEF SubscriptionInv
<1>10. WorkerSound(w)'
  <2>1. EventHeld(w)'
    BY <1>8, <1>9 DEF EventHeld
  <2>2. tx[w].plan \in Plans
    BY <1>1, PlanTypes DEF RequestSound
  <2>3. RequestSound(w)'
    BY <1>2, <1>6, <1>8, <1>9, <2>2 DEF RequestSound
  <2>4. ReadSound(w)'
    <3>1. /\ row # NULL
          /\ ~tx[w].stale /\ "plan" \notin tx[w].writes => tx[w].plan = row.plan
          /\ ~tx[w].stale /\ "sub" \notin tx[w].writes => tx[w].sub = row.sub
      BY <1>1, <1>2 DEF ReadSound
    <3> QED BY <1>3, <1>6, <1>8, <1>9, <3>1 DEF ReadSound
  <2> QED BY <2>1, <2>3, <2>4 DEF WorkerSound
<1>11. \A v \in Workers : WorkerSound(v)'
  BY <1>3, <1>6, <1>9, <1>10, OthersSound
<1>12. TypeOK'
  BY <1>3, <1>6, <1>9, TypeSplit, TypeNext DEF SubscriptionInv
<1>13. NothingLost'
  BY <1>3, <1>6 DEF NothingLost, SubscriptionInv, TypeOK
<1> QED BY <1>6, <1>11, <1>12, <1>13 DEF SubscriptionInv

-----------------------------------------------------------------------------
LEMMA CommitStep ==
  ASSUME SubscriptionInv, NEW w \in Workers, Commit(w)
  PROVE  SubscriptionInv'
<1> DEFINE t == tx[w]
<1>1. /\ t \in Transactions /\ EventHeld(w) /\ RequestSound(w) /\ ReadSound(w) /\ t.at = "writing"
      /\ UNCHANGED <<stripe, paid, emitted, events>>
  BY TypeSplit DEF Commit, SubscriptionInv, WorkerSound
<1>2. /\ t.inserts => row = NULL
      /\ row' = [c \in Columns |-> IF t.inserts \/ c \in t.writes THEN t[c] ELSE row[c]]
      /\ newest' = IF t.event # NULL /\ t.event.n > newest THEN t.event.n ELSE newest
      /\ excused' = IF t.event = NULL THEN excused \cup Excuses(t) ELSE Excuses(t)
  BY DEF Commit
<1>3. t.plan \in Plans /\ t.status \in RowStatuses /\ t.sub \in Subs \cup {NULL}
  BY <1>1 DEF RequestSound, Transactions
<1>4. row' \in Rows
  <2>1. ~t.inserts => row \in Rows
    BY <1>1 DEF ReadSound, SubscriptionInv, TypeOK
  <2> QED BY <1>2, <1>3, <2>1 DEF Rows, Columns
<1>5. ~t.stale => row' = [plan |-> t.plan, status |-> t.status, sub |-> t.sub]
  <2>1. CASE t.inserts
    BY <1>2, <2>1 DEF Columns
  <2>2. ASSUME ~t.inserts, ~t.stale PROVE row' = [plan |-> t.plan, status |-> t.status, sub |-> t.sub]
    <3>1. /\ "plan" \notin t.writes => t.plan = row.plan
          /\ "status" \notin t.writes => t.status = row.status
          /\ "sub" \notin t.writes => t.sub = row.sub
      BY <1>1, <2>2 DEF ReadSound
    <3> QED BY <1>2, <2>2, <3>1 DEF Columns
  <2> QED BY <2>1, <2>2
<1>6. newest' \in 0..MaxEvents /\ newest' <= emitted /\ newest <= newest' /\ emitted \in Nat /\ newest \in Nat
  <2>1. t.event # NULL => t.event.n \in 1..MaxEvents /\ t.event.n <= emitted
    BY <1>1 DEF EventHeld, EventSound, Transactions, Events
  <2> QED BY <1>2, <2>1 DEF SubscriptionInv, TypeOK, NothingLost
<1>7. tx'[w] = Idle
  BY DEF Commit
<1>8. ASSUME NEW v \in Workers, v # w
      PROVE  /\ tx'[v] \in Transactions
             /\ tx'[v].at = tx[v].at /\ tx'[v].event = tx[v].event /\ tx'[v].plan = tx[v].plan
             /\ tx'[v].status = tx[v].status /\ tx'[v].sub = tx[v].sub /\ tx'[v].loaded = tx[v].loaded
             /\ tx'[v].writes = tx[v].writes /\ tx'[v].inserts = tx[v].inserts
             /\ tx'[v].stale <=> tx[v].at \notin {"idle", "hook"}
  <2>1. tx[v] \in Transactions
    BY TypeSplit DEF SubscriptionInv
  <2>2. CASE tx[v].at \in {"idle", "hook"}
    <3>1. tx'[v] = [tx[v] EXCEPT !.stale = FALSE]
      BY <1>8, <2>2 DEF Commit
    <3> QED BY <2>1, <2>2, <3>1 DEF Transactions
  <2>3. CASE tx[v].at \notin {"idle", "hook"}
    <3>1. tx'[v] = [tx[v] EXCEPT !.stale = TRUE]
      BY <1>8, <2>3 DEF Commit
    <3> QED BY <2>1, <2>3, <3>1 DEF Transactions
  <2> QED BY <2>2, <2>3
<1>9. ASSUME NEW v \in Workers PROVE WorkerSound(v)'
  <2>1. CASE v = w
    BY <1>7, <2>1, IdleSoundNext
  <2>2. CASE v # w
    <3>1. WorkerSound(v)
      BY DEF SubscriptionInv
    <3>2. EventHeld(v)'
      BY <1>1, <1>8, <2>2, <3>1 DEF WorkerSound, EventHeld, EventSound
    <3>3. RequestSound(v)'
      BY <1>1, <1>8, <2>2, <3>1 DEF WorkerSound, RequestSound
    <3>4. ReadSound(v)'
      BY <1>4, <1>8, <2>2 DEF ReadSound
    <3> QED BY <3>2, <3>3, <3>4 DEF WorkerSound
  <2> QED BY <2>1, <2>2
<1>10. Excuses(t) \subseteq {"late", "stale", "local"} /\ (t.stale => "stale" \in excused')
  BY <1>2 DEF Excuses
<1>11. TypeOK'
  <2>1. tx' = [v \in Workers |-> tx'[v]]
    BY DEF Commit
  <2>2. tx' \in [Workers -> Transactions]
    BY <1>7, <1>8, <2>1, IdleType
  <2>3. excused' \subseteq {"late", "stale", "local"}
    BY <1>2, <1>10 DEF SubscriptionInv, TypeOK
  <2> QED BY <1>1, <1>4, <1>6, <2>2, <2>3, TypeSplit, TypeNext DEF SubscriptionInv
<1>12. StripeSound' /\ \A e \in events' : EventSound(e)'
  BY <1>1 DEF SubscriptionInv, StripeSound, EventSound
<1>13. NothingLost'
  <2> SUFFICES ASSUME newest' < emitted
               PROVE  \/ \E e \in events : e.n = emitted
                      \/ \E v \in Workers : tx'[v].event # NULL /\ tx'[v].event.n = emitted
    BY <1>1, <1>6 DEF NothingLost
  <2>1. newest < emitted
    BY <1>6
  <2>2. ASSUME NEW v \in Workers, tx[v].event # NULL, tx[v].event.n = emitted
        PROVE  v # w
    <3> SUFFICES ASSUME v = w PROVE FALSE
      OBVIOUS
    <3>1. newest' = emitted
      BY <1>2, <2>1, <2>2
    <3> QED BY <1>6, <3>1
  <2> QED BY <1>8, <2>1, <2>2 DEF SubscriptionInv, NothingLost
<1>14. PaidPlanWasPaid'
  <2> SUFFICES ASSUME row'.status = "active", row'.plan \in PaidPlans, "stale" \notin excused'
               PROVE  row'.sub # NULL /\ row'.plan \in paid[row'.sub]
    BY <1>1 DEF PaidPlanWasPaid, Entitled, Plans
  <2>1. ~t.stale
    BY <1>10
  <2>2. t.status = "active" /\ t.plan \in PaidPlans /\ row'.plan = t.plan /\ row'.sub = t.sub
    BY <1>5, <2>1
  <2>3. t.sub \in Subs /\ t.plan \in paid[t.sub]
    BY <1>1, <2>2 DEF RequestSound
  <2> QED BY <2>2, <2>3
<1>15. MirroredSinceNewest'
  <2> SUFFICES ASSUME newest' = emitted, emitted > 0, excused' = {} PROVE Mirrored'
    BY <1>1 DEF MirroredSinceNewest
  <2>1. ~t.stale /\ row' = [plan |-> t.plan, status |-> t.status, sub |-> t.sub]
    BY <1>5, <1>10
  <2>2. CASE t.event # NULL
    <3>1. ~(t.event.n < newest)
      BY <1>2, <2>2 DEF Excuses
    <3>2. t.event \in Events /\ t.event.n \in Nat /\ t.event.sub \in Subs
      BY <1>1, <2>2 DEF Transactions, Events
    <3>3. t.event.n = emitted
      BY <1>2, <1>6, <2>2, <3>1, <3>2
    <3>4. t.sub = t.event.sub /\ t.plan = stripe[t.sub].plan /\ t.status = Shown(stripe[t.sub].status)
      BY <1>1, <2>2, <3>3 DEF EventHeld, EventSound
    <3> QED BY <1>1, <2>1, <3>2, <3>4 DEF Mirrored
  <2>3. CASE t.event = NULL
    <3>1. newest = emitted /\ excused = {} /\ t.plan # BASIC
      BY <1>2, <2>3 DEF Excuses
    <3>2. Mirrored
      BY <3>1 DEF SubscriptionInv, MirroredSinceNewest
    <3>3. row # NULL /\ row.sub = NULL
      BY <1>1, <1>6, <2>1, <2>3, <3>1 DEF ReadSound
    <3> QED BY <3>2, <3>3 DEF Mirrored
  <2> QED BY <2>2, <2>3
<1> QED BY <1>9, <1>11, <1>12, <1>13, <1>14, <1>15 DEF SubscriptionInv

-----------------------------------------------------------------------------
LEMMA SubscriptionStep == SubscriptionInv /\ [Next]_vars => SubscriptionInv'
<1> SUFFICES ASSUME SubscriptionInv, [Next]_vars PROVE SubscriptionInv'
  OBVIOUS
<1>1. CASE UNCHANGED vars
  BY <1>1 DEF vars, SubscriptionInv, TypeOK, StripeSound, EventSound, WorkerSound, EventHeld, RequestSound,
              ReadSound, NothingLost, PaidPlanWasPaid, Entitled, MirroredSinceNewest, Mirrored
<1>2. ASSUME NEW s \in Subs,
             \/ \E plan \in PaidPlans : Subscribe(s, plan)
             \/ \E status \in StripeStatuses : StripeChanges(s, status)
             \/ StripeEnds(s)
      PROVE  SubscriptionInv'
  BY <1>2, StripeStep
<1>3. ASSUME NEW w \in Workers, NEW e \in events, ReceiveEvent(w, e) PROVE SubscriptionInv'
  BY <1>3, ReceiveStep
<1>4. ASSUME NEW w \in Workers, NEW plan \in PaidPlans, LoadForChange(w, plan) PROVE SubscriptionInv'
  BY <1>4, LoadForChangeStep
<1>5. ASSUME NEW w \in Workers, LoadForEvent(w) PROVE SubscriptionInv'
  BY <1>5, LoadForEventStep
<1>6. ASSUME NEW w \in Workers, LoadForBasic(w) PROVE SubscriptionInv'
  BY <1>6, LoadForBasicStep
<1>7. ASSUME NEW w \in Workers, LoadForCancel(w) PROVE SubscriptionInv'
  BY <1>7, LoadForCancelStep
<1>8. ASSUME NEW w \in Workers, StripeModifies(w) \/ StripeCancels(w) PROVE SubscriptionInv'
  BY <1>8, CallStep
<1>9. ASSUME NEW w \in Workers, Commit(w) PROVE SubscriptionInv'
  BY <1>9, CommitStep
<1>10. ASSUME NEW w \in Workers, Abort(w) PROVE SubscriptionInv'
  BY <1>10, AbortStep
<1> QED BY <1>1, <1>2, <1>3, <1>4, <1>5, <1>6, <1>7, <1>8, <1>9, <1>10 DEF Next

LEMMA SubscriptionHolds == Spec => []SubscriptionInv
  BY SubscriptionInit, SubscriptionStep, PTL DEF Spec

-----------------------------------------------------------------------------
\* The row, Stripe's subscriptions and the requests' transactions keep their types:
\* in whatever order columns computed from different rows are merged, a row remains.
THEOREM TypeCorrect == Spec => []TypeOK
<1>1. SubscriptionInv => TypeOK
  BY DEF SubscriptionInv
<1> QED BY <1>1, SubscriptionHolds, PTL

\* An organization that is entitled to a paid plan has a subscription that was active
\* on that plan, unless the row was merged with one that had changed.
THEOREM PaidPlansWerePaid == Spec => []PaidPlanWasPaid
<1>1. SubscriptionInv => PaidPlanWasPaid
  BY DEF SubscriptionInv
<1> QED BY <1>1, SubscriptionHolds, PTL

\* However often and in whatever order events are delivered, and wherever requests
\* are rolled back: when all is quiet the row is Stripe's, but for Excuses.
THEOREM QuietIsMirrored == Spec => []QuietMeansMirrored
<1>1. SubscriptionInv => QuietMeansMirrored
  <2> SUFFICES ASSUME SubscriptionInv, Quiet, emitted > 0, excused = {}
               PROVE  \E s \in Subs :
                        row = [plan   |-> stripe[s].plan,
                               status |-> IF stripe[s].status = "canceled" THEN "cancelled" ELSE stripe[s].status,
                               sub    |-> s]
    BY DEF QuietMeansMirrored
  <2>1. \A w \in Workers : tx[w].event = NULL
    BY DEF Quiet, SubscriptionInv, WorkerSound, RequestSound
  <2>2. newest = emitted
    BY <2>1 DEF Quiet, SubscriptionInv, NothingLost, TypeOK
  <2> QED BY <2>2 DEF SubscriptionInv, MirroredSinceNewest, Mirrored, Shown
<1> QED BY <1>1, SubscriptionHolds, PTL
=============================================================================
