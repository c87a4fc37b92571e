------------------------------ MODULE Subscription ------------------------------
(***************************************************************************)
(* The subscription row of one organization and the subscriptions it has   *)
(* at Stripe: core-api/app/entities/plans/router.py.                       *)
(*                                                                         *)
(* Stripe reports every change of a subscription as an event, a snapshot   *)
(* that the webhook writes over the row.  Events are delivered at least    *)
(* once, in any order.  The organization changes or cancels its plan by    *)
(* requests that call Stripe first and then write the row themselves.      *)
(*                                                                         *)
(* A trial counts as active here, and the plan named in a subscription's   *)
(* metadata is the one it is billed for.                                   *)
(***************************************************************************)
EXTENDS Integers

CONSTANTS
  Subs,        \* subscriptions at Stripe
  PaidPlans,   \* "professional", "enterprise"
  MaxEvents,   \* bound: changes of the subscriptions at Stripe
  Workers,     \* requests served at the same time
  NULL         \* an absent value

BASIC == "basic"
Plans == PaidPlans \cup {BASIC}

ASSUME PlansAssumption == BASIC \notin PaidPlans
ASSUME EventsAssumption == MaxEvents \in Nat

VARIABLES
  row,      \* the subscriptions row: [plan, status, sub], NULL when there is none
  stripe,   \* subscription -> [status, plan] at Stripe
  paid,     \* history: subscription -> the plans it was active on
  emitted,  \* changes at Stripe so far; an event has the number of its change
  events,   \* the events that were not answered with 200 yet
  tx,       \* worker -> its open transaction
  newest,   \* history: the newest event that was committed
  excused   \* history: why what the row says need not be right

vars == <<row, stripe, paid, emitted, events, tx, newest, excused>>
history == <<newest, excused>>

RowStatuses == {"active", "past_due", "cancelled", "canceled", "cancel_at_period_end"}
StripeStatuses == {"none", "active", "past_due", "canceled"}
Kinds == {"created", "completed", "updated", "deleted"}
Rows == [plan: Plans, status: RowStatuses, sub: Subs \cup {NULL}]
Events == [n: 1..MaxEvents, kind: Kinds, sub: Subs, plan: Plans, status: StripeStatuses]

ASSUME NullAssumption == NULL \notin Plans \cup Subs \cup Rows \cup Events

Columns == {"plan", "status", "sub"}

Idle == [at |-> "idle", event |-> NULL, plan |-> NULL, status |-> NULL, sub |-> NULL,
         loaded |-> NULL, writes |-> {}, inserts |-> FALSE, stale |-> FALSE]

TypeOK ==
  /\ row \in Rows \cup {NULL}
  /\ stripe \in [Subs -> [status: StripeStatuses, plan: Plans \cup {NULL}]]
  /\ paid \in [Subs -> SUBSET Plans]
  /\ emitted \in 0..MaxEvents
  /\ events \subseteq Events
  /\ tx \in [Workers -> [at: {"idle", "hook", "calling_change", "calling_cancel", "writing"},
                         event: Events \cup {NULL}, plan: Plans \cup {NULL},
                         status: RowStatuses \cup {NULL}, sub: Subs \cup {NULL},
                         loaded: RowStatuses \cup {NULL}, writes: SUBSET Columns,
                         inserts: BOOLEAN, stale: BOOLEAN]]
  /\ newest \in 0..MaxEvents
  /\ excused \subseteq {"late", "stale", "local"}

Init ==
  /\ row = NULL
  /\ stripe = [s \in Subs |-> [status |-> "none", plan |-> NULL]]
  /\ paid = [s \in Subs |-> {}]
  /\ emitted = 0
  /\ events = {}
  /\ tx = [w \in Workers |-> Idle]
  /\ newest = 0
  /\ excused = {}

-----------------------------------------------------------------------------
(* Stripe *)

Live(s) == stripe[s].status \in {"active", "past_due"}

\* s becomes what the new snapshot says, and Stripe emits events of these kinds.
Emit(s, status, plan, kinds) ==
  /\ emitted < MaxEvents
  /\ stripe' = [stripe EXCEPT ![s] = [status |-> status, plan |-> plan]]
  /\ paid' = [paid EXCEPT ![s] = IF status = "active" THEN @ \cup {plan} ELSE @]
  /\ emitted' = emitted + 1
  /\ events' = events \cup
       {[n |-> emitted', kind |-> k, sub |-> s, plan |-> plan, status |-> status] : k \in kinds}

\* A checkout session of /billing/checkout-session is paid.
Subscribe(s, plan) ==
  /\ stripe[s].status = "none"
  /\ Emit(s, "active", plan, {"created", "completed"})
  /\ UNCHANGED <<row, tx, history>>

\* A payment fails, or is made up for; the subscription ends.
StripeChanges(s, status) ==
  /\ Live(s)
  /\ status \in {"active", "past_due"} \ {stripe[s].status}
  /\ Emit(s, status, stripe[s].plan, {"updated"})
  /\ UNCHANGED <<row, tx, history>>

StripeEnds(s) ==
  /\ Live(s)
  /\ Emit(s, "canceled", stripe[s].plan, {"deleted"})
  /\ UNCHANGED <<row, tx, history>>

-----------------------------------------------------------------------------
\* A transaction that has loaded the row and computed all its columns: the flush
\* inserts the row, or updates the columns that differ from what was loaded.
Prepared(t) ==
  IF row = NULL THEN [t EXCEPT !.at = "writing", !.inserts = TRUE]
  ELSE [t EXCEPT !.at = "writing",
                 !.writes = {c \in Columns : t[c] # row[c]}]

\* Wrong variant: the event is answered with 200 before it is handled.
AbortAcknowledging(w) ==
  /\ tx[w].at # "idle"
  /\ tx' = [tx EXCEPT ![w] = Idle]
  /\ UNCHANGED <<row, stripe, paid, emitted, events, history>>

\* A rollback: Stripe fails to answer, a flush fails, the process dies.
Abort(w) ==
  /\ tx[w].at # "idle"
  /\ tx' = [tx EXCEPT ![w] = Idle]
  /\ events' = IF tx[w].event = NULL THEN events ELSE events \cup {tx[w].event}
  /\ UNCHANGED <<row, stripe, paid, emitted, history>>

(* POST /billing/webhook *)

\* An event carries its subscription's status, but a completed checkout makes
\* the handler ask Stripe for the present one.
StatusOf(e) ==
  CASE e.kind = "completed" -> stripe[e.sub].status
    [] e.kind = "deleted"   -> "cancelled"
    [] OTHER                -> e.status

\* The event arrives, and the row is loaded; it may be delivered once more.  The
\* row is loaded a call to Stripe later if the event is a completed checkout.
ReceiveEvent(w, e) ==
  /\ tx[w].at = "idle"
  /\ e \in events
  /\ events' \in {events, events \ {e}}
  /\ LET t == [Idle EXCEPT !.event = e, !.plan = e.plan, !.status = StatusOf(e), !.sub = e.sub]
     IN tx' = [tx EXCEPT ![w] = IF e.kind = "completed" THEN [t EXCEPT !.at = "hook"]
                                ELSE Prepared(t)]
  /\ UNCHANGED <<row, stripe, paid, emitted, history>>

LoadForEvent(w) ==
  /\ tx[w].at = "hook"
  /\ tx' = [tx EXCEPT ![w] = Prepared(@)]
  /\ UNCHANGED <<row, stripe, paid, emitted, events, history>>

-----------------------------------------------------------------------------
(* POST /subscription/current *)

\* Down to basic: Stripe is not asked, the subscription there goes on.
LoadForBasic(w) ==
  /\ tx[w].at = "idle"
  /\ tx' = [tx EXCEPT ![w] =
       Prepared([Idle EXCEPT !.plan = BASIC, !.status = "active",
                             !.sub = IF row = NULL THEN NULL ELSE row.sub])]
  /\ UNCHANGED <<row, stripe, paid, emitted, events, history>>

\* Wrong variant: a paid plan is given to an organization without a subscription.
LoadForChangeUnpaid(w, plan) ==
  /\ tx[w].at = "idle"
  /\ row # NULL
  /\ LET t == [Idle EXCEPT !.plan = plan, !.sub = row.sub]
     IN tx' = [tx EXCEPT ![w] = IF row.sub = NULL THEN Prepared([t EXCEPT !.status = "active"])
                                ELSE [Prepared(t) EXCEPT !.at = "calling_change", !.loaded = row.status]]
  /\ UNCHANGED <<row, stripe, paid, emitted, events, history>>

\* To a paid plan: 409 without a subscription at Stripe.
LoadForChange(w, plan) ==
  /\ tx[w].at = "idle"
  /\ row # NULL
  /\ row.sub # NULL
  /\ tx' = [tx EXCEPT ![w] =
       [Prepared([Idle EXCEPT !.plan = plan, !.sub = row.sub])
          EXCEPT !.at = "calling_change", !.loaded = row.status]]
  /\ UNCHANGED <<row, stripe, paid, emitted, events, history>>

\* Wrong variant: the status in Stripe's answer is forgotten.
StripeModifiesForgetting(w) ==
  /\ tx[w].at = "calling_change"
  /\ LET s == tx[w].sub
     IN /\ Live(s)
        /\ Emit(s, stripe[s].status, tx[w].plan, {"updated"})
        /\ tx' = [tx EXCEPT ![w] = [@ EXCEPT !.at = "writing", !.loaded = NULL]]
  /\ UNCHANGED <<row, history>>

\* Stripe changes the plan and answers with the subscription's status.
StripeModifies(w) ==
  /\ tx[w].at = "calling_change"
  /\ LET s == tx[w].sub
         status == stripe[s].status
     IN /\ Live(s)
        /\ Emit(s, status, tx[w].plan, {"updated"})
        /\ tx' = [tx EXCEPT ![w] =
             [tx[w] EXCEPT !.at = "writing", !.status = status, !.loaded = NULL,
                           !.writes = IF status = tx[w].loaded THEN @ \ {"status"}
                                      ELSE @ \cup {"status"}]]
  /\ UNCHANGED <<row, history>>

(* POST /subscription/cancel *)

LoadForCancel(w) ==
  /\ tx[w].at = "idle"
  /\ row # NULL
  /\ LET t == [Idle EXCEPT !.plan = row.plan, !.sub = row.sub]
     IN tx' = [tx EXCEPT ![w] =
          IF row.sub = NULL
          THEN Prepared([t EXCEPT !.status = "cancelled"])
          ELSE [Prepared([t EXCEPT !.status = "cancel_at_period_end"])
                  EXCEPT !.at = "calling_cancel"]]
  /\ UNCHANGED <<row, stripe, paid, emitted, events, history>>

\* Stripe will end the subscription with its period; its status stays.
StripeCancels(w) ==
  /\ tx[w].at = "calling_cancel"
  /\ LET s == tx[w].sub
     IN /\ Live(s)
        /\ Emit(s, stripe[s].status, stripe[s].plan, {"updated"})
  /\ tx' = [tx EXCEPT ![w].at = "writing"]
  /\ UNCHANGED <<row, history>>

-----------------------------------------------------------------------------
\* What keeps the row from being Stripe's: the commit of an old event; columns
\* computed from a row that has changed; basic, which Stripe never hears of.
Excuses(t) ==
  (IF t.event # NULL /\ t.event.n < newest THEN {"late"} ELSE {})
    \cup (IF t.stale THEN {"stale"} ELSE {})
    \cup (IF t.event = NULL /\ t.plan = BASIC THEN {"local"} ELSE {})

\* The INSERT fails if another request inserted the row in between.
Commit(w) ==
  /\ tx[w].at = "writing"
  /\ LET t == tx[w]
     IN /\ t.inserts => row = NULL
        /\ row' = [c \in Columns |-> IF t.inserts \/ c \in t.writes THEN t[c] ELSE row[c]]
        /\ newest' = IF t.event # NULL /\ t.event.n > newest THEN t.event.n ELSE newest
        /\ excused' = IF t.event = NULL THEN excused \cup Excuses(t) ELSE Excuses(t)
  /\ tx' = [v \in Workers |->
               IF v = w THEN Idle
               ELSE [tx[v] EXCEPT !.stale = tx[v].at \notin {"idle", "hook"}]]
  /\ UNCHANGED <<stripe, paid, emitted, events>>

Next ==
  \/ \E s \in Subs :
       \/ \E plan \in PaidPlans : Subscribe(s, plan)
       \/ \E status \in StripeStatuses : StripeChanges(s, status)
       \/ StripeEnds(s)
  \/ \E w \in Workers :
       \/ \E e \in events : ReceiveEvent(w, e)
       \/ \E plan \in PaidPlans : LoadForChange(w, plan)
       \/ LoadForEvent(w) \/ LoadForBasic(w) \/ LoadForCancel(w)
       \/ StripeModifies(w) \/ StripeCancels(w)
       \/ Commit(w) \/ Abort(w)

Spec == Init /\ [][Next]_vars

-----------------------------------------------------------------------------
\* get_plan_key_for_org: the plan whose modules the organization may use.
Entitled == IF row # NULL /\ row.status = "active" THEN row.plan ELSE NULL

\* Nobody uses a paid plan that was never paid: the subscription in the row was
\* active on that very plan at some time - whatever the order of events, a crash
\* between Stripe's change and the commit, or two subscriptions at once.  Only a
\* transaction that wrote some columns over a row that had changed can mix the
\* plan of one subscription with the status of another.
PaidPlanWasPaid ==
  Entitled \in PaidPlans /\ "stale" \notin excused => row.sub # NULL /\ row.plan \in paid[row.sub]

\* Every event was answered with 200 and no request is open.
Quiet == events = {} /\ \A w \in Workers : tx[w].at = "idle"

\* Once quiet, the row shows what Stripe shows of the subscription it names -
\* rollbacks after Stripe acted, repeated events, the two events of a checkout in
\* either order are all repaired - but for Excuses.
QuietMeansMirrored ==
  Quiet /\ emitted > 0 /\ excused = {} =>
    \E s \in Subs :
      row = [plan   |-> stripe[s].plan,
             status |-> IF stripe[s].status = "canceled" THEN "cancelled" ELSE stripe[s].status,
             sub    |-> s]
=============================================================================
