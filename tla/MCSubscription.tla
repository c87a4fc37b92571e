----------------------------- MODULE MCSubscription -----------------------------
(* Subscription on small instances. *)
EXTENDS Subscription, TLC

\* Workers, subscriptions and paid plans are alike.
MCSymmetry == Permutations(Workers) \cup Permutations(Subs) \cup Permutations(PaidPlans)
=============================================================================
