\* Two subscriptions, two paid plans, two requests at a time, two changes at Stripe.
CONSTANTS
  Subs = {s1, s2}
  PaidPlans = {professional, enterprise}
  MaxEvents = 2
  Workers = {w1, w2}
  NULL = NULL
SPECIFICATION Spec
SYMMETRY MCSymmetry
INVARIANTS TypeOK PaidPlanWasPaid QuietMeansMirrored
