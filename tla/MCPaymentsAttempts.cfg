\* Two requests at a time on one payment that the buyer tries to pay twice.
SPECIFICATION Spec
CONSTANTS
  Orders = {o1}
  MaxPayments = 1
  MpPayments = {m1, m2}
  Workers = {w1, w2}
  NULL = NULL
SYMMETRY MCSymmetry
CONSTRAINT Untorn
INVARIANTS
  QuietMeansMirrored
  OrderFollowsPayment
