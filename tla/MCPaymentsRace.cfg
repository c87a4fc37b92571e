\* Two requests at a time, two orders, two checkouts.
SPECIFICATION Spec
CONSTANTS
  Orders = {o1, o2}
  MaxPayments = 2
  MpPayments = {m1}
  Workers = {w1, w2}
  NULL = NULL
SYMMETRY MCSymmetry
INVARIANTS
  TypeOK
  IInv
  OrderIsBacked
  RefundHitsOwnPayment
  EveryChargeHasItsRow
PROPERTIES
  ImplementsLedger
