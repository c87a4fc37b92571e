\* Two rows of Stripe, or one and a newer one of Mercado Pago; two webhooks at a time.
CONSTANTS
  Sessions = 2
  MaxRows = 2
  Workers = {w1, w2}
  NULL = NULL
SPECIFICATION Spec
SYMMETRY MCSymmetry
INVARIANTS TypeOK IntentsAreOwn OrderMirrorsLastEvent PayoutIsNotUndone
