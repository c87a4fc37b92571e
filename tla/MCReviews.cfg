\* Four reviews, three requests at a time.
CONSTANTS
  MaxReviews = 4
  Ratings = {1, 4, 5}
  Workers = {w1, w2, w3}
  NULL = NULL
SPECIFICATION Spec
SYMMETRY MCSymmetry
INVARIANTS TypeOK ReputationIsRepaired CountNeverOverstates
CHECK_DEADLOCK FALSE
