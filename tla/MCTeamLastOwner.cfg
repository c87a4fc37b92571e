\* Two removals of owners overlap.
CONSTANTS
  Users = {a, b}
  Founders = {a, b}
  Invites = {i1}
  Workers = {w1, w2}
  NULL = NULL
SPECIFICATION Spec
INVARIANT OwnerRemains
CHECK_DEADLOCK FALSE
