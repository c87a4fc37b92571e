\* Two devices send two messages and ask for them one at a time; two requests at a
\* time make conversations.
CONSTANTS
  Users = {u1, u2}
  Devices = {d1, d2}
  UserOf <- MCUserOf
  MaxMessages = 2
  PageLimit = 1
  Mine = {a1, a2}
  Theirs = {a2, b1}
  Interests = {i1, i2}
  Orders = {o1}
  Convs = {c1, c2}
  Workers = {w1, w2}
  NULL = NULL
  u1 = u1
  u2 = u2
  d1 = d1
  d2 = d2
  c1 = c1
  c2 = c2
SPECIFICATION MCSpec
SYMMETRY MCSymmetry
INVARIANTS ChatTypesOK ConversationsConsistent NothingIsMissed UnreadIsNews
