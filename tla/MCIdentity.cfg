\* One user and two organizations that it may come to own, lose, and be invited to, or
\* three that it may own and lose;
\* three login attempts at a time, two allowed per window.
CONSTANTS
  Users = {u1}
  Orgs = {o1, o2, o3}
  Others = {}
  Names = {n1, n2}
  Tokens = {t1, t2, t3}
  FewTokens = 2
  Spare = {o3}
  Workers = {w1, w2}
  Clients = {c1, c2, c3}
  MaxAttempts = 2
  Window = 3
  NULL = NULL
SPECIFICATION MCSpec
SYMMETRY MCSymmetry
INVARIANTS AccountsTypesOK OneHome ProfileFollowsOrg AttemptsAreLimited
PROPERTIES ExchangedOnce
