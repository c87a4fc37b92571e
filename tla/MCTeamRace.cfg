\* One owner and a newcomer who may become one, two concurrent requests, one invite.
CONSTANTS
  Users = {a, b}
  Founders = {a}
  Invites = {i1}
  Workers = {w1, w2}
  NULL = NULL
SPECIFICATION Spec
SYMMETRY MCSymmetry
INVARIANTS TypeOK OwnerLostOnlyByRace JoinedByClosedInvite
CHECK_DEADLOCK FALSE
