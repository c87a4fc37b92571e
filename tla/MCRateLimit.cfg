\* Three attempts at a time, two allowed per window; EXPIRE may be lost.
CONSTANTS
  Clients = {c1, c2, c3}
  MaxAttempts = 2
  Window = 3
SPECIFICATION FairSpec
PROPERTY WindowEndsUnlessOrphaned
