\* What is captured is recorded in the end.
SPECIFICATION FairSpec
CONSTANTS
  Orders = {o1}
  MaxPayments = 1
  MpPayments = {m1}
  Workers = {w1, w2}
  NULL = NULL
PROPERTIES
  CaptureIsRecorded
