\* Three participants of whom two are required; partial signatures reach the
\* aggregator more than once.
SPECIFICATION ThresholdSpec
CONSTANTS
  Signers = {"p1", "p2", "p3"}
  Messages = {"m1", "m2"}
  MinSigners = 2
  MaxDelivered = 3
  FieldOrder = 7
  IndexRange = 6
  MinShares = {2, 3}
  ShareCount = 4
INVARIANT MinimumSigners
CHECK_DEADLOCK FALSE
