SPECIFICATION FairSpec
CONSTANTS
  None = None
  Subscribers = {s1, s2}
  MaxSent = 3
INVARIANTS
  NoLostWakeup
  EveryMessageInOrder
PROPERTIES
  EventuallyReceived
CHECK_DEADLOCK FALSE
