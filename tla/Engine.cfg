SPECIFICATION Spec
CONSTANTS
  None = None
  Keys = {k1, k2}
  L4 <- OneTcp
  Slots <- ThreeSlots
  Masks <- TwoMasks
  Capacities = {1, 2}
  Behaviours <- EachReaction
  Starts = {1}
  MaxProbe = 2
  MaxCreated = 2
  MaxData = 2
  MaxEvents = 2
  MaxMessages = 2
INVARIANTS MarksAreTrue NothingPassedOver
PROPERTY EndIsLast
