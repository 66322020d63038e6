SPECIFICATION FairSpec
CONSTANTS
  None = None
  Gap = Gap
  SeqMod = 16
  Isn = 14
  MaxLen = 4
  MaxSegment = 2
  MaxTime = 1
  MaxAhead = 2
  AckGrace = 1
  Deadline = 0
  MaxBuffer = 2
  Policies = {"SlidingWindow", "DropFlow"}
INVARIANTS
  WithinBuffer
PROPERTIES
  IsByteStream
  NeverWedges
