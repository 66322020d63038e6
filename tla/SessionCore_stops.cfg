SPECIFICATION Spec
CONSTANTS
  None = None
  Signatures <- Matching
  ProbeCap = 2
  ReplayCap = 2
  MaxProbe = 4
  MaxLen <- Lengths
  MaxChunk = 2
  MaxFlows = 1
INVARIANTS
  StopsAreTold
CHECK_DEADLOCK FALSE
