SPECIFICATION Spec
CONSTANTS
  None = None
  Signatures <- Selectors
  ProbeCap = 2
  ReplayCap = 2
  MaxProbe = 4
  MaxLen <- Lengths
  MaxChunk = 2
  MaxFlows = 2
INVARIANTS
  ReadsAllInPlace
  ClosesCounted
CHECK_DEADLOCK FALSE
