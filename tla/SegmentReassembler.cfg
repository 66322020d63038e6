SPECIFICATION Spec
CONSTANTS
  None = None
  Gap = Gap
  SeqMod = 16
  Isn = 14
  MaxLen = 4
  MaxSegment = 2
  MaxTime = 1
  MaxAhead = 2
  AckGrace = 1
  Deadline = 0
  MaxBuffer = 2
  Configs <- EachPolicy
  MaxOoo = 6
  PieceOverhead = 1
  RunOverhead = 1
  MaxCut = 1
  MaxSpare = 0
INVARIANTS
  OverlapResolved
  ProvenanceIsExact
  WithinBudget
  SweepMovesOn
PROPERTIES
  IsByteStream
