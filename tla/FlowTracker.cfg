SPECIFICATION Spec
CONSTANTS
  k1 = k1
  k2 = k2
  None = None
  Keys <- TwoKeys
  L4 <- TcpAndUdp
  FlagSets <- Segments
  MaxTime = 1
  TsMax = 9
  Configs <- Shrinking
  IdleFns <- FirstNever
  DriverOwned = FALSE
  MaxCreated = 2
  MaxUnmatched = 1
INVARIANTS
  TableConsistent
  FlowsConserved
PROPERTIES
  FlowOnlyAdvances
