SPECIFICATION DriverSpec
CONSTANTS
  k1 = k1
  k2 = k2
  None = None
  Keys <- TwoKeys
  L4 <- AllTcp
  FlagSets <- LifecycleFlags
  MaxTime = 1
  TsMax = 9
  Configs <- ShrinkConfigs
  IdleFns <- NoIdleFns
  DriverOwned = TRUE
  MaxCreated = 2
  MaxUnmatched = 0
  Payloads = {1}
  Overhead = 0
  MaxBuf = 0
PROPERTIES
  EverySweepReleases
