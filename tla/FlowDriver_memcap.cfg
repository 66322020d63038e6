SPECIFICATION DriverSpec
CONSTANTS
  k1 = k1
  k2 = k2
  None = None
  Keys <- OneKey
  L4 <- AllTcp
  FlagSets <- MemcapFlags
  MaxTime = 0
  TsMax = 9
  Configs <- MemcapConfigs
  IdleFns <- NoIdleFns
  DriverOwned = TRUE
  MaxCreated = 1
  MaxUnmatched = 1
  Payloads = {0, 1}
  Overhead = 1
  MaxBuf = 2
INVARIANTS
  PoolIsSum
  NeverUndercharged
PROPERTIES
  MemcapHolds
