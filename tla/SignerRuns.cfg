CONSTANTS
  Lanes <- SharingLanes
  MaxRaw = 2
  MaxHead = 3
  MaxArms = 2
  MaxCrash = 1
  MaxReorg = 1
  Window = 1
  Finality = 2
  Lag = 1
  Skew = 1
  MaxFailed = 1
SPECIFICATION RunsSpec
CHECK_DEADLOCK FALSE
INVARIANTS
  TypeOK
  OneUnresolved
  SentIsRecorded
  NonceAccounting
  NonceLane
  ClosedTrue
  FailedGasBound
  LedgerOwnership
PROPERTIES
  BarrierSpec
  RevocationHolds
