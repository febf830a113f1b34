CONSTANTS
  Lanes <- EarnOnly
  MaxRaw = 2
  MaxHead = 3
  MaxArms = 1
  MaxCrash = 0
  MaxReorg = 0
  Window = 1
  Finality = 2
  Lag = 1
  Skew = 1
  MaxFailed = 1
SPECIFICATION Spec
CHECK_DEADLOCK FALSE
INVARIANTS
  UnknownBlocksSigning
