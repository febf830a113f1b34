CONSTANTS
  Lanes <- BoardAndEarn
  MaxRaw = 1
  MaxHead = 3
  MaxArms = 1
  MaxCrash = 1
  MaxReorg = 1
  Window = 1
  Finality = 2
  Lag = 0
  Skew = 1
  MaxFailed = 1
SPECIFICATION FairSpec
CHECK_DEADLOCK FALSE
INVARIANT EarnMirror
PROPERTIES
  SettlesWhileHealthy
