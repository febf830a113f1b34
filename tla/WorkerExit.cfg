SPECIFICATION Spec
CONSTANTS
    Wake = {w1, w2}
    Verdict = {"positive", "negative"}
    MaxReady = 1
    MaxExits = 1
    MaxSpawnErrors = 1
INVARIANT WatcherSurvives
CHECK_DEADLOCK FALSE
