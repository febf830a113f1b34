SPECIFICATION WakesSpec
CONSTANTS
    Wake = {w1, w2}
    Verdict = {"positive", "negative", "incomplete"}
    MaxReady = 1
    MaxExits = 1
    MaxSpawnErrors = 1
    Window = 2
    MaxKeys = 2
    Lag = 1
    MaxReplays = 3
    MaxBlock = 3
    Procs = {p1, p2, p3}
    Nobody = Nobody
INVARIANTS WakesTypeOK NothingForgotten WorkerFenced BackstopCovers ReplaySuppressed
PROPERTIES EventuallyHanded SwapsFound LockDiscipline LeftoverTaken
CHECK_DEADLOCK FALSE
