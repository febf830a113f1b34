SPECIFICATION ServicesSpec
CONSTANTS
    earn = earn
    global = global
    Lane <- MCLane
    Order <- MCOrder
    Period <- MCPeriod
    MinimumInterval <- MCMinimumInterval
    FirstPeriodic <- MCFirstPeriodic
    Priority = {1, 2}
    PriorityFloor = 2
    MaxDeferral = 1
    Value = {a, b}
    MaxValues = 1
    MaxTurn = 2
    MaxAge = 0
    MaxLost = 1
    MaxTime = 6
    Parts = {"shot"}
    HotBlocks = 4
    HotReorgs = 1
    HotFailures = 1
    HotRestarts = 1
    Confirmations = 0
    MaxBlockRange = 2
    MaxLagBlocks = 2
    ReorgLookback = 2
    SourceLaunch <- launches
    SourcePool <- poolsOf
    PairBlock = {1, 2}
    BlockRange = 2
    Batches = 1
    ChainBatches = 1
    SourceBlocks = 3
    SourceFailures = 1
    SourceRestarts = 1
    MaxBad = 0
    MaxUnwritten = 0
    MaxBusy = 0
    MaxPublished = 3
    MaxGaps = 1
    MaxCrashes = 1
    PairToken <- tokens
    PairRoute <- pairRoutes
    FixedRoute <- fixedRoute
    MaxAmountIn = 2
    MinGrossProfit = 1
    PairSeeds = {0, 1, 2}
    PairOut = 3
    PairHeld = 2
    Requested = 1
    MaxNumber = 4
    MaxSockets = 3
    MaxFrames = 1
    WakeCap = 2
    DailyCap = 3
    EventCap = 2
    Batch = {1, 2}
    MaxDay = 2
    Ages = {2, 3, 5, 15, 16}
    MaxUntold = 1
INVARIANT ReleasedByOwnPool
CHECK_DEADLOCK FALSE
