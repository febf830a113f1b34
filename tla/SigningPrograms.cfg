SPECIFICATION Spec
CONSTANTS
    FixedTx = 3
    FixedBlock = 1
    FixedErrors = 2
    FixedCrash = 1
    RetryTx = 1
    RetryBlock = 3
    RetryErrors = 3
    RetryCrash = 0
    MaxArms = 1
    MaxAttempts = 2
    MaxExecutions = 2
    LeaseOpportunity = {o1}
    LeaseMuts = 1
    LeaseAuths = 2
    LeaseClock = 2
    LeaseBudget = 1
    ShotOpportunity = {o1, o2}
    ShotMuts = 2
    ShotAuths = 1
    ShotClock = 0
    ShotBudget = 2
    MaxLosses = 1
    LeaseTime = 2
    RenewBefore = 1
    MaxMisses = 2
    MaxLost = 2
    GlobalSigned = 3
    GlobalKills = 1
    MaxMarket = 2
    Floor = 1
    CollectorSigned = 4
    CollectorKills = 2
    Retained = 1
    MaxPrice = 2
    MaxGifts = 1
    SafetyPieces = 2
    OtherPieces = 1
    WakePieces = 5
    DumpPieces = 3
    LineLimit = 2
    ChunkLimit = 2
    AuditLines = 2
    AuditTorn = 1
    AuditReplaced = 1
    Nonce = 1
    Deadline = 2
    Heights = {1, 2, 3}
    MinConfirmations = 2
INVARIANTS ProgramsTypeOK NoncesConsecutive BooksMatchChain SignsArmed RetryKept
INVARIANTS AuthorizationsHold LanesExclusive ReadersDecide
CHECK_DEADLOCK FALSE
