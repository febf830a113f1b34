SPECIFICATION LaneSpec
CONSTANTS
    Opportunity = {o1}
    MaxMuts = 1
    MaxAuths = 1
    MaxClock = 3
    MaxLosses = 0
    LeaseTime = 2
    RenewBefore = 1
    Budget = 1
    MaxMisses = 2
PROPERTY ExpiredStaysExpired
CHECK_DEADLOCK FALSE
