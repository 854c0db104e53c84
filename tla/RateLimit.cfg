SPECIFICATION LimiterSpec
CONSTANTS
    w1 = w1
    trade = trade
    login = login
    Workers <- MCWorkers
    Keys <- MCKeys
    Limit <- MCLimit
    Window <- MCWindow
    Second = 2
    MaxTime = 6
    MaxHits = 3
    MaxCrashes = 1
INVARIANTS
    AtMostTwice
PROPERTIES
    RetryAfterHonest
CHECK_DEADLOCK FALSE
