SPECIFICATION LiveSpec
CONSTANTS
    l1 = l1
    Loads <- MCLoads
    MaxTrades = 2
    MaxBreaks = 1
INVARIANTS
    QuietIsCurrent
PROPERTIES
    CatchesUp
CHECK_DEADLOCK FALSE
