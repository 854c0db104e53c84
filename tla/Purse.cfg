SPECIFICATION PurseSpec
CONSTANTS
    l1 = l1
    l2 = l2
    Slots <- MCSlots
    Start = 5
    Amounts <- MCAmounts
    Prize = 7
    Bonus = 11
    Slack = 1
    Drifts <- MCDrifts
    MaxRequests = 4
INVARIANTS
    ShownAccountedFor
    UserUntilTold
SYMMETRY SlotsAlike
