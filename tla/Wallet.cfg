SPECIFICATION Spec
CONSTANTS
    alice = alice
    bob = bob
    m1 = m1
    m2 = m2
    h1 = h1
    h2 = h2
    Users <- TwoUsers
    Existing <- HasAccount
    Markets <- TwoMarkets
    Handlers <- TwoHandlers
    Shares <- MCShares
    Signup = 10
    Bonus = 4
    Cooldown = 2
    Stakes <- MCStakes
    MaxTime = 3
    MaxRequests = 5
INVARIANTS
    LedgerAccounts
    ClaimedIsPaid
    PaidOnce
PROPERTIES
    BonusOncePerCooldown
SYMMETRY HandlerSymmetry
CHECK_DEADLOCK FALSE
