SPECIFICATION Spec
CONSTANTS
    alice = alice
    bob = bob
    yes = yes
    no = no
    h1 = h1
    h2 = h2
    Users <- TwoUsers
    Outcomes <- TwoOutcomes
    Handlers <- TwoHandlers
    Lots <- MCLots
    Budgets <- MCBudgets
    StartChips = 120
    Seed = 0
    Payout = 100
    Tolerance = 40
    EndTime = 2
    MaxTime = 2
    MaxShares = 6
    MaxTrades = 3
    Cost <- LmsrCost
    Liquidity = 2
    Alpha <- MCAlpha
INVARIANTS
    ChipsConserved
    SharesBacked
    BasisWithinStake
    PathIndependent
    SubsidyBounded
    NoOverdraft
    NoShortPosition
    SpreadKept
SYMMETRY HandlerSymmetry
CHECK_DEADLOCK FALSE
