SPECIFICATION Spec
CONSTANTS
    alice = alice
    bob = bob
    m1 = m1
    m2 = m2
    h1 = h1
    h2 = h2
    Users <- TwoUsers
    Markets <- TwoMarkets
    Handlers <- TwoHandlers
    Trades <- MCTrades
    UserOf <- MCUserOf
    MarketOf <- MCMarketOf
    Outcomes <- MCOutcomes
    OutcomeOf <- MCOutcomeOf
    Verdicts <- MCVerdicts
    Gain <- MCGain
    Price <- MCPrice
    Stake <- MCStake
    BinCounts <- MCBinCounts
    Unit = 60
    StartRating = 1500000
    Badges <- MCBadges
    Kind <- MCKind
    Threshold <- MCThreshold
    Sample = 2
    Staked <- MCStaked
    LongShots <- MCLongShots
    Calibrated <- MCCalibrated
INVARIANTS
    RecordCoherent
    PasReproducible
    BadgesBacked
    DueAreAwarded
    ReportsAgree
    MurphyDecomposes
SYMMETRY HandlerSymmetry
CHECK_DEADLOCK FALSE
