SPECIFICATION NewsSpec
CONSTANTS
    n1 = n1
    n2 = n2
    n3 = n3
    own = own
    t1 = t1
    t2 = t2
    admin = admin
    Items <- MCItems
    Feeds <- MCFeeds
    Poison <- MCPoison
    Answers <- MCAnswers
    Limit = 2
    Timed <- MCTimed
    Admins <- MCAdmins
    MaxAsked = 1
    MaxFailures = 1
INVARIANTS
    DraftedIsComplete
    DraftedOnce
PROPERTIES
    EveryArticleDrafted
CHECK_DEADLOCK FALSE
