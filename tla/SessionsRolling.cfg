SPECIFICATION Spec
CONSTANTS
    s1 = s1
    s2 = s2
    h1 = h1
    h2 = h2
    Tokens <- MCTokens
    None = None
    Handlers <- MCHandlers
    TTL = 3
    SlideAfter = 1
    MaxTime = 6
    MaxFailures = 1
SYMMETRY MCSymmetry
INVARIANTS ActiveStayLoggedIn
CHECK_DEADLOCK FALSE
