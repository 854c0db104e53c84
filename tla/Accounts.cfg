SPECIFICATION Spec
CONSTANTS
    alice = alice
    bob = bob
    carol = carol
    ali = ali
    ali2 = ali2
    h1 = h1
    h2 = h2
    People <- MCPeople
    None = None
    Handles <- MCHandles
    Base <- MCBase
    Seeded <- MCSeeded
    Handlers <- MCHandlers
    MaxRequests = 4
SYMMETRY MCSymmetry
INVARIANTS
    OneOwner
PROPERTIES
    PasswordKept
CHECK_DEADLOCK FALSE
