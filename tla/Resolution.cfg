SPECIFICATION Spec
CONSTANTS
    owner = owner
    admin = admin
    other = other
    yes = yes
    no = no
    beyond = beyond
    h1 = h1
    h2 = h2
    Users <- MCUsers
    Owner = owner
    Admins <- MCAdmins
    Outcomes <- TwoOutcomes
    Choices <- MCChoices
    Handlers <- TwoHandlers
    Window = 2
    MaxTime = 4
INVARIANTS
    OnlyAdminsPayNobody
    GradedUnlessCut
    GradedAsResolved
PROPERTIES
    WindowRespected
    FollowsLifecycle
SYMMETRY HandlerSymmetry
CHECK_DEADLOCK FALSE
