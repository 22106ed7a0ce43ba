CONSTANTS
    Sources = {"g", "h", "s", "c"}
    Role <- MCRole
    Owner <- MCOwner
    Offers <- LifecycleOffers
    Lapsing = {"h"}
    None = None
    MaxEvents = 11
    Window = 3
    MaxDepth = 6
    MaxNodes = 16
    MaxEdges = 32
    Delegations = {}
SPECIFICATION MCSpec
INVARIANTS GraphIsExact CompleteIsExact
PROPERTIES LeasedGapsClose VerdictsHold
CHECK_DEADLOCK FALSE
