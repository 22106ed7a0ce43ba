CONSTANTS
    i1 = i1
    i2 = i2
    w = w
    g = g
    r1 = r1
    r2 = r2
    a1 = a1
    requests = requests
    slots = slots
    None = None
    Instances = {i1, i2}
    Epoch <- MCEpoch
    Limit <- MCLimit
    Subjects = {w}
    Parent <- MCParent
    Grants = {g}
    Holder <- MCHolder
    Ancestry <- MCAncestry
    GrantEnds <- MCGrantEnds
    Reservations = {r1, r2}
    GrantOf <- MCGrantOf
    Actions = {a1}
    ActionOf <- MCActionOf
    Buckets = {requests, slots}
    Transient = {slots}
    Scope <- MCScope
    Cost <- MCCost
    MaxUnits = 2
    OwnerLife = 2
    LeaseLife = 2
    PreviewLife = 2
    HoldLife = 1
    FenceRequests = {}
    MaxTime = 2
    MaxFence = 2
    MaxRevocations = 0
SPECIFICATION Spec
CHECK_DEADLOCK FALSE
INVARIANTS Conservation WithinLimit LiveIsCurrent
PROPERTIES OneShotEffects
