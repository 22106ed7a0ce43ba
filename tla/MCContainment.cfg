CONSTANTS
    i1 = i1
    i2 = i2
    p = p
    c = c
    gp = gp
    gc = gc
    r1 = r1
    a1 = a1
    requests = requests
    None = None
    Instances = {i1, i2}
    Epoch <- MCEpoch
    Limit <- MCLimit
    Subjects = {p, c}
    Parent <- MCParent
    Grants = {gp, gc}
    Holder <- MCHolder
    Ancestry <- DelegatedGrants
    GrantEnds <- MCGrantEnds
    Reservations = {r1}
    GrantOf <- MCGrantOf
    Actions = {a1}
    ActionOf <- MCActionOf
    Buckets = {requests}
    Transient = {}
    Scope <- MCScope
    Cost <- MCCost
    MaxUnits = 1
    OwnerLife = 1
    LeaseLife = 1
    PreviewLife = 1
    HoldLife = 1
    FenceRequests <- MCFences
    MaxTime = 1
    MaxFence = 2
    MaxRevocations = 2
SYMMETRY Symmetry
SPECIFICATION Spec
CHECK_DEADLOCK FALSE
PROPERTIES FencedWorkStaysStopped RecoveryIsSettled
