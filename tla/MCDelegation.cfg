SPECIFICATION MCSpec
CONSTANTS
    read = read
    write = write
    q1 = q1
    q2 = q2
    Workloads = {root, child, leaf}
    Root = root
    Grants = {g1, g2, g3}
    Rights = {read, write}
    Maximum = {read, write}
    Reviews = {q1, q2}
    ActiveChildren = 1
    InFlight = 2
    ActionsPerGrant = 1
    AdmissionLife = 1
    MaxTime = 1
    MaxRevocations = 1
    MaxSessions = 1
    MaxContexts = 1
    MaxLosses = 1
    None = None
    Offers <- MCOffers
    Needs <- MCNeeds
SYMMETRY GrantNames
CHECK_DEADLOCK FALSE
INVARIANTS QuotaHolds Attenuation Integrity
PROPERTIES ForwardedAsReviewed
