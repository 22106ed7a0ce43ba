CONSTANTS
    a1 = a1  a2 = a2
    k1 = k1  k2 = k2  k3 = k3
    r1 = r1  r2 = r2
    Agents = {a1, a2}
    Attempts = {k1, k2, k3}
    Who <- TwoActors
    Other = other
    MaxPending = 1
    None = none
    Requests = {r1, r2}
    MaxFences = 1
SPECIFICATION MCSpec
INVARIANTS CanceledIsFinal WorkIsPaid FencesWait NoSlotLeaks
PROPERTIES GatewayIsExact DispatchEnds
CHECK_DEADLOCK FALSE
