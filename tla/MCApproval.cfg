CONSTANTS
    s1 = s1
    s2 = s2
    alice = alice
    bob = bob
    act = act
    resumeA = resumeA
    resumeB = resumeB
    k1 = k1
    k2 = k2
    None = None
    Services = {s1, s2}
    Enrollments = {alice, bob}
    Principal <- MCPrincipal
    Foundings <- MCFoundings
    Requests = {act, resumeA, resumeB}
    Recoveries = {resumeA, resumeB}
    Quorum <- MCQuorum
    Entitled <- MCEntitled
    Keys = {k1, k2}
    MaxRequests = 2
    MaxResolutions = 2
    Life = 1
    MaxTime = 1
    MaxFence = 2
    MaxRevocations = 1
    MaxChanges = 1
    MaxContexts = 1
SYMMETRY Symmetry
SPECIFICATION MCSpec
CHECK_DEADLOCK FALSE
INVARIANTS ApprovedOnce RunsByQuorum
PROPERTIES StaleNeverStarts
