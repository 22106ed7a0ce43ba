CONSTANTS
    ka = ka kb = kb sa = sa sb = sb ja = ja jb = jb
    tenant1 = tenant1 tenant2 = tenant2 action = action agent = agent
    Scopes = {ka, kb}
    Primary = ka
    Realms = {"tenant"}
    Span <- MCSpan
    Subjects = {sa, sb}
    Home <- MCHome
    Jobs = {ja, jb}
    Subj <- MCSubj
    Action <- MCAction
    Signals = {tenant1, tenant2, action, agent}
    Ask <- MCAsk
    MaxIncidents = 2
    MaxFences = 2
    MaxOwner = 2
    MaxCrashes = 1
SPECIFICATION MCSpec
INVARIANTS ContainmentIsWhole
PROPERTIES ContainedRouteIsClosed CleanupEnds
CHECK_DEADLOCK FALSE
