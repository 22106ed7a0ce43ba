CONSTANTS
    t1 = t1
    t2 = t2
    Threads = {t1, t2}
    Routes = {"broker_prepare", "broker_dispatch"}
    PolicyRuntime = TRUE
    Containment = TRUE
    Approvals = FALSE
SPECIFICATION Spec
INVARIANT NoCircularWait
CHECK_DEADLOCK FALSE
