CONSTANTS
    i1 = i1  i2 = i2  i3 = i3
    n1 = n1  n2 = n2  c1 = c1  c2 = c2  get = get  cancel = cancel  delete = delete
    None = none
    Ids = {i1, i2, i3}
    History = 3
    MaxCalls = 2
    MaxOther = 2
    MaxActions = 6
    MaxChanges = 2
    MaxInvalid = 1
    Requests = {n1, n2, c1, c2, get, cancel, delete}
    Kind <- MCKind
    MaxSlots = 2
    MaxSessions = 1
    Threads = {t1, t2}
    Routes <- Common
    PolicyRuntime = TRUE
    Containment = TRUE
    Approvals = FALSE
SPECIFICATION MCSpec
INVARIANTS AnswersAreKept SessionsAreLive
PROPERTIES DeadlinesHold
CHECK_DEADLOCK FALSE
