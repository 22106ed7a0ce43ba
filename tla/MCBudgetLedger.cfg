CONSTANTS
    l1 = l1
    l2 = l2
    r1 = r1
    r2 = r2
    k1 = k1
    k2 = k2
    c1 = c1
    c2 = c2
    tenant = tenant
    slots = slots
    requests = requests
    concurrency = concurrency
    None = None
    Ledgers = {l1, l2}
    Reservations = {r1, r2}
    Keys = {k1, k2}
    Contexts = {c1, c2}
    Buckets = {tenant, slots}
    Metrics = {requests, concurrency}
    Concurrency = concurrency
    Metric <- MCMetric
    Scope <- MCScope
    Epoch <- MCEpoch
    Maximum <- MCMaximum
    Costs <- MCCosts
    MaxUnits = 2
    Lifetime = 1
    MaxReservations = 2
    MaxTime = 1
SYMMETRY Symmetry
SPECIFICATION Spec
INVARIANTS Conservation WithinLimit NoFreeEffect OneReservationPerKey
PROPERTIES OverrunStopsBucket
