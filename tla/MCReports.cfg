SPECIFICATION MCSpec
CONSTANTS
    w1 = w1  w2 = w2  j1 = j1  j2 = j2  j3 = j3
    q1 = q1  q2 = q2
    None = None
    Workers = {w1, w2}
    Jobs = {j1, j2}
    WorkerOf <- MCWorkerOf
    Ops <- AllOps
    Cap = 2
    KickAt = 2
    Recorders = {q1, q2}
    MaxDay = 2  MaxRequests = 2  MaxErrors = 2
INVARIANTS FailureCools UsageCounted
PROPERTY QuotaNeedsAdmin
SYMMETRY Symmetry
CHECK_DEADLOCK FALSE
