SPECIFICATION FairSpec
CONSTANTS
    w1 = w1  w2 = w2
    r1 = r1  r2 = r2
    a1 = a1  a2 = a2
    None = None
    Workers <- MCWorkers
    Requests <- MCRequests
    WorkerOf <- MCWorkerOf
    Accounts = {a1, a2}
    Chains <- MCChains
    Ttl = 2
    RenewAfter = 1
    MaxFails = 0
    Stalls = TRUE
    EvalMayFail = TRUE
PROPERTIES AbandonedLeaseExpires
CHECK_DEADLOCK FALSE
