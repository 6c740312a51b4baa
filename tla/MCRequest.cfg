SPECIFICATION MCSpec
CONSTANTS
    w1 = w1  w2 = w2
    r1 = r1  r2 = r2  r3 = r3
    a1 = a1  a2 = a2
    None = None
    Workers <- MCWorkers
    Requests <- MCRequests
    WorkerOf <- MCWorkerOf
    Accounts = {a1, a2}
    Chains <- MCChains
    Ttl = 3
    RenewAfter = 1
    MaxFails = 1
    Stalls = FALSE
    EvalMayFail = FALSE
    Tools = {0, 1}
    MaxTools = 1
    MaxBlocks = 4  MaxHeld = 2  MaxDeltas = 2
INVARIANTS TypesOK AnswerDelivered
PROPERTIES ExclusionSpec BlocksFollow
SYMMETRY Symmetry
CHECK_DEADLOCK FALSE
