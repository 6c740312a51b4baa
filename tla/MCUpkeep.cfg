SPECIFICATION MCSpec
CONSTANTS
    u1 = u1  u2 = u2  u3 = u3
    p1 = p1  p2 = p2
    Reaper = Reaper
    None = None
    Free = Free
    Dead = Dead
    Users <- MCUsers
    Process <- MCProcess
    SlotErrors = 1
    SlotLapses = 1
    RefreshAccounts = {1, 2, 3}
    RefreshBatch = 1
    RefreshErrors = 1
    ProbeAccounts = {1, 2}
    ProbeBatch = 1
    ProbeErrors = 1
    Tasks = {t1, t2}
    Browsers = {b1, b2, b3, b4}
    Threads = 2
    MaxFaults = 1
    Home = p1
    Away = p2
    Items = {i1, i2}
    JobAccounts = {a1, a2}
    JobErrors = 1
INVARIANTS TypesOK SlotExclusive RepairedAtRest
PROPERTIES SlotFreed NobodyStarves OncePerSweep ReclaimSparesLeases TaskEnds JobsAnswered
CHECK_DEADLOCK FALSE
