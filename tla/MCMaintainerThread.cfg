SPECIFICATION FairSpec
CONSTANTS
    t1 = t1  t2 = t2
    watcher = watcher  admin = admin
    None = None
    Threads = {t1, t2}
    Callers = {watcher, admin}
    MaxRequests = 1
PROPERTIES StopEnds EnabledRuns
CHECK_DEADLOCK FALSE
