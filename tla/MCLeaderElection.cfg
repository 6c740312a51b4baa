SPECIFICATION FairSpec
CONSTANTS
    w1 = w1  w2 = w2
    Free = Free
    Dead = Dead
    Workers <- MCTwo
    MaxErrors = 1
    MaxCrashes = 1
    MaxToggles = 1
    MaxStalls = 1
    MaxEvents = 2
INVARIANT RunnerOwnsLock
PROPERTIES Elected TwoLeadersEnd LeaderRuns
CHECK_DEADLOCK FALSE
