SPECIFICATION FairSpec
CONSTANTS
    w1 = w1  w2 = w2
    Free = Free
    Dead = Dead
    Workers <- MCTwo
    MaxErrors = 1
    MaxCrashes = 0
    MaxToggles = 0
    MaxStalls = 0
    MaxEvents = 1
PROPERTY StrayRunnerEnds
CHECK_DEADLOCK FALSE
