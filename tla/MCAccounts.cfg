SPECIFICATION MCSpec
CONSTANTS
    r1 = r1  s1 = s1  w1 = w1
    p1 = p1  p2 = p2
    c1 = c1  c2 = c2  q1 = q1
    None = None
    NoRow = NoRow
    NoCache = NoCache
    Tasks <- MCTasks
    Process <- MCProcess
    Kind <- MCKind
    MaxToken = 2
    Writers = {c1, c2}
    Readers = {q1}
    Empty = Empty
    MaxCommits = 3
    Home = Home  Away = Away  Redis = Redis
    BatchSize = 2
    BatchWorkers = 1
    MaxStops = 1
    Promote = 2
    LoopEvents = 3
INVARIANTS TypesOK SpendsOnce FreshHoldsOwnWrites DoneMeansImported
PROPERTIES RefreshWritesLive StopHolds RestsBetween
SYMMETRY Symmetry
CHECK_DEADLOCK FALSE
