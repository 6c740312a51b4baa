SPECIFICATION MCSpec
CONSTANTS
    a1 = a1  a2 = a2  a3 = a3  p1 = p1
    q1 = q1  q2 = q2
    k1 = k1  k2 = k2  pw = pw  c1 = c1  c2 = c2
    None = None  Elsewhere = Elsewhere
    Listed <- MCListed
    Spent = {a3}
    Processes = {p1}
    Modes = {"round_robin", "random", "least_used"}
    Pinned = {a1}
    FastLists <- MCFastLists
    Window = 2  Sample = 3  Feedback = 3  Limit = 2  Longer = 2
    FreshFor = 1  StaleMax = 2
    Initial = {"normal", "cooling", "quota"}
    Written = {"normal", "cooling", "hard", "off"}
    MaxWrites = 2  MaxSaves = 1  MaxPicks = 1
    Servers = {q1, q2}
    SettingKeys <- MCSettingKeys
    Mode = k1  Password = pw
    Values = {0, 1}
    Interval = 1  FlushDelay = 1  ModeTtl = 1  MaxEvents = 2
    Ids = {c1, c2}
    MaxHash = 2  Ttl = 1  MaxErrors = 1
INVARIANTS TypesOK KeyExpires
PROPERTIES LeavesRotation NeverRefused SettingsRecent OnlyItsEdit
SYMMETRY Symmetry
CHECK_DEADLOCK FALSE
