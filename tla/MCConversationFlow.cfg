SPECIFICATION FairSpec
CONSTANTS
    r1 = r1
    a1 = a1  a2 = a2
    p1 = p1
    None = None
    Nobody = Nobody
    Requests <- One
    Accounts <- TwoAccounts
    Endpoints <- AllEndpoints
    Process <- OneProcess
    MaxErrors = 1
INVARIANTS PinAnswered OneVoice AttemptsJudged
PROPERTY LeaseReturned
CHECK_DEADLOCK FALSE
