SPECIFICATION FairSpec
CONSTANTS
    j1 = j1
    j2 = j2
    p1 = p1
    p2 = p2
    NoJob = NoJob
    NoPid = NoPid
    Jobs = {j1, j2}
    Pids = {p1, p2}
    Exits <- OneExit
    Events <- Untimely
PROPERTIES RunReturns AnsweredRunReturns ZombiesReaped TtlKills
CHECK_DEADLOCK FALSE
