SPECIFICATION FairSpec
CONSTANTS
    j1 = j1
    j2 = j2
    p1 = p1
    p2 = p2
    NoJob = NoJob
    NoPid = NoPid
    Jobs = {j1}
    Pids = {p1}
    Exits <- OneExit
    Events <- DaemonOnly
PROPERTY TtlEnforced
