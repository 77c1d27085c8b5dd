SPECIFICATION Spec
CONSTANTS
    j1 = j1
    j2 = j2
    p1 = p1
    p2 = p2
    NoJob = NoJob
    NoPid = NoPid
    Jobs = {j1, j2}
    Pids = {p1, p2}
    Exits <- MCExits
    Events <- AllFaults
SYMMETRY Symmetry
INVARIANTS TypeOK LimitsBeforeCode ResponseMatches ReportMeansDead ReportIsOwn DirectoryHasProcess ReportLeavesNothing
PROPERTY ImplementsContract
CHECK_DEADLOCK FALSE
