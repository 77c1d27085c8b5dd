SPECIFICATION Spec
CONSTANTS
    j1 = j1
    j2 = j2
    NoJob = NoJob
    Base = 16
    Width = 2
    Jobs = {j1, j2}
    Requests <- MCRequests
    SegMaxes <- MCSegMaxes
    HostUid = 33
    HostGid = 34
INVARIANTS OnlyWholeRequestsRun BrokenCallsRunNothing NoStandstill
PROPERTY ImplementsExchange
CHECK_DEADLOCK FALSE
