SPECIFICATION Spec
CONSTANTS
    Calls <- FewCalls
    Requests <- MCRequests
    Inherited <- MCInherited
    MaxFd = 13
    Abis = {0, 2, 3}
INVARIANT HardeningInForce
CHECK_DEADLOCK FALSE
