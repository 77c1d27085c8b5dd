SPECIFICATION Spec
CONSTANTS
    Calls <- MCCalls
    Requests <- MCRequests
    Inherited <- MCInherited
    MaxFd = 13
    Abis = {0, 2, 3}
INVARIANTS SetupFailsForCause FailureIsReported ProgramIsConfined ProgramDescriptors
           ScratchRemoved FilterDecides NoNewUserNamespace
CHECK_DEADLOCK FALSE
