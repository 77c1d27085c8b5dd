SPECIFICATION Spec
CONSTANTS
    ChildPids <- MCChildPids
    Scripts <- MCScripts
    Exits <- MCExits
    Capacity = 2
    Events = {"assign", "setup", "io", "ttl", "slow", "timeout"}
INVARIANTS ReasonIsTrue BuffersSuffice SuccessIsTrue
PROPERTIES AnswerArrives NothingRunsOn
CHECK_DEADLOCK FALSE
