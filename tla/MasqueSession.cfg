\* Times in their order, not their size; a tunnel that is over stays so.
CONSTANTS
    Carriers <- MCCarriers
    DataChecks <- MCChecks
    Queue = 3
    Validate = 3
    Startup = 4
    Period = 2
    Timeout = 3
    Idle = 4
    Latency = 1
    MaxWindow = 1
SPECIFICATION FairSpec
INVARIANTS
    DeadEdgeIsLeft
    AnsweringEdgeIsKept

    
CHECK_DEADLOCK FALSE
