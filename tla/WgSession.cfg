\* The engine's times in ticks of about two seconds; a tunnel that is over stays so.
CONSTANTS
    Latency = 1
    PauseMin = 2
    PauseMax = 3
    RekeyGap = 2
    Stale = 10
    EncapLimit = 2
    MaxTransient = 1
    VerifyTicks = 3
    DataChecks <- MCDataChecks
SPECIFICATION FairSpec
INVARIANTS
    DeathIsEarned
    GoodPathIsKept
PROPERTY
    NoZombie
CHECK_DEADLOCK FALSE
