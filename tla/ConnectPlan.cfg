SPECIFICATION Spec
CONSTANTS
    Profiles <- MCProfiles
    MaxRestarts = 2
INVARIANTS AskedIsKept EngineAccepts LastResortUnrestricted
CHECK_DEADLOCK FALSE
