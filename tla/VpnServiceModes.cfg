SPECIFICATION Spec
CONSTANTS
    MaxJobs = 3
    MaxRuns = 2
    MaxStops = 2
    Procs = {1, 2, 3}
    Profiles <- MCModes
    Rungs = 1
    MaxRetries = 1
    WATCHDOG_FAIL_CYCLES = 1
    Hurried = FALSE
    Revokes = TRUE
    TunFails = TRUE
CHECK_DEADLOCK FALSE
INVARIANTS OneSessionOwns
