SPECIFICATION Spec
CONSTANTS
    MaxJobs = 3
    MaxRuns = 2
    MaxStops = 1
    Procs = {1, 2, 3}
    Profiles <- MCPlain
    Rungs = 2
    MaxRetries = 1
    WATCHDOG_FAIL_CYCLES = 1
    Hurried = TRUE
    Revokes = FALSE
    TunFails = FALSE
CHECK_DEADLOCK FALSE
INVARIANTS LateLaunches OneSessionOwns ConnectedIsProven
