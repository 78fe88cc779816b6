SPECIFICATION FairSpec
CONSTANTS
    MaxJobs = 3
    MaxRuns = 2
    MaxStops = 1
    Procs = {1, 2, 3}
    Profiles <- MCPlain
    Rungs = 1
    MaxRetries = 1
    WATCHDOG_FAIL_CYCLES = 1
    Hurried = FALSE
    Revokes = FALSE
    TunFails = FALSE
CHECK_DEADLOCK FALSE
PROPERTY JoinsReturn
