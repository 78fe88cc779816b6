SPECIFICATION Spec
CONSTANTS
    s1 = s1
    s2 = s2
    r1 = r1
    r2 = r2
    ta = ta
    tb = tb
    Servers = {s1, s2}
    Regions = {r1, r2}
    RegionOf <- MCRegionOf
    Targets = {ta, tb}
    ProbeTargets = {tb}
    Structural = {s1}
    Reporters = {w1}
    NoServer = NoServer
    NoRegion = NoRegion
    WINDOW_MS = 1
    DISTINCT_TARGETS_TRIGGER = 2
    FAILURE_DELTA_TRIGGER = 1
    FAILURE_CORROBORATION = 1
    COOLDOWN_MS = 1
    REPEAT_COOLDOWN_MS = 0
    SETTLE_MS = 1
    HEALTHY_MS = 2
    MAX_ROTATIONS = 2
    DRAIN_MS = 1
    MaxTime = 3
    MaxSessions = 2
    MaxFailures = 1
CHECK_DEADLOCK FALSE
INVARIANTS RotationCap EvidenceIsSound 
 
