SPECIFICATION FairSpec
CONSTANTS
    e1 = e1 e2 = e2 e3 = e3
    Endpoints = {e1, e2, e3}
    Ip <- MCIp
    None = None
    RecentCap = 2
    CooldownRounds = 3
    StartKinds = {"dead", "flaky", "good"}
    Configs <- MCConfigs
    MaxShifts = 1
    MaxStarts = 2
INVARIANTS NothingOutlivesItsTunnel HopsAsAsked RingSound
PROPERTIES  RecoversOnWireGuard KeepsLedger
