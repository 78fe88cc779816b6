SPECIFICATION FairSpec
CONSTANTS
    Regions <- MCRegions
    Wishes <- MCWishes
    Reaches <- MCReaches
    Ports <- MCPorts
    localSocksPort = 1
    ROTATION_GRACE = 1
    TRANSPORT_DEAD_CONFIRMATIONS = 2
    MaxRotations = 1
    MaxLosses = 1
    MaxEvents = 2
INVARIANTS  FrontFollowsLibrary AutomaticSteersClean EndsAreComplete
PROPERTY HandedBack
CHECK_DEADLOCK FALSE
