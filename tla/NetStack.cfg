SPECIFICATION StackFairSpec
CONSTANTS
    Flows = {1}
    Chunk = 2
    TX_BUF = 1
    RX_BUF = 1
    APP_QUEUE = 1
    CHANNEL = 1
    MIN_TCP_PENDING = 2
    MIN_FLOW_QUEUE_BYTES = 1
    MAX_BACKLOG_BYTES = 2
    TCP_DRAIN_STALL_WARN = 1
    TCP_DRAIN_STALL_TIMEOUT = 2
    TCP_WEDGE_TIMEOUT = 2
    STALL_FLAP_WINDOW = 2
    CREDIT_WAIT_MAX = 2
    ORPHAN_LINGER = 1
    CONNECT = 1
    HALF_CLOSE_LINGER = 1
    STALL_FLAP_LIMIT = 2
    MaxSent <- MCSent
    MaxDown <- MCDownLittle
INVARIANTS  AccountsAreTrue
PROPERTIES OnlySilentPeersAreReaped NobodyWaitsForEver
