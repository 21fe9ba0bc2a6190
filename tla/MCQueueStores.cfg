SPECIFICATION StoreSpec
CONSTANTS
    Backends = {"memory", "redis"}
    MaxQueuedMsg = 2
    InflightExpiry = TRUE
    MaxPacketID = 2
    PollBatch = 2
    MaxMsgs = 3
    QoSs = {0, 1, 2}
    Expiries = {"never", "armed"}
    Sizes = {FALSE, TRUE}
    MaxCrashes = 2
    LateAck = FALSE
CHECK_DEADLOCK FALSE
INVARIANTS
    CursorSplitsInflight
    ArrivalOrder
    RedisInStep
    RedisNothingLost
PROPERTIES
    StoreDropsLastResort
