SPECIFICATION FairSpec
CONSTANTS
    MaxQueuedMsg = 2
    InflightExpiry = TRUE
    MaxPacketID = 3
    MaxMsgs = 3
    QoSs = {0, 1, 2}
    Expiries = {"never", "armed"}
    Sizes = {FALSE}
    Limits = {2}
    PollBatch = 2
    QueueQos0Msg = TRUE
    MaxConns = 2
    Rejects = TRUE
    LossAfterPubrec = FALSE
    LateAck = FALSE
CHECK_DEADLOCK FALSE
INVARIANTS
    LimiterMatchesQueue
PROPERTIES
    UsesQueueProperly
    KeepsPromise
    EventuallySettled
