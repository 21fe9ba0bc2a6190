SPECIFICATION FairSpec
CONSTANTS
    Versions = {TRUE, FALSE}
    InCap = 2
    OutCap = 4
    Kinds = {"request", "bad", "overQuota", "disconnect"}
    MaxPackets = 2
    MaxMsgs = 1
CHECK_DEADLOCK FALSE
INVARIANTS
    UnregisteredAlone
PROPERTIES
    
    DisconnectEndsServe
