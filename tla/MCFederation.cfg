CONSTANTS
    Clients = {"c1"}
    Topics = {"t"}
    MsgKinds <- MCMsgKinds
    SeenSize = 1
    BatchSize = 2
    BreakSeenBy = {"recv"}
    HelloReplyLost = FALSE
    MaxOps = 3
    MaxMsgs = 1
    MaxFaults = 2
SPECIFICATION FairSpec
INVARIANTS EventsInOrder  
 
CHECK_DEADLOCK FALSE
