CONSTANTS
    Clients = {"c1", "c2"}
    Server = "server"
    V5 = {"c1"}
    SystemLevels <- MCSystemLevels
    SubPackets <- MCSubPackets
    PubPackets <- MCPubPackets
    ServerPublishes <- MCServerPublishes
    HookResults = {"pass", "error"}
    ServerTopicAliasMax = 2
    Overlap = FALSE
    MaxMsgs = 2
    MaxChanges = 4
SPECIFICATION Spec
INVARIANTS MatchExact RetainedNotMissed InboundExactlyOnce
 
CHECK_DEADLOCK FALSE
