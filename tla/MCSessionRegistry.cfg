SPECIFICATION FairSpec
CONSTANTS
    Conns = {c1, c2}
    NoConn = NoConn
    Connects <- PersistentConnects
    DisconnectProps <- SomeProps
    SessionExpiry = 2
    MaxTime = 4
CHECK_DEADLOCK FALSE
INVARIANTS
    SessionTracked
    
PROPERTIES
    WillBeforeExpiry
    WillResolved
    TakeoverCompletes
