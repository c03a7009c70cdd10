CONSTANTS
    c1 = c1
    c2 = c2
    c3 = c3
    i1 = i1
    i2 = i2
    i3 = i3
    NoConn = NoConn
    NoSession = NoSession
    Conns <- MCTwoConns
    Ids <- MCTwoIds
    MaxClients = 2
    Timeout = 0
    WaitsForConnections = FALSE
SPECIFICATION FairSpec
PROPERTIES
    SilentSessionsEvicted
    DeadHandlersEnd
    StopCompletes
