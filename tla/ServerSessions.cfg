CONSTANTS
    c1 = c1
    c2 = c2
    c3 = c3
    i1 = i1
    i2 = i2
    i3 = i3
    NoConn = NoConn
    NoSession = NoSession
    Conns <- MCConns
    Ids <- MCIds
    MaxClients = 2
    Timeout = 0
    WaitsForConnections = FALSE
SPECIFICATION Spec
SYMMETRY MCSymmetry
INVARIANTS
    TablesAgree
    NoLeakedSession
    AddressAvailable
PROPERTIES
    EvictsOnlyItself
    ImplementsAddressLease
