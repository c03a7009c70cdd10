CONSTANTS
    Sessions = {s1, s2}
    Ids = {i1}
    Vips = {v1}
    Endpoints = {e1, e2}
    WindowSize = 2
    MaxClientSeq = 2
    MaxServerSeq = 2
    NoId = NoId
    NoVip = NoVip
    NoEndpoint = NoEndpoint
SPECIFICATION Spec
SYMMETRY Symmetry
CHECK_DEADLOCK FALSE
INVARIANTS
    NonceOnce
    RepliesGoHome
    EchoOnce
PROPERTY
    ImplementsService
