CONSTANT
    MaxRequests = 3
SPECIFICATION FairSpec
CHECK_DEADLOCK FALSE
INVARIANTS
    SupersededIsStopped
    SettledStateShown
    StopHitsItsOwn
    NothingLeftOpen
PROPERTIES
    DisconnectCompletes
    FailureEndsRun
