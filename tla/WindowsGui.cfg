SPECIFICATION FairSpec
CONSTANTS
    Nodes = {n1, n2}
    None = None
    MaxWorkers = 2
    MaxRestarts = 1
    MaxFaults = 1
INVARIANT NoOrphan
INVARIANT OneWorker
INVARIANT RunsActiveNode
INVARIANT ShowsConnected
PROPERTY StopIsForThisWorker
PROPERTY StopsWhenAsked
PROPERTY SwitchReconnects
CHECK_DEADLOCK FALSE
