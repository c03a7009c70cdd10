SPECIFICATION Spec
CONSTANTS
    Nodes = {n1, n2}
    None = None
    MaxWorkers = 2
    MaxRestarts = 0
    MaxFaults = 0
PROPERTY ClosingStartsNothing
CHECK_DEADLOCK FALSE
