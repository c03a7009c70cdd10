SPECIFICATION Spec
CONSTANTS
    MaxCuts = 3
    MaxReady = 3
INVARIANT NatWhileServing
INVARIANT CleanExit
INVARIANT LeftoversBounded
INVARIANT NothingUsesClosed
