SPECIFICATION FairSpec
CONSTANTS
    ServerIps = {s1, s2}
    Platforms = {"linux", "darwin", "windows"}
    None = None
INVARIANT NoRoutingLoop
INVARIANT CleanExit
INVARIANT LeftoversRemoved
PROPERTY DownRestoresDns
PROPERTY StopEndsRun
