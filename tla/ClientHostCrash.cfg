SPECIFICATION Spec
CONSTANTS
    ServerIps = {s1, s2}
    Platforms = {"linux"}
    None = None
INVARIANT RestoredOnShutdown
