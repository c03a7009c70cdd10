SPECIFICATION Spec
CONSTANTS
    Procs = {cli, window}
    Ids <- TwoIds
    Hosts = {h1}
    Tokens = {t1, t2}
    None = None
SYMMETRY Symmetry
INVARIANT Readable
INVARIANT ShownIsCurrent
PROPERTY SavesWhatWasAsked
