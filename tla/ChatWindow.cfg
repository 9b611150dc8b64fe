SPECIFICATION Spec
CONSTANTS
    Peers = {m1, m2}
    Names = {1, 2}
    Chars <- MCChars
    StepOf <- MCStepOf
    Clips <- MCClips
    Paths = {p1, p2}
    MaxChars = 2
    MaxPicks = 1
    MayVanish = TRUE
SYMMETRY Symmetry
CHECK_DEADLOCK FALSE
INVARIANTS
    WindowTypeOK
    NobodyLost
    DraftNotRedirected
    FilesAccounted
PROPERTIES
    ClearedIsPosted
