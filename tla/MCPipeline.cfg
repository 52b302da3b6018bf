CONSTANTS
    Cases <- Checked
    SpoolSize = 2
    InputCap = 1
    RegistrarCap = 1
    MaxPending = 1
    Binds = {"a", "b"}
    UnixBinds = {}
SPECIFICATION FairSpec
CHECK_DEADLOCK FALSE
INVARIANT ExitsComplete ConfigsAgree AdminListens
PROPERTY TermEnds
