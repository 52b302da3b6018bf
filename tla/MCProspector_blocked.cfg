CONSTANTS
    NumNames = 1
    Inodes = {1}
    Infos = {1}
    MaxLines = 3
    MaxChanges = 1
    PipeCap = 1
    MaxFaults = 1
    FromBeginning = FALSE
SPECIFICATION Spec
CHECK_DEADLOCK FALSE
INVARIANT NeverSkips
