CONSTANTS
    NumNames = 2
    Inodes = {1, 2}
    Infos = {1, 2, 3}
    MaxLines = 1
    MaxChanges = 3
    PipeCap = 1
    MaxFaults = 1
    FromBeginning = FALSE
SPECIFICATION Spec
CHECK_DEADLOCK FALSE
INVARIANTS ResumesSafely NoConflict IndexConsistent OneHarvesterUnlessError
