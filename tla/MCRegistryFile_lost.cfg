CONSTANTS
    Platforms = {"windows"}
    MaxSpools = 3
    MaxCrashes = 2
    MaxErrors = 0
    MaxTorn = 0
SPECIFICATION Spec
CHECK_DEADLOCK FALSE
INVARIANT CrashesForgetNothing
