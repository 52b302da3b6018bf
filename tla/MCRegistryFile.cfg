CONSTANTS
    Platforms = {"other", "windows"}
    MaxSpools = 3
    MaxCrashes = 3
    MaxErrors = 2
    MaxTorn = 1
SPECIFICATION Spec
CHECK_DEADLOCK FALSE
INVARIANT SurvivesCrashes SurvivesOneFault
