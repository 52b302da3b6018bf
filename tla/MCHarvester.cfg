CONSTANTS
    Case = "all"
    Setups <- MCSetups
SPECIFICATION FairSpec
CHECK_DEADLOCK FALSE
INVARIANT NothingPassedOver EventsFaithful
PROPERTY SentOnce Harvested StopEnds
