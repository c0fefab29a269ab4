SPECIFICATION FairSpec
CONSTANTS
    NONE = NONE
    StageSets <- MCStageSets
    Displays = {"wlr", "wlr with commands"}
    MaxStreams = 2
    EventRoom = 1
    Kinds <- MCKinds
    Room = 1
    OpRoom = 1
    AfterSleep = {FALSE}
    MaxUpsets = 2
INVARIANTS AgentIsUpToDate AvailabilityIsHonest InputIsHeard ScreenComesOn
PROPERTIES InputLeadsOut
CHECK_DEADLOCK FALSE
