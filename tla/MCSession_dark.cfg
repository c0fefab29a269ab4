SPECIFICATION Spec
CONSTANTS
    NONE = NONE
    StageSets <- MCStageSets
    Displays = {"wlr"}
    MaxStreams = 2
    EventRoom = 1
    Kinds <- MCKinds
    Room = 1
    OpRoom = 1
    AfterSleep = {}
    MaxUpsets = 1
INVARIANTS RestartLosesNothing
CHECK_DEADLOCK FALSE
