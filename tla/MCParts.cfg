SPECIFICATION PartSpec
CONSTANTS
    Ids <- MCIds
    MaxGeneration = 4
    NEVER = NEVER
    Afters = {1, 2}
    ChannelCap = 1
    NumDirs = 2
    NumDropIns = 2
    Paths <- MCPaths
    Texts <- MCTexts
    Sections <- MCSections
    MaxFiles = 2
    MISSING = MISSING
    UNREADABLE = UNREADABLE
    EMPTY = EMPTY
    KeyValues = {"ignore", "suspend"}
    UNNAMED = UNNAMED
    ModeOf <- MCModeOf
    Custom <- MCCustom
    Cpus <- MCCpus
    ProfileChoices = {"balanced", "performance"}
INVARIANTS StatusIsHonest KnobsTakeHold
PROPERTIES ImplementsService EveryTimerFires OncePerStretch IdlenessEnds
CHECK_DEADLOCK FALSE
