SPECIFICATION PartSpec
CONSTANTS
    NONE = NONE
    BROKEN = BROKEN
    UNSET = UNSET
    Directories <- MCDirectories
    DirOf <- MCDirOf
    Others <- MCOthers
    Poll = 5
    Rechecks = {1, 3}
    EventCap = 2
    RefreshCap = 1
    Grain = 2
    MinHorizon = 3
    GraceTime = 2
    CheckInterval = 6
    AwakeWindow = 4
    Slack = 2
    Latency = 1
    Stale = 2
    MaxFailures = 3
INVARIANTS NothingUnsaid
PROPERTIES WindowSeesPower WakesAreKnown PowerEndsCycle
