SPECIFICATION MCSpec
CONSTANTS
    NONE = NONE
    Modes <- MCModes
    Configs <- MCConfigs
    Events <- MCEvents
    Batteries = {10, 12, 100}
    Clients = {1}
    MaxInhibits = 1
INVARIANTS NoRetryInCycle GivesUpInTime ModeFollowsPower LowFollowsBattery
PROPERTIES ImplementsCycle CycleSuspendsOnlyArmed CriticalActionIsWarranted NoStagesPastGrace ExitsCycleLit RespectsInhibitors
CHECK_DEADLOCK FALSE
