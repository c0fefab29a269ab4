SPECIFICATION DaemonSpec
CONSTANTS
    NONE = NONE
    Modes <- MCModes
    Configs <- ReloadConfigs
    Events <- ReloadEvents
    Batteries = {60}
    Clients = {1}
    MaxInhibits = 0
    EventCap = 1
    RequestCap = 1
    SignalCap = 0
    MaxRestarts = 0
    HasLogind = TRUE
    RtcOutcomes = {"armed", "kept"}
    Outside = {}
    Faulty = {}
    Prompt = TRUE
INVARIANTS NoOrphanAlarm
