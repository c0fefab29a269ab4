SPECIFICATION LiveSpec
CONSTANTS
    NONE = NONE
    Modes <- MCModes
    Configs <- ServerConfigs
    Events <- LiveEvents
    Batteries = {60}
    Clients = {1}
    MaxInhibits = 0
    EventCap = 1
    RequestCap = 1
    SignalCap = 0
    MaxRestarts = 0
    HasLogind = TRUE
    RtcOutcomes = {"armed", "kept"}
    Outside = {}
    Faulty = {}
    Prompt = TRUE
PROPERTIES CycleGoesRound
