SPECIFICATION HomeSpec
CONSTANTS
    NONE = NONE
    Modes <- MCModes
    Configs <- HomeConfigs
    Events <- HomeEvents
    Batteries = {10, 60}
    Clients = {1}
    MaxInhibits = 0
    EventCap = 1
    RequestCap = 1
    SignalCap = 0
    MaxRestarts = 1
    HasLogind = TRUE
    RtcOutcomes = {"armed", "kept", "cleared"}
    Outside <- SuspendedConfigs
    Faulty <- FaultyConfigs
    Prompt = TRUE
INVARIANTS NeverStuck SubscribersFollow NoOrphanAlarm ActiveIsLit ModeIsCarriedOut
PROPERTIES ServerSleepsWithAlarm RestartGoesOn
CHECK_DEADLOCK FALSE
