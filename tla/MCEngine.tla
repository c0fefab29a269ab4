----------------------------- MODULE MCEngine -----------------------------
(* Instances of Engine for TLC: configurations that differ where decisions *)
(* depend on them, and the IPC requests a run is about.                    *)
EXTENDS Engine

MCModes == {"ac", "bat", "low"}

Base == [modes |-> MCModes, first |-> "ac",
         autoEnabled |-> TRUE, onAc |-> "ac", onBattery |-> "bat",
         onLowBattery |-> "low", lowPercent |-> 10, respectInhibitors |-> TRUE,
         sleepRetry |-> TRUE, serverEnabled |-> TRUE, trigger |-> "AcLost",
         criticalPercent |-> 10, criticalAction |-> "Hibernate", hook |-> TRUE]

OneMode == [Base EXCEPT !.modes = {"ac"}, !.onBattery = "ac", !.onLowBattery = "ac"]

Ipc(requests) == [event : {"Ipc"}, client : Clients, request : requests]
Plain(names) == [event : names]
AcEvents == [event : {"AcChanged"}, ac : BOOLEAN]
BatteryEvents == [event : {"Battery"}, percent : Batteries]
TimerEvents == [event : {"Timer"}, id : Timers]
SleepEvents == Plain({"Suspending", "SleepFailed"})
               \cup [event : {"Resumed"}, byUser : BOOLEAN]
BlockEvents == [event : {"Inhibitors", "SleepBlocked"}, blocked : BOOLEAN]
IdleEvents == [event : {"Idle"}, stage : {"Dim", "ScreenOff", "Sleep"}]

\* The server cycle and the modes: both critical actions, with inhibitors and
\* without, two thresholds, and a reload that drops the mode in use.
CycleConfigs == {Base,
                 [Base EXCEPT !.respectInhibitors = FALSE,
                              !.criticalAction = "Poweroff", !.lowPercent = 97,
                              !.modes = {"ac", "low"}, !.onBattery = "low"]}
CycleEvents ==
    Plain({"Activity", "ShutdownRequested"}) \cup AcEvents \cup BatteryEvents \cup TimerEvents
    \cup SleepEvents \cup BlockEvents
    \cup [event : {"Idle"}, stage : {"Sleep"}]
    \cup Ipc({[req |-> "Reload"], [req |-> "AutoMode"], [req |-> "Mode", name |-> "bat"]}
             \cup [req : {"LongSleep"}, cancel : BOOLEAN]
             \cup [req : {"Sleep"}, force : BOOLEAN])

\* Inhibitors: with a retry and without, and a reload that drops all modes and
\* [auto_mode].
InhibitConfigs == {[OneMode EXCEPT !.hook = FALSE],
                   [OneMode EXCEPT !.sleepRetry = FALSE, !.trigger = "Manual",
                                   !.modes = {}, !.first = NONE, !.autoEnabled = FALSE]}
InhibitEvents ==
    Plain({"Activity", "ShutdownRequested", "ReloadRequested"})
    \cup [event : {"Resumed"}, byUser : {FALSE}]
    \cup IdleEvents \cup TimerEvents \cup BlockEvents \cup AcEvents
    \cup Ipc({[req |-> "Status"], [req |-> "Dim"], [req |-> "Undim"]}
             \cup [req : {"Screen"}, on : BOOLEAN] \cup [req : {"Sleep"}, force : BOOLEAN]
             \cup [req : {"Inhibit"}, what : {"Idle", "Sleep"}, ttlZero : BOOLEAN]
             \cup [req : {"Uninhibit"}, id : 1..MaxInhibits])

\* The two families in one run, side by side: no reload leads from the one to the
\* other, and each has its own events.  The one of inhibitors has no battery.
MCConfigs == CycleConfigs \cup InhibitConfigs
MCEvents == CycleEvents \cup InhibitEvents
Inhibiting == config \in InhibitConfigs

MCInit ==
    /\ Init
    /\ Inhibiting <=> battery = NONE
    /\ Inhibiting => hibernateAvailable

MCNext == IF Inhibiting THEN Steps(InhibitConfigs, InhibitEvents)
                        ELSE Steps(CycleConfigs, CycleEvents)

MCSpec == MCInit /\ [][MCNext]_vars
=============================================================================
