------------------------------ MODULE MCDaemon ------------------------------
(* Instances of Daemon for TLC.  One mode is enough where modes are not the *)
(* question; channels of one event keep the interleavings of every task     *)
(* with the execution of single commands.                                   *)
EXTENDS Daemon

MCModes == {"ac", "bat"}
Base == [modes |-> {"ac"}, first |-> "ac",
         autoEnabled |-> TRUE, onAc |-> "ac", onBattery |-> "ac",
         onLowBattery |-> "ac", lowPercent |-> 20, respectInhibitors |-> TRUE,
         sleepRetry |-> TRUE, serverEnabled |-> TRUE, trigger |-> "AcLost",
         criticalPercent |-> 10, criticalAction |-> "Hibernate", hook |-> FALSE]

Ipc(rs) == [event : {"Ipc"}, client : Clients, request : rs]
Plain(names) == [event : names]
AcEvents == [event : {"AcChanged"}, ac : BOOLEAN]
IdleEvents == [event : {"Idle"}, stage : {"Dim", "ScreenOff", "Sleep"}]
LongSleep(cancels) == Ipc([req : {"LongSleep"}, cancel : cancels])

\* The server cycle by itself, and a daemon that lives on.
ServerConfigs == {Base}
ServerEvents == AcEvents \cup Plain({"Activity"}) \cup LongSleep({TRUE})
LiveEvents == AcEvents
LiveNext == DaemonNext /\ alive'
LiveSpec == DaemonInit /\ [][LiveNext]_daemonVars /\ Fairness

\* The cycle with a poweroff, an empty battery, and somebody who suspends.
OutsideConfigs == {[Base EXCEPT !.sleepRetry = FALSE, !.criticalAction = "Poweroff"]}
OutsideEvents == AcEvents \cup Plain({"Activity"}) \cup LongSleep({FALSE})
                 \cup [event : {"Battery"}, percent : {10}]

\* A desktop: idle stages and modes, no server cycle.
DesktopConfigs == {[Base EXCEPT !.serverEnabled = FALSE, !.modes = MCModes,
                                !.onBattery = "bat"]}
DesktopEvents == IdleEvents \cup AcEvents \cup Plain({"Activity", "ReloadRequested"})
                 \cup Ipc({[req |-> "Mode", name |-> "ac"], [req |-> "AutoMode"]})

\* Where writing, clearing the alarm and locking may fail.
FaultyConfigs == {[Base EXCEPT !.respectInhibitors = FALSE, !.sleepRetry = FALSE]}
FaultyEvents == AcEvents \cup Ipc({[req |-> "Mode", name |-> "ac"], [req |-> "AutoMode"]})

\* The four of them in one run, side by side: no reload leads from one to
\* another, and each has its own events.  The server dies at any step, the faulty
\* one with nothing left to execute, and hears no more when it is back; the others
\* are suspended from outside; the battery empties where it matters.
HomeConfigs == ServerConfigs \cup OutsideConfigs \cup DesktopConfigs \cup FaultyConfigs
HomeEvents == ServerEvents \cup OutsideEvents \cup DesktopEvents \cup FaultyEvents
HomeOf(c) ==
    CHOOSE home \in {ServerConfigs, OutsideConfigs, DesktopConfigs, FaultyConfigs} : c \in home
EventsOf(home) == CASE home = ServerConfigs -> ServerEvents
                    [] home = OutsideConfigs -> OutsideEvents
                    [] home = DesktopConfigs -> DesktopEvents
                    [] home = FaultyConfigs -> IF restarts = 0 THEN FaultyEvents ELSE {}

SuspendedConfigs == OutsideConfigs \cup DesktopConfigs

HomeNext ==
    /\ DaemonNext
    /\ LET home == HomeOf(config) IN
       /\ config' \in home
       /\ Len(events') > Len(events) => events'[Len(events')] \in Reports \cup EventsOf(home)
       /\ home \notin {ServerConfigs, FaultyConfigs} => alive'
       /\ home = FaultyConfigs /\ queue # <<>> => alive'

HomeInit == DaemonInit /\ (config \notin OutsideConfigs => battery = 60)
HomeSpec == HomeInit /\ [][HomeNext]_daemonVars

\* Idle stages and the cycle together.
DarkEvents == IdleEvents \cup AcEvents

\* A reload that switches the cycle off.
ReloadConfigs == {Base, [Base EXCEPT !.serverEnabled = FALSE]}
ReloadEvents == AcEvents \cup Plain({"ReloadRequested"})
=============================================================================
