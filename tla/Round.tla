------------------------------- MODULE Round -------------------------------
(***************************************************************************)
(* One round of the server cycle in time: the mains, the controller that    *)
(* shows them late after a resume, the watcher of the power supply, the     *)
(* engine's cycle, the RTC alarm and the wake it is taken for.  Durations   *)
(* are ticks; alarms are kept as the ticks that are left until they are due.*)
(***************************************************************************)
EXTENDS Supply, Rtc

CONSTANTS
    DirOf,          \* what sysfs shows with mains power and without
    GraceTime,      \* [server] grace
    CheckInterval,  \* [server] check_interval
    AwakeWindow,    \* [server] awake_window
    Slack,          \* [server] alarm_slack
    Latency,        \* from the wake of the machine to the daemon's look at the clock
    Stale,          \* how long sysfs shows the old values after a wake
    MaxFailures     \* MAX_SLEEP_FAILURES

LastRecheck == Max(Rechecks \cup {0})

ASSUME RoundAssumption ==
    /\ DirOf \in [BOOLEAN -> Directories]
    /\ \A on \in BOOLEAN : Snapshot(DirOf[on]) = [ac |-> on, battery |-> NONE]
    /\ {GraceTime, AwakeWindow, Stale} \subseteq Nat /\ MaxFailures \in Nat \ {0}
    /\ CheckInterval \in Nat /\ CheckInterval >= 2 * MinHorizon /\ Slack < CheckInterval
    /\ Slack \in Nat /\ Latency \in 0..Slack /\ Grain <= Slack
    /\ LastRecheck \in Rechecks /\ Stale < LastRecheck /\ LastRecheck < AwakeWindow
    /\ {[event |-> "Suspending"], [event |-> "Resumed"]} \subseteq Others
    /\ NONE \notin Int /\ NONE # UNSET

VARIABLES
    mains,          \* is the machine plugged in
    lag,            \* for how long sysfs still shows what it showed before the wake
    steady,         \* time awake since the mains changed
    machine,        \* up, asked (to sleep), going, asleep, waking
    delay,          \* until the listener reports the resume
    woke,           \* who has woken the machine, and how long before the alarm
    alarm,          \* until the attribute wakealarm is due, or UNSET
    scheduled,      \* until Planner.scheduled, or UNSET
    phase, failures,    \* of the engine
    timer           \* Grace or AwakeWindow, whichever runs, or NONE

engineSide == <<phase, failures, timer>>
machineSide == <<machine, delay, woke>>
alarms == <<alarm, scheduled>>
worldSide == <<mains, lag, steady>>
roundVars == <<supplyVars, engineSide, machineSide, alarms, worldSide>>

Cycle == INSTANCE Cycle WITH ac <- known.ac

RoundRests ==
    /\ lag = 0 /\ steady = 0
    /\ machine = "up" /\ delay = 0 /\ woke = NONE
    /\ alarm = UNSET /\ scheduled = UNSET
    /\ phase = "Out" /\ failures = 0 /\ timer = NONE

RoundInit ==
    /\ mains \in BOOLEAN
    /\ SupplyInit /\ sysfs = DirOf[mains]
    /\ RoundRests

-----------------------------------------------------------------------------
(* The engine, with what the main loop does for its commands.              *)

Running == machine # "asleep"

\* CancelWake
Disarm ==
    /\ \E o \in ClearOutcomes(alarm) : alarm' = o.file
    /\ scheduled' = UNSET

Leave == phase' = "Out" /\ timer' = NONE /\ Disarm /\ UNCHANGED failures

\* on_ac_changed, with trigger = "ac-lost"
TakeAc ==
    /\ Running /\ TakePower
    /\ UNCHANGED <<machineSide, worldSide>>
    /\ \/ known'.ac = known.ac /\ UNCHANGED <<engineSide, alarms>>
       \/ /\ Cycle!PowerGoes /\ phase = "Out"
          /\ phase' = "Grace" /\ timer' = GraceTime /\ failures' = 0 /\ UNCHANGED alarms
       \/ Cycle!PowerGoes /\ phase # "Out" /\ UNCHANGED <<engineSide, alarms>>
       \/ Cycle!PowerComes /\ phase \notin {"Grace", "Checking"} /\ UNCHANGED <<engineSide, alarms>>
       \/ Cycle!PowerComes /\ phase = "Grace" /\ timer' = NONE /\ UNCHANGED <<failures, alarms>>
       \/ Cycle!PowerComes /\ phase = "Checking" /\ Leave

\* amperedctl long-sleep --cancel, or input where the cycle waits awake.  It comes
\* through `events` as well: not before a sleep that was reported earlier.
CancelsCycle ==
    /\ machine = "up" /\ \A i \in 1..Len(events) : events[i] \notin Others
    /\ UNCHANGED <<supplyVars, machineSide, worldSide>>
    /\ Cycle!Leaves /\ Leave

\* ScheduleWake, at an instant that is `now` by the wall clock: only its place
\* in a second matters.
Schedules(ok) ==
    \E now \in Grain..2 * Grain - 1 :
    \E o \in SetOutcomes(alarm, now + CheckInterval, now) :
        /\ ok = o.ok
        /\ alarm' = IF ok THEN Pending(o.file) - now ELSE o.file
        /\ scheduled' = IF ok THEN CheckInterval ELSE UNSET

Suspends ==
    /\ Schedules(TRUE) /\ ~known.ac
    /\ phase' = "Armed" /\ timer' = NONE /\ machine' = "asked"
    /\ UNCHANGED <<failures, delay, woke>>

GivesUp ==
    /\ Schedules(FALSE) /\ failures + 1 = MaxFailures
    /\ phase' = "Out" /\ timer' = NONE /\ UNCHANGED <<failures, machineSide>>

\* Mutant: a failure that is counted and not tried again.
ArmOnce ==
    \/ Suspends \/ GivesUp
    \/ /\ Schedules(FALSE) /\ failures + 1 < MaxFailures
       /\ phase' = "Armed" /\ timer' = NONE /\ failures' = failures + 1
       /\ UNCHANGED machineSide

\* arm, on_wake_scheduled and cycle_failure.
Arm ==
    \/ Suspends \/ GivesUp
    \/ /\ Schedules(FALSE) /\ failures + 1 < MaxFailures
       /\ phase' = "Armed" /\ timer' = AwakeWindow /\ failures' = failures + 1
       /\ UNCHANGED machineSide

TimerFires ==
    /\ machine = "up" /\ timer = 0 /\ UNCHANGED <<supplyVars, worldSide>>
    /\ \/ phase \in {"Armed", "Checking"} /\ known.ac /\ Cycle!Leaves /\ Leave /\ UNCHANGED machineSide
       \/ (phase = "Grace" \/ ~known.ac) /\ Arm

\* Suspending
TakeSuspending ==
    /\ Running /\ Taking({"Suspending"}) /\ TakeOther
    /\ Cycle!Sleeps /\ failures' = 0 /\ timer' = NONE
    /\ UNCHANGED <<alarms, machineSide, worldSide>>

\* Resumed, or ResumedByUser if the main loop takes it for that.
TakeResumed ==
    /\ Running /\ Resumed
    /\ \/ phase = "Out" /\ UNCHANGED <<engineSide, alarms>>
       \/ LET byUser == phase = "LongSleeping" /\ ClassifyWake(0, scheduled, Slack) = "User" IN
          /\ Cycle!Resumes(byUser)
          /\ phase' = "Out" => Leave
          /\ phase' # "Out" => /\ timer' = AwakeWindow /\ UNCHANGED <<alarm, failures>>
                               /\ scheduled' = IF phase = "LongSleeping" THEN UNSET ELSE scheduled
    /\ woke' = NONE /\ UNCHANGED <<machine, delay, worldSide>>

-----------------------------------------------------------------------------
(* The machine, the mains, and time.                                       *)

\* logind announces the sleep, the listener reports it and lets go of its lock.
ReportSleep ==
    /\ machine = "asked" /\ SendOther([event |-> "Suspending"])
    /\ machine' = "going"
    /\ UNCHANGED <<delay, woke, engineSide, alarms, worldSide>>

FallAsleep ==
    /\ machine = "going" /\ machine' = "asleep"
    /\ UNCHANGED <<supplyVars, delay, woke, engineSide, alarms, worldSide>>

WakesBy(by) ==
    /\ machine = "asleep" /\ machine' = "waking"
    /\ woke' = [by |-> by, left |-> scheduled]
    /\ delay' \in 0..Latency
    /\ lag' \in 0..Stale
    /\ UNCHANGED <<supplyVars, engineSide, scheduled, mains, steady>>

AlarmWakes == alarm # UNSET /\ alarm <= 0 /\ WakesBy("alarm") /\ alarm' = UNSET
UserWakes == WakesBy("user") /\ UNCHANGED alarm

ReportWake ==
    /\ machine = "waking" /\ delay = 0 /\ SendOther([event |-> "Resumed"])
    /\ machine' = "up"
    /\ UNCHANGED <<delay, woke, engineSide, alarms, worldSide>>

Plug ==
    /\ mains' = ~mains /\ steady' = 0
    /\ UNCHANGED <<supplyVars, lag, machineSide, engineSide, alarms>>

\* The controller shows the truth.
Late == Running /\ lag = 0 /\ sysfs # DirOf[mains]
Shows == Late /\ Change(DirOf[mains])
         /\ UNCHANGED <<worldSide, machineSide, engineSide, alarms>>

Loses == Running /\ NetlinkFails
         /\ UNCHANGED <<worldSide, machineSide, engineSide, alarms>>

Watches == Running /\ WatchTask
           /\ UNCHANGED <<worldSide, machineSide, engineSide, alarms>>

Less(t) == IF t \in {NONE, UNSET} THEN t ELSE t - 1
Floor(n) == IF n > 0 THEN n - 1 ELSE 0

TickAwake ==
    /\ machine \in {"up", "waking"} /\ timer # 0 /\ ~Late
    /\ machine = "waking" => delay > 0
    /\ SupplyTick
    /\ timer' = Less(timer) /\ delay' = Floor(delay) /\ lag' = Floor(lag)
    /\ steady' = Min({steady + 1, AwakeWindow})
    /\ alarm' = IF alarm # UNSET /\ alarm <= 1 THEN UNSET ELSE Less(alarm)
    /\ scheduled' = Less(scheduled)
    /\ UNCHANGED <<mains, machine, woke, phase, failures>>

\* The timers of the daemon stand still.
TickAsleep ==
    /\ machine = "asleep" /\ alarm # UNSET /\ alarm > 0
    /\ alarm' = Less(alarm) /\ scheduled' = Less(scheduled)
    /\ UNCHANGED <<supplyVars, engineSide, machineSide, worldSide>>

Proceeds ==
    \/ TakeAc \/ TimerFires \/ TakeSuspending \/ TakeResumed
    \/ ReportSleep \/ FallAsleep \/ AlarmWakes \/ ReportWake
    \/ Shows \/ Watches
    \/ TickAwake \/ TickAsleep

RoundNext == Proceeds \/ Plug \/ UserWakes \/ CancelsCycle \/ Loses

RoundSpec == RoundInit /\ [][RoundNext]_roundVars

\* Every task runs and time goes on.
FairRoundSpec == RoundSpec /\ WF_roundVars(Proceeds)

-----------------------------------------------------------------------------
(* Properties.                                                             *)

\* The cycle goes back to sleep only if the machine was unplugged at some time
\* since the last recheck could have been told otherwise: awake_window outlasts
\* the rechecks and what the controller needs after a resume.
WindowSeesPower ==
    [][(phase = "Checking") /\ phase' = "Armed" /\ mains
          => steady <= AwakeWindow - LastRecheck]_roundVars

\* Without power, the alarm's wake never ends the cycle, however late the daemon
\* looks at the clock and although the attribute has cut the alarm to a second;
\* a wake that is earlier than that always does.
WakesAreKnown ==
    [][(phase = "LongSleeping") /\ woke # NONE /\ woke' = NONE /\ ~known.ac =>
          /\ woke.by = "alarm" => phase' = "Checking"
          /\ woke.by = "user" /\ woke.left > Slack + Latency => phase' = "Out"]_roundVars

\* Mains that stay on end the cycle for good: seen in Grace, in a window, or
\* after the alarm if they came back while the machine slept.
PowerEndsCycle == <>[]mains => <>[](phase = "Out")

=============================================================================
