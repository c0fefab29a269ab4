------------------------------ MODULE Engine ------------------------------
(***************************************************************************)
(* The decision maker of `ampered`: `core::Engine` of src/core.rs, a pure  *)
(* state machine.  `handle` takes one Event and returns a list of          *)
(* Commands; nothing else changes its state, except `set_config` (a        *)
(* reload) and the calls made once at startup.                             *)
(*                                                                         *)
(* Every handler is an action.  Its parameter `out` is the list of         *)
(* commands that precede the ones it returns (what the main loop still has *)
(* to execute, then what the caller has pushed already), and `reply` is    *)
(* what the caller pushes after it returns; `queue'` is the whole list.    *)
(* Read on its own the module is the engine in an arbitrary environment:   *)
(* any event at any time, the commands of the last event in `queue`.       *)
(* Daemon executes the commands and restricts the events.                  *)
(*                                                                         *)
(* Data that no decision reads is left out: durations (a `sleep_retry` is  *)
(* zero or not), the text of inhibitors and errors, `idle_connected`, the  *)
(* batteries behind the percentage.  A mode's stages are named by it.      *)
(***************************************************************************)
EXTENDS Naturals, Sequences

CONSTANTS
    NONE,           \* the empty mode name, Stages::NONE, and Option::None
    Modes,          \* names of power modes
    Configs,        \* validated configurations a (re)load can produce
    Batteries,      \* percentages the battery can report
    Clients,        \* ids of IPC requests
    Events,         \* the events that arrive
    MaxInhibits     \* bound: IPC inhibitors ever created (next_inhibit_id)

Phases == {"Grace", "Armed", "LongSleeping", "Checking"}
Awake == {"Active", "Dimmed", "ScreenOff"}
States == Awake \cup {"Suspending", "Sleeping"} \cup Phases
MaxSleepFailures == 3

Config == [modes : SUBSET Modes, first : Modes \cup {NONE},
           autoEnabled : BOOLEAN, onAc : Modes \cup {NONE},
           onBattery : Modes \cup {NONE}, onLowBattery : Modes \cup {NONE},
           lowPercent : 0..100, respectInhibitors : BOOLEAN,
           sleepRetry : BOOLEAN, serverEnabled : BOOLEAN,
           trigger : {"AcLost", "Manual"}, criticalPercent : 0..100,
           criticalAction : {"Hibernate", "Poweroff"}, hook : BOOLEAN]

\* Config::validate: an enabled [auto_mode] names only modes that exist.
Valid(c) ==
    /\ c \in Config
    /\ c.first \in IF c.modes = {} THEN {NONE} ELSE c.modes
    /\ c.autoEnabled => {c.onAc, c.onBattery, c.onLowBattery} \subseteq c.modes

Request ==
    [req : {"Status", "AutoMode", "Dim", "Undim", "Reload"}]
    \cup [req : {"Mode"}, name : Modes]
    \cup [req : {"Screen"}, on : BOOLEAN]
    \cup [req : {"Sleep"}, force : BOOLEAN]
    \cup [req : {"LongSleep"}, cancel : BOOLEAN]
    \cup [req : {"Inhibit"}, what : {"Idle", "Sleep"}, ttlZero : BOOLEAN]
    \cup [req : {"Uninhibit"}, id : 1..MaxInhibits]

Grace == [timer |-> "Grace", id |-> 0]
SleepRetry == [timer |-> "SleepRetry", id |-> 0]
AwakeWindow == [timer |-> "AwakeWindow", id |-> 0]
InhibitExpiry(n) == [timer |-> "InhibitExpiry", id |-> n]
Timers == {Grace, SleepRetry, AwakeWindow}
            \cup {InhibitExpiry(n) : n \in 1..MaxInhibits}

Event ==
    [event : {"Activity", "Suspending", "SleepFailed", "ReloadRequested",
              "ShutdownRequested"}]
    \cup [event : {"Idle"}, stage : {"Dim", "ScreenOff", "Sleep"}]
    \cup [event : {"AcChanged"}, ac : BOOLEAN]
    \cup [event : {"Battery"}, percent : Batteries]
    \cup [event : {"Resumed"}, byUser : BOOLEAN]
    \cup [event : {"Timer"}, id : Timers]
    \cup [event : {"Ipc"}, client : Clients, request : Request]
    \cup [event : {"Inhibitors", "SleepBlocked"}, blocked : BOOLEAN]

ASSUME EngineAssumption ==
    /\ NONE \notin Modes /\ NONE \notin Clients /\ NONE \notin 0..100
    /\ \A c \in Configs : Valid(c)
    /\ Batteries \subseteq 0..100
    /\ Events \subseteq Event
    /\ MaxInhibits \in Nat

VARIABLES
    config, state, mode,
    ac, battery, low,               \* PowerSnapshot and the hysteresis bit
    inhibits, nextInhibitId,        \* inhibitors taken over IPC
    external,                       \* does logind report blocking inhibitors
    pendingSleep, suspendFrom,
    hibernateAvailable, sleepFailures, interrupted,
    queue                           \* commands returned and not executed yet

powerVars == <<ac, battery, low>>
blockVars == <<inhibits, nextInhibitId, external>>
sleepVars == <<pendingSleep, suspendFrom>>
cycleVars == <<sleepFailures, interrupted>>
engineVars == <<config, state, mode, powerVars, blockVars, sleepVars,
                hibernateAvailable, cycleVars>>
vars == <<engineVars, queue>>

InCycle == state \in Phases

-----------------------------------------------------------------------------
(* Events and commands.                                                    *)

Do(name) == [op |-> name]   \* Dim, Undim, PowerOff, RunHook, Shutdown,
                            \* ScheduleWake, CancelWake
Screen(on) == [op |-> "Screen", on |-> on]
ApplyMode(m) == [op |-> "ApplyMode", mode |-> m]
ReplaceIdleStages(m) == [op |-> "ReplaceIdleStages", stages |-> m]
Suspend(method, force) == [op |-> "Suspend", method |-> method, force |-> force]
StartTimer(t) == [op |-> "StartTimer", id |-> t]
CancelTimer(t) == [op |-> "CancelTimer", id |-> t]
Reply(client, ok) == [op |-> "Reply", client |-> client, ok |-> ok]
Reload(client) == [op |-> "Reload", replyTo |-> client]
BroadcastState(from, to) == [op |-> "Broadcast", from |-> from, to |-> to]
BroadcastMode(m) == [op |-> "Broadcast", mode |-> m]
BroadcastPower(a) == [op |-> "Broadcast", ac |-> a]
BroadcastCycle(phase) == [op |-> "Broadcast", phase |-> phase]

Command ==
    [op : {"Dim", "Undim", "PowerOff", "RunHook", "Shutdown",
           "ScheduleWake", "CancelWake"}]
    \cup [op : {"Screen"}, on : BOOLEAN]
    \cup [op : {"ApplyMode"}, mode : Modes]
    \cup [op : {"ReplaceIdleStages"}, stages : Modes \cup {NONE}]
    \cup [op : {"Suspend"}, method : {"Configured", "Hibernate"}, force : BOOLEAN]
    \cup [op : {"StartTimer", "CancelTimer"}, id : Timers]
    \cup [op : {"Reply"}, client : Clients, ok : BOOLEAN]
    \cup [op : {"Reload"}, replyTo : Clients \cup {NONE}]
    \cup [op : {"Broadcast"}, from : States, to : States]
    \cup [op : {"Broadcast"}, mode : Modes \cup {NONE}]
    \cup [op : {"Broadcast"}, ac : BOOLEAN]
    \cup [op : {"Broadcast"},
          phase : Phases \cup {"idle", "interrupted", "critical"}]

-----------------------------------------------------------------------------
(* What the engine computes from its data.                                 *)

\* Mutant: the band is not capped at 100.
UncappedComputeLow(c, percent, was) ==
    /\ percent # NONE
    /\ percent <= c.lowPercent \/ (percent < c.lowPercent + 5 /\ was)

\* compute_low: at or below the threshold, then low until threshold + 5.
ComputeLow(c, percent, was) ==
    IF percent = NONE THEN FALSE
    ELSE LET clearsAt == IF c.lowPercent + 5 > 100 THEN 100 ELSE c.lowPercent + 5
         IN  percent <= c.lowPercent \/ (percent < clearsAt /\ was)

\* Mutant: a low battery counts before AC does.
LowFirstModeName(c, m, a, l) ==
    IF c.autoEnabled
    THEN IF l THEN c.onLowBattery ELSE IF a THEN c.onAc ELSE c.onBattery
    ELSE IF m.name # NONE THEN m.name ELSE c.first

\* auto_mode_name, where m is the mode in effect.
AutoModeName(c, m, a, l) ==
    IF c.autoEnabled
    THEN IF a THEN c.onAc ELSE IF l THEN c.onLowBattery ELSE c.onBattery
    ELSE IF m.name # NONE THEN m.name ELSE c.first

\* select_auto_mode: a manual choice stands.
SelectAuto(c, m, a, l) ==
    IF m.kind = "Auto" THEN [m EXCEPT !.name = AutoModeName(c, m, a, l)] ELSE m

StagesOf(c, m) == IF m.name \in c.modes THEN m.name ELSE NONE

\* Mutant: the stages come back whatever the phase.
StatelessModeCommands(c, m, s) ==
    (IF m.name = NONE THEN <<>> ELSE <<ApplyMode(m.name)>>)
    \o <<ReplaceIdleStages(StagesOf(c, m))>>

\* mode_commands, in state s.
ModeCommands(c, m, s) ==
    (IF m.name = NONE THEN <<>> ELSE <<ApplyMode(m.name)>>)
    \o <<ReplaceIdleStages(IF s \in Phases \ {"Grace"} THEN NONE
                           ELSE StagesOf(c, m))>>

ModeChanged(c, m, s) == ModeCommands(c, m, s) \o <<BroadcastMode(m.name)>>

\* reapply_auto_mode, once the mode has gone from m to n.
Reapplied(m, n, s) == IF n = m THEN <<>> ELSE ModeChanged(config, n, s)

IdleInhibited == \E i \in inhibits : i.what = "Idle"

\* sleep_blockers is not empty.
Blocked ==
    /\ config.respectInhibitors
    /\ external \/ \E i \in inhibits : i.what = "Sleep"

BatteryCritical == battery # NONE /\ battery <= config.criticalPercent

CancelPending == IF pendingSleep THEN <<CancelTimer(SleepRetry)>> ELSE <<>>

\* server_phase, outside the cycle.
IdlePhase(intr) == IF intr THEN "interrupted" ELSE "idle"

-----------------------------------------------------------------------------
(* The end of `handle`: a state change is broadcast after everything else. *)

Become(s, intr, out) ==
    /\ state' = s
    /\ queue' = out
         \o (IF s = state THEN <<>> ELSE <<BroadcastState(state, s)>>)
         \o (IF s = state THEN <<>>
             ELSE IF s \in Phases THEN <<BroadcastCycle(s)>>
             ELSE IF InCycle THEN <<BroadcastCycle(IdlePhase(intr))>>
             ELSE <<>>)

Answer(out) == queue' = out /\ UNCHANGED engineVars

-----------------------------------------------------------------------------
(* Helpers of several handlers.                                            *)

\* leave_cycle, with power a and `interrupted` as the caller set them.
LeaveCycle(a, intr, out, reply) ==
    LET m == SelectAuto(config, mode, a, low) IN
    /\ mode' = m
    /\ interrupted' = intr
    /\ Become("Active", intr,
              out \o <<Do("CancelWake")>> \o ModeCommands(config, m, "Active")
                  \o (IF m = mode THEN <<>> ELSE <<BroadcastMode(m.name)>>)
                  \o <<Do("Undim"), Screen(TRUE)>> \o reply)

\* power_is_back
PowerIsBack(out) ==
    LeaveCycle(TRUE, interrupted,
               out \o (IF config.hook THEN <<Do("RunHook")>> ELSE <<>>), <<>>)

\* Mutant: one attempt too many.
GivesUpLate(failures) == failures > MaxSleepFailures

\* The condition of cycle_failure.
GivesUp(failures) == failures >= MaxSleepFailures

\* cycle_failure
CycleFailure(out, reply) ==
    /\ sleepFailures' = sleepFailures + 1
    /\ \/ /\ GivesUp(sleepFailures + 1)
          /\ LeaveCycle(ac, interrupted, out, reply)
       \/ /\ ~GivesUp(sleepFailures + 1)
          /\ Become(state, interrupted, out \o <<StartTimer(AwakeWindow)>> \o reply)
          /\ UNCHANGED <<mode, interrupted>>

\* Mutant: the retry from before the cycle survives.
EnterGraceWithRetry(m, out, reply) ==
    /\ mode' = m
    /\ sleepFailures' = 0 /\ interrupted' = FALSE /\ pendingSleep' = pendingSleep
    /\ Become("Grace", FALSE, out \o <<StartTimer(Grace)>> \o reply)

\* enter_grace
EnterGrace(m, out, reply) ==
    /\ mode' = m
    /\ sleepFailures' = 0 /\ interrupted' = FALSE /\ pendingSleep' = FALSE
    /\ Become("Grace", FALSE, out \o CancelPending \o <<StartTimer(Grace)>> \o reply)

\* arm
Arm(first) ==
    Become("Armed", interrupted,
           (IF first THEN <<ReplaceIdleStages(NONE)>> ELSE <<>>)
           \o <<Do("ScheduleWake")>>)

\* check_power, with the power still away: the critical action, the window.
StayChecking ==
    Become("Checking", interrupted,
        (IF ~BatteryCritical THEN <<>>
         ELSE <<BroadcastCycle("critical"),
                IF config.criticalAction = "Hibernate" /\ hibernateAvailable
                THEN Suspend("Hibernate", TRUE) ELSE Do("PowerOff")>>)
        \o <<StartTimer(AwakeWindow)>>)

\* Mutant: the power is not looked at again.
CheckBatteryOnly == StayChecking /\ UNCHANGED <<mode, interrupted>>

CheckPower ==
    \/ ac /\ PowerIsBack(<<>>)
    \/ ~ac /\ StayChecking /\ UNCHANGED <<mode, interrupted>>

\* arm_sleep_retry, going (back) to s; `pending` is the flag before it.
ArmSleepRetry(s, pending, out) ==
    /\ pendingSleep' = (pending \/ config.sleepRetry)
    /\ Become(s, interrupted,
              out \o IF config.sleepRetry THEN <<StartTimer(SleepRetry)>> ELSE <<>>)

\* request_sleep, past the blockers.
GoToSleep(force, reply, out) ==
    /\ suspendFrom' = state
    /\ pendingSleep' = FALSE
    /\ Become("Suspending", interrupted,
              out \o <<Suspend("Configured", force)>> \o reply)

\* Mutant: the blockers are not looked at.
RequestSleepUnchecked(pending) ==
    /\ GoToSleep(FALSE, <<>>, <<>>)
    /\ UNCHANGED <<config, mode, powerVars, blockVars, hibernateAvailable, cycleVars>>

\* request_sleep(false, true).  The one caller with arm_retry = false has
\* looked at the blockers itself.
RequestSleep(pending) ==
    /\ \/ ~Blocked /\ GoToSleep(FALSE, <<>>, <<>>)
       \/ Blocked /\ ArmSleepRetry(state, pending, <<>>) /\ UNCHANGED suspendFrom
    /\ UNCHANGED <<config, mode, powerVars, blockVars, hibernateAvailable, cycleVars>>

-----------------------------------------------------------------------------
(* Handlers.                                                               *)

StepAside(s, cmds) ==   \* only the state changes
    /\ Become(s, interrupted, cmds)
    /\ UNCHANGED <<config, mode, powerVars, blockVars, sleepVars,
                   hibernateAvailable, cycleVars>>

OnIdle(stage) ==
    \/ IdleInhibited /\ Answer(<<>>)
    \/ /\ ~IdleInhibited
       /\ \/ stage = "Dim" /\ state = "Active" /\ StepAside("Dimmed", <<Do("Dim")>>)
          \/ /\ stage = "ScreenOff" /\ state \in {"Active", "Dimmed"}
             /\ StepAside("ScreenOff", <<Screen(FALSE)>>)
          \/ stage = "Sleep" /\ state \in Awake /\ RequestSleep(pendingSleep)
          \/ /\ \/ stage = "Dim" /\ state # "Active"
                \/ stage = "ScreenOff" /\ state \notin {"Active", "Dimmed"}
                \/ stage = "Sleep" /\ state \notin Awake
             /\ Answer(<<>>)

OnActivity(out, reply) ==
    LET cmds == out \o CancelPending IN
    /\ pendingSleep' = FALSE
    /\ UNCHANGED <<config, powerVars, blockVars, suspendFrom, hibernateAvailable>>
    /\ \/ /\ state = "Dimmed"
          /\ Become("Active", interrupted, cmds \o <<Do("Undim")>> \o reply)
          /\ UNCHANGED <<mode, cycleVars>>
       \/ /\ state \in {"ScreenOff", "Suspending"}
          /\ Become("Active", interrupted,
                    cmds \o <<Do("Undim"), Screen(TRUE)>> \o reply)
          /\ UNCHANGED <<mode, cycleVars>>
       \/ state = "Armed" /\ CycleFailure(cmds, reply)
       \/ /\ state = "Checking"
          /\ LeaveCycle(ac, TRUE, cmds \o <<CancelTimer(AwakeWindow)>>, reply)
          /\ UNCHANGED sleepFailures
       \/ /\ state \in {"Active", "Sleeping", "Grace", "LongSleeping"}
          /\ Become(state, interrupted, cmds \o reply)
          /\ UNCHANGED <<mode, cycleVars>>

OnSleepBlocked(blocked) ==
    /\ external' = blocked
    /\ UNCHANGED <<config, powerVars, inhibits, nextInhibitId, suspendFrom,
                   hibernateAvailable>>
    /\ \/ /\ state = "Suspending"
          /\ ArmSleepRetry(suspendFrom, pendingSleep, <<>>)
          /\ UNCHANGED <<mode, cycleVars>>
       \/ state = "Armed" /\ CycleFailure(<<>>, <<>>) /\ UNCHANGED pendingSleep
       \/ /\ state \notin {"Suspending", "Armed"}
          /\ Become(state, interrupted, <<>>)
          /\ UNCHANGED <<mode, cycleVars, pendingSleep>>

\* Mutant: a refused suspend leaves the screen as it is.
OnSleepFailedDark(out) ==
    \/ state # "Suspending" /\ Answer(out)
    \/ /\ state = "Suspending"
       /\ Become("Active", interrupted, out)
       /\ UNCHANGED <<config, mode, powerVars, blockVars, sleepVars,
                      hibernateAvailable, cycleVars>>

\* Also called by the main loop, in the middle of its queue, for a Suspend it
\* cannot deliver.
OnSleepFailed(out) ==
    \/ state = "Suspending" /\ OnActivity(out, <<>>)
    \/ /\ state = "Armed"
       /\ CycleFailure(out, <<>>)
       /\ UNCHANGED <<config, powerVars, blockVars, sleepVars, hibernateAvailable>>
    \/ state \notin {"Suspending", "Armed"} /\ Answer(out)

OnSuspending ==
    /\ pendingSleep' = FALSE
    /\ sleepFailures' = IF InCycle THEN 0 ELSE sleepFailures
    /\ Become(IF InCycle THEN "LongSleeping" ELSE "Sleeping", interrupted, <<>>)
    /\ UNCHANGED <<config, mode, powerVars, blockVars, suspendFrom,
                   hibernateAvailable, interrupted>>

OnResumed(byUser) ==
    /\ pendingSleep' = FALSE
    /\ UNCHANGED <<config, powerVars, blockVars, suspendFrom, hibernateAvailable,
                   sleepFailures>>
    /\ \/ InCycle /\ byUser /\ ~ac /\ LeaveCycle(ac, TRUE, <<>>, <<>>)
       \/ InCycle /\ ~(byUser /\ ~ac) /\ CheckPower
       \/ /\ ~InCycle
          /\ Become("Active", interrupted,
                    <<Do("Undim"), Screen(TRUE),
                      ReplaceIdleStages(StagesOf(config, mode))>>)
          /\ UNCHANGED <<mode, interrupted>>

OnInhibitExpiry(n) ==
    /\ inhibits' = {i \in inhibits : i.id # n}
    /\ Become(state, interrupted, <<>>)
    /\ UNCHANGED <<config, mode, powerVars, nextInhibitId, external, sleepVars,
                   hibernateAvailable, cycleVars>>

OnAwakeWindow ==
    /\ UNCHANGED <<config, powerVars, blockVars, sleepVars, hibernateAvailable,
                   sleepFailures>>
    /\ \/ state = "Armed" /\ ac /\ PowerIsBack(<<>>)
       \/ /\ \/ state = "Armed" /\ ~ac
             \/ state = "Checking" /\ ~ac /\ ~BatteryCritical
          /\ Arm(FALSE) /\ UNCHANGED <<mode, interrupted>>
       \/ state = "Checking" /\ (ac \/ BatteryCritical) /\ CheckPower
       \/ /\ state \notin {"Armed", "Checking"}
          /\ Become(state, interrupted, <<>>) /\ UNCHANGED <<mode, interrupted>>

OnTimer(t) ==
    \/ t = SleepRetry /\ pendingSleep /\ RequestSleep(FALSE)
    \/ t = SleepRetry /\ ~pendingSleep /\ Answer(<<>>)
    \/ t.timer = "InhibitExpiry" /\ OnInhibitExpiry(t.id)
    \/ /\ t = Grace /\ state = "Grace"
       /\ Arm(TRUE)
       /\ UNCHANGED <<config, mode, powerVars, blockVars, sleepVars,
                      hibernateAvailable, cycleVars>>
    \/ t = Grace /\ state # "Grace" /\ Answer(<<>>)
    \/ t = AwakeWindow /\ OnAwakeWindow

\* Called by the main loop when it has executed ScheduleWake.
OnWakeScheduled(armed, out) ==
    \/ state # "Armed" /\ Answer(out)
    \/ /\ state = "Armed"
       /\ UNCHANGED <<config, powerVars, blockVars, sleepVars, hibernateAvailable>>
       /\ \/ (~armed \/ (~ac /\ Blocked)) /\ CycleFailure(out, <<>>)
          \/ armed /\ ac /\ PowerIsBack(out) /\ UNCHANGED sleepFailures
          \/ /\ armed /\ ~ac /\ ~Blocked
             /\ Become(state, interrupted, out \o <<Suspend("Configured", FALSE)>>)
             /\ UNCHANGED <<mode, cycleVars>>

OnAcChanged(a) ==
    \/ a = ac /\ Answer(<<>>)
    \/ LET told == <<BroadcastPower(a)>>
           m == SelectAuto(config, mode, a, low)
       IN
       /\ a # ac
       /\ ac' = a
       /\ UNCHANGED <<config, battery, low, blockVars, suspendFrom,
                      hibernateAvailable>>
       /\ \/ /\ state = "Grace" /\ a
             /\ mode' = m
             /\ Become("Active", interrupted,
                       told \o <<CancelTimer(Grace)>> \o Reapplied(mode, m, "Active"))
             /\ UNCHANGED <<pendingSleep, cycleVars>>
          \/ /\ state = "Checking" /\ a
             /\ PowerIsBack(told \o <<CancelTimer(AwakeWindow)>>)
             /\ UNCHANGED <<pendingSleep, sleepFailures>>
          \/ /\ ~a /\ state \in Awake
             /\ config.serverEnabled /\ config.trigger = "AcLost"
             /\ EnterGrace(m, told \o Reapplied(mode, m, state), <<>>)
          \/ /\ ~(a /\ state \in {"Grace", "Checking"})
             /\ ~(/\ ~a /\ state \in Awake
                  /\ config.serverEnabled /\ config.trigger = "AcLost")
             /\ mode' = m
             /\ Become(state, interrupted, told \o Reapplied(mode, m, state))
             /\ UNCHANGED <<pendingSleep, cycleVars>>

OnBattery(percent) ==
    LET m == SelectAuto(config, mode, ac, low') IN
    /\ battery' = percent
    /\ low' = ComputeLow(config, percent, low)
    /\ mode' = IF low' = low THEN mode ELSE m
    /\ Become(state, interrupted, Reapplied(mode, mode', state))
    /\ UNCHANGED <<config, ac, blockVars, sleepVars, hibernateAvailable, cycleVars>>

-----------------------------------------------------------------------------
(* IPC requests.  Subscribe and Agent stop at the IPC server.              *)

\* on_set_mode; kind = "Auto" is the name "auto".
OnSetMode(c, kind, name) ==
    LET m == IF kind = "Auto"
             THEN [kind |-> "Auto", name |-> AutoModeName(config, mode, ac, low)]
             ELSE [kind |-> "Manual", name |-> name]
    IN  \/ kind = "Manual" /\ name \notin config.modes /\ Answer(<<Reply(c, FALSE)>>)
        \/ /\ kind = "Auto" \/ name \in config.modes
           /\ mode' = m
           /\ Become(state, interrupted,
                     ModeChanged(config, m, state) \o <<Reply(c, TRUE)>>)
           /\ UNCHANGED <<config, powerVars, blockVars, sleepVars,
                          hibernateAvailable, cycleVars>>

OnDim(c) ==
    \/ state = "Active" /\ StepAside("Dimmed", <<Do("Dim"), Reply(c, TRUE)>>)
    \/ state # "Active" /\ Answer(<<Reply(c, TRUE)>>)

OnScreen(c, on) ==
    \/ on /\ OnActivity(<<>>, <<Reply(c, TRUE)>>)
    \/ /\ ~on /\ state \in {"Active", "Dimmed"}
       /\ StepAside("ScreenOff", <<Screen(FALSE), Reply(c, TRUE)>>)
    \/ ~on /\ state \notin {"Active", "Dimmed"} /\ Answer(<<Reply(c, TRUE)>>)

\* Mutant: `amperedctl sleep` works in the cycle too.
SleepRefusedByBlockers(force) == ~force /\ Blocked

SleepRefused(force) == InCycle \/ (~force /\ Blocked)

OnSleep(c, force) ==
    \/ SleepRefused(force) /\ Answer(<<Reply(c, FALSE)>>)
    \/ /\ ~SleepRefused(force)
       /\ GoToSleep(force, <<Reply(c, TRUE)>>, <<>>)
       /\ UNCHANGED <<config, mode, powerVars, blockVars, hibernateAvailable,
                      cycleVars>>

OnLongSleep(c, cancel) ==
    LET cancelTimer == IF state = "Grace" THEN <<CancelTimer(Grace)>>
                       ELSE IF state = "LongSleeping" THEN <<>>
                       ELSE <<CancelTimer(AwakeWindow)>>
        starts == config.serverEnabled /\ state \in Awake
    IN
    \/ (IF cancel THEN ~InCycle ELSE ~starts) /\ Answer(<<Reply(c, FALSE)>>)
    \/ /\ cancel /\ InCycle                                   \* cancel_cycle
       /\ LeaveCycle(ac, FALSE, cancelTimer, <<Reply(c, TRUE)>>)
       /\ UNCHANGED <<config, powerVars, blockVars, sleepVars,
                      hibernateAvailable, sleepFailures>>
    \/ /\ ~cancel /\ starts
       /\ EnterGrace(mode, <<>>, <<Reply(c, TRUE)>>)
       /\ UNCHANGED <<config, powerVars, blockVars, suspendFrom,
                      hibernateAvailable>>

OnInhibit(c, what, ttlZero) ==
    \/ ttlZero /\ Answer(<<Reply(c, FALSE)>>)
    \/ /\ ~ttlZero /\ nextInhibitId <= MaxInhibits
       /\ inhibits' = inhibits \cup {[id |-> nextInhibitId, what |-> what]}
       /\ nextInhibitId' = nextInhibitId + 1
       /\ Become(state, interrupted,
                 <<StartTimer(InhibitExpiry(nextInhibitId)), Reply(c, TRUE)>>)
       /\ UNCHANGED <<config, mode, powerVars, external, sleepVars,
                      hibernateAvailable, cycleVars>>

OnUninhibit(c, n) ==
    \/ (\A i \in inhibits : i.id # n) /\ Answer(<<Reply(c, FALSE)>>)
    \/ /\ \E i \in inhibits : i.id = n
       /\ inhibits' = {i \in inhibits : i.id # n}
       /\ Become(state, interrupted,
                 <<CancelTimer(InhibitExpiry(n)), Reply(c, TRUE)>>)
       /\ UNCHANGED <<config, mode, powerVars, nextInhibitId, external, sleepVars,
                      hibernateAvailable, cycleVars>>

OnIpc(c, r) ==
    \/ r.req = "Status" /\ Answer(<<Reply(c, TRUE)>>)         \* and Modes
    \/ r.req = "AutoMode" /\ OnSetMode(c, "Auto", NONE)
    \/ r.req = "Mode" /\ OnSetMode(c, "Manual", r.name)
    \/ r.req = "Dim" /\ OnDim(c)
    \/ r.req = "Undim" /\ OnActivity(<<>>, <<Reply(c, TRUE)>>)
    \/ r.req = "Screen" /\ OnScreen(c, r.on)
    \/ r.req = "Sleep" /\ OnSleep(c, r.force)
    \/ r.req = "LongSleep" /\ OnLongSleep(c, r.cancel)
    \/ r.req = "Inhibit" /\ OnInhibit(c, r.what, r.ttlZero)
    \/ r.req = "Uninhibit" /\ OnUninhibit(c, r.id)
    \/ r.req = "Reload" /\ Answer(<<Reload(c)>>)

-----------------------------------------------------------------------------
(* `handle`, `set_config` and startup.                                     *)

OnInhibitors(blocked) ==
    /\ external' = blocked
    /\ Become(state, interrupted, <<>>)
    /\ UNCHANGED <<config, mode, powerVars, inhibits, nextInhibitId, sleepVars,
                   hibernateAvailable, cycleVars>>

\* Mutant: the alarm stays armed.
OnShutdownKeepingAlarm ==
    StepAside("Active", <<Do("Undim"), Screen(TRUE), Do("Shutdown")>>)

OnShutdown ==
    StepAside("Active", (IF InCycle THEN <<Do("CancelWake")>> ELSE <<>>)
                        \o <<Do("Undim"), Screen(TRUE), Do("Shutdown")>>)

\* IdleBackendChanged only feeds `status`.
Handle(e) ==
    \/ e.event = "Idle" /\ OnIdle(e.stage)
    \/ e.event = "Activity" /\ OnActivity(<<>>, <<>>)
    \/ e.event = "AcChanged" /\ OnAcChanged(e.ac)
    \/ e.event = "Battery" /\ OnBattery(e.percent)
    \/ e.event = "Suspending" /\ OnSuspending
    \/ e.event = "Resumed" /\ OnResumed(e.byUser)
    \/ e.event = "Timer" /\ OnTimer(e.id)
    \/ e.event = "Ipc" /\ OnIpc(e.client, e.request)
    \/ e.event = "Inhibitors" /\ OnInhibitors(e.blocked)
    \/ e.event = "SleepBlocked" /\ OnSleepBlocked(e.blocked)
    \/ e.event = "SleepFailed" /\ OnSleepFailed(<<>>)
    \/ e.event = "ReloadRequested" /\ Answer(<<Reload(NONE)>>)
    \/ e.event = "ShutdownRequested" /\ OnShutdown

\* Executed for the command Reload(client), if the file is valid.
SetConfig(c, client, out) ==
    LET l == ComputeLow(c, battery, low)
        m == SelectAuto(c, mode, ac, l)
    IN  /\ config' = c /\ low' = l /\ mode' = m
        /\ Become(state, interrupted,
                  out \o ModeCommands(c, m, state)
                      \o IF client = NONE THEN <<>> ELSE <<Reply(client, TRUE)>>)
        /\ UNCHANGED <<ac, battery, blockVars, sleepVars, hibernateAvailable,
                       cycleVars>>

\* Engine::new, restore_manual_mode, start and resume_cycle: the mode and the
\* first commands, given the saved manual mode and whether a cycle goes on.
BootMode(c, a, l, saved) ==
    IF saved \in c.modes THEN [kind |-> "Manual", name |-> saved]
    ELSE LET unset == [kind |-> "Auto", name |-> NONE]
         IN  [unset EXCEPT !.name = AutoModeName(c, unset, a, l)]

BootState(inCycle) == IF inCycle THEN "Checking" ELSE "Active"

BootCommands(c, m, inCycle) ==
    ModeCommands(c, m, "Active")
    \o IF inCycle THEN <<ReplaceIdleStages(NONE), StartTimer(AwakeWindow)>> ELSE <<>>

Init ==
    /\ config \in Configs
    /\ ac \in BOOLEAN
    /\ battery \in Batteries \cup {NONE}
    /\ low = ComputeLow(config, battery, FALSE)
    /\ inhibits = {} /\ nextInhibitId = 1
    /\ external = FALSE
    /\ pendingSleep = FALSE /\ suspendFrom = "Active"
    /\ hibernateAvailable \in BOOLEAN
    /\ sleepFailures = 0 /\ interrupted = FALSE
    /\ \E saved \in config.modes \cup {NONE} : mode = BootMode(config, ac, low, saved)
    /\ \E inCycle \in {config.serverEnabled /\ ~ac, FALSE} :
          /\ state = BootState(inCycle)
          /\ queue = BootCommands(config, mode, inCycle)

Returned(op) == \E i \in 1..Len(queue) : queue[i].op = op

\* The main loop executes every command before it takes the next event: the
\* answer to ScheduleWake comes first, and nothing comes after Shutdown.
Steps(configs, arrivals) ==
    /\ ~Returned("Shutdown")
    /\ \/ /\ Returned("ScheduleWake")
          /\ \E armed \in BOOLEAN : OnWakeScheduled(armed, <<>>)
       \/ \E i \in 1..Len(queue), c \in configs :
             queue[i].op = "Reload" /\ SetConfig(c, queue[i].replyTo, <<>>)
       \/ /\ ~Returned("ScheduleWake")
          /\ \E e \in arrivals : Handle(e)

Next == Steps(Configs, Events)

Spec == Init /\ [][Next]_vars

-----------------------------------------------------------------------------
(* Properties.                                                             *)

TypeOK ==
    /\ config \in Configs
    /\ state \in States
    /\ mode \in [kind : {"Auto", "Manual"}, name : Modes \cup {NONE}]
    /\ ac \in BOOLEAN
    /\ battery \in Batteries \cup {NONE}
    /\ low \in BOOLEAN
    /\ inhibits \subseteq [id : 1..MaxInhibits, what : {"Idle", "Sleep"}]
    /\ nextInhibitId \in 1..MaxInhibits + 1
    /\ external \in BOOLEAN
    /\ pendingSleep \in BOOLEAN
    /\ suspendFrom \in States
    /\ hibernateAvailable \in BOOLEAN
    /\ sleepFailures \in 0..MaxSleepFailures
    /\ interrupted \in BOOLEAN
    /\ queue \in Seq(Command)

\* A retry of a refused idle sleep is never pending inside the server cycle,
\* where it would send a plain Suspend with no alarm armed (enter_grace), nor
\* can a refused suspend send the engine back into the cycle.
NoRetryInCycle ==
    /\ pendingSleep => ~InCycle
    /\ suspendFrom \notin Phases

\* Inside the cycle the engine has never counted the attempts it gives up at:
\* whoever counts the last one leaves, whoever enters starts from zero.
GivesUpInTime == InCycle => sleepFailures < MaxSleepFailures

\* Whatever events arrive, and through every reload, an automatic mode is the
\* one [auto_mode] assigns to the power the engine knows of.
ModeFollowsPower ==
    mode.kind = "Auto" /\ config.autoEnabled =>
        mode.name = IF ac THEN config.onAc
                    ELSE IF low THEN config.onLowBattery ELSE config.onBattery

\* The low-battery bit never contradicts the percentage and the thresholds in
\* force, also just after a reload has moved them.
LowFollowsBattery ==
    battery # NONE =>
        /\ battery <= config.lowPercent => low
        /\ battery > config.lowPercent
             /\ (battery >= config.lowPercent + 5 \/ battery = 100) => ~low

Emitted(c) == \E i \in 1..Len(queue) : queue[i] = c

\* In the cycle a Suspend of the configured method follows the answer that the
\* alarm is armed, with the power still away (on_wake_scheduled): no retry or
\* window left over from before, and no `amperedctl sleep`, can send one.
CycleSuspendsOnlyArmed ==
    [][InCycle /\ (\E f \in BOOLEAN : Emitted(Suspend("Configured", f))') =>
          /\ Returned("ScheduleWake")
          /\ state = "Armed" /\ state' = "Armed" /\ ~ac']_vars

\* No Suspend without force is sent past an inhibitor the engine knows of, be
\* it of logind or taken over IPC: not by a retry, nor in the cycle.
RespectsInhibitors ==
    [][Emitted(Suspend("Configured", FALSE))' => ~Blocked']_vars

\* A critical action (forced hibernate or poweroff) is only ever taken from
\* Checking, without AC, with the battery at or below its threshold, and with
\* the window running that will look again if it does not happen.
CriticalActionIsWarranted ==
    [][(Emitted(Suspend("Hibernate", TRUE)) \/ Emitted(Do("PowerOff")))' =>
          /\ (state = "Checking" /\ ~ac /\ BatteryCritical)'
          /\ Emitted(StartTimer(AwakeWindow))'
          /\ Emitted(Do("PowerOff"))' \/ hibernateAvailable]_vars

\* Past Grace no command gives the compositor stages again: not a mode switch,
\* a reload, nor a battery that crosses its threshold (mode_commands).
NoStagesPastGrace ==
    [][state' \in Phases \ {"Grace"} =>
          \A m \in Modes : ~Emitted(ReplaceIdleStages(m))']_vars

\* Leaving the cycle from a phase past Grace turns the screen on, undims, and
\* clears the alarm, whichever of the exits is taken.
ExitsCycleLit ==
    [][InCycle /\ state # "Grace" /\ ~InCycle' =>
          (/\ Emitted(Do("CancelWake"))
           /\ Emitted(Do("Undim"))
           /\ Emitted(Screen(TRUE)))']_vars

\* Whatever else the engine does, it keeps to the cycle: Armed is reached with
\* power only out of Grace, the long sleep never leads to another attempt without
\* a look at the power, power ends Grace and Checking at once.
Abstract == INSTANCE Cycle WITH phase <- IF InCycle THEN state ELSE "Out"
ImplementsCycle == Abstract!Spec

=============================================================================
