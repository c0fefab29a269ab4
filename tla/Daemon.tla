------------------------------- MODULE Daemon -------------------------------
(***************************************************************************)
(* The daemon around the engine: the main loop of src/main.rs, which        *)
(* executes the engine's commands one by one and takes the next event when  *)
(* none is left; the logind tasks of src/logind.rs (executor of sleep       *)
(* requests, PrepareForSleep listener with its delay lock); the RTC alarm   *)
(* and the Planner; what is written to disk; and the machine, which sleeps, *)
(* wakes, and may lose the daemon and start it again.                       *)
(*                                                                         *)
(* The tasks run in parallel and meet in two bounded channels: `events`     *)
(* (senders wait when it is full) and `requests` (try_send: a request that  *)
(* does not fit is dropped).  Timers are those of TimerService, as the set  *)
(* of those that run: any of them may be due.                               *)
(*                                                                         *)
(* Not here: the agent and the compositor (the stages and the screen are    *)
(* what the daemon last asked for), brightness (dimmed or not), the content *)
(* of power modes, the wording of replies, a listener that cannot subscribe *)
(* to PrepareForSleep or cannot read a signal, and time: the alarm does not *)
(* go off while the machine is awake (a check_interval is 2 minutes or      *)
(* more).                                                                   *)
(***************************************************************************)
EXTENDS Engine

CONSTANTS
    EventCap,       \* bound: capacity of `events` (64 in the code)
    RequestCap,     \* bound: capacity of `requests` (4 in the code)
    SignalCap,      \* bound: PrepareForSleep signals waiting when a sleep starts
    MaxRestarts,    \* bound: times the daemon is started again
    HasLogind,      \* did logind::connect succeed
    RtcOutcomes,    \* what RtcAlarm::set can do: "armed", or fail having left
                    \* the old alarm ("kept") or cleared it ("cleared")
    Outside,        \* the configurations beside which something else may
                    \* suspend the machine (lid, systemctl)
    Faulty,         \* the configurations beside which a file may not be written,
                    \* the alarm not cleared, the delay lock not given: the
                    \* daemon logs it and goes on
    Prompt          \* a sleep that is asked for or announced goes ahead, and the
                    \* engine hears of it and of its end (milliseconds), before
                    \* any timer (30 seconds) fires

ASSUME DaemonAssumption ==
    /\ EventCap \in Nat \ {0} /\ RequestCap \in Nat \ {0}
    /\ SignalCap \in Nat /\ MaxRestarts \in Nat
    /\ HasLogind \in BOOLEAN /\ Prompt \in BOOLEAN
    /\ Outside \subseteq Configs /\ Faulty \subseteq Configs
    /\ RtcOutcomes \subseteq {"armed", "kept", "cleared"} /\ RtcOutcomes # {}
    \* Only the logind tasks and Timers send these: see Reports and TakeTimer.
    /\ \A e \in Events :
          e.event \notin {"Suspending", "Resumed", "SleepBlocked", "SleepFailed", "Timer"}

VARIABLES
    alive,          \* does the daemon run
    restarts,
    events, requests, timers,
    machine,        \* up, preparing (PrepareForSleep(true) is out), asleep
    lock,           \* does the listener hold its delay lock
    signals,        \* PrepareForSleep signals it has not handled
    written,        \* it has saved the state for the signal it is handling
    alarm,          \* is the hardware alarm armed
    planner,        \* Planner.scheduled: none, ahead, or passed
    saved,          \* SharedState: was the engine in the cycle, with an alarm
    disk,           \* the same in state.json, when it was last written
    modeFile,       \* the manual mode in its file
    screen, dimmed, \* the panel, as last commanded
    stages,         \* the idle stages the compositor has
    applied,        \* the mode last applied to sysfs
    told            \* the state subscribers were last told

mainVars == <<alive, restarts>>
machineVars == <<machine, lock, signals, written>>
wakeVars == <<alarm, planner>>
diskVars == <<saved, disk, modeFile>>
panelVars == <<screen, dimmed, stages, applied, told>>
daemonVars == <<vars, mainVars, events, requests, timers, machineVars, wakeVars,
                diskVars, panelVars>>

Running == alive /\ machine # "asleep"

\* What something may be after an attempt under configuration c that is meant to
\* make it `done`; a failed one leaves it as in `failed`.
Attempt(c, done, failed) == {done} \cup IF c \in Faulty THEN failed ELSE {}

\* Mutant: only the long sleep itself is remembered.
RemembersAsleep == saved' = [cycle |-> state' = "LongSleeping", wake |-> planner' # "none"]

\* remember, after an event and after ScheduleWake.
Remembers == saved' = [cycle |-> state' \in Phases, wake |-> planner' # "none"]

-----------------------------------------------------------------------------
(* The main loop executes a command.                                       *)

Executing(ops) == Running /\ queue # <<>> /\ Head(queue).op \in ops
Now == Head(queue)
Rest == Tail(queue)
Done == queue' = Rest /\ UNCHANGED engineVars

\* Timers::start, Timers::cancel.
RunTimer ==
    /\ Executing({"StartTimer", "CancelTimer"})
    /\ timers' = IF Now.op = "StartTimer" THEN timers \cup {Now.id}
                 ELSE timers \ {Now.id}
    /\ Done
    /\ UNCHANGED <<mainVars, events, requests, machineVars, wakeVars, diskVars,
                   panelVars>>

\* The panel, the stages, the mode: a mode that is not configured is logged.
RunPanel ==
    /\ Executing({"Dim", "Undim", "Screen", "ReplaceIdleStages", "ApplyMode"})
    /\ dimmed' = IF Now.op \in {"Dim", "Undim"} THEN Now.op = "Dim" ELSE dimmed
    /\ screen' = IF Now.op = "Screen" THEN Now.on ELSE screen
    /\ stages' = IF Now.op = "ReplaceIdleStages" THEN Now.stages ELSE stages
    /\ applied' = IF Now.op = "ApplyMode" /\ Now.mode \in config.modes
                  THEN Now.mode ELSE applied
    /\ Done
    /\ UNCHANGED <<mainVars, events, requests, timers, machineVars, wakeVars,
                   diskVars, told>>

\* Mutant: the file keeps every mode.
RunBroadcastKeepingAuto ==
    /\ Executing({"Broadcast"})
    /\ told' = IF "to" \in DOMAIN Now THEN Now.to ELSE told
    /\ modeFile' \in IF "mode" \in DOMAIN Now
                     THEN Attempt(config, Now.mode, {modeFile, NONE})
                     ELSE {modeFile}
    /\ Done
    /\ UNCHANGED <<mainVars, events, requests, timers, machineVars, wakeVars,
                   saved, disk, screen, dimmed, stages, applied>>

\* Broadcasts; the mode file is written, or removed, with the broadcast of a
\* mode (save_manual_mode).  A write that fails may have emptied it.
RunBroadcast ==
    /\ Executing({"Broadcast"})
    /\ told' = IF "to" \in DOMAIN Now THEN Now.to ELSE told
    /\ modeFile' \in IF "mode" \in DOMAIN Now
                     THEN Attempt(config, IF mode.kind = "Manual" THEN Now.mode ELSE NONE,
                                  {modeFile, NONE})
                     ELSE {modeFile}
    /\ Done
    /\ UNCHANGED <<mainVars, events, requests, timers, machineVars, wakeVars,
                   saved, disk, screen, dimmed, stages, applied>>

\* Replies, and the hook, which runs on its own.
RunOther ==
    /\ Executing({"Reply", "RunHook"})
    /\ Done
    /\ UNCHANGED <<mainVars, events, requests, timers, machineVars, wakeVars,
                   diskVars, panelVars>>

Sleep(command) == [request |-> "Sleep", force |-> command.force,
                   respect |-> config.respectInhibitors]
PowerOff == [request |-> "PowerOff"]
Fits == HasLogind /\ Len(requests) < RequestCap

RunSuspend ==
    /\ Executing({"Suspend"})
    /\ \/ Fits /\ requests' = Append(requests, Sleep(Now)) /\ Done
       \/ ~Fits /\ OnSleepFailed(Rest) /\ UNCHANGED requests
    /\ UNCHANGED <<mainVars, events, timers, machineVars, wakeVars, diskVars,
                   panelVars>>

RunPowerOff ==
    /\ Executing({"PowerOff"})
    /\ requests' = IF Fits THEN Append(requests, PowerOff) ELSE requests
    /\ Done
    /\ UNCHANGED <<mainVars, events, timers, machineVars, wakeVars, diskVars,
                   panelVars>>

\* The RTC is there only when the configuration has the server cycle.
SetOutcomes == IF config.serverEnabled THEN RtcOutcomes ELSE {"kept"}

SetsAlarm(outcome) ==
    /\ alarm' = (outcome = "armed" \/ (outcome = "kept" /\ alarm))
    /\ planner' = IF outcome = "armed" THEN "ahead" ELSE "none"

\* Mutant: the engine is told that the alarm is armed whatever happened.
RunScheduleWakeBlindly ==
    /\ Executing({"ScheduleWake"})
    /\ \E outcome \in SetOutcomes : SetsAlarm(outcome) /\ OnWakeScheduled(TRUE, Rest)
    /\ Remembers
    /\ UNCHANGED <<mainVars, events, requests, timers, machineVars, disk,
                   modeFile, panelVars>>

\* Mutant: the state is not remembered again before the suspend.
RunScheduleWakeForgetting ==
    /\ Executing({"ScheduleWake"})
    /\ \E outcome \in SetOutcomes :
          SetsAlarm(outcome) /\ OnWakeScheduled(outcome = "armed", Rest)
    /\ UNCHANGED <<mainVars, events, requests, timers, machineVars, diskVars,
                   panelVars>>

\* Mutant: the commands of the answer replace those that are left.
RunScheduleWakeDropping ==
    /\ Executing({"ScheduleWake"})
    /\ \E outcome \in SetOutcomes :
          SetsAlarm(outcome) /\ OnWakeScheduled(outcome = "armed", <<>>)
    /\ Remembers
    /\ UNCHANGED <<mainVars, events, requests, timers, machineVars, disk,
                   modeFile, panelVars>>

RunScheduleWake ==
    /\ Executing({"ScheduleWake"})
    /\ \E outcome \in SetOutcomes :
          SetsAlarm(outcome) /\ OnWakeScheduled(outcome = "armed", Rest)
    /\ Remembers
    /\ UNCHANGED <<mainVars, events, requests, timers, machineVars, disk,
                   modeFile, panelVars>>

\* Mutant: only the Planner forgets the alarm.
RunCancelWakeInMemory ==
    /\ Executing({"CancelWake"})
    /\ planner' = "none"
    /\ Done
    /\ UNCHANGED <<mainVars, events, requests, timers, machineVars, alarm,
                   diskVars, panelVars>>

RunCancelWake ==
    /\ Executing({"CancelWake"})
    /\ planner' = "none"
    /\ alarm' \in Attempt(config, alarm /\ ~config.serverEnabled, {alarm})
    /\ Done
    /\ UNCHANGED <<mainVars, events, requests, timers, machineVars, diskVars,
                   panelVars>>

\* Daemon::reload: an invalid file changes nothing.  The RTC of the new
\* configuration replaces the old one (SetOutcomes reads `config`).
RunReload ==
    /\ Executing({"Reload"})
    /\ \/ \E c \in Configs : SetConfig(c, Now.replyTo, Rest)
       \/ Done
    /\ UNCHANGED <<mainVars, events, requests, timers, machineVars, wakeVars,
                   diskVars, panelVars>>

\* The process ends; its tasks and channels end with it.
Ends ==
    /\ alive' = FALSE
    /\ queue' = <<>> /\ events' = <<>> /\ requests' = <<>> /\ timers' = {}
    /\ signals' = <<>> /\ written' = FALSE /\ lock' = FALSE
    /\ UNCHANGED <<engineVars, restarts, machine, wakeVars, diskVars, panelVars>>

RunShutdown == Executing({"Shutdown"}) /\ Ends

Execute ==
    \/ RunTimer \/ RunPanel \/ RunBroadcast \/ RunOther
    \/ RunSuspend \/ RunPowerOff
    \/ RunScheduleWake \/ RunCancelWake
    \/ RunReload \/ RunShutdown

-----------------------------------------------------------------------------
(* The main loop takes an event.                                           *)

Takes == Running /\ queue = <<>>

\* Planner::classify: a wake is the alarm's if it comes within the slack of
\* the time planned, which a user's may do by chance.
ByUser == IF planner = "none" THEN {TRUE}
          ELSE IF planner = "passed" THEN {FALSE} ELSE BOOLEAN

\* A resume is classified in the cycle only, before the engine sees it.
TakeResumed ==
    /\ Head(events).event = "Resumed"
    /\ \/ /\ state = "LongSleeping"
          /\ \E byUser \in ByUser : OnResumed(byUser)
          /\ planner' = "none"
       \/ state # "LongSleeping" /\ OnResumed(FALSE) /\ UNCHANGED planner
    /\ UNCHANGED alarm

TakeEvent ==
    /\ Takes /\ events # <<>>
    /\ \/ TakeResumed
       \/ Head(events).event # "Resumed" /\ Handle(Head(events)) /\ UNCHANGED wakeVars
    /\ events' = Tail(events)
    /\ Remembers
    /\ UNCHANGED <<mainVars, requests, timers, machineVars, disk, modeFile, panelVars>>

TakeTimer(t) ==
    /\ Takes /\ t \in timers
    /\ Prompt => /\ requests = <<>> /\ signals = <<>> /\ machine = "up"
                 /\ \A i \in 1..Len(events) :
                       events[i].event \notin {"Suspending", "Resumed"}
    /\ OnTimer(t)
    /\ timers' = timers \ {t}
    /\ UNCHANGED wakeVars
    /\ Remembers
    /\ UNCHANGED <<mainVars, events, requests, machineVars, disk, modeFile, panelVars>>

-----------------------------------------------------------------------------
(* Events from outside: the agent, the supply, IPC, signals, the poll of    *)
(* inhibitors.  The supply reports changes only, and stages that the        *)
(* compositor does not have cannot be reached.                              *)

AcReports == SelectSeq(events, LAMBDA e : e.event = "AcChanged")
Reported == IF AcReports = <<>> THEN ac ELSE AcReports[Len(AcReports)].ac

Arrives(e) ==
    /\ Running /\ Len(events) < EventCap
    /\ e.event = "AcChanged" => e.ac # Reported
    /\ e.event = "Idle" => stages # NONE
    /\ events' = Append(events, e)
    /\ UNCHANGED <<vars, mainVars, requests, timers, machineVars, wakeVars,
                   diskVars, panelVars>>

-----------------------------------------------------------------------------
(* logind: the executor of requests, the machine, the listener.            *)

\* logind accepts a request to sleep: every listener gets the signal.
Prepares ==
    /\ machine = "up" /\ Len(signals) <= SignalCap
    /\ machine' = "preparing"
    /\ signals' = IF alive THEN Append(signals, TRUE) ELSE signals
    /\ UNCHANGED <<lock, written>>

Sends(e) ==
    /\ Len(events) < EventCap
    /\ events' = Append(events, e)

\* Mutant: a refusal is only logged.
RefusesSilently(r) == r.request = "Sleep" /\ UNCHANGED events

Refuses(r) == r.request = "Sleep" /\ Sends([event |-> "SleepFailed"])

\* One turn of `executor`.  Inhibitors are listed afresh; logind may refuse,
\* and does while it is busy with another sleep.  Powering off ends in
\* systemd stopping the daemon; a refusal is only logged.
ExecuteRequest ==
    /\ Running /\ requests # <<>>
    /\ requests' = Tail(requests)
    /\ UNCHANGED <<vars, mainVars, timers, wakeVars, diskVars, panelVars>>
    /\ LET r == Head(requests) IN
       \/ /\ r.request = "Sleep" /\ ~r.force /\ r.respect
          /\ Sends([event |-> "SleepBlocked", blocked |-> TRUE])
          /\ UNCHANGED machineVars
       \/ r.request = "Sleep" /\ Prepares /\ UNCHANGED events
       \/ Refuses(r) /\ UNCHANGED machineVars
       \/ /\ r.request = "PowerOff"
          /\ Sends([event |-> "ShutdownRequested"]) \/ UNCHANGED events
          /\ UNCHANGED machineVars

OutsideSuspend ==
    /\ config \in Outside /\ Prepares
    /\ UNCHANGED <<vars, mainVars, events, requests, timers, wakeVars, diskVars,
                   panelVars>>

\* The machine sleeps once the delay lock is released.
FallAsleep ==
    /\ machine = "preparing" /\ ~lock
    /\ machine' = "asleep"
    /\ UNCHANGED <<vars, mainVars, events, requests, timers, lock, signals, written,
                   wakeVars, diskVars, panelVars>>

Wakes ==
    /\ machine = "asleep"
    /\ machine' = "up"
    /\ signals' = IF alive THEN Append(signals, FALSE) ELSE signals
    /\ UNCHANGED <<vars, mainVars, events, requests, timers, lock, written, diskVars,
                   panelVars>>

\* The alarm goes off; the kernel clears it.
AlarmWakes ==
    /\ alarm /\ Wakes
    /\ alarm' = FALSE
    /\ planner' = IF planner = "ahead" THEN "passed" ELSE planner

UserWakes == Wakes /\ UNCHANGED wakeVars

\* sleep_listener, PrepareForSleep(true): the state is saved, then the event
\* sent (which may have to wait), then the lock released.  A file that cannot be
\* written stays, or can no longer be read, and then stands for no cycle.
SaveState ==
    /\ Running /\ signals # <<>> /\ Head(signals) /\ ~written
    /\ disk' \in Attempt(config, saved, {disk, [cycle |-> FALSE, wake |-> FALSE]})
    /\ written' = TRUE
    /\ UNCHANGED <<vars, mainVars, events, requests, timers, machine, lock, signals,
                   wakeVars, saved, modeFile, panelVars>>

ReportSleep ==
    /\ Running /\ signals # <<>> /\ Head(signals) /\ written
    /\ Sends([event |-> "Suspending"])
    /\ signals' = Tail(signals) /\ written' = FALSE /\ lock' = FALSE
    /\ UNCHANGED <<vars, mainVars, requests, timers, machine, wakeVars, diskVars,
                   panelVars>>

\* PrepareForSleep(false): take_delay_lock, which logind refuses once it is
\* preparing.
ReportWake ==
    /\ Running /\ signals # <<>> /\ ~Head(signals)
    /\ Sends([event |-> "Resumed"])
    /\ signals' = Tail(signals) /\ lock' \in Attempt(config, machine = "up", {FALSE})
    /\ UNCHANGED <<vars, mainVars, requests, timers, machine, written, wakeVars,
                   diskVars, panelVars>>

-----------------------------------------------------------------------------
(* The daemon dies, and systemd starts it again.                           *)

Crash == Running /\ restarts < MaxRestarts /\ Ends

\* `run` up to the loop, with power a: the alarm and the panel are as they
\* were left; the compositor gets its stages again from BootCommands.
Restart ==
    /\ ~alive /\ machine # "asleep" /\ restarts < MaxRestarts
    /\ restarts' = restarts + 1
    /\ alive' = TRUE
    /\ \E c \in Configs, a \in BOOLEAN, b \in Batteries :
          LET goesOn == c.serverEnabled /\ ~a /\ disk.cycle
              l == ComputeLow(c, b, FALSE)
              m == BootMode(c, a, l, modeFile)
          IN  /\ config' = c /\ ac' = a /\ battery' = b /\ low' = l /\ mode' = m
              /\ state' = BootState(goesOn) /\ told' = BootState(goesOn)
              /\ saved' = [cycle |-> goesOn, wake |-> FALSE]
              /\ modeFile' \in IF modeFile \in c.modes THEN {modeFile}
                               ELSE Attempt(c, NONE, {modeFile})
              /\ queue' = BootCommands(c, m, goesOn)
              /\ lock' \in Attempt(c, machine = "up", {FALSE})
    /\ inhibits' = {} /\ nextInhibitId' = 1 /\ external' = FALSE
    /\ pendingSleep' = FALSE /\ suspendFrom' = "Active"
    /\ sleepFailures' = 0 /\ interrupted' = FALSE
    /\ planner' = "none"
    /\ UNCHANGED <<hibernateAvailable, events, requests, timers, machine, signals,
                   written, alarm, disk, screen, dimmed, stages, applied>>

-----------------------------------------------------------------------------

\* The first start: one that goes on with a cycle found it in state.json.
DaemonInit ==
    /\ Init
    /\ alive = TRUE /\ restarts = 0
    /\ events = <<>> /\ requests = <<>> /\ timers = {}
    /\ machine = "up" /\ lock \in Attempt(config, TRUE, {FALSE}) /\ signals = <<>> /\ written = FALSE
    /\ alarm = FALSE /\ planner = "none"
    /\ saved = [cycle |-> InCycle, wake |-> FALSE]
    /\ disk = [cycle |-> InCycle, wake |-> FALSE]
    /\ modeFile \in IF mode.kind = "Manual" THEN {mode.name}
                    ELSE Attempt(config, NONE, Modes \ config.modes)
    /\ screen = TRUE /\ dimmed = FALSE /\ stages = NONE /\ applied = NONE
    /\ told = state

DaemonNext ==
    \/ Execute
    \/ TakeEvent
    \/ \E t \in Timers : TakeTimer(t)
    \/ \E e \in Events : Arrives(e)
    \/ ExecuteRequest
    \/ OutsideSuspend \/ FallAsleep \/ AlarmWakes \/ UserWakes
    \/ SaveState \/ ReportSleep \/ ReportWake
    \/ Crash \/ Restart

DaemonSpec == DaemonInit /\ [][DaemonNext]_daemonVars

\* The runtime runs every task that can go on, select! takes from both its
\* sources, senders that wait are served in order; logind suspends a machine
\* nobody holds up; an armed alarm goes off.  Strong fairness, because the
\* machine sleeps, queues fill and the main loop is busy in between.  The user
\* wakes nothing, and nothing from outside has to arrive.
Fairness ==
    /\ SF_daemonVars(Execute) /\ SF_daemonVars(TakeEvent)
    /\ \A t \in Timers : SF_daemonVars(TakeTimer(t))
    /\ SF_daemonVars(ExecuteRequest)
    /\ SF_daemonVars(SaveState) /\ SF_daemonVars(ReportSleep)
    /\ SF_daemonVars(ReportWake)
    /\ SF_daemonVars(FallAsleep) /\ SF_daemonVars(AlarmWakes)

FairDaemonSpec == DaemonSpec /\ Fairness

-----------------------------------------------------------------------------
(* Properties.                                                             *)

Reports ==
    [event : {"Activity", "Suspending", "Resumed", "SleepFailed"}]
    \cup [event : {"SleepBlocked"}, blocked : BOOLEAN]
    \cup [event : {"ShutdownRequested"}]

Idle == alive /\ queue = <<>>

\* Something is on its way that will move the engine on.
Queued(op) == \E i \in 1..Len(queue) : queue[i].op = op
Coming(names) == \E i \in 1..Len(events) : events[i].event \in names
TimerStarts(t) == t \in timers \/ \E i \in 1..Len(queue) : queue[i] = StartTimer(t)
SleepComes ==
    \/ Queued("Suspend") \/ \E i \in 1..Len(requests) : requests[i].request = "Sleep"
    \/ machine # "up" \/ signals # <<>>
    \/ Coming({"SleepBlocked", "SleepFailed", "Suspending", "Resumed"})

\* No state that waits is ever left with nothing to wait for: Grace and
\* Checking have their timer, Armed the answer to its alarm, the fate of its
\* suspend or the retry window, LongSleeping and Sleeping a resume, and
\* Suspending the fate of the suspend it asked for.
NeverStuck ==
    alive =>
    /\ state = "Grace" => TimerStarts(Grace)
    /\ state = "Checking" => TimerStarts(AwakeWindow)
    /\ state = "Armed" =>
          TimerStarts(AwakeWindow) \/ Queued("ScheduleWake") \/ SleepComes
    /\ state = "Suspending" => SleepComes
    /\ state \in {"LongSleeping", "Sleeping"} =>
          machine # "up" \/ signals # <<>> \/ Coming({"Resumed"})

\* An idle daemon outside the cycle has left no alarm in the RTC that would
\* wake, or power on, the machine (leave_cycle): unless it has died with one, or
\* could not clear it.
NoOrphanAlarm == config \notin Faulty /\ Idle /\ restarts = 0 /\ ~InCycle => ~alarm

\* The sleep of the cycle: out of Armed, as opposed to one that somebody asks
\* for in Grace, which has no alarm.
CycleSleeps ==
    /\ machine = "preparing" /\ machine' = "asleep"
    /\ alive
    /\ state = "Armed" \/ (state = "LongSleeping" /\ planner # "none")

\* Where nobody else suspends the machine, and nothing fails but the alarm, it
\* never goes to sleep in the cycle without its alarm, also when the engine has not heard of the sleep yet; and
\* state.json says by then that this is the cycle and that an alarm is armed,
\* although no event is handled between ScheduleWake and the suspend.
ServerSleepsWithAlarm ==
    [][config \notin Outside \cup Faulty /\ CycleSleeps =>
          alarm /\ disk = [cycle |-> TRUE, wake |-> TRUE]]_daemonVars

\* When the daemon has done what the engine said, an active machine has its
\* screen on and its backlight up.
ActiveIsLit == Idle /\ state = "Active" => screen /\ ~dimmed

\* What subscribers were told last is the state of the engine, whatever was
\* put into the queue on the way.
SubscribersFollow == Idle => told = state

\* What the engine has chosen is carried out: the mode in sysfs is its mode, if
\* it has one; and the mode file holds it if it is a manual one, and nothing
\* else (ADR-15), where it can be written.
ModeIsCarriedOut ==
    Idle => /\ mode.name # NONE => applied = mode.name
            /\ config \notin Faulty =>
                  modeFile = IF mode.kind = "Manual" THEN mode.name ELSE NONE

Restarts == ~alive /\ alive'

\* A daemon that died in the long sleep, with its alarm planned, goes on with
\* the cycle when it is started again without power, if its file was written.
RestartGoesOn ==
    [][Restarts /\ config \notin Faulty /\ state = "LongSleeping" /\ planner # "none"
          /\ config'.serverEnabled /\ ~ac' => InCycle']_daemonVars

\* In the cycle the machine sleeps, and wakes, and looks at the power, again and
\* again until the cycle is left: nobody's attempt is lost for good.
CycleGoesRound ==
    /\ []<>(~InCycle \/ state = "LongSleeping")
    /\ []<>(~InCycle \/ state = "Checking")

=============================================================================
