--------------------------- MODULE DaemonProofs ---------------------------
(***************************************************************************)
(* What EngineProofs shows of the engine in an arbitrary environment holds  *)
(* in the daemon too, where answers reach it in the middle of a queue, and  *)
(* through the death and the restart of the process.                        *)
(*                                                                         *)
(* Then what the daemon carries out, which no handler sees: of each promise *)
(* an invariant says what the last command of its kind in the queue is      *)
(* worth, QueueProofs what a handler adds to a queue, and the main loop     *)
(* moves from the one to the other.                                         *)
(*                                                                         *)
(* Last what is on disk, and what is on its way between the tasks, when the *)
(* machine sleeps and when the daemon starts again.                         *)
(***************************************************************************)
EXTENDS Daemon, QueueProofs

\* The events that wait are typed, and the engine keeps its invariants.
Waiting == events \in Seq(Events \cup Reports)
DaemonInv == CycleInv /\ PowerInv /\ Waiting

-----------------------------------------------------------------------------
(* The queue of events.                                                    *)

LEMMA ReportsTyped == ASSUME NEW e \in Events \cup Reports PROVE Typed(e)
BY EventsTyped DEF Reports, Typed

\* A task can only add a report.
LEMMA WaitingSends ==
  ASSUME NEW e \in Events \cup Reports, Waiting, Sends(e)
  PROVE  Waiting'
BY DEF Waiting, Sends

LEMMA WaitingKept == ASSUME Waiting, UNCHANGED events PROVE Waiting'
BY DEF Waiting

-----------------------------------------------------------------------------
(* Steps that leave the engine alone, and its handlers.                    *)

LEMMA EngineKept ==
  ASSUME CycleInv, PowerInv, UNCHANGED engineVars
  PROVE  CycleInv' /\ PowerInv'
<1>1. Kept /\ Unpowered
  BY DEF engineVars, powerVars, sleepVars, cycleVars, Kept, Unpowered
<1>2. Selects /\ ac' \in BOOLEAN
  BY <1>1, UnpoweredSelects DEF Unpowered, PowerInv
<1> QED
  BY <1>1, <1>2, CycleInvKept, PowerInvSelects

LEMMA EngineDone == ASSUME CycleInv, PowerInv, Done PROVE CycleInv' /\ PowerInv'
BY EngineKept DEF Done

LEMMA EngineVarsKept == ASSUME UNCHANGED vars PROVE UNCHANGED engineVars
BY DEF vars

\* A command, be it one whose execution the engine answers.
LEMMA DaemonInvExecute ==
  ASSUME DaemonInv, Execute
  PROVE  DaemonInv'
<1>0. CycleInv /\ PowerInv /\ Waiting
  BY DEF DaemonInv
<1>1. ASSUME Done, UNCHANGED events PROVE DaemonInv'
  BY <1>0, <1>1, EngineDone, WaitingKept DEF DaemonInv
<1>2. CASE RunTimer
  BY <1>1, <1>2 DEF RunTimer
<1>3. CASE RunPanel
  BY <1>1, <1>3 DEF RunPanel
<1>4. CASE RunBroadcast
  BY <1>1, <1>4 DEF RunBroadcast
<1>5. CASE RunOther
  BY <1>1, <1>5 DEF RunOther
<1>6. CASE RunSuspend
  <2>1. UNCHANGED events
    BY <1>6 DEF RunSuspend
  <2>2. CASE OnSleepFailed(Rest)
    BY <1>0, <2>1, <2>2, CycleInvOnSleepFailed, PowerInvOnSleepFailed, WaitingKept
       DEF DaemonInv
  <2> QED
    BY <1>1, <1>6, <2>1, <2>2 DEF RunSuspend
<1>7. CASE RunPowerOff
  BY <1>1, <1>7 DEF RunPowerOff
<1>8. CASE RunScheduleWake
  <2>1. UNCHANGED events
    BY <1>8 DEF RunScheduleWake
  <2>2. PICK armed : OnWakeScheduled(armed, Rest)
    BY <1>8 DEF RunScheduleWake
  <2> QED
    BY <1>0, <2>1, <2>2, CycleInvOnWakeScheduled, PowerInvOnWakeScheduled,
       WaitingKept DEF DaemonInv
<1>9. CASE RunCancelWake
  BY <1>1, <1>9 DEF RunCancelWake
<1>10. CASE RunReload
  <2>1. UNCHANGED events
    BY <1>10 DEF RunReload
  <2>2. ASSUME NEW c \in Configs, SetConfig(c, Now.replyTo, Rest) PROVE DaemonInv'
    BY <1>0, <2>1, <2>2, CycleInvSetConfig, PowerInvSetConfig, WaitingKept
       DEF DaemonInv
  <2> QED
    BY <1>1, <1>10, <2>1, <2>2 DEF RunReload
<1>11. CASE Ends
  <2>1. events' = <<>> /\ UNCHANGED engineVars
    BY <1>11 DEF Ends
  <2> QED
    BY <1>0, <2>1, EngineKept DEF DaemonInv, Waiting
<1> QED
  BY <1>2, <1>3, <1>4, <1>5, <1>6, <1>7, <1>8, <1>9, <1>10, <1>11
  DEF Execute, RunShutdown

\* The main loop takes an event.
LEMMA DaemonInvTakeEvent ==
  ASSUME DaemonInv, TakeEvent
  PROVE  DaemonInv'
<1>0. CycleInv /\ PowerInv /\ Waiting
  BY DEF DaemonInv
<1>1. events # <<>> /\ events' = Tail(events)
  BY DEF TakeEvent
<1>2. Waiting' /\ Head(events) \in Events \cup Reports
  BY <1>0, <1>1 DEF Waiting
<1>3. ASSUME NEW byUser, OnResumed(byUser) PROVE CycleInv' /\ PowerInv'
  BY <1>0, <1>3, CycleInvOnResumed, PowerInvOnResumed
<1>4. CASE TakeResumed
  BY <1>2, <1>3, <1>4 DEF TakeResumed, DaemonInv
<1>5. CASE Handle(Head(events))
  <2>1. Typed(Head(events))
    BY <1>2, ReportsTyped
  <2> QED
    BY <1>0, <1>2, <1>5, <2>1, CycleInvHandle, PowerInvHandle DEF DaemonInv
<1> QED
  BY <1>4, <1>5 DEF TakeEvent

\* The daemon is started again, with whatever power there is then.
LEMMA DaemonInvRestart ==
  ASSUME DaemonInv, Restart
  PROVE  DaemonInv'
<1>1. PICK c \in Configs, a \in BOOLEAN, b \in Batteries, goesOn \in BOOLEAN :
         /\ config' = c /\ ac' = a /\ battery' = b
         /\ low' = ComputeLow(c, b, FALSE)
         /\ mode' = BootMode(c, a, low', modeFile)
         /\ state' = BootState(goesOn)
  BY Zenon DEF Restart
<1>2. /\ pendingSleep' = FALSE /\ suspendFrom' = "Active" /\ sleepFailures' = 0
      /\ UNCHANGED events
  BY DEF Restart
<1>3. CycleInv'
  BY <1>2 DEF CycleInv, NoRetryInCycle, GivesUpInTime, InCycle, Phases, MaxSleepFailures
<1>4. /\ ComputeLow(c, b, FALSE) \in BOOLEAN
      /\ b # NONE =>
            /\ b <= c.lowPercent => ComputeLow(c, b, FALSE)
            /\ b > c.lowPercent
                 /\ (b >= c.lowPercent + 5 \/ b = 100)
               => ~ComputeLow(c, b, FALSE)
  BY ComputeLowRight
<1>5. LowFollowsBattery' /\ low' \in BOOLEAN
  BY <1>1, <1>4 DEF LowFollowsBattery
<1>6. /\ mode' \in Mode
      /\ mode'.kind = "Auto" /\ c.autoEnabled => mode'.name = Assigned(c, a, low')
  BY <1>1, BootModeRight
<1>7. ModeFollowsPower'
  BY <1>1, <1>6 DEF ModeFollowsPower, Assigned
<1>8. PowerInv'
  BY <1>1, <1>5, <1>6, <1>7 DEF PowerInv
<1>9. Waiting'
  BY <1>2, WaitingKept DEF DaemonInv
<1> QED
  BY <1>3, <1>8, <1>9 DEF DaemonInv

\* Everybody else only sends reports.
LEMMA DaemonInvOthers ==
  ASSUME DaemonInv, UNCHANGED vars,
         UNCHANGED events \/ \E e \in Events \cup Reports : events' = Append(events, e)
  PROVE  DaemonInv'
<1>1. CycleInv' /\ PowerInv'
  BY EngineVarsKept, EngineKept DEF DaemonInv
<1>2. Waiting'
  BY DEF DaemonInv, Waiting
<1> QED
  BY <1>1, <1>2 DEF DaemonInv

LEMMA DaemonInvStep ==
  ASSUME DaemonInv, [DaemonNext]_daemonVars
  PROVE  DaemonInv'
<1>0. CycleInv /\ PowerInv /\ Waiting
  BY DEF DaemonInv
<1>1. ASSUME NEW t, TakeTimer(t) PROVE DaemonInv'
  <2>1. OnTimer(t) /\ UNCHANGED events
    BY <1>1 DEF TakeTimer
  <2> QED
    BY <1>0, <2>1, CycleInvOnTimer, PowerInvOnTimer, WaitingKept DEF DaemonInv
<1>2. ASSUME NEW e \in Events, Arrives(e) PROVE DaemonInv'
  BY <1>2, DaemonInvOthers DEF Arrives
<1>3. CASE ExecuteRequest
  <2>1. UNCHANGED vars
    BY <1>3 DEF ExecuteRequest
  <2>2. UNCHANGED events \/ \E e \in Reports : events' = Append(events, e)
    BY <1>3 DEF ExecuteRequest, Refuses, Sends, Reports
  <2> QED
    BY <2>1, <2>2, DaemonInvOthers
<1>4. CASE OutsideSuspend \/ FallAsleep \/ AlarmWakes \/ UserWakes \/ SaveState
  BY <1>4, DaemonInvOthers
  DEF OutsideSuspend, FallAsleep, AlarmWakes, UserWakes, Wakes, SaveState
<1>5. CASE ReportSleep
  BY <1>5, DaemonInvOthers DEF ReportSleep, Sends, Reports
<1>6. CASE ReportWake
  BY <1>6, DaemonInvOthers DEF ReportWake, Sends, Reports
<1>7. CASE Crash
  <2>1. events' = <<>> /\ UNCHANGED engineVars
    BY <1>7 DEF Crash, Ends
  <2> QED
    BY <1>0, <2>1, EngineKept DEF DaemonInv, Waiting
<1>8. CASE UNCHANGED daemonVars
  BY <1>8, DaemonInvOthers DEF daemonVars
<1> QED
  BY <1>1, <1>2, <1>3, <1>4, <1>5, <1>6, <1>7, <1>8, DaemonInvExecute,
     DaemonInvTakeEvent, DaemonInvRestart
  DEF DaemonNext

LEMMA DaemonInvInit == DaemonInit => DaemonInv
BY CycleInvInit, PowerInvInit DEF DaemonInit, DaemonInv, Waiting

LEMMA DaemonInvAlways == DaemonSpec => []DaemonInv
<1>1. DaemonInv /\ [DaemonNext]_daemonVars => DaemonInv'
  BY DaemonInvStep
<1> QED
  BY DaemonInvInit, <1>1, PTL DEF DaemonSpec

\* In the daemon, with answers in the middle of its queue and through its
\* restarts: no retry is pending in the server cycle, and no attempt too many
\* has been counted (core.rs, enter_grace and cycle_failure; main.rs, run).
THEOREM DaemonKeepsCycle == DaemonSpec => [](NoRetryInCycle /\ GivesUpInTime)
<1>1. DaemonInv => NoRetryInCycle /\ GivesUpInTime
  BY DEF DaemonInv, CycleInv
<1> QED
  BY DaemonInvAlways, <1>1, PTL

\* ... and mode and low-battery bit follow the power the daemon knows of.
THEOREM DaemonFollowsPower == DaemonSpec => [](ModeFollowsPower /\ LowFollowsBattery)
<1>1. DaemonInv => ModeFollowsPower /\ LowFollowsBattery
  BY DEF DaemonInv, PowerInv
<1> QED
  BY DaemonInvAlways, <1>1, PTL
-----------------------------------------------------------------------------
(* What the state of the daemon is made of.                                *)

Requests == [request : {"Sleep"}, force : BOOLEAN, respect : BOOLEAN]
              \cup [request : {"PowerOff"}]

\* A daemon that does not run has nothing to do.
Stopped == /\ queue = <<>> /\ events = <<>> /\ requests = <<>>
           /\ signals = <<>> /\ timers = {}

\* A reload is executed with nothing behind it.
ReloadAlone == Free(queue, Reloads) \/ Len(queue) = 1

Sorts ==
    /\ Good
    /\ queue \in Seq(Command)
    /\ events \in Seq(Events \cup Reports)
    /\ requests \in Seq(Requests)
    /\ signals \in Seq(BOOLEAN)
    /\ alive \in BOOLEAN /\ restarts \in Nat
    /\ machine \in {"up", "preparing", "asleep"}
    /\ ~alive => Stopped

\* What holds in the daemon of itself, before anything is said of what it does.
Sorted == Sorts /\ ReloadAlone

LEMMA SortedBase ==
  ASSUME Sorted
  PROVE  /\ Good /\ Base /\ state \in States /\ queue \in Seq(Command)
         /\ DaemonInv
BY GoodBase DEF Sorted, Sorts, Base, Good, DaemonInv, Waiting

LEMMA GoodKept ==
  ASSUME Good, UNCHANGED engineVars
  PROVE  Good'
<1>1. CycleInv' /\ PowerInv'
  BY EngineKept DEF Good
<1>2. OtherTypes'
  BY DEF Good, OtherTypes, engineVars, blockVars, sleepVars, cycleVars
<1> QED
  BY <1>1, <1>2 DEF Good

\* The command that is executed.
LEMMA NowTyped ==
  ASSUME Sorted, queue # <<>>
  PROVE  /\ Now \in Command /\ Rest \in Seq(Command)
         /\ Now.op = "Suspend" => Now.force \in BOOLEAN
         /\ Now.op = "Reload" => Now.replyTo \in Clients \cup {NONE} /\ Now \in Reloads
BY TailAt DEF Now, Rest, Sorted, Sorts, Command, Reloads

LEMMA RestAlone ==
  ASSUME Sorted, queue # <<>>
  PROVE  /\ Free(Rest, Reloads)
         /\ Now \in Reloads => Rest = <<>>
<1>1. queue \in Seq(Command)
  BY DEF Sorted, Sorts
<1>2. CASE Len(queue) = 1
  <2>1. Tail(queue) \in Seq(Command) /\ Len(Tail(queue)) = 0
    BY <1>1, <1>2, TailAt
  <2>2. Tail(queue) = <<>>
    BY <2>1, NoLength
  <2> QED
    BY <2>2, FreeEmpty DEF Rest
<1>3. CASE Len(queue) # 1
  <2>1. Free(queue, Reloads)
    BY <1>3 DEF Sorted, ReloadAlone
  <2> QED
    BY <1>1, <2>1, FreeTail DEF Now, Rest
<1> QED
  BY <1>2, <1>3

\* How the engine and its queue go on when the main loop executes a command.
\* Awake stays awake, but for sleep itself.
Executes ==
    \/ Done /\ Wakeful /\ (RunSuspend => Fits) /\ ~RunScheduleWake
    \/ RunSuspend /\ Goes(Rest, States \ {"Armed", "Suspending"}) /\ Wakeful
    \/ RunScheduleWake /\ Goes(Rest, States \ {"Armed"}) /\ Wakeful
    \/ RunReload /\ Rest = <<>> /\ Goes(<<>>, States) /\ Wakeful
    \/ Ends

LEMMA DoneWakeful == ASSUME UNCHANGED engineVars PROVE Wakeful
BY DEF engineVars, sleepVars, Wakeful, Dozes

LEMMA GoodSaysState ==
  ASSUME Good'
  PROVE  state' \in States
BY DEF Good, OtherTypes

LEMMA DoesGoes ==
  ASSUME NEW out \in Seq(Command), NEW old, Does(out, old), state \in States, Good'
  PROVE  Goes(out, old) /\ Wakeful
BY ActsGoes, GoodSaysState DEF Does

LEMMA SortedExecute ==
  ASSUME Sorted, Execute
  PROVE  /\ Executes /\ Good' /\ queue' \in Seq(Command)
         /\ Free(queue', Reloads) \/ Len(queue') = 1
<1>0. Good /\ state \in States /\ queue \in Seq(Command) /\ DaemonInv
  BY SortedBase
<1>1. CycleInv' /\ PowerInv'
  BY <1>0, DaemonInvExecute DEF DaemonInv
<1>2. ASSUME NEW out \in Seq(Command), Free(out, Reloads), NEW old, Goes(out, old)
      PROVE  queue' \in Seq(Command) /\ (Free(queue', Reloads) \/ Len(queue') = 1)
  BY <1>2 DEF Goes, Follows
<1>3. CASE Ends
  <2>1. UNCHANGED engineVars /\ queue' = <<>>
    BY <1>3 DEF Ends
  <2> QED
    BY <1>0, <1>3, <2>1, GoodKept, FreeEmpty, EmptyTyped DEF Executes
<1>4. CASE ~Ends
  <2>0. queue # <<>>
    BY <1>4 DEF Execute, RunTimer, RunPanel, RunBroadcast, RunOther, RunSuspend,
       RunPowerOff, RunScheduleWake, RunCancelWake, RunReload, RunShutdown, Executing
  <2>1. Now \in Command /\ Rest \in Seq(Command) /\ Free(Rest, Reloads)
    BY <2>0, NowTyped, RestAlone
  <2>2. CASE Done /\ ~(RunSuspend /\ OnSleepFailed(Rest)) /\ ~RunScheduleWake
    <3>1. UNCHANGED engineVars /\ queue' = Rest
      BY <2>2 DEF Done
    <3>2. RunSuspend => Fits
      BY <2>2 DEF RunSuspend
    <3> QED
      BY <1>0, <2>1, <2>2, <3>1, <3>2, GoodKept, DoneWakeful DEF Executes
  <2>3. CASE RunSuspend /\ OnSleepFailed(Rest)
    <3>1. Good'
      BY <1>0, <1>1, <2>3, TypesOnSleepFailed DEF Good
    <3>2. state \in States \ {"Armed", "Suspending"} \/ state \in {"Suspending", "Armed"}
      BY <1>0
    <3>3. Does(Rest, States \ {"Armed", "Suspending"})
      BY <1>0, <2>1, <2>3, <3>2, DoesOnSleepFailed
    <3>4. Goes(Rest, States \ {"Armed", "Suspending"}) /\ Wakeful
      BY <1>0, <2>1, <3>1, <3>3, DoesGoes
    <3> QED
      BY <1>2, <2>1, <2>3, <3>1, <3>4 DEF Executes
  <2>4. CASE RunScheduleWake
    <3>1. PICK armed : OnWakeScheduled(armed, Rest)
      BY <2>4 DEF RunScheduleWake
    <3>2. Good'
      BY <1>0, <1>1, <3>1, TypesOnWakeScheduled DEF Good
    <3>3. state \in States \ {"Armed"} \/ state = "Armed"
      BY <1>0
    <3>4. Does(Rest, States \ {"Armed"})
      BY <1>0, <2>1, <3>1, <3>3, DoesOnWakeScheduled
    <3>5. Goes(Rest, States \ {"Armed"}) /\ Wakeful
      BY <1>0, <2>1, <3>2, <3>4, DoesGoes
    <3> QED
      BY <1>2, <2>1, <2>4, <3>2, <3>5 DEF Executes
  <2>5. CASE RunReload /\ ~Done
    <3>1. Now.op = "Reload"
      BY <2>5 DEF RunReload, Executing, Now
    <3>2. Now.replyTo \in Clients \cup {NONE} /\ Rest = <<>>
      BY <2>0, <3>1, NowTyped, RestAlone
    <3>3. PICK c \in Configs : SetConfig(c, Now.replyTo, Rest)
      BY <2>5 DEF RunReload
    <3>4. Good'
      BY <1>0, <1>1, <3>3, TypesSetConfig DEF Good
    <3>5. Does(Rest, States)
      BY <1>0, <2>1, <3>2, <3>3, DoesSetConfig
    <3>6. Goes(Rest, States) /\ Wakeful
      BY <1>0, <2>1, <3>4, <3>5, DoesGoes
    <3> QED
      BY <1>2, <2>1, <2>5, <3>2, <3>4, <3>6 DEF Executes
  <2>6. RunSuspend => Done \/ OnSleepFailed(Rest)
    BY DEF RunSuspend
  <2> QED
    BY <1>4, <2>2, <2>3, <2>4, <2>5, <2>6 DEF Execute, RunTimer, RunPanel, RunBroadcast,
       RunOther, RunPowerOff, RunCancelWake, RunShutdown
<1> QED
  BY <1>3, <1>4

LEMMA ResumedAwake ==
  ASSUME NEW byUser, OnResumed(byUser)
  PROVE  ~Dozes'
<1>1. state' \in {"Active", "Checking"}
  BY DEF OnResumed, LeaveCycle, CheckPower, PowerIsBack, StayChecking, Become
<1> QED
  BY <1>1 DEF Dozes

\* The events that say how a suspend went.
Outcomes == {"Suspending", "Resumed", "SleepBlocked", "SleepFailed"}

LEMMA EventTyped ==
  ASSUME NEW e \in Events \cup Reports
  PROVE  /\ e.event # "Timer"
         /\ e.event # "Resumed" => e \in Event
         /\ e.event \in Outcomes => e \in Reports
<1>1. CASE e \in Events
  BY <1>1, DaemonAssumption, EngineAssumption DEF Outcomes
<1>2. CASE e \in Reports
  BY <1>2 DEF Reports, Event
<1> QED
  BY <1>1, <1>2

\* How the engine and its queue go on when the main loop takes event e.
Takes1(e) ==
    \/ e.event = "Resumed" /\ Goes(<<>>, {}) /\ ~Dozes'
    \/ e.event = "Suspending" /\ Goes(<<>>, States \ {"Armed", "Suspending"})
    \/ /\ e.event \in {"SleepBlocked", "SleepFailed"}
       /\ Goes(<<>>, States \ {"Armed", "Suspending"}) /\ Wakeful
    \/ e.event \notin Outcomes /\ Goes(<<>>, States) /\ Wakeful

LEMMA GoesSorts ==
  ASSUME NEW old, Goes(<<>>, old)
  PROVE  queue' \in Seq(Command) /\ (Free(queue', Reloads) \/ Len(queue') = 1)
BY FreeEmpty DEF Goes, Follows

LEMMA SortedTakeEvent ==
  ASSUME Sorted, TakeEvent
  PROVE  /\ Takes1(Head(events)) /\ Good' /\ queue' \in Seq(Command)
         /\ Free(queue', Reloads) \/ Len(queue') = 1
<1> DEFINE e == Head(events)
<1>0. Good /\ state \in States /\ DaemonInv /\ <<>> \in Seq(Command) /\ OtherTypes
  BY SortedBase, EmptyTyped DEF Good
<1>1. CycleInv' /\ PowerInv'
  BY <1>0, DaemonInvTakeEvent DEF DaemonInv
<1>2. e \in Events \cup Reports
  BY TailAt DEF TakeEvent, Sorted, Sorts
<1>3. /\ e.event # "Timer" /\ (e.event # "Resumed" => e \in Event)
  BY <1>2, EventTyped
<1>4. CASE TakeResumed
  <2>1. PICK byUser : OnResumed(byUser)
    BY <1>4 DEF TakeResumed
  <2>2. Good'
    BY <1>0, <1>1, <2>1, TypesOnResumed DEF Good
  <2>3. Does(<<>>, {})
    BY <1>0, <2>1, DoesOnResumed
  <2>4. Goes(<<>>, {}) /\ ~Dozes'
    BY <1>0, <2>1, <2>2, <2>3, DoesGoes, ResumedAwake
  <2>5. e.event = "Resumed"
    BY <1>4 DEF TakeResumed
  <2> QED
    BY <2>2, <2>4, <2>5, GoesSorts DEF Takes1
<1>5. CASE e.event # "Resumed" /\ Handle(e)
  <2>1. e \in Event /\ e.event \notin {"Resumed", "Timer"}
    BY <1>3, <1>5
  <2>2. Good'
    BY <1>0, <1>1, <1>5, <2>1, TypesHandle DEF Good
  <2>3. \/ Acts(<<>>, Spared(e)) /\ (Wakeful \/ e.event = "Suspending")
        \/ AsksReload /\ e.event \in {"Ipc", "ReloadRequested"}
    BY <1>0, <1>5, <2>1, DoesHandle
  <2>4. CASE Acts(<<>>, Spared(e)) /\ (Wakeful \/ e.event = "Suspending")
    <3>1. Goes(<<>>, Spared(e))
      BY <1>0, <2>2, <2>4, ActsGoes, GoodSaysState
    <3>2. Takes1(e)
      BY <1>5, <2>4, <3>1 DEF Takes1, Spared, Outcomes
    <3> QED
      BY <2>2, <3>1, <3>2, GoesSorts
  <2>5. CASE AsksReload /\ e.event \in {"Ipc", "ReloadRequested"}
    <3>1. Goes(<<>>, States) /\ Wakeful
      BY <1>0, <2>5, AsksReloadGoes, DoneWakeful
    <3>2. Takes1(e)
      BY <2>5, <3>1 DEF Takes1, Outcomes
    <3> QED
      BY <2>2, <3>1, <3>2, GoesSorts
  <2> QED
    BY <2>3, <2>4, <2>5
<1> QED
  BY <1>4, <1>5 DEF TakeEvent

\* ... and when a timer is due: the state that had it has it no longer.
Unarmed(t) == IF t = Grace THEN States \ {"Grace"}
              ELSE IF t = AwakeWindow THEN States \ {"Armed", "Checking"} ELSE States

LEMMA SortedTakeTimer ==
  ASSUME Sorted, NEW t, TakeTimer(t)
  PROVE  /\ Goes(<<>>, Unarmed(t)) /\ Wakeful /\ Good' /\ queue' \in Seq(Command)
         /\ Free(queue', Reloads) \/ Len(queue') = 1
<1>0. Good /\ state \in States /\ DaemonInv /\ <<>> \in Seq(Command)
  BY SortedBase, EmptyTyped
<1>1. OnTimer(t)
  BY DEF TakeTimer
<1>2. CycleInv' /\ PowerInv'
  BY <1>0, <1>1, CycleInvOnTimer, PowerInvOnTimer DEF DaemonInv
<1>3. Good'
  BY <1>0, <1>1, <1>2, TypesOnTimer DEF Good
<1>4. \/ state \in Unarmed(t)
      \/ t = Grace /\ state = "Grace"
      \/ t = AwakeWindow /\ state \in {"Armed", "Checking"}
  BY <1>0 DEF Unarmed
<1>5. Does(<<>>, Unarmed(t))
  BY <1>0, <1>1, <1>4, DoesOnTimer
<1>6. Goes(<<>>, Unarmed(t)) /\ Wakeful
  BY <1>0, <1>3, <1>5, DoesGoes
<1> QED
  BY <1>3, <1>6, GoesSorts

-----------------------------------------------------------------------------
(* A daemon that starts.                                                   *)

\* What the commands of a start say.
Boots(q, c, m, inCycle) ==
    /\ q \in Seq(Command) /\ q \in Seq(Calm)
    /\ \A K \in {StateNews, ModeNews, Alarms, Panels, Dims, Reloads} : Free(q, K)
    /\ m.name # NONE =>
          /\ m.name \in c.modes
          /\ LastIn(q, Applies, {ApplyMode(m.name)})
    /\ inCycle => LastIn(q, Switches(AwakeWindow), {StartTimer(AwakeWindow)})

LEMMA BootCalm ==
  ASSUME NEW c \in Configs, NEW m \in Mode, NEW inCycle \in BOOLEAN
  PROVE  BootCommands(c, m, inCycle) \in Seq(Calm)
<1>1. ModeCommands(c, m, "Active") \in Seq(Calm)
  BY ModeCommandsCalm
<1>2. (IF inCycle THEN <<ReplaceIdleStages(NONE), StartTimer(AwakeWindow)>> ELSE <<>>)
         \in Seq(Calm)
  <2>1. ReplaceIdleStages(NONE) \in Calm /\ StartTimer(AwakeWindow) \in Calm
    BY TimersTyped, CalmCommands
  <2> QED
    BY <2>1, Pair, Silence
<1> QED
  BY <1>1, <1>2, Concat DEF BootCommands

LEMMA BootsSay ==
  ASSUME NEW c \in Configs, NEW m \in Mode, NEW inCycle \in BOOLEAN,
         m.name # NONE => m.name \in c.modes
  PROVE  Boots(BootCommands(c, m, inCycle), c, m, inCycle)
<1> DEFINE orders == ModeCommands(c, m, "Active")
           window == <<ReplaceIdleStages(NONE), StartTimer(AwakeWindow)>>
           S == Neutral \cup {StartTimer(AwakeWindow)}
           Ks == {StateNews, ModeNews, Alarms, Panels, Dims, Reloads}
<1>1. /\ orders \in Seq(Orders) /\ orders \in Seq(Command) /\ Free(orders, ModeNews)
      /\ m.name # NONE => LastIn(orders, Applies, {ApplyMode(m.name)})
  BY ModeCommandsSay
<1>2. \A K \in Ks : Free(orders, K)
  <2>1. \A K \in Ks : K = ModeNews \/ K \in Others
    BY OthersKnown
  <2> QED
    BY <1>1, <2>1, OrdersFree
<1>3. window \in Seq(S)
  <2>1. ReplaceIdleStages(NONE) \in S /\ StartTimer(AwakeWindow) \in S
    BY StagesNeutral
  <2> HIDE DEF S
  <2> QED
    BY <2>1, Pair
<1>4. /\ S \subseteq Command
      /\ \A K \in Ks \cup {Applies} : S \cap K = {}
  <2>1. StartTimer(AwakeWindow) \in Switches(AwakeWindow)
    BY DEF Switches
  <2>2. \A K \in Ks \cup {Applies} : StartTimer(AwakeWindow) \notin K /\ K \in Kinds
    BY <2>1, KindsApart, KindsKnown
  <2>3. \A K \in Ks \cup {Applies} : Neutral \cap K = {}
    BY <2>2 DEF Neutral
  <2>4. S \subseteq Command
    BY <2>1, KindsTyped
  <2> QED
    BY <2>2, <2>3, <2>4
<1> HIDE DEF S
<1>5. /\ window \in Seq(Command) /\ \A K \in Ks \cup {Applies} : Free(window, K)
  BY <1>3, <1>4, More, FreeIn
<1>6. LastIn(window, Switches(AwakeWindow), {StartTimer(AwakeWindow)})
  <2>1. /\ 2 \in 1..Len(window) /\ window[2] = StartTimer(AwakeWindow)
        /\ \A j \in 1..Len(window) : ~(j > 2)
    OBVIOUS
  <2> QED
    BY <2>1 DEF LastIn
<1>7. CASE inCycle
  <2>1. BootCommands(c, m, inCycle) = orders \o window
    BY <1>7 DEF BootCommands
  <2> HIDE DEF orders, window, Ks
  <2>2. Joins(orders \o window, orders, window)
    BY <1>1, <1>5, JoinsConcat
  <2>3. /\ orders \o window \in Seq(Command)
        /\ \A K \in Ks : Free(orders \o window, K)
        /\ m.name # NONE => LastIn(orders \o window, Applies, {ApplyMode(m.name)})
        /\ LastIn(orders \o window, Switches(AwakeWindow), {StartTimer(AwakeWindow)})
    BY <1>1, <1>2, <1>5, <1>6, <2>2 DEF Joins
  <2> QED
    BY <2>1, <2>3, BootCalm DEF Boots, Ks
<1>8. CASE ~inCycle
  <2>1. BootCommands(c, m, inCycle) = orders \o <<>>
    BY <1>8 DEF BootCommands
  <2> HIDE DEF orders
  <2>2. orders \o <<>> = orders
    BY <1>1, EmptyConcat
  <2> QED
    BY <1>1, <1>2, <1>8, <2>1, <2>2, BootCalm DEF Boots
<1> QED
  BY <1>7, <1>8

LEMMA BootModeKnown ==
  ASSUME NEW c \in Configs, NEW a, NEW l, NEW kept
  PROVE  LET m == BootMode(c, a, l, kept) IN
         /\ m \in Mode
         /\ m.name # NONE => m.name \in c.modes
         /\ m.kind = "Manual" => m.name = kept /\ kept \in c.modes
         /\ m.kind # "Manual" => kept \notin c.modes
<1> DEFINE unset == [kind |-> "Auto", name |-> NONE]
           m == BootMode(c, a, l, kept)
<1>1. Valid(c) /\ c.modes \subseteq Modes
  BY ConfigValid, EngineAssumption DEF Valid, Config
<1>2. CASE kept \in c.modes
  <2>1. m = [kind |-> "Manual", name |-> kept]
    BY <1>2 DEF BootMode
  <2> QED
    BY <1>1, <1>2, <2>1 DEF Mode
<1>3. CASE kept \notin c.modes
  <2>1. m = [unset EXCEPT !.name = AutoModeName(c, unset, a, l)]
    BY <1>3 DEF BootMode
  <2> DEFINE name == AutoModeName(c, unset, a, l)
  <2>2. name \in c.modes \cup {NONE}
    BY <1>1 DEF AutoModeName, Valid
  <2> HIDE DEF name
  <2>3. m = [kind |-> "Auto", name |-> name]
    BY <2>1, Zenon DEF name
  <2> QED
    BY <1>1, <1>3, <2>2, <2>3 DEF Mode
<1> QED
  BY <1>2, <1>3

\* Where nothing fails, an attempt does what it is meant to do.
LEMMA Attempted ==
  ASSUME Faulty = {}
  PROVE  \A c, done, failed, left : left \in Attempt(c, done, failed) => left = done
BY DEF Attempt

\* What holds when `run` reaches the loop.
Started ==
    /\ Boots(queue, config, mode, InCycle)
    /\ state \in {"Active", "Checking"}
    /\ config \in Configs
    /\ Good
    /\ told = state
    /\ Faulty = {} => modeFile = IF mode.kind = "Manual" THEN mode.name ELSE NONE
    /\ queue \in Seq(Command) /\ Free(queue, Reloads)

LEMMA BootsSort ==
  ASSUME NEW c, NEW m, NEW inCycle, NEW q, Boots(q, c, m, inCycle)
  PROVE  q \in Seq(Command) /\ Free(q, Reloads)
BY DEF Boots

LEMMA StartedRestart ==
  ASSUME Sorted, Restart
  PROVE  Started'
<1>1. PICK c \in Configs, a \in BOOLEAN, b \in Batteries, goesOn \in BOOLEAN :
         /\ config' = c
         /\ mode' = BootMode(c, a, ComputeLow(c, b, FALSE), modeFile)
         /\ state' = BootState(goesOn) /\ told' = BootState(goesOn)
         /\ Faulty = {} => modeFile' = IF modeFile \in c.modes THEN modeFile ELSE NONE
         /\ queue' = BootCommands(c, mode', goesOn)
  <2>1. PICK c \in Configs, a \in BOOLEAN, b \in Batteries :
          LET goesOn == c.serverEnabled /\ ~a /\ disk.cycle
              l == ComputeLow(c, b, FALSE)
              m == BootMode(c, a, l, modeFile)
          IN  /\ config' = c /\ ac' = a /\ battery' = b /\ low' = l /\ mode' = m
              /\ state' = BootState(goesOn) /\ told' = BootState(goesOn)
              /\ saved' = [cycle |-> goesOn, wake |-> FALSE]
              /\ modeFile' \in IF modeFile \in c.modes THEN {modeFile}
                               ELSE Attempt(c, NONE, {modeFile})
              /\ queue' = BootCommands(c, m, goesOn)
    BY Zenon DEF Restart
  <2>2. (c.serverEnabled /\ ~a /\ disk.cycle) \in BOOLEAN
    OBVIOUS
  <2>3. ASSUME Faulty = {},
               modeFile' \in IF modeFile \in c.modes THEN {modeFile}
                             ELSE Attempt(c, NONE, {modeFile})
        PROVE  modeFile' = IF modeFile \in c.modes THEN modeFile ELSE NONE
    BY <2>3, Attempted
  <2> QED
    BY <2>1, <2>2, <2>3, Zenon
<1>2. /\ mode' \in Mode /\ (mode'.name # NONE => mode'.name \in c.modes)
      /\ mode'.kind = "Manual" => mode'.name = modeFile /\ modeFile \in c.modes
      /\ mode'.kind # "Manual" => modeFile \notin c.modes
  <2> DEFINE l == ComputeLow(c, b, FALSE)
             m == BootMode(c, a, l, modeFile)
  <2>1. mode' = m
    BY <1>1
  <2> HIDE DEF l
  <2>2. /\ m \in Mode /\ (m.name # NONE => m.name \in c.modes)
        /\ m.kind = "Manual" => m.name = modeFile /\ modeFile \in c.modes
        /\ m.kind # "Manual" => modeFile \notin c.modes
    BY BootModeKnown
  <2> HIDE DEF m
  <2> QED
    BY <2>1, <2>2
<1>3. state' \in {"Active", "Checking"} /\ (InCycle' <=> goesOn)
  BY <1>1 DEF BootState, InCycle, Phases
<1>4. Boots(queue', c, mode', goesOn)
  BY <1>1, <1>2, BootsSay
<1>5. Boots(queue', config', mode', InCycle')
  BY <1>1, <1>3, <1>4 DEF Boots
<1>6. CycleInv' /\ PowerInv'
  BY SortedBase, DaemonInvRestart DEF DaemonInv
<1>7. OtherTypes'
  <2>1. OtherTypes
    BY DEF Sorted, Sorts, Good
  <2>2. /\ inhibits' = {} /\ nextInhibitId' = 1 /\ external' = FALSE
        /\ pendingSleep' = FALSE /\ suspendFrom' = "Active"
        /\ sleepFailures' = 0 /\ interrupted' = FALSE
        /\ hibernateAvailable' = hibernateAvailable
    BY DEF Restart
  <2>3. 1 \in 1..MaxInhibits + 1 /\ 0 \in 0..MaxSleepFailures
    BY EngineAssumption DEF MaxSleepFailures
  <2> QED
    BY <1>3, <2>1, <2>2, <2>3 DEF OtherTypes, States, Awake, Phases
<1>8. Faulty = {} => modeFile' = IF mode'.kind = "Manual" THEN mode'.name ELSE NONE
  BY <1>1, <1>2
<1> QED
  BY <1>1, <1>3, <1>5, <1>6, <1>7, <1>8, BootsSort DEF Started, Good

LEMMA StartedInit ==
  ASSUME DaemonInit
  PROVE  Started
<1>0. /\ Init /\ told = state
      /\ Faulty = {} => modeFile = IF mode.kind = "Manual" THEN mode.name ELSE NONE
  BY Attempted DEF DaemonInit
<1>1. PICK saved0 \in config.modes \cup {NONE}, goesOn \in BOOLEAN :
         /\ mode = BootMode(config, ac, low, saved0)
         /\ state = BootState(goesOn)
         /\ queue = BootCommands(config, mode, goesOn)
  <2>1. PICK saved0 \in config.modes \cup {NONE} : mode = BootMode(config, ac, low, saved0)
    BY <1>0 DEF Init
  <2>2. PICK goesOn \in {config.serverEnabled /\ ~ac, FALSE} :
           state = BootState(goesOn) /\ queue = BootCommands(config, mode, goesOn)
    BY <1>0 DEF Init
  <2>3. goesOn \in BOOLEAN
    BY <2>2
  <2> QED
    BY <2>1, <2>2, <2>3
<1>2. config \in Configs
  BY <1>0 DEF Init
<1>3. mode \in Mode /\ (mode.name # NONE => mode.name \in config.modes)
  BY <1>1, <1>2, BootModeKnown, Zenon
<1>4. state \in {"Active", "Checking"} /\ (InCycle <=> goesOn)
  BY <1>1 DEF BootState, InCycle, Phases
<1>5. Boots(queue, config, mode, goesOn)
  BY <1>1, <1>2, <1>3, BootsSay
<1>6. Boots(queue, config, mode, InCycle)
  BY <1>4, <1>5 DEF Boots
<1>7. Good
  BY <1>0, CommandInvInit DEF CommandInv
<1> QED
  BY <1>0, <1>2, <1>4, <1>6, <1>7, BootsSort DEF Started

-----------------------------------------------------------------------------
(* Every step keeps the sorts.                                             *)

\* Everybody but the main loop.
Elsewhere ==
    \/ \E e \in Events : Arrives(e)
    \/ ExecuteRequest
    \/ OutsideSuspend \/ FallAsleep \/ AlarmWakes \/ UserWakes
    \/ SaveState \/ ReportSleep \/ ReportWake
    \/ UNCHANGED daemonVars

\* The main loop at work, the end of the process, and its start.
LEMMA StepKinds ==
  ASSUME [DaemonNext]_daemonVars
  PROVE  \/ Execute /\ ~Ends
         \/ TakeEvent \/ \E t \in Timers : TakeTimer(t)
         \/ Ends \/ Restart \/ Elsewhere
BY DEF DaemonNext, Elsewhere, Crash

LEMMA ElsewhereKeeps ==
  ASSUME Elsewhere
  PROVE  /\ UNCHANGED vars /\ UNCHANGED engineVars /\ queue' = queue
         /\ UNCHANGED mainVars /\ alive' = alive /\ restarts' = restarts
         /\ timers' = timers
         /\ UNCHANGED <<told, applied, modeFile, screen, dimmed>>
         /\ UNCHANGED <<config, state, mode, suspendFrom>>
         /\ alarm' = alarm \/ alarm' = FALSE
BY DEF Elsewhere, Arrives, ExecuteRequest, OutsideSuspend, FallAsleep, AlarmWakes,
       UserWakes, Wakes, SaveState, ReportSleep, ReportWake, daemonVars, mainVars,
       wakeVars, diskVars, panelVars, vars, engineVars, sleepVars

\* What becomes of the signals.
LEMMA SignalsTyped ==
  ASSUME signals \in Seq(BOOLEAN)
  PROVE  /\ Append(signals, TRUE) \in Seq(BOOLEAN)
         /\ Append(signals, FALSE) \in Seq(BOOLEAN)
         /\ signals # <<>> => Tail(signals) \in Seq(BOOLEAN)
<1>1. TRUE \in BOOLEAN /\ FALSE \in BOOLEAN
  OBVIOUS
<1> QED
  BY <1>1, AppendTyped, TailTyped, Zenon

LEMMA SortsElsewhere ==
  ASSUME Sorted, Elsewhere
  PROVE  /\ events' \in Seq(Events \cup Reports) /\ requests' \in Seq(Requests)
         /\ signals' \in Seq(BOOLEAN)
         /\ machine' \in {"up", "preparing", "asleep"}
         /\ ~alive' => Stopped'
<1>0. /\ events \in Seq(Events \cup Reports) /\ requests \in Seq(Requests)
      /\ signals \in Seq(BOOLEAN) /\ machine \in {"up", "preparing", "asleep"}
      /\ ~alive => Stopped
  BY DEF Sorted, Sorts
<1>1. alive' = alive /\ timers' = timers /\ queue' = queue
  BY ElsewhereKeeps
<1>2. CASE \E e \in Events : Arrives(e)
  <2>1. PICK e \in Events : Arrives(e)
    BY <1>2
  <2>2. events' = Append(events, e) /\ alive
        /\ UNCHANGED <<requests, signals, machine>>
    BY <2>1 DEF Arrives, Running, machineVars
  <2>3. events' \in Seq(Events \cup Reports)
    BY <1>0, <2>2, AppendTyped
  <2> QED
    BY <1>0, <1>1, <2>2, <2>3
<1>3. ASSUME NEW e \in Reports, Sends(e) PROVE events' \in Seq(Events \cup Reports)
  BY <1>0, <1>3 DEF Sends
<1>4. CASE ExecuteRequest
  <2>1. alive /\ requests # <<>> /\ requests' \in Seq(Requests)
    BY <1>0, <1>4 DEF ExecuteRequest, Running
  <2>2. events' \in Seq(Events \cup Reports)
    <3>1. \/ UNCHANGED events
          \/ Sends([event |-> "SleepBlocked", blocked |-> TRUE])
          \/ Sends([event |-> "SleepFailed"])
          \/ Sends([event |-> "ShutdownRequested"])
      BY <1>4 DEF ExecuteRequest, Refuses
    <3>2. /\ [event |-> "SleepBlocked", blocked |-> TRUE] \in Reports
          /\ [event |-> "SleepFailed"] \in Reports
          /\ [event |-> "ShutdownRequested"] \in Reports
      BY DEF Reports
    <3> QED
      BY <1>0, <1>3, <3>1, <3>2
  <2>3. signals' \in Seq(BOOLEAN) /\ machine' \in {"up", "preparing", "asleep"}
    <3>1. \/ Prepares \/ UNCHANGED machineVars
      BY <1>4 DEF ExecuteRequest, Refuses
    <3> QED
      BY <1>0, <2>1, <3>1, SignalsTyped DEF Prepares, machineVars
  <2> QED
    BY <1>1, <2>1, <2>2, <2>3
<1>5. CASE OutsideSuspend
  BY <1>0, <1>1, <1>5, SignalsTyped DEF OutsideSuspend, Prepares, Stopped
<1>6. CASE FallAsleep
  BY <1>0, <1>1, <1>6 DEF FallAsleep, Stopped
<1>7. CASE AlarmWakes \/ UserWakes
  BY <1>0, <1>1, <1>7, SignalsTyped DEF AlarmWakes, UserWakes, Wakes, Stopped
<1>8. CASE SaveState
  BY <1>0, <1>1, <1>8 DEF SaveState, Running
<1>9. CASE ReportSleep
  <2>1. [event |-> "Suspending"] \in Reports
    BY DEF Reports
  <2> QED
    BY <1>0, <1>1, <1>3, <1>9, <2>1, SignalsTyped DEF ReportSleep, Running
<1>10. CASE ReportWake
  <2>1. [event |-> "Resumed"] \in Reports
    BY DEF Reports
  <2>2. machine' = machine
    BY <1>10 DEF ReportWake
  <2> QED
    BY <1>0, <1>1, <1>3, <1>10, <2>1, <2>2, SignalsTyped DEF ReportWake, Running
<1>11. CASE UNCHANGED daemonVars
  BY <1>0, <1>1, <1>11 DEF daemonVars, machineVars, Stopped
<1> QED
  BY <1>1, <1>2, <1>4, <1>5, <1>6, <1>7, <1>8, <1>9, <1>10, <1>11 DEF Elsewhere

LEMMA SortedStep ==
  ASSUME Sorted, [DaemonNext]_daemonVars
  PROVE  Sorted'
<1>0. /\ Good /\ queue \in Seq(Command) /\ ReloadAlone
      /\ events \in Seq(Events \cup Reports) /\ requests \in Seq(Requests)
      /\ signals \in Seq(BOOLEAN) /\ machine \in {"up", "preparing", "asleep"}
      /\ alive \in BOOLEAN /\ restarts \in Nat
      /\ ~alive => Stopped
  BY DEF Sorted, Sorts
<1>1. CASE Execute /\ ~Ends
  <2>1. /\ Good' /\ queue' \in Seq(Command)
        /\ Free(queue', Reloads) \/ Len(queue') = 1
    BY <1>1, SortedExecute
  <2>2. /\ alive /\ alive' = alive /\ restarts' = restarts
        /\ UNCHANGED <<events, signals, machine>>
    BY <1>1 DEF Execute, RunTimer, RunPanel, RunBroadcast, RunOther, RunSuspend,
       RunPowerOff, RunScheduleWake, RunCancelWake, RunReload, RunShutdown, Executing,
       Running, mainVars, machineVars
  <2>3. requests' \in Seq(Requests)
    <3>1. CASE RunSuspend
      <4>1. queue # <<>> /\ Now.op = "Suspend"
        BY <3>1 DEF RunSuspend, Executing, Now
      <4>2. Sleep(Now) \in Requests
        <5>1. Now.force \in BOOLEAN
          BY <4>1, NowTyped
        <5>2. config.respectInhibitors \in BOOLEAN
          BY <1>0, GoodBase, ConfigValid DEF Base, Valid, Config
        <5> QED
          BY <5>1, <5>2 DEF Sleep, Requests
      <4> QED
        BY <1>0, <3>1, <4>2, AppendTyped DEF RunSuspend
    <3>2. CASE RunPowerOff
      <4>1. PowerOff \in Requests
        BY DEF PowerOff, Requests
      <4> QED
        BY <1>0, <3>2, <4>1 DEF RunPowerOff
    <3>3. CASE ~RunSuspend /\ ~RunPowerOff
      <4>1. UNCHANGED requests
        BY <1>1, <3>3 DEF Execute, RunTimer, RunPanel, RunBroadcast, RunOther,
           RunScheduleWake, RunCancelWake, RunReload, RunShutdown
      <4> QED
        BY <1>0, <4>1
    <3> QED
      BY <3>1, <3>2, <3>3
  <2> QED
    BY <1>0, <2>1, <2>2, <2>3 DEF Sorted, Sorts, ReloadAlone
<1>2. CASE TakeEvent
  <2>1. /\ Good' /\ queue' \in Seq(Command)
        /\ Free(queue', Reloads) \/ Len(queue') = 1
    BY <1>2, SortedTakeEvent
  <2>2. /\ alive /\ alive' = alive /\ restarts' = restarts
        /\ UNCHANGED <<requests, signals, machine>>
        /\ events' = Tail(events) /\ events # <<>>
    BY <1>2 DEF TakeEvent, Takes, Running, mainVars, machineVars
  <2>3. events' \in Seq(Events \cup Reports)
    BY <1>0, <2>2, TailAt
  <2> QED
    BY <1>0, <2>1, <2>2, <2>3 DEF Sorted, Sorts, ReloadAlone
<1>3. ASSUME NEW t \in Timers, TakeTimer(t) PROVE Sorted'
  <2>1. /\ Good' /\ queue' \in Seq(Command)
        /\ Free(queue', Reloads) \/ Len(queue') = 1
    BY <1>3, SortedTakeTimer
  <2>2. /\ alive /\ alive' = alive /\ restarts' = restarts
        /\ UNCHANGED <<events, requests, signals, machine>>
    BY <1>3 DEF TakeTimer, Takes, Running, mainVars, machineVars
  <2> QED
    BY <1>0, <2>1, <2>2 DEF Sorted, Sorts, ReloadAlone
<1>4. CASE Ends
  <2>1. UNCHANGED engineVars
    BY <1>4 DEF Ends
  <2>2. Good'
    BY <1>0, <2>1, GoodKept
  <2>3. /\ alive' = FALSE /\ restarts' = restarts /\ machine' = machine
        /\ queue' = <<>> /\ events' = <<>> /\ requests' = <<>> /\ signals' = <<>>
        /\ timers' = {}
    BY <1>4 DEF Ends
  <2>4. <<>> \in Seq(Command) /\ <<>> \in Seq(Events \cup Reports)
        /\ <<>> \in Seq(Requests) /\ <<>> \in Seq(BOOLEAN)
    BY EmptyTyped
  <2> QED
    BY <1>0, <2>2, <2>3, <2>4, FreeEmpty DEF Sorted, Sorts, ReloadAlone, Stopped
<1>5. CASE Restart
  <2>1. /\ Good' /\ queue' \in Seq(Command) /\ Free(queue', Reloads)
    BY <1>5, StartedRestart DEF Started
  <2>2. /\ alive' = TRUE /\ restarts' = restarts + 1
        /\ UNCHANGED <<events, requests, signals, machine>>
    BY <1>5 DEF Restart
  <2> QED
    BY <1>0, <2>1, <2>2 DEF Sorted, Sorts, ReloadAlone
<1>6. CASE Elsewhere
  <2>1. /\ UNCHANGED engineVars /\ queue' = queue /\ alive' = alive
        /\ restarts' = restarts
    BY <1>6, ElsewhereKeeps
  <2>2. Good'
    BY <1>0, <2>1, GoodKept
  <2> QED
    BY <1>0, <1>6, <2>1, <2>2, SortsElsewhere DEF Sorted, Sorts, ReloadAlone
<1> QED
  BY <1>1, <1>2, <1>3, <1>4, <1>5, <1>6, StepKinds

LEMMA SortedInit == ASSUME DaemonInit PROVE Sorted
<1>1. Started
  BY StartedInit
<1>2. /\ events = <<>> /\ requests = <<>> /\ signals = <<>>
      /\ alive = TRUE /\ restarts = 0 /\ machine = "up"
  BY DEF DaemonInit
<1>3. /\ <<>> \in Seq(Events \cup Reports)
      /\ <<>> \in Seq(Requests) /\ <<>> \in Seq(BOOLEAN)
  BY EmptyTyped
<1> QED
  BY <1>1, <1>2, <1>3 DEF Started, Sorted, Sorts, ReloadAlone

LEMMA SortedAlways == DaemonSpec => []Sorted
<1>1. DaemonInit => Sorted
  BY SortedInit
<1>2. Sorted /\ [DaemonNext]_daemonVars => Sorted'
  BY SortedStep
<1> QED
  BY <1>1, <1>2, PTL DEF DaemonSpec

\* The engine in the daemon is of the types it has in an arbitrary environment,
\* also when an answer reaches it in the middle of its queue, and when the
\* process dies and starts again.
THEOREM DaemonKeepsTypes == DaemonSpec => []TypeOK
<1>1. Sorted => TypeOK
  BY DEF Sorted, Sorts, Good, PowerInv, OtherTypes, TypeOK, Mode
<1> QED
  BY SortedAlways, <1>1, PTL

-----------------------------------------------------------------------------
(* Subscribers are told the state.                                         *)

\* What was said in the queue is said in the rest of it, or was just done.
LEMMA RestSays ==
  ASSUME Sorted, queue # <<>>
  PROVE  /\ \A K, G : LastIn(queue, K, G) =>
               LastIn(Rest, K, G) \/ (Now \in G /\ Free(Rest, K))
         /\ \A K : Free(queue, K) => Now \notin K /\ Free(Rest, K)
         /\ \A op : Has(queue, op) /\ Now.op # op => Has(Rest, op)
<1>1. queue \in Seq(Command)
  BY DEF Sorted, Sorts
<1> QED
  BY <1>1, LastTail, FreeTail, HasTail DEF Now, Rest

\* Which broadcasts are about the state, and which about the mode.
LEMMA NewsKinds ==
  ASSUME NEW c \in Command
  PROVE  /\ c \in StateNews => c.op = "Broadcast" /\ "to" \in DOMAIN c
         /\ c.op = "Broadcast" /\ "to" \in DOMAIN c => c \in StateNews
         /\ c \in ModeNews => c.op = "Broadcast" /\ "mode" \in DOMAIN c
         /\ c.op = "Broadcast" /\ "mode" \in DOMAIN c => c \in ModeNews
<1>1. ASSUME c.op = "Broadcast"
      PROVE  \/ c \in StateNews
             \/ c \in ModeNews
             \/ c \in [op : {"Broadcast"}, ac : BOOLEAN] /\ DOMAIN c = {"op", "ac"}
             \/ /\ c \in [op : {"Broadcast"},
                          phase : Phases \cup {"idle", "interrupted", "critical"}]
                /\ DOMAIN c = {"op", "phase"}
  BY <1>1 DEF Command, StateNews, ModeNews
<1> QED
  BY <1>1, KindsOps

News == {c \in StateNews : c.to = state}
Telling(q) == Settles(q, StateNews, News, told = state)
ToldInv == alive => Telling(queue)

LEMMA TellingGoes ==
  ASSUME NEW out, NEW old, Goes(out, old), Telling(out), told' = told,
         state \in States, state' \in States
  PROVE  Telling(queue)'
<1> DEFINE news == BroadcastState(state, state')
<1>1. news \in StateNews /\ news.to = state'
  BY DEF StateNews, BroadcastState
<1>2. CASE LastIn(queue', StateNews, {news})
  <2>1. {news} \subseteq News'
    BY <1>1 DEF News
  <2>2. LastIn(queue', StateNews, News')
    BY <1>2, <2>1, LastMono
  <2> QED
    BY <2>2 DEF Telling, Settles
<1>3. CASE /\ state' = state
           /\ \A G : LastIn(out, StateNews, G) => LastIn(queue', StateNews, G)
           /\ Free(out, StateNews) => Free(queue', StateNews)
  <2>1. News' = News
    BY <1>3 DEF News
  <2> QED
    BY <1>3, <2>1 DEF Telling, Settles
<1> QED
  BY <1>2, <1>3 DEF Goes, Announces

\* The rest, when the command that is executed is no such broadcast.
LEMMA TellingRest ==
  ASSUME Sorted, queue # <<>>, Telling(queue), Now \notin StateNews
  PROVE  Telling(Rest)
BY RestSays DEF Telling, Settles, News

LEMMA OpNotNews ==
  ASSUME NEW c, c.op # "Broadcast"
  PROVE  c \notin StateNews /\ c \notin ModeNews
BY KindsOps

\* What the actions that hand over to the engine leave alone.
LEMMA HandsOver ==
  ASSUME RunSuspend \/ RunScheduleWake \/ RunReload
  PROVE  /\ alive /\ queue # <<>> /\ Now.op \in {"Suspend", "ScheduleWake", "Reload"}
         /\ UNCHANGED <<told, applied, modeFile, screen, dimmed, timers, events,
                        signals, machine, restarts>>
         /\ alive' = alive
BY DEF RunSuspend, RunScheduleWake, RunReload, Executing, Running, Now, diskVars,
       panelVars, mainVars, machineVars

LEMMA ToldExecute ==
  ASSUME Sorted, ToldInv, Execute, ~Ends
  PROVE  ToldInv'
<1>0. /\ state \in States /\ state' \in States
      /\ Executes
  BY SortedBase, SortedExecute, GoodSaysState
<1>1. CASE RunBroadcast
  <2>1. alive /\ queue # <<>> /\ Now.op = "Broadcast" /\ queue' = Rest /\ state' = state
    BY <1>1 DEF RunBroadcast, Executing, Running, Now, Done, engineVars
  <2>2. told' = IF "to" \in DOMAIN Now THEN Now.to ELSE told
    BY <1>1 DEF RunBroadcast
  <2>3. Now \in Command
    BY <2>1, NowTyped
  <2>4. Telling(queue) /\ News' = News
    BY <2>1 DEF ToldInv, News
  <2>5. CASE LastIn(queue, StateNews, News)
    <3>1. CASE LastIn(Rest, StateNews, News)
      BY <2>1, <2>4, <3>1 DEF ToldInv, Telling, Settles
    <3>2. CASE Now \in News /\ Free(Rest, StateNews)
      <4>1. "to" \in DOMAIN Now /\ Now.to = state
        BY <2>3, <3>2, NewsKinds DEF News
      <4>2. told' = state'
        BY <2>1, <2>2, <4>1
      <4> QED
        BY <2>1, <3>2, <4>2 DEF ToldInv, Telling, Settles
    <3> QED
      BY <2>1, <2>5, <3>1, <3>2, RestSays
  <2>6. CASE Free(queue, StateNews) /\ told = state
    <3>1. Now \notin StateNews /\ Free(Rest, StateNews)
      BY <2>1, <2>6, RestSays
    <3>2. told' = told
      BY <2>1, <2>2, <2>3, <3>1, NewsKinds
    <3> QED
      BY <2>1, <2>6, <3>1, <3>2 DEF ToldInv, Telling, Settles
  <2> QED
    BY <2>4, <2>5, <2>6 DEF Telling, Settles
<1>2. CASE ~RunBroadcast /\ Done
  <2>1. alive /\ queue # <<>> /\ Now.op # "Broadcast" /\ told' = told
    BY <1>2 DEF Execute, RunTimer, RunPanel, RunOther, RunSuspend, RunPowerOff,
       RunScheduleWake, RunCancelWake, RunReload, RunShutdown, Executing, Running, Now,
       panelVars
  <2>2. Telling(Rest)
    BY <2>1, TellingRest, OpNotNews DEF ToldInv
  <2>3. queue' = Rest /\ state' = state
    BY <1>2 DEF Done, engineVars
  <2> QED
    BY <2>1, <2>2, <2>3 DEF ToldInv, Telling, News
<1>3. ASSUME NEW old, RunSuspend \/ RunScheduleWake \/ RunReload, Goes(Rest, old)
      PROVE  ToldInv'
  <2>1. alive /\ queue # <<>> /\ Now.op # "Broadcast" /\ told' = told
    BY <1>3, HandsOver
  <2>2. Telling(Rest)
    BY <2>1, TellingRest, OpNotNews DEF ToldInv
  <2> QED
    BY <1>0, <1>3, <2>1, <2>2, TellingGoes DEF ToldInv
<1> QED
  BY <1>0, <1>1, <1>2, <1>3 DEF Executes

LEMMA ToldStep ==
  ASSUME Sorted, ToldInv, [DaemonNext]_daemonVars
  PROVE  ToldInv'
<1>0. state \in States
  BY SortedBase
<1>1. CASE Execute /\ ~Ends
  BY <1>1, ToldExecute
<1>2. ASSUME NEW old, Goes(<<>>, old), Good', queue = <<>>, told' = told, alive
      PROVE  ToldInv'
  <2>1. Telling(<<>>)
    BY <1>2 DEF ToldInv
  <2> QED
    BY <1>0, <1>2, <2>1, TellingGoes, GoodSaysState DEF ToldInv
<1>3. CASE TakeEvent
  <2>1. queue = <<>> /\ told' = told /\ alive
    BY <1>3 DEF TakeEvent, Takes, Running, panelVars
  <2> QED
    BY <1>2, <1>3, <2>1, SortedTakeEvent DEF Takes1
<1>4. ASSUME NEW t \in Timers, TakeTimer(t) PROVE ToldInv'
  <2>1. queue = <<>> /\ told' = told /\ alive
    BY <1>4 DEF TakeTimer, Takes, Running, panelVars
  <2> QED
    BY <1>2, <1>4, <2>1, SortedTakeTimer
<1>5. CASE Ends
  BY <1>5 DEF Ends, ToldInv
<1>6. CASE Restart
  <2>1. Free(queue', StateNews) /\ told' = state'
    BY <1>6, StartedRestart DEF Started, Boots
  <2> QED
    BY <2>1 DEF ToldInv, Telling, Settles
<1>7. CASE Elsewhere
  <2>1. /\ queue' = queue /\ alive' = alive /\ told' = told /\ state' = state
    BY <1>7, ElsewhereKeeps
  <2> QED
    BY <2>1 DEF ToldInv, Telling, News
<1> QED
  BY <1>1, <1>3, <1>4, <1>5, <1>6, <1>7, StepKinds

LEMMA ToldInit == ASSUME DaemonInit PROVE ToldInv
<1>1. Free(queue, StateNews) /\ told = state
  BY StartedInit DEF Started, Boots
<1> QED
  BY <1>1 DEF ToldInv, Telling, Settles

\* What subscribers were told last is the state of the engine, when nothing is
\* left to be executed: also when an alarm that is armed, or a suspend that is
\* not delivered, changes the state while broadcasts of the decision before are
\* still in the queue (main.rs, run: Outcome::Continue).
THEOREM SubscribersFollowHolds == DaemonSpec => []SubscribersFollow
<1>1. DaemonInit => ToldInv
  BY ToldInit
<1>2. Sorted /\ ToldInv /\ [DaemonNext]_daemonVars => ToldInv'
  BY ToldStep
<1>3. ToldInv => SubscribersFollow
  BY EmptySays DEF ToldInv, Telling, Settles, SubscribersFollow, Idle
<1> QED
  BY SortedAlways, <1>1, <1>2, <1>3, PTL DEF DaemonSpec

-----------------------------------------------------------------------------
(* The mode that is chosen is applied and filed.                           *)

LEMMA CommonKinds ==
  /\ Common(Applies) /\ Common(ModeNews) /\ Common(Alarms) /\ Common(Switches(Grace))
  /\ Common(Switches(AwakeWindow)) /\ Common(Panels) /\ Common(Dims)
  /\ \A x : Common(Applies \ {x})
<1> DEFINE news == BroadcastState("Active", "Active")
           Ks == {Applies, ModeNews, Alarms, Switches(Grace), Switches(AwakeWindow),
                  Panels, Dims}
<1>1. news \in StateNews
  BY DEF StateNews, BroadcastState, States, Awake
<1>2. \A K \in Ks : news \notin K
  <2>1. news.op = "Broadcast"
    BY DEF BroadcastState
  <2> HIDE DEF news
  <2> QED
    BY <1>1, <2>1, KindsOps, KindsApart
<1> HIDE DEF news
<1>3. \A K \in Ks : K \in Kinds /\ K # StateNews
  BY <1>1, <1>2, KindsKnown
<1> QED
  BY <1>3 DEF Common

Applying(q) ==
    mode.name # NONE =>
        \/ /\ mode.name \in config.modes
           /\ Settles(q, Applies, {ApplyMode(mode.name)}, applied = mode.name)
        \/ applied = mode.name /\ Free(q, Applies \ {ApplyMode(mode.name)})

\* What the file of the mode has to hold, and the broadcasts that bring it there.
Kept0 == IF mode.kind = "Manual" THEN mode.name ELSE NONE
Filings == IF mode.kind = "Manual" THEN {BroadcastMode(mode.name)} ELSE ModeNews
Filing(q) == Settles(q, ModeNews, Filings, modeFile = Kept0)
FiledBy(c) == IF mode.kind = "Manual" THEN c.mode ELSE NONE

ModeInv == alive => Applying(queue) /\ Filing(queue)

LEMMA ApplyingGoes ==
  ASSUME NEW out, NEW old, Goes(out, old), Applying(out), applied' = applied,
         config' = config \/ out = <<>>
  PROVE  Applying(queue)'
<1> DEFINE n == mode'.name
           X == Applies \ {ApplyMode(n)}
<1>1. PICK body \in Seq(Command) : Carries(body) /\ Follows(out, body)
  BY DEF Goes
<1>2. SUFFICES ASSUME n # NONE PROVE Applying(queue)'
  BY DEF Applying
<1>3. /\ Free(body, X)
      /\ n \in config'.modes \/ n = mode.name
      /\ \/ LastIn(body, Applies, {ApplyMode(n)})
         \/ Free(body, Applies) /\ n = mode.name /\ config' = config
  BY <1>1, <1>2 DEF Carries
<1>4. /\ LastIn(body, Applies, {ApplyMode(n)}) => LastIn(queue', Applies, {ApplyMode(n)})
      /\ LastIn(out, Applies, {ApplyMode(n)}) /\ Free(body, Applies)
            => LastIn(queue', Applies, {ApplyMode(n)})
      /\ Free(out, Applies) /\ Free(body, Applies) => Free(queue', Applies)
      /\ Free(out, X) => Free(queue', X)
  BY <1>1, <1>3, CommonKinds DEF Follows
<1> HIDE DEF X
<1>5. SUFFICES \/ n \in config'.modes /\ LastIn(queue', Applies, {ApplyMode(n)})
               \/ /\ n \in config'.modes /\ Free(queue', Applies) /\ applied' = n
               \/ applied' = n /\ Free(queue', X)
  BY DEF Applying, Settles, X
<1>6. CASE LastIn(body, Applies, {ApplyMode(n)}) /\ n \in config'.modes
  BY <1>4, <1>6
<1>7. CASE n = mode.name /\ n \notin config'.modes
  <2>1. applied = n /\ Free(out, X)
    <3>1. CASE config' = config
      BY <1>2, <1>7, <3>1 DEF Applying, X
    <3>2. CASE out = <<>>
      BY <1>2, <1>7, <3>2, EmptySays DEF Applying, Settles
    <3> QED
      BY <3>1, <3>2
  <2> QED
    BY <1>4, <2>1
<1>8. CASE Free(body, Applies) /\ n = mode.name /\ config' = config
  <2>1. CASE n \in config.modes /\ LastIn(out, Applies, {ApplyMode(n)})
    BY <1>4, <1>8, <2>1
  <2>2. CASE n \in config.modes /\ Free(out, Applies) /\ applied = n
    BY <1>4, <1>8, <2>2
  <2>3. CASE applied = n /\ Free(out, X)
    BY <1>4, <2>3
  <2> QED
    BY <1>2, <1>8, <2>1, <2>2, <2>3 DEF Applying, Settles, X
<1> QED
  BY <1>3, <1>6, <1>7, <1>8

LEMMA FilingGoes ==
  ASSUME NEW out, NEW old, Goes(out, old), Filing(out), modeFile' = modeFile,
         mode' \in Mode
  PROVE  Filing(queue)'
<1>1. PICK body \in Seq(Command) : Carries(body) /\ Follows(out, body)
  BY DEF Goes
<1>2. BroadcastMode(mode'.name) \in ModeNews
  BY DEF BroadcastMode, ModeNews, Mode
<1>3. {BroadcastMode(mode'.name)} \subseteq Filings'
  BY <1>2 DEF Filings
<1>4. CASE LastIn(body, ModeNews, {BroadcastMode(mode'.name)})
  <2>1. LastIn(queue', ModeNews, {BroadcastMode(mode'.name)})
    BY <1>1, <1>4, CommonKinds DEF Follows
  <2>2. LastIn(queue', ModeNews, Filings')
    BY <1>3, <2>1, LastMono
  <2> QED
    BY <2>2 DEF Filing, Settles
<1>5. CASE /\ Free(body, ModeNews)
           /\ mode'.kind = mode.kind
           /\ mode.kind = "Manual" => mode'.name = mode.name
  <2>1. Filings' = Filings /\ Kept0' = Kept0
    BY <1>5 DEF Filings, Kept0
  <2>2. CASE LastIn(out, ModeNews, Filings)
    <3>1. LastIn(queue', ModeNews, Filings)
      BY <1>1, <1>5, <2>2, CommonKinds DEF Follows
    <3> QED
      BY <2>1, <3>1 DEF Filing, Settles
  <2>3. CASE Free(out, ModeNews) /\ modeFile = Kept0
    <3>1. Free(queue', ModeNews)
      BY <1>1, <1>5, <2>3, CommonKinds DEF Follows
    <3> QED
      BY <2>1, <2>3, <3>1 DEF Filing, Settles
  <2> QED
    BY <2>2, <2>3 DEF Filing, Settles
<1> QED
  BY <1>1, <1>4, <1>5 DEF Carries

LEMMA ApplyKinds ==
  ASSUME NEW c \in Command
  PROVE  /\ c \in Applies => c.op = "ApplyMode" /\ c = ApplyMode(c.mode)
         /\ c.op = "ApplyMode" => c \in Applies /\ c = ApplyMode(c.mode)
<1>1. c.op = "ApplyMode" => c \in Applies
  BY DEF Command, Applies
<1>2. c \in Applies => c.op = "ApplyMode" /\ c = ApplyMode(c.mode)
  BY DEF Applies, ApplyMode
<1> QED
  BY <1>1, <1>2

\* The rest of the queue, whatever the command did to the panel.
LEMMA ApplyingRest ==
  ASSUME Sorted, queue # <<>>, Applying(queue), UNCHANGED <<mode, config>>,
         applied' = IF Now.op = "ApplyMode" /\ Now.mode \in config.modes
                    THEN Now.mode ELSE applied
  PROVE  mode.name # NONE =>
            \/ /\ mode.name \in config.modes
               /\ Settles(Rest, Applies, {ApplyMode(mode.name)}, applied' = mode.name)
            \/ applied' = mode.name /\ Free(Rest, Applies \ {ApplyMode(mode.name)})
<1> DEFINE n == mode.name
<1>1. SUFFICES ASSUME n # NONE
      PROVE  \/ /\ n \in config.modes
                /\ Settles(Rest, Applies, {ApplyMode(n)}, applied' = n)
             \/ applied' = n /\ Free(Rest, Applies \ {ApplyMode(n)})
  OBVIOUS
<1>2. /\ Now \in Applies => Now.op = "ApplyMode" /\ Now = ApplyMode(Now.mode)
      /\ Now.op = "ApplyMode" => Now \in Applies /\ Now = ApplyMode(Now.mode)
  BY NowTyped, ApplyKinds
<1>3. ApplyMode(n).mode = n
  BY DEF ApplyMode
<1>4. CASE n \in config.modes /\ LastIn(queue, Applies, {ApplyMode(n)})
  <2>1. CASE LastIn(Rest, Applies, {ApplyMode(n)})
    BY <1>4, <2>1 DEF Settles
  <2>2. CASE Now = ApplyMode(n) /\ Free(Rest, Applies)
    <3>1. Now.op = "ApplyMode" /\ Now.mode = n
      BY <1>3, <2>2 DEF ApplyMode
    <3> QED
      BY <1>4, <2>2, <3>1 DEF Settles
  <2> QED
    BY <1>4, <2>1, <2>2, RestSays
<1>5. CASE n \in config.modes /\ Free(queue, Applies) /\ applied = n
  <2>1. Now \notin Applies /\ Free(Rest, Applies)
    BY <1>5, RestSays
  <2> QED
    BY <1>2, <1>5, <2>1 DEF Settles
<1>6. CASE applied = n /\ Free(queue, Applies \ {ApplyMode(n)})
  <2>1. Now \notin Applies \ {ApplyMode(n)} /\ Free(Rest, Applies \ {ApplyMode(n)})
    BY <1>6, RestSays
  <2>2. Now.op = "ApplyMode" => Now.mode = n
    BY <1>2, <1>3, <2>1
  <2> QED
    BY <1>6, <2>1, <2>2
<1> QED
  BY <1>1, <1>4, <1>5, <1>6 DEF Applying, Settles

LEMMA FilingRest ==
  ASSUME Sorted, queue # <<>>, Filing(queue),
         modeFile' = IF Now.op = "Broadcast" /\ "mode" \in DOMAIN Now
                     THEN FiledBy(Now) ELSE modeFile
  PROVE  Settles(Rest, ModeNews, Filings, modeFile' = Kept0)
<1>1. /\ Now \in ModeNews => Now.op = "Broadcast" /\ "mode" \in DOMAIN Now
      /\ Now.op = "Broadcast" /\ "mode" \in DOMAIN Now => Now \in ModeNews
  BY NowTyped, NewsKinds
<1>2. Filings \subseteq ModeNews
  BY SortedBase DEF Filings, BroadcastMode, ModeNews, Mode, Base
<1>3. CASE LastIn(queue, ModeNews, Filings)
  <2>1. LastIn(Rest, ModeNews, Filings) \/ (Now \in Filings /\ Free(Rest, ModeNews))
    BY <1>3, RestSays
  <2>2. Now \in Filings => FiledBy(Now) = Kept0
    BY DEF Filings, FiledBy, Kept0, BroadcastMode
  <2> QED
    BY <1>1, <1>2, <2>1, <2>2 DEF Settles
<1>4. CASE Free(queue, ModeNews) /\ modeFile = Kept0
  <2>1. Now \notin ModeNews /\ Free(Rest, ModeNews)
    BY <1>4, RestSays
  <2> QED
    BY <1>1, <1>4, <2>1 DEF Settles
<1> QED
  BY <1>3, <1>4 DEF Filing, Settles

LEMMA ModeExecute ==
  ASSUME Faulty = {}, Sorted, ModeInv, Execute, ~Ends
  PROVE  ModeInv'
<1>0. Executes /\ mode' \in Mode
  BY SortedExecute DEF Good, PowerInv
<1>1. CASE Done
  <2>1. /\ alive /\ queue # <<>>
        /\ applied' = IF Now.op = "ApplyMode" /\ Now.mode \in config.modes
                      THEN Now.mode ELSE applied
        /\ modeFile' = IF Now.op = "Broadcast" /\ "mode" \in DOMAIN Now
                       THEN FiledBy(Now) ELSE modeFile
    <3>1. CASE RunPanel
      BY <3>1 DEF RunPanel, Executing, Running, Now, diskVars
    <3>2. CASE RunBroadcast
      BY <3>2, Attempted DEF RunBroadcast, Executing, Running, Now, FiledBy
    <3>3. CASE ~RunPanel /\ ~RunBroadcast
      <4>1. /\ alive /\ queue # <<>> /\ applied' = applied /\ modeFile' = modeFile
            /\ Now.op \notin {"ApplyMode", "Broadcast"}
        BY <3>3 DEF Execute, RunTimer, RunOther, RunSuspend, RunPowerOff,
           RunScheduleWake, RunCancelWake, RunReload, RunShutdown, Executing, Running,
           Now, panelVars, diskVars
      <4> QED
        BY <4>1
    <3> QED
      BY <3>1, <3>2, <3>3
  <2>2. queue' = Rest /\ UNCHANGED <<mode, config>>
    BY <1>1 DEF Done, engineVars
  <2>3. Applying(queue) /\ Filing(queue)
    BY <2>1 DEF ModeInv
  <2>4. Applying(queue)'
    BY <2>1, <2>2, <2>3, ApplyingRest DEF Applying
  <2>5. Filing(queue)'
    <3>1. Filings' = Filings /\ Kept0' = Kept0
      BY <2>2 DEF Filings, Kept0
    <3> QED
      BY <2>1, <2>2, <2>3, <3>1, FilingRest DEF Filing
  <2> QED
    BY <2>4, <2>5 DEF ModeInv
<1>2. ASSUME NEW old, RunSuspend \/ RunScheduleWake \/ RunReload, Goes(Rest, old),
             config' = config \/ Rest = <<>>
      PROVE  ModeInv'
  <2>1. alive /\ queue # <<>> /\ applied' = applied /\ modeFile' = modeFile
        /\ Now.op # "ApplyMode" /\ Now.op # "Broadcast"
    BY <1>2, HandsOver
  <2>2. Applying(queue) /\ Filing(queue)
    BY <2>1 DEF ModeInv
  <2>3. Filing(Rest)
    <3>1. Now \notin ModeNews
      BY <2>1, OpNotNews
    <3>2. Filings \subseteq ModeNews
      BY SortedBase DEF Filings, BroadcastMode, ModeNews, Mode, Base
    <3> QED
      BY <2>1, <2>2, <3>1, <3>2, RestSays DEF Filing, Settles
  <2>4. Applying(Rest)
    <3>1. Now \notin Applies
      BY <2>1, KindsOps
    <3>2. ASSUME NEW n, LastIn(queue, Applies, {ApplyMode(n)})
          PROVE  LastIn(Rest, Applies, {ApplyMode(n)})
      <4>1. ApplyMode(n).op = "ApplyMode"
        BY DEF ApplyMode
      <4> QED
        BY <2>1, <3>2, <4>1, RestSays
    <3> QED
      BY <2>1, <2>2, <3>2, RestSays DEF Applying, Settles
  <2> QED
    BY <1>0, <1>2, <2>1, <2>3, <2>4, ApplyingGoes, FilingGoes DEF ModeInv
<1>3. RunSuspend /\ ~Done => config' = config
  BY DEF RunSuspend, OnSleepFailed, OnActivity, Answer, engineVars
<1>4. RunScheduleWake => config' = config
  BY DEF RunScheduleWake, OnWakeScheduled, Answer, engineVars
<1> QED
  BY <1>0, <1>1, <1>2, <1>3, <1>4 DEF Executes

LEMMA ModeStep ==
  ASSUME Faulty = {}, Sorted, ModeInv, [DaemonNext]_daemonVars
  PROVE  ModeInv'
<1>0. CASE Execute /\ ~Ends
  BY <1>0, ModeExecute
<1>1. ASSUME NEW old, Goes(<<>>, old), Good', queue = <<>>, applied' = applied,
             modeFile' = modeFile, alive
      PROVE  ModeInv'
  <2>1. Applying(<<>>) /\ Filing(<<>>)
    BY <1>1 DEF ModeInv
  <2>2. mode' \in Mode
    BY <1>1 DEF Good, PowerInv
  <2> QED
    BY <1>1, <2>1, <2>2, ApplyingGoes, FilingGoes DEF ModeInv
<1>2. CASE TakeEvent
  <2>1. queue = <<>> /\ applied' = applied /\ modeFile' = modeFile /\ alive
    BY <1>2 DEF TakeEvent, Takes, Running, panelVars
  <2> QED
    BY <1>1, <1>2, <2>1, SortedTakeEvent DEF Takes1
<1>3. ASSUME NEW t \in Timers, TakeTimer(t) PROVE ModeInv'
  <2>1. queue = <<>> /\ applied' = applied /\ modeFile' = modeFile /\ alive
    BY <1>3 DEF TakeTimer, Takes, Running, panelVars
  <2> QED
    BY <1>1, <1>3, <2>1, SortedTakeTimer
<1>4. CASE Ends
  BY <1>4 DEF Ends, ModeInv
<1>5. CASE Restart
  <2>1. /\ Boots(queue', config', mode', InCycle')
        /\ modeFile' = IF mode'.kind = "Manual" THEN mode'.name ELSE NONE
    BY <1>5, StartedRestart DEF Started
  <2>2. Applying(queue)'
    BY <2>1 DEF Boots, Applying, Settles
  <2>3. Filing(queue)'
    BY <2>1 DEF Boots, Filing, Settles, Kept0
  <2> QED
    BY <2>2, <2>3 DEF ModeInv
<1>6. CASE Elsewhere
  <2>1. /\ queue' = queue /\ alive' = alive /\ applied' = applied
        /\ modeFile' = modeFile /\ mode' = mode /\ config' = config
    BY <1>6, ElsewhereKeeps
  <2> QED
    BY <2>1 DEF ModeInv, Applying, Filing, Filings, Kept0
<1> QED
  BY <1>0, <1>2, <1>3, <1>4, <1>5, <1>6, StepKinds

LEMMA ModeInit == ASSUME Faulty = {}, DaemonInit PROVE ModeInv
<1>1. /\ Boots(queue, config, mode, InCycle)
      /\ modeFile = IF mode.kind = "Manual" THEN mode.name ELSE NONE
  BY StartedInit DEF Started
<1> QED
  BY <1>1 DEF ModeInv, Boots, Applying, Filing, Kept0, Settles

\* When nothing is left to be executed, the mode in sysfs is the mode of the
\* engine, also where a reload has taken that mode away; and its file holds a
\* manual mode and nothing else (core.rs, mode_changed; main.rs, the Broadcast
\* of a mode), where that file can be written.
THEOREM ModeIsCarriedOutHolds == Faulty = {} => (DaemonSpec => []ModeIsCarriedOut)
<1> SUFFICES ASSUME Faulty = {} PROVE DaemonSpec => []ModeIsCarriedOut
  OBVIOUS
<1>1. DaemonInit => ModeInv
  BY ModeInit
<1>2. Sorted /\ ModeInv /\ [DaemonNext]_daemonVars => ModeInv'
  BY ModeStep
<1>3. ModeInv => ModeIsCarriedOut
  BY EmptySays DEF ModeInv, Applying, Filing, Settles, ModeIsCarriedOut, Idle, Kept0
<1> QED
  BY SortedAlways, <1>1, <1>2, <1>3, PTL DEF DaemonSpec

-----------------------------------------------------------------------------
(* The alarm is cleared on the way out of the cycle.                       *)

Clear == {Do("CancelWake")}
Clearing(q) == state \notin PastGrace => Settles(q, Alarms, Clear, ~alarm)
AlarmInv ==
    alive /\ restarts = 0 =>
        /\ ~config.serverEnabled => ~alarm
        /\ Clearing(queue)

\* No reload takes the [server] section away while the daemon runs.
ServerStays == alive /\ config.serverEnabled => config'.serverEnabled

LEMMA ClearingGoes ==
  ASSUME NEW out, NEW old, Goes(out, old),
         state \notin PastGrace => LastIn(out, Alarms, Clear) \/ (Free(out, Alarms) /\ ~alarm')
  PROVE  Clearing(queue)'
<1>1. PICK body \in Seq(Command) : Clears(body) /\ Follows(out, body)
  BY DEF Goes
<1>2. SUFFICES ASSUME state' \notin PastGrace
               PROVE  LastIn(queue', Alarms, Clear) \/ (Free(queue', Alarms) /\ ~alarm')
  BY DEF Clearing, Settles
<1>3. CASE LastIn(body, Alarms, Clear)
  BY <1>1, <1>3, CommonKinds DEF Follows
<1>4. CASE Free(body, Alarms) /\ state \notin PastGrace
  <2>1. CASE LastIn(out, Alarms, Clear)
    BY <1>1, <1>4, <2>1, CommonKinds DEF Follows
  <2>2. CASE Free(out, Alarms) /\ ~alarm'
    BY <1>1, <1>4, <2>2, CommonKinds DEF Follows
  <2> QED
    BY <1>4, <2>1, <2>2
<1> QED
  BY <1>1, <1>2, <1>3, <1>4 DEF Clears, Clear

LEMMA AlarmOps ==
  ASSUME NEW c \in Command
  PROVE  /\ c \in Alarms => c.op \in {"ScheduleWake", "CancelWake"}
         /\ c.op = "ScheduleWake" => c \in Alarms /\ c \notin Clear
         /\ c.op = "CancelWake" => c \in Clear
<1>1. c.op \in {"ScheduleWake", "CancelWake"} => c = Do(c.op)
  BY DEF Command, Do
<1>2. Do("ScheduleWake") # Do("CancelWake")
  BY DEF Do
<1> QED
  BY <1>1, <1>2, KindsOps DEF Alarms, Clear

LEMMA AlarmExecute ==
  ASSUME Faulty = {}, Sorted, AlarmInv, Execute, ~Ends, ServerStays
  PROVE  AlarmInv'
<1>0. Executes /\ alive /\ queue # <<>> /\ Now \in Command /\ restarts' = restarts
  <2>1. Executes
    BY SortedExecute
  <2>2. alive /\ queue # <<>> /\ restarts' = restarts
    BY DEF Execute, RunTimer, RunPanel, RunBroadcast, RunOther, RunSuspend,
       RunPowerOff, RunScheduleWake, RunCancelWake, RunReload, RunShutdown, Executing,
       Running, mainVars
  <2> QED
    BY <2>1, <2>2, NowTyped
<1>1. SUFFICES ASSUME restarts = 0
               PROVE  (~config'.serverEnabled => ~alarm') /\ Clearing(queue)'
  BY <1>0 DEF AlarmInv
<1>2. /\ ~config.serverEnabled => ~alarm
      /\ state \notin PastGrace => LastIn(queue, Alarms, Clear) \/ (Free(queue, Alarms) /\ ~alarm)
      /\ ~config'.serverEnabled => ~config.serverEnabled
  BY <1>0, <1>1 DEF AlarmInv, Clearing, Settles, ServerStays
<1>3. /\ Now \in Alarms => Now.op \in {"ScheduleWake", "CancelWake"}
      /\ Now.op = "ScheduleWake" => Now \in Alarms /\ Now \notin Clear
      /\ Now.op = "CancelWake" => Now \in Clear
      /\ Clear \subseteq Alarms
  BY <1>0, AlarmOps DEF Clear, Alarms
<1>4. /\ LastIn(queue, Alarms, Clear) =>
            LastIn(Rest, Alarms, Clear) \/ (Now \in Clear /\ Free(Rest, Alarms))
      /\ Free(queue, Alarms) => Now \notin Alarms /\ Free(Rest, Alarms)
  BY <1>0, RestSays
<1>5. CASE Done /\ Now.op \notin {"ScheduleWake", "CancelWake"} /\ alarm' = alarm
  <2>1. queue' = Rest /\ state' = state /\ config' = config
    BY <1>5 DEF Done, engineVars
  <2> QED
    BY <1>2, <1>3, <1>4, <1>5, <2>1 DEF Clearing, Settles
<1>6. CASE RunCancelWake
  <2>1. queue' = Rest /\ state' = state /\ config' = config
    BY <1>6 DEF RunCancelWake, Done, engineVars
  <2>2. alarm' = (alarm /\ ~config.serverEnabled)
    BY <1>6, Attempted DEF RunCancelWake
  <2>3. ~alarm'
    BY <1>2, <2>2
  <2>4. Now \in Alarms
    BY <1>3, <1>6 DEF RunCancelWake, Executing, Now
  <2> QED
    BY <1>2, <1>4, <2>1, <2>3, <2>4 DEF Clearing, Settles
<1>7. CASE RunScheduleWake
  <2>1. Now.op = "ScheduleWake"
    BY <1>7 DEF RunScheduleWake, Executing, Now
  <2>2. config' = config
    BY <1>7 DEF RunScheduleWake, OnWakeScheduled, Answer, engineVars
  <2>3. state \notin PastGrace => LastIn(Rest, Alarms, Clear)
    BY <1>2, <1>3, <1>4, <2>1
  <2>4. Done \/ \E old : Goes(Rest, old)
    BY <1>0, <2>1 DEF Executes, RunReload, RunSuspend, Executing, Now
  <2>5. Clearing(queue)'
    <3>1. CASE Done
      BY <2>3, <3>1 DEF Done, engineVars, Clearing, Settles
    <3>2. ASSUME NEW old, Goes(Rest, old) PROVE Clearing(queue)'
      BY <2>3, <3>2, ClearingGoes
    <3> QED
      BY <2>4, <3>1, <3>2
  <2>6. ASSUME ~config.serverEnabled PROVE ~alarm'
    <3>1. PICK outcome \in {"kept"} : SetsAlarm(outcome)
      BY <1>7, <2>6 DEF RunScheduleWake, SetOutcomes
    <3> QED
      BY <1>2, <2>6, <3>1 DEF SetsAlarm
  <2> QED
    BY <2>2, <2>5, <2>6
<1>8. ASSUME NEW old, RunSuspend \/ RunReload, Goes(Rest, old)
      PROVE  (~config'.serverEnabled => ~alarm') /\ Clearing(queue)'
  <2>1. alarm' = alarm /\ Now.op \in {"Suspend", "Reload"}
    BY <1>8 DEF RunSuspend, RunReload, wakeVars, Executing, Now
  <2>2. Now \notin Alarms
    BY <1>3, <2>1
  <2>3. state \notin PastGrace => LastIn(Rest, Alarms, Clear) \/ (Free(Rest, Alarms) /\ ~alarm')
    BY <1>2, <1>3, <1>4, <2>1, <2>2
  <2> QED
    BY <1>2, <1>8, <2>1, <2>3, ClearingGoes
<1>9. Done =>
        \/ Now.op \notin {"ScheduleWake", "CancelWake"} /\ alarm' = alarm
        \/ RunCancelWake \/ RunScheduleWake
  BY DEF Execute, RunTimer, RunPanel, RunBroadcast, RunOther, RunSuspend,
     RunPowerOff, RunReload, RunShutdown, Executing, Now, wakeVars
<1> QED
  BY <1>0, <1>5, <1>6, <1>7, <1>8, <1>9 DEF Executes

LEMMA AlarmStep ==
  ASSUME Faulty = {}, Sorted, AlarmInv, [DaemonNext]_daemonVars, ServerStays
  PROVE  AlarmInv'
<1>0. CASE Execute /\ ~Ends
  BY <1>0, AlarmExecute
<1>1. ASSUME NEW old, Goes(<<>>, old), queue = <<>>, alarm' = alarm, alive,
             restarts' = restarts
      PROVE  AlarmInv'
  <2>1. CASE restarts = 0
    <3>1. state \notin PastGrace => Free(<<>>, Alarms) /\ ~alarm'
      BY <1>1, <2>1, EmptySays DEF AlarmInv, Clearing, Settles
    <3>2. Clearing(queue)'
      BY <1>1, <3>1, ClearingGoes
    <3>3. ~config'.serverEnabled => ~alarm'
      BY <1>1, <2>1 DEF AlarmInv, ServerStays
    <3> QED
      BY <3>2, <3>3 DEF AlarmInv
  <2> QED
    BY <1>1, <2>1 DEF AlarmInv
<1>2. CASE TakeEvent
  <2>1. queue = <<>> /\ alarm' = alarm /\ alive /\ restarts' = restarts
    BY <1>2 DEF TakeEvent, TakeResumed, Takes, Running, mainVars, wakeVars
  <2> QED
    BY <1>1, <1>2, <2>1, SortedTakeEvent DEF Takes1
<1>3. ASSUME NEW t \in Timers, TakeTimer(t) PROVE AlarmInv'
  <2>1. queue = <<>> /\ alarm' = alarm /\ alive /\ restarts' = restarts
    BY <1>3 DEF TakeTimer, Takes, Running, mainVars, wakeVars
  <2> QED
    BY <1>1, <1>3, <2>1, SortedTakeTimer
<1>4. CASE Ends
  BY <1>4 DEF Ends, AlarmInv
<1>5. CASE Restart
  <2>1. restarts \in Nat /\ restarts' = restarts + 1
    BY <1>5 DEF Restart, Sorted, Sorts
  <2>2. restarts' # 0
    BY <2>1
  <2> QED
    BY <2>2 DEF AlarmInv
<1>6. CASE Elsewhere
  <2>1. /\ queue' = queue /\ alive' = alive /\ restarts' = restarts
        /\ state' = state /\ config' = config
        /\ alarm' = alarm \/ alarm' = FALSE
    BY <1>6, ElsewhereKeeps
  <2> QED
    BY <2>1 DEF AlarmInv, Clearing, Settles
<1> QED
  BY <1>0, <1>2, <1>3, <1>4, <1>5, <1>6, StepKinds

LEMMA AlarmInit == ASSUME DaemonInit PROVE AlarmInv
<1>1. Free(queue, Alarms)
  BY StartedInit DEF Started, Boots
<1>2. alarm = FALSE
  BY DEF DaemonInit
<1> QED
  BY <1>1, <1>2 DEF AlarmInv, Clearing, Settles

\* An idle daemon that has not died leaves no alarm outside the cycle, whatever
\* way it went out of it and whatever was in the queue (core.rs, leave_cycle,
\* cycle_failure, on_shutdown), where the alarm can be cleared and as long as no
\* reload takes the [server] section away: that one loses the RTC the alarm is in
\* (main.rs, reload; daemon_reload).
THEOREM NoOrphanAlarmHolds ==
    Faulty = {} => (DaemonSpec /\ [][ServerStays]_daemonVars => []NoOrphanAlarm)
<1> SUFFICES ASSUME Faulty = {}
             PROVE  DaemonSpec /\ [][ServerStays]_daemonVars => []NoOrphanAlarm
  OBVIOUS
<1>1. DaemonInit => AlarmInv
  BY AlarmInit
<1>2. Sorted /\ AlarmInv /\ [DaemonNext]_daemonVars /\ [ServerStays]_daemonVars => AlarmInv'
  <2>1. UNCHANGED daemonVars => ServerStays
    BY DEF daemonVars, vars, engineVars, ServerStays
  <2> QED
    BY <2>1, AlarmStep
<1>3. AlarmInv => NoOrphanAlarm
  BY EmptySays DEF AlarmInv, Clearing, Settles, NoOrphanAlarm, Idle, InCycle, PastGrace
<1> QED
  BY SortedAlways, <1>1, <1>2, <1>3, PTL DEF DaemonSpec

-----------------------------------------------------------------------------
(* An active machine is lit.                                               *)

On == {Screen(TRUE)}
Up == {Do("Undim")}
Lighting(q) == Back \in LitStates => Settles(q, Panels, On, screen)
Brightening(q) == Back \in BrightStates => Settles(q, Dims, Up, ~dimmed)
LitInv == alive => Lighting(queue) /\ Brightening(queue)

\* The machine does not go dark but by what the engine says while the daemon
\* lives, and the cycle begins in a lit room.
StaysLit ==
    /\ Restarts => screen /\ ~dimmed
    /\ state # "Grace" /\ state' = "Grace" => state = "Active"

LEMMA LitGoes ==
  ASSUME NEW out, NEW old, Goes(out, old), StaysLit, Lighting(out), Brightening(out),
         screen' = screen, dimmed' = dimmed
  PROVE  Lighting(queue)' /\ Brightening(queue)'
<1>1. PICK body \in Seq(Command) : Lights(body) /\ Follows(out, body)
  BY DEF Goes
<1>2. ~DarkEntry
  BY DEF DarkEntry, StaysLit, BrightStates
<1>3. Lighting(queue)'
  <2>1. SUFFICES ASSUME Back' \in LitStates
        PROVE  LastIn(queue', Panels, On) \/ (Free(queue', Panels) /\ screen')
    BY DEF Lighting, Settles
  <2>2. CASE LastIn(body, Panels, On)
    BY <1>1, <2>2, CommonKinds DEF Follows
  <2>3. CASE Free(body, Panels) /\ Back \in LitStates
    <3>1. CASE LastIn(out, Panels, On)
      BY <1>1, <2>3, <3>1, CommonKinds DEF Follows
    <3>2. CASE Free(out, Panels) /\ screen
      BY <1>1, <2>3, <3>2, CommonKinds DEF Follows
    <3> QED
      BY <2>3, <3>1, <3>2 DEF Lighting, Settles
  <2> QED
    BY <1>1, <1>2, <2>1, <2>2, <2>3 DEF Lights, On
<1>4. Brightening(queue)'
  <2>1. SUFFICES ASSUME Back' \in BrightStates
        PROVE  LastIn(queue', Dims, Up) \/ (Free(queue', Dims) /\ ~dimmed')
    BY DEF Brightening, Settles
  <2>2. CASE LastIn(body, Dims, Up)
    BY <1>1, <2>2, CommonKinds DEF Follows
  <2>3. CASE Free(body, Dims) /\ Back \in BrightStates
    <3>1. CASE LastIn(out, Dims, Up)
      BY <1>1, <2>3, <3>1, CommonKinds DEF Follows
    <3>2. CASE Free(out, Dims) /\ ~dimmed
      BY <1>1, <2>3, <3>2, CommonKinds DEF Follows
    <3> QED
      BY <2>3, <3>1, <3>2 DEF Brightening, Settles
  <2> QED
    BY <1>1, <1>2, <2>1, <2>2, <2>3 DEF Lights, Up
<1> QED
  BY <1>3, <1>4

LEMMA PanelOps ==
  ASSUME NEW c \in Command
  PROVE  /\ c.op = "Screen" <=> c \in Panels
         /\ c.op \in {"Dim", "Undim"} <=> c \in Dims
         /\ c \in On => c.op = "Screen" /\ c.on = TRUE
         /\ c \in Up => c.op = "Undim"
         /\ On \subseteq Panels /\ Up \subseteq Dims
<1>1. c.op = "Screen" => c \in Panels
  <2>1. c.op = "Screen" => c.on \in BOOLEAN /\ c = Screen(c.on)
    BY DEF Command, Screen
  <2> QED
    BY <2>1 DEF Panels
<1>2. c.op \in {"Dim", "Undim"} => c \in Dims
  <2>1. c.op \in {"Dim", "Undim"} => c = Do(c.op)
    BY DEF Command, Do
  <2> QED
    BY <2>1 DEF Dims
<1>3. c \in Panels => c.op = "Screen"
  BY KindsOps
<1>4. c \in Dims => c.op \in {"Dim", "Undim"}
  BY KindsOps
<1>5. (c \in On => c.op = "Screen" /\ c.on = TRUE) /\ (c \in Up => c.op = "Undim")
  BY DEF On, Up, Screen, Do
<1>6. On \subseteq Panels /\ Up \subseteq Dims
  BY DEF On, Up, Panels, Dims
<1> QED
  BY <1>1, <1>2, <1>3, <1>4, <1>5, <1>6

LEMMA LitExecute ==
  ASSUME Sorted, LitInv, Execute, ~Ends, StaysLit
  PROVE  LitInv'
<1>0. Executes /\ alive /\ queue # <<>> /\ Now \in Command /\ alive' = alive
  <2>1. Executes
    BY SortedExecute
  <2>2. alive /\ queue # <<>> /\ alive' = alive
    BY DEF Execute, RunTimer, RunPanel, RunBroadcast, RunOther, RunSuspend,
       RunPowerOff, RunScheduleWake, RunCancelWake, RunReload, RunShutdown, Executing,
       Running, mainVars
  <2> QED
    BY <2>1, <2>2, NowTyped
<1>1. Lighting(queue) /\ Brightening(queue)
  BY <1>0 DEF LitInv
<1>2. /\ Now.op = "Screen" <=> Now \in Panels
      /\ Now.op \in {"Dim", "Undim"} <=> Now \in Dims
      /\ Now \in On => Now.op = "Screen" /\ Now.on = TRUE
      /\ Now \in Up => Now.op = "Undim"
      /\ On \subseteq Panels /\ Up \subseteq Dims
  BY <1>0, PanelOps
<1>3. /\ LastIn(queue, Panels, On) =>
            LastIn(Rest, Panels, On) \/ (Now \in On /\ Free(Rest, Panels))
      /\ Free(queue, Panels) => Now \notin Panels /\ Free(Rest, Panels)
      /\ LastIn(queue, Dims, Up) =>
            LastIn(Rest, Dims, Up) \/ (Now \in Up /\ Free(Rest, Dims))
      /\ Free(queue, Dims) => Now \notin Dims /\ Free(Rest, Dims)
  BY <1>0, RestSays
<1>4. CASE Done
  <2>1. queue' = Rest /\ Back' = Back
    BY <1>4 DEF Done, engineVars, sleepVars, Back
  <2>2. /\ Now.op # "Screen" => screen' = screen
        /\ Now.op = "Screen" /\ Now.on = TRUE => screen'
        /\ Now.op \notin {"Dim", "Undim"} => dimmed' = dimmed
        /\ Now.op = "Undim" => ~dimmed'
    <3>1. CASE RunPanel
      <4>1. /\ dimmed' = IF Now.op \in {"Dim", "Undim"} THEN Now.op = "Dim" ELSE dimmed
            /\ screen' = IF Now.op = "Screen" THEN Now.on ELSE screen
        BY <3>1 DEF RunPanel
      <4> QED
        BY <4>1
    <3>2. CASE ~RunPanel
      <4>1. /\ Now.op \notin {"Dim", "Undim", "Screen"}
            /\ screen' = screen /\ dimmed' = dimmed
        BY <3>2 DEF Execute, RunTimer, RunBroadcast, RunOther, RunSuspend,
           RunPowerOff, RunScheduleWake, RunCancelWake, RunReload, RunShutdown,
           Executing, Now, panelVars
      <4> QED
        BY <4>1
    <3> QED
      BY <3>1, <3>2
  <2>3. Lighting(queue)'
    BY <1>1, <1>2, <1>3, <2>1, <2>2 DEF Lighting, Settles
  <2>4. Brightening(queue)'
    BY <1>1, <1>2, <1>3, <2>1, <2>2 DEF Brightening, Settles
  <2> QED
    BY <2>3, <2>4 DEF LitInv
<1>5. ASSUME NEW old, RunSuspend \/ RunScheduleWake \/ RunReload, Goes(Rest, old)
      PROVE  LitInv'
  <2>1. /\ screen' = screen /\ dimmed' = dimmed
        /\ Now.op \in {"Suspend", "ScheduleWake", "Reload"}
    BY <1>5, HandsOver
  <2>2. Now \notin Panels /\ Now \notin Dims
    BY <1>2, <2>1
  <2>3. Lighting(Rest) /\ Brightening(Rest)
    BY <1>1, <1>2, <1>3, <2>2 DEF Lighting, Brightening, Settles
  <2> QED
    BY <1>5, <2>1, <2>3, LitGoes DEF LitInv
<1> QED
  BY <1>0, <1>4, <1>5 DEF Executes

LEMMA LitStep ==
  ASSUME Sorted, LitInv, [DaemonNext]_daemonVars, StaysLit
  PROVE  LitInv'
<1>0. CASE Execute /\ ~Ends
  BY <1>0, LitExecute
<1>1. ASSUME NEW old, Goes(<<>>, old), queue = <<>>, screen' = screen,
             dimmed' = dimmed, alive
      PROVE  LitInv'
  <2>1. Lighting(<<>>) /\ Brightening(<<>>)
    BY <1>1 DEF LitInv
  <2> QED
    BY <1>1, <2>1, LitGoes DEF LitInv
<1>2. CASE TakeEvent
  <2>1. queue = <<>> /\ screen' = screen /\ dimmed' = dimmed /\ alive
    BY <1>2 DEF TakeEvent, Takes, Running, panelVars
  <2> QED
    BY <1>1, <1>2, <2>1, SortedTakeEvent DEF Takes1
<1>3. ASSUME NEW t \in Timers, TakeTimer(t) PROVE LitInv'
  <2>1. queue = <<>> /\ screen' = screen /\ dimmed' = dimmed /\ alive
    BY <1>3 DEF TakeTimer, Takes, Running, panelVars
  <2> QED
    BY <1>1, <1>3, <2>1, SortedTakeTimer
<1>4. CASE Ends
  BY <1>4 DEF Ends, LitInv
<1>5. CASE Restart
  <2>1. Free(queue', Panels) /\ Free(queue', Dims)
    BY <1>5, StartedRestart DEF Started, Boots
  <2>2. screen' = screen /\ dimmed' = dimmed /\ Restarts
    BY <1>5 DEF Restart, Restarts
  <2>3. screen' /\ ~dimmed'
    BY <2>2 DEF StaysLit
  <2> QED
    BY <2>1, <2>3 DEF LitInv, Lighting, Brightening, Settles
<1>6. CASE Elsewhere
  <2>1. /\ queue' = queue /\ alive' = alive /\ screen' = screen /\ dimmed' = dimmed
        /\ Back' = Back
    BY <1>6, ElsewhereKeeps DEF Back
  <2> QED
    BY <2>1 DEF LitInv, Lighting, Brightening
<1> QED
  BY <1>0, <1>2, <1>3, <1>4, <1>5, <1>6, StepKinds

LEMMA LitInit == ASSUME DaemonInit PROVE LitInv
<1>1. Free(queue, Panels) /\ Free(queue, Dims)
  BY StartedInit DEF Started, Boots
<1>2. screen /\ ~dimmed
  BY DEF DaemonInit
<1> QED
  BY <1>1, <1>2 DEF LitInv, Lighting, Brightening, Settles

\* An idle daemon in Active has the screen on and the backlight up, whatever the
\* idle stages, requests, refused suspends and the cycle did before (core.rs,
\* on_activity, leave_cycle, on_resumed): if it is not started again in the dark
\* and the cycle does not begin in it, which is where daemon_dark shows that the
\* engine leaves the screen off (on_ac_changed, in Grace).
THEOREM ActiveIsLitHolds ==
    DaemonSpec /\ [][StaysLit]_daemonVars => []ActiveIsLit
<1>1. DaemonInit => LitInv
  BY LitInit
<1>2. Sorted /\ LitInv /\ [DaemonNext]_daemonVars /\ [StaysLit]_daemonVars => LitInv'
  <2>1. UNCHANGED daemonVars => StaysLit
    BY DEF daemonVars, mainVars, vars, engineVars, StaysLit, Restarts
  <2> QED
    BY <2>1, LitStep
<1>3. LitInv => ActiveIsLit
  BY EmptySays DEF LitInv, Lighting, Brightening, Settles, ActiveIsLit, Idle, Back,
     LitStates, BrightStates
<1> QED
  BY SortedAlways, <1>1, <1>2, <1>3, PTL DEF DaemonSpec

-----------------------------------------------------------------------------
(* A state that waits has something to wait for.                           *)

\* What is on its way to the main loop, and to the executor.
Moves == {e \in Events \cup Reports : e.event \in {"Suspending", "Resumed"}}
Wakings == {e \in Events \cup Reports : e.event = "Resumed"}
Fates == {e \in Events \cup Reports : e.event \in Outcomes}
Sleeps == {r \in Requests : r.request = "Sleep"}

\* A suspend that was asked for, or of which the main loop has not been told all.
UnderWay == ~Free(requests, Sleeps) \/ machine # "up" \/ signals # <<>>
              \/ ~Free(events, Fates)

Starts(t) == {StartTimer(t)}
Timed(q, t) == Settles(q, Switches(t), Starts(t), t \in timers)
WaitsForTimer(q) == /\ state = "Grace" => Timed(q, Grace)
                    /\ state = "Checking" => Timed(q, AwakeWindow)
WaitsForAlarm(q) == state = "Armed" =>
    Timed(q, AwakeWindow) \/ Has(q, "ScheduleWake") \/ Has(q, "Suspend") \/ UnderWay
WaitsForFate(q) == state = "Suspending" =>
    Has(q, "Suspend") \/ UnderWay \/ suspendFrom = "Suspending"
Waits(q) == WaitsForTimer(q) /\ WaitsForAlarm(q) /\ WaitsForFate(q)

\* A machine that is up, and whose daemon dozes, has its wake on the way.
WaitsForWake == machine = "up" =>
    \/ LastIn(signals, BOOLEAN, {FALSE})
    \/ signals = <<>> /\ Settles(events, Moves, Wakings, ~Dozes)
WaitInv == alive => Waits(queue) /\ WaitsForWake

\* A handler leaves nothing waiting: `old` are the states whose wait goes on.
LEMMA WaitsGoes ==
  ASSUME NEW out, NEW old, Goes(out, old),
         state \in old => Waits(out),
         state \in old /\ state \in {"Armed", "Suspending"} => (UnderWay => UnderWay'),
         state = "Grace" /\ state \in old /\ Grace \in timers => Grace \in timers',
         state \in {"Armed", "Checking"} /\ state \in old /\ AwakeWindow \in timers
            => AwakeWindow \in timers'
  PROVE  Waits(queue)'
<1>1. PICK body \in Seq(Command) : Times(body, old) /\ Follows(out, body)
  BY DEF Goes
<1>2. /\ \A op : Has(out, op) \/ Has(body, op) => Has(queue', op)
      /\ \A t \in {Grace, AwakeWindow} :
            LastIn(body, Switches(t), Starts(t)) => LastIn(queue', Switches(t), Starts(t))
      /\ \A t \in {Grace, AwakeWindow} :
            LastIn(out, Switches(t), Starts(t)) /\ Free(body, Switches(t))
               => LastIn(queue', Switches(t), Starts(t))
      /\ \A t \in {Grace, AwakeWindow} :
            Free(out, Switches(t)) /\ Free(body, Switches(t)) => Free(queue', Switches(t))
  BY <1>1, CommonKinds DEF Follows
<1>3. ASSUME NEW t \in {Grace, AwakeWindow}, Timed(out, t), Free(body, Switches(t)),
             t \in timers => t \in timers'
      PROVE  Timed(queue, t)'
  BY <1>2, <1>3 DEF Timed, Settles
<1>4. ASSUME NEW t \in {Grace, AwakeWindow}, LastIn(body, Switches(t), Starts(t))
      PROVE  Timed(queue, t)'
  BY <1>2, <1>4 DEF Timed, Settles, Starts
<1>5. ASSUME state' = "Grace" PROVE Timed(queue, Grace)'
  <2>1. CASE LastIn(body, Switches(Grace), Starts(Grace))
    BY <1>4, <2>1
  <2>2. CASE Free(body, Switches(Grace)) /\ state = "Grace" /\ state \in old
    BY <1>3, <2>2 DEF Waits, WaitsForTimer
  <2> QED
    BY <1>1, <1>5, <2>1, <2>2 DEF Times, Starts
<1>6. ASSUME state' = "Checking" PROVE Timed(queue, AwakeWindow)'
  <2>1. CASE LastIn(body, Switches(AwakeWindow), Starts(AwakeWindow))
    BY <1>4, <2>1
  <2>2. CASE Free(body, Switches(AwakeWindow)) /\ state = "Checking" /\ state \in old
    BY <1>3, <2>2 DEF Waits, WaitsForTimer
  <2> QED
    BY <1>1, <1>6, <2>1, <2>2 DEF Times, Starts
<1>7. ASSUME state' = "Armed"
      PROVE  \/ Timed(queue, AwakeWindow)' \/ Has(queue', "ScheduleWake")
             \/ Has(queue', "Suspend") \/ UnderWay'
  <2>1. CASE LastIn(body, Switches(AwakeWindow), Starts(AwakeWindow))
    BY <1>4, <2>1
  <2>2. CASE Free(body, Switches(AwakeWindow)) /\ state = "Armed" /\ state \in old
    BY <1>2, <1>3, <2>2 DEF Waits, WaitsForAlarm
  <2> QED
    BY <1>1, <1>2, <1>7, <2>1, <2>2 DEF Times, Starts
<1>8. ASSUME state' = "Suspending"
      PROVE  Has(queue', "Suspend") \/ UnderWay' \/ suspendFrom' = "Suspending"
  <2>1. CASE state = "Suspending" /\ state \in old /\ suspendFrom' = suspendFrom
    BY <1>2, <2>1 DEF Waits, WaitsForFate
  <2> QED
    BY <1>1, <1>2, <1>8, <2>1 DEF Times
<1> QED
  BY <1>5, <1>6, <1>7, <1>8 DEF Waits, WaitsForTimer, WaitsForAlarm, WaitsForFate

\* Which commands are about timer t.
LEMMA TimerOps ==
  ASSUME NEW c \in Command, NEW t \in {Grace, AwakeWindow}
  PROVE  /\ c \in Switches(t) => c.op \in {"StartTimer", "CancelTimer"} /\ c.id = t
         /\ c.op \in {"StartTimer", "CancelTimer"} /\ c.id = t => c \in Switches(t)
         /\ c \in Starts(t) => c.op = "StartTimer" /\ c.id = t
         /\ Starts(t) \subseteq Switches(t)
<1>1. c.op = "StartTimer" /\ c.id = t => c = StartTimer(t)
  BY DEF Command, StartTimer
<1>2. c.op = "CancelTimer" /\ c.id = t => c = CancelTimer(t)
  BY DEF Command, CancelTimer
<1>3. c \in Switches(t) => c.op \in {"StartTimer", "CancelTimer"} /\ c.id = t
  BY KindsOps
<1>4. c \in Starts(t) => c.op = "StartTimer" /\ c.id = t
  BY DEF Starts, StartTimer
<1> QED
  BY <1>1, <1>2, <1>3, <1>4 DEF Switches, Starts

\* The rest of the queue, when the command that is executed is a timer's or not.
LEMMA TimedRest ==
  ASSUME Sorted, queue # <<>>, NEW t \in {Grace, AwakeWindow}, Timed(queue, t),
         timers' = IF Now.op = "StartTimer" THEN timers \cup {Now.id}
                   ELSE IF Now.op = "CancelTimer" THEN timers \ {Now.id} ELSE timers
  PROVE  Settles(Rest, Switches(t), Starts(t), t \in timers')
<1>1. /\ Now \in Switches(t) => Now.op \in {"StartTimer", "CancelTimer"} /\ Now.id = t
      /\ Now.op \in {"StartTimer", "CancelTimer"} /\ Now.id = t => Now \in Switches(t)
      /\ Now \in Starts(t) => Now.op = "StartTimer" /\ Now.id = t
  BY NowTyped, TimerOps
<1>2. /\ LastIn(queue, Switches(t), Starts(t)) => LastIn(Rest, Switches(t), Starts(t))
              \/ (Now \in Starts(t) /\ Free(Rest, Switches(t)))
      /\ Free(queue, Switches(t)) => Now \notin Switches(t) /\ Free(Rest, Switches(t))
  BY RestSays
<1>3. CASE LastIn(queue, Switches(t), Starts(t))
  BY <1>1, <1>2, <1>3 DEF Settles
<1>4. CASE Free(queue, Switches(t)) /\ t \in timers
  <2>1. Now.op \in {"StartTimer", "CancelTimer"} => Now.id # t
    BY <1>1, <1>2, <1>4
  <2>2. t \in timers'
    BY <1>4, <2>1
  <2> QED
    BY <1>2, <1>4, <2>2 DEF Settles
<1> QED
  BY <1>3, <1>4 DEF Timed, Settles

\* What is sent to the main loop is added to what it has.
LEMMA SendsSay ==
  ASSUME Sorted, NEW e \in Events \cup Reports, events' = Append(events, e)
  PROVE  /\ ~Free(events, Fates) \/ e.event \in Outcomes => ~Free(events', Fates)
         /\ e.event = "Resumed" => LastIn(events', Moves, Wakings)
         /\ e.event \notin {"Suspending", "Resumed"} =>
               /\ Free(events, Moves) => Free(events', Moves)
               /\ LastIn(events, Moves, Wakings) => LastIn(events', Moves, Wakings)
<1>1. events \in Seq(Events \cup Reports)
  BY DEF Sorted, Sorts
<1>2. /\ e.event \in Outcomes => e \in Fates
      /\ e.event = "Resumed" => e \in Wakings
      /\ e.event \notin {"Suspending", "Resumed"} => e \notin Moves
  BY DEF Fates, Wakings, Moves
<1> QED
  BY <1>1, <1>2, ChannelSends

\* Whoever works elsewhere passes a suspend on, and the wake after it.
LEMMA WakeElsewhere ==
  ASSUME Sorted, Elsewhere, alive
  PROVE  /\ UnderWay => UnderWay'
         /\ WaitsForWake => WaitsForWake'
<1>0. /\ events \in Seq(Events \cup Reports) /\ requests \in Seq(Requests)
      /\ signals \in Seq(BOOLEAN) /\ machine \in {"up", "preparing", "asleep"}
  BY DEF Sorted, Sorts
<1>1. Dozes' = Dozes
  BY ElsewhereKeeps DEF Dozes
<1>2. ASSUME machine' # "up" PROVE UnderWay' /\ WaitsForWake'
  BY <1>2 DEF UnderWay, WaitsForWake
<1>3. ASSUME NEW e \in Events \cup Reports, events' = Append(events, e),
             e.event \notin {"Suspending", "Resumed"}, UNCHANGED <<machine, signals>>
      PROVE  WaitsForWake => WaitsForWake'
  BY <1>1, <1>3, SendsSay DEF WaitsForWake, Settles
<1>4. CASE \E e \in Events : Arrives(e)
  <2>1. PICK e \in Events : Arrives(e)
    BY <1>4
  <2>2. events' = Append(events, e) /\ UNCHANGED <<requests, signals, machine>>
    BY <2>1 DEF Arrives, machineVars
  <2>3. e.event \notin {"Suspending", "Resumed"} /\ e \in Events \cup Reports
    BY DaemonAssumption
  <2> QED
    BY <1>3, <2>2, <2>3, SendsSay DEF UnderWay
<1>5. CASE ExecuteRequest
  <2>1. requests # <<>> /\ requests' = Tail(requests)
    BY <1>5 DEF ExecuteRequest
  <2>2. CASE Prepares
    BY <1>2, <2>2 DEF Prepares
  <2>3. CASE /\ UNCHANGED <<machine, signals>>
             /\ \/ events' = events /\ Head(requests).request = "PowerOff"
                \/ \E e \in Reports :
                      /\ events' = Append(events, e)
                      /\ e.event \notin {"Suspending", "Resumed"}
                      /\ e.event \in Outcomes \/ Head(requests).request = "PowerOff"
    <3>1. Head(requests).request = "PowerOff" => Head(requests) \notin Sleeps
      BY DEF Sleeps
    <3>2. ~Free(requests, Sleeps) =>
             Head(requests) \in Sleeps \/ ~Free(requests', Sleeps)
      BY <1>0, <2>1, ChannelTakes
    <3>3. CASE events' = events /\ Head(requests).request = "PowerOff"
      BY <1>1, <2>3, <3>1, <3>2, <3>3 DEF UnderWay, WaitsForWake
    <3>4. ASSUME NEW e \in Reports, events' = Append(events, e),
                 e.event \notin {"Suspending", "Resumed"},
                 e.event \in Outcomes \/ Head(requests).request = "PowerOff"
          PROVE  (UnderWay => UnderWay') /\ (WaitsForWake => WaitsForWake')
      BY <1>3, <2>3, <3>1, <3>2, <3>4, SendsSay DEF UnderWay
    <3> QED
      BY <2>3, <3>3, <3>4
  <2>4. /\ [event |-> "SleepBlocked", blocked |-> TRUE] \in Reports
        /\ [event |-> "SleepFailed"] \in Reports
        /\ [event |-> "ShutdownRequested"] \in Reports
    BY DEF Reports
  <2>5. \/ Prepares
        \/ /\ UNCHANGED <<machine, signals>>
           /\ \/ events' = events /\ Head(requests).request = "PowerOff"
              \/ events' = Append(events, [event |-> "SleepBlocked", blocked |-> TRUE])
              \/ events' = Append(events, [event |-> "SleepFailed"])
              \/ /\ events' = Append(events, [event |-> "ShutdownRequested"])
                 /\ Head(requests).request = "PowerOff"
    BY <1>5 DEF ExecuteRequest, Refuses, Sends, machineVars
  <2> QED
    BY <2>2, <2>3, <2>4, <2>5 DEF Outcomes
<1>6. CASE OutsideSuspend
  BY <1>2, <1>6 DEF OutsideSuspend, Prepares
<1>7. CASE FallAsleep
  BY <1>2, <1>7 DEF FallAsleep
<1>8. CASE AlarmWakes \/ UserWakes
  <2>1. signals' = Append(signals, FALSE)
    BY <1>8 DEF AlarmWakes, UserWakes, Wakes
  <2>2. LastIn(signals', BOOLEAN, {FALSE}) /\ signals' # <<>>
    <3>1. FALSE \in BOOLEAN /\ FALSE \in {FALSE}
      OBVIOUS
    <3>2. LastIn(Append(signals, FALSE), BOOLEAN, {FALSE})
      BY <1>0, <3>1, ChannelSends, Zenon
    <3> QED
      BY <2>1, <3>2, EmptySays
  <2> QED
    BY <2>2 DEF UnderWay, WaitsForWake
<1>9. CASE SaveState \/ UNCHANGED daemonVars
  <2>1. UNCHANGED <<events, requests, signals, machine>>
    BY <1>9 DEF SaveState, daemonVars, machineVars
  <2> QED
    BY <1>1, <2>1 DEF UnderWay, WaitsForWake
<1>10. CASE ReportSleep
  <2>1. /\ signals # <<>> /\ Head(signals) /\ signals' = Tail(signals)
        /\ events' = Append(events, [event |-> "Suspending"]) /\ machine' = machine
    BY <1>10 DEF ReportSleep, Sends
  <2>2. UnderWay'
    <3> DEFINE e == [event |-> "Suspending"]
    <3>1. e \in Events \cup Reports /\ e.event \in Outcomes
      BY DEF Reports, Outcomes
    <3>2. events' = Append(events, e)
      BY <2>1
    <3> HIDE DEF e
    <3>3. ~Free(events', Fates)
      BY <3>1, <3>2, SendsSay
    <3> QED
      BY <3>3 DEF UnderWay
  <2>3. LastIn(signals, BOOLEAN, {FALSE}) => LastIn(signals', BOOLEAN, {FALSE})
    <3>1. Head(signals) \notin {FALSE}
      BY <2>1
    <3> QED
      BY <1>0, <2>1, <3>1, LastTail
  <2> QED
    BY <2>1, <2>2, <2>3 DEF WaitsForWake
<1>11. CASE ReportWake
  <2>1. /\ signals # <<>> /\ signals' = Tail(signals)
        /\ events' = Append(events, [event |-> "Resumed"]) /\ machine' = machine
    BY <1>11 DEF ReportWake, Sends
  <2>2. UnderWay' /\ LastIn(events', Moves, Wakings)
    <3> DEFINE e == [event |-> "Resumed"]
    <3>1. e \in Events \cup Reports /\ e.event = "Resumed" /\ e.event \in Outcomes
      BY DEF Reports, Outcomes
    <3>2. events' = Append(events, e)
      BY <2>1
    <3> HIDE DEF e
    <3>3. ~Free(events', Fates) /\ LastIn(events', Moves, Wakings)
      BY <3>1, <3>2, SendsSay
    <3> QED
      BY <3>3 DEF UnderWay
  <2>3. LastIn(signals, BOOLEAN, {FALSE}) =>
           LastIn(signals', BOOLEAN, {FALSE}) \/ signals' = <<>>
    <3>1. signals' \in Seq(BOOLEAN)
      BY <1>0, <2>1, TailTyped
    <3> QED
      BY <1>0, <2>1, <3>1, LastTail, FreeOfAll
  <2> QED
    BY <2>1, <2>2, <2>3 DEF WaitsForWake, Settles
<1> QED
  BY <1>4, <1>5, <1>6, <1>7, <1>8, <1>9, <1>10, <1>11 DEF Elsewhere

LEMMA WaitsExecute ==
  ASSUME Sorted, WaitInv, Execute, ~Ends
  PROVE  WaitInv'
<1>0. Executes /\ alive /\ queue # <<>> /\ Now \in Command
  <2>1. Executes
    BY SortedExecute
  <2>2. alive /\ queue # <<>>
    BY DEF Execute, RunTimer, RunPanel, RunBroadcast, RunOther, RunSuspend,
       RunPowerOff, RunScheduleWake, RunCancelWake, RunReload, RunShutdown, Executing,
       Running
  <2> QED
    BY <2>1, <2>2, NowTyped
<1>1. /\ UNCHANGED <<events, signals, machine>>
      /\ timers' = IF Now.op = "StartTimer" THEN timers \cup {Now.id}
                   ELSE IF Now.op = "CancelTimer" THEN timers \ {Now.id} ELSE timers
  <2>1. UNCHANGED <<events, signals, machine>>
    BY DEF Execute, RunTimer, RunPanel, RunBroadcast, RunOther, RunSuspend,
       RunPowerOff, RunScheduleWake, RunCancelWake, RunReload, RunShutdown, machineVars
  <2>2. CASE RunTimer
    BY <2>1, <2>2 DEF RunTimer, Executing, Now
  <2>3. CASE ~RunTimer
    <3>1. timers' = timers /\ Now.op \notin {"StartTimer", "CancelTimer"}
      BY <2>3 DEF Execute, RunPanel, RunBroadcast, RunOther, RunSuspend,
         RunPowerOff, RunScheduleWake, RunCancelWake, RunReload, RunShutdown, Executing,
         Now
    <3> QED
      BY <2>1, <3>1
  <2> QED
    BY <2>2, <2>3
<1>2. /\ UnderWay => UnderWay'
      /\ RunSuspend /\ Fits => UnderWay'
  <2>1. requests \in Seq(Requests)
    BY DEF Sorted, Sorts
  <2>2. CASE RunSuspend
    <3>1. Sleep(Now) \in Requests /\ Sleep(Now) \in Sleeps
      <4>1. Now.force \in BOOLEAN
        BY <2>2, NowTyped DEF RunSuspend, Executing, Now
      <4>2. config.respectInhibitors \in BOOLEAN
        BY SortedBase, ConfigValid DEF Base, Valid, Config
      <4> QED
        BY <4>1, <4>2 DEF Sleep, Requests, Sleeps
    <3>2. ~Free(Append(requests, Sleep(Now)), Sleeps)
      BY <2>1, <3>1, ChannelSends
    <3>3. \/ requests' = Append(requests, Sleep(Now))
          \/ requests' = requests /\ ~Fits
      BY <2>2 DEF RunSuspend
    <3> QED
      BY <1>1, <3>2, <3>3 DEF UnderWay
  <2>3. CASE RunPowerOff
    <3>1. PowerOff \in Requests
      BY DEF PowerOff, Requests
    <3>2. ~Free(requests, Sleeps) => ~Free(requests', Sleeps)
      BY <2>1, <2>3, <3>1, ChannelSends DEF RunPowerOff
    <3> QED
      BY <1>1, <2>3, <3>2 DEF UnderWay, RunPowerOff, RunSuspend, Executing
  <2>4. CASE ~RunSuspend /\ ~RunPowerOff
    <3>1. requests' = requests
      BY <2>4 DEF Execute, RunTimer, RunPanel, RunBroadcast, RunOther,
         RunScheduleWake, RunCancelWake, RunReload, RunShutdown
    <3> QED
      BY <1>1, <2>4, <3>1 DEF UnderWay
  <2> QED
    BY <2>2, <2>3, <2>4
<1>3. Waits(queue) /\ WaitsForWake
  BY <1>0 DEF WaitInv
<1>4. ASSUME Wakeful PROVE WaitsForWake'
  BY <1>1, <1>3, <1>4 DEF WaitsForWake, Settles, Wakeful
<1>5. /\ Has(queue, "Suspend") /\ Now.op # "Suspend" => Has(Rest, "Suspend")
      /\ Has(queue, "ScheduleWake") /\ Now.op # "ScheduleWake" => Has(Rest, "ScheduleWake")
  BY <1>0, RestSays
<1>6. \A t \in {Grace, AwakeWindow} :
         Timed(queue, t) => Settles(Rest, Switches(t), Starts(t), t \in timers')
  BY <1>0, <1>1, TimedRest
<1>7. CASE Done /\ Wakeful /\ (RunSuspend => Fits) /\ ~RunScheduleWake
  <2>1. queue' = Rest /\ state' = state /\ suspendFrom' = suspendFrom
    BY <1>7 DEF Done, engineVars, sleepVars
  <2>2. Now.op = "Suspend" => UnderWay'
    <3>1. Now.op = "Suspend" => RunSuspend
      BY DEF Execute, RunTimer, RunPanel, RunBroadcast, RunOther,
         RunPowerOff, RunScheduleWake, RunCancelWake, RunReload, RunShutdown, Executing,
         Now
    <3> QED
      BY <1>2, <1>7, <3>1
  <2>3. Now.op # "ScheduleWake"
    BY <1>7 DEF Execute, RunTimer, RunPanel, RunBroadcast, RunOther, RunSuspend,
       RunPowerOff, RunCancelWake, RunReload, RunShutdown, Executing, Now
  <2>4. \A t \in {Grace, AwakeWindow} : Timed(queue, t) => Timed(queue, t)'
    BY <1>6, <2>1 DEF Timed
  <2>5. Waits(queue)'
    BY <1>2, <1>3, <1>5, <2>1, <2>2, <2>3, <2>4
       DEF Waits, WaitsForTimer, WaitsForAlarm, WaitsForFate
  <2> QED
    BY <1>4, <1>7, <2>5 DEF WaitInv
\* The engine is told: what waits as before still has what it waited for.
<1>8. ASSUME NEW old, Goes(Rest, old), timers' = timers, Wakeful,
             Now.op \notin {"StartTimer", "CancelTimer"},
             Now.op = "Suspend" => "Suspending" \notin old /\ "Armed" \notin old,
             Now.op = "ScheduleWake" => "Armed" \notin old
      PROVE  WaitInv'
  <2>1. \A t \in {Grace, AwakeWindow} : Timed(queue, t) => Timed(Rest, t)
    BY <1>6, <1>8 DEF Timed
  <2>2. state \in old => Waits(Rest)
    BY <1>3, <1>5, <1>8, <2>1
       DEF Waits, WaitsForTimer, WaitsForAlarm, WaitsForFate
  <2>3. Waits(queue)'
    BY <1>2, <1>8, <2>2, WaitsGoes
  <2> QED
    BY <1>4, <1>8, <2>3 DEF WaitInv
<1>9. CASE RunSuspend /\ Goes(Rest, States \ {"Armed", "Suspending"}) /\ Wakeful
  <2>1. Now.op = "Suspend" /\ timers' = timers
    BY <1>9 DEF RunSuspend, Executing, Now
  <2> QED
    BY <1>8, <1>9, <2>1
<1>10. CASE RunScheduleWake /\ Goes(Rest, States \ {"Armed"}) /\ Wakeful
  <2>1. Now.op = "ScheduleWake" /\ timers' = timers
    BY <1>10 DEF RunScheduleWake, Executing, Now
  <2> QED
    BY <1>8, <1>10, <2>1
<1>11. CASE RunReload /\ Rest = <<>> /\ Goes(<<>>, States) /\ Wakeful
  <2>1. Now.op = "Reload" /\ timers' = timers
    BY <1>11 DEF RunReload, Executing, Now
  <2> QED
    BY <1>8, <1>11, <2>1
<1> QED
  BY <1>0, <1>7, <1>9, <1>10, <1>11 DEF Executes

LEMMA WaitStep ==
  ASSUME Sorted, WaitInv, [DaemonNext]_daemonVars
  PROVE  WaitInv'
<1>0. CASE Execute /\ ~Ends
  BY <1>0, WaitsExecute
<1>1. CASE TakeEvent
  <2> DEFINE e == Head(events)
  <2>1. /\ queue = <<>> /\ alive /\ events # <<>> /\ events' = Tail(events)
        /\ UNCHANGED <<requests, timers, signals, machine>>
    BY <1>1 DEF TakeEvent, Takes, Running, machineVars
  <2>2. Takes1(e)
    BY <1>1, SortedTakeEvent
  <2>3. Waits(<<>>) /\ WaitsForWake /\ events \in Seq(Events \cup Reports)
    BY <2>1 DEF WaitInv, Sorted, Sorts
  <2>4. e \in Events \cup Reports
    BY <2>1, <2>3, TailAt
  <2> HIDE DEF e
  <2>5. e.event \notin Outcomes => (UnderWay => UnderWay')
    <3>1. ~Free(events, Fates) => e \in Fates \/ ~Free(events', Fates)
      BY <2>1, <2>3, ChannelTakes DEF e
    <3> QED
      BY <2>1, <3>1 DEF UnderWay, Fates
  <2>6. Waits(queue)'
    <3>1. ASSUME NEW old, Goes(<<>>, old),
                 state \in old /\ state \in {"Armed", "Suspending"} => (UnderWay => UnderWay')
          PROVE  Waits(queue)'
      BY <2>1, <2>3, <3>1, WaitsGoes
    <3> QED
      BY <2>2, <2>5, <3>1 DEF Takes1
  <2>7. WaitsForWake'
    <3>1. SUFFICES ASSUME machine = "up"
          PROVE  \/ LastIn(signals, BOOLEAN, {FALSE})
                 \/ signals = <<>> /\ Settles(events', Moves, Wakings, ~Dozes')
      BY <2>1 DEF WaitsForWake
    <3>2. SUFFICES ASSUME Settles(events, Moves, Wakings, ~Dozes)
          PROVE  Settles(events', Moves, Wakings, ~Dozes')
      BY <2>3, <3>1 DEF WaitsForWake
    <3>3. /\ e \in Wakings => e.event = "Resumed"
          /\ e \notin Moves => e.event \notin {"Suspending", "Resumed"}
      BY <2>4 DEF Wakings, Moves
    <3>4. CASE LastIn(events, Moves, Wakings)
      <4>1. LastIn(events', Moves, Wakings) \/ (e \in Wakings /\ Free(events', Moves))
        BY <2>1, <2>3, <3>4, LastTail DEF e
      <4> QED
        BY <2>2, <3>3, <4>1 DEF Settles, Takes1, Outcomes
    <3>5. CASE Free(events, Moves) /\ ~Dozes
      <4>1. e \notin Moves /\ Free(events', Moves)
        BY <2>1, <2>3, <3>5, FreeTail DEF e
      <4>2. ~Dozes'
        BY <2>2, <3>3, <3>5, <4>1 DEF Takes1, Wakeful
      <4> QED
        BY <4>1, <4>2 DEF Settles
    <3> QED
      BY <3>2, <3>4, <3>5 DEF Settles
  <2> QED
    BY <2>6, <2>7 DEF WaitInv
<1>2. ASSUME NEW t \in Timers, TakeTimer(t) PROVE WaitInv'
  <2>1. /\ queue = <<>> /\ alive /\ timers' = timers \ {t}
        /\ UNCHANGED <<events, requests, signals, machine>>
    BY <1>2 DEF TakeTimer, Takes, Running, machineVars
  <2>2. Goes(<<>>, Unarmed(t)) /\ Wakeful
    BY <1>2, SortedTakeTimer
  <2>3. Waits(<<>>) /\ WaitsForWake /\ (UnderWay => UnderWay')
    BY <2>1 DEF WaitInv, UnderWay
  <2>4. Waits(queue)'
    <3>1. /\ state = "Grace" /\ state \in Unarmed(t) => t # Grace
          /\ state \in {"Armed", "Checking"} /\ state \in Unarmed(t) => t # AwakeWindow
      BY DEF Unarmed, Grace, AwakeWindow
    <3> QED
      BY <2>1, <2>2, <2>3, <3>1, WaitsGoes
  <2>5. WaitsForWake'
    BY <2>1, <2>2, <2>3 DEF WaitsForWake, Settles, Wakeful
  <2> QED
    BY <2>4, <2>5 DEF WaitInv
<1>3. CASE Ends
  BY <1>3 DEF Ends, WaitInv
<1>4. CASE Restart
  <2>1. /\ state' \in {"Active", "Checking"}
        /\ Boots(queue', config', mode', InCycle')
    BY <1>4, StartedRestart DEF Started
  <2>2. events' = <<>> /\ signals' = <<>>
    BY <1>4 DEF Restart, Sorted, Sorts, Stopped
  <2>3. WaitsForWake'
    BY <2>1, <2>2, EmptySays DEF WaitsForWake, Settles, Dozes
  <2>4. state' = "Checking" => Timed(queue, AwakeWindow)'
    BY <2>1 DEF Boots, InCycle, Phases, Timed, Settles, Starts
  <2> QED
    BY <2>1, <2>3, <2>4 DEF WaitInv, Waits, WaitsForTimer, WaitsForAlarm, WaitsForFate
<1>5. CASE Elsewhere
  <2>1. /\ queue' = queue /\ alive' = alive /\ state' = state
        /\ suspendFrom' = suspendFrom /\ timers' = timers
    BY <1>5, ElsewhereKeeps
  <2>2. CASE alive
    <3>1. (UnderWay => UnderWay') /\ (WaitsForWake => WaitsForWake')
      BY <1>5, <2>2, WakeElsewhere
    <3> QED
      BY <2>1, <2>2, <3>1 DEF WaitInv, Waits, WaitsForTimer, WaitsForAlarm,
         WaitsForFate, Timed
  <2>3. CASE ~alive
    BY <2>1, <2>3 DEF WaitInv
  <2> QED
    BY <2>2, <2>3
<1> QED
  BY <1>0, <1>1, <1>2, <1>3, <1>4, <1>5, StepKinds

LEMMA WaitInit == ASSUME DaemonInit PROVE WaitInv
<1>1. /\ state \in {"Active", "Checking"}
      /\ Boots(queue, config, mode, InCycle)
  BY StartedInit DEF Started
<1>2. events = <<>> /\ signals = <<>>
  BY DEF DaemonInit
<1>3. WaitsForWake
  BY <1>1, <1>2, EmptySays DEF WaitsForWake, Settles, Dozes
<1>4. state = "Checking" => Timed(queue, AwakeWindow)
  BY <1>1 DEF Boots, InCycle, Phases, Timed, Settles, Starts
<1> QED
  BY <1>1, <1>3, <1>4 DEF WaitInv, Waits, WaitsForTimer, WaitsForAlarm, WaitsForFate

\* What the invariant finds in the channels is what NeverStuck asks for.
LEMMA WaitsSay ==
  ASSUME WaitInv, ~(state = "Suspending" /\ suspendFrom = "Suspending")
  PROVE  NeverStuck
<1>1. SUFFICES ASSUME alive PROVE NeverStuck
  BY DEF NeverStuck
<1>2. Waits(queue) /\ WaitsForWake
  BY <1>1 DEF WaitInv
<1>3. ASSUME NEW t, Timed(queue, t) PROVE TimerStarts(t)
  BY <1>3 DEF Timed, Settles, LastIn, Starts, TimerStarts
<1>4. Has(queue, "Suspend") \/ UnderWay => SleepComes
  BY DEF Has, UnderWay, Free, Fates, Sleeps, SleepComes, Queued, Coming, Outcomes
<1>5. Has(queue, "ScheduleWake") => Queued("ScheduleWake")
  BY DEF Has, Queued
<1>6. LastIn(signals, BOOLEAN, {FALSE}) => signals # <<>>
  BY EmptySays
<1>7. LastIn(events, Moves, Wakings) => Coming({"Resumed"})
  BY DEF LastIn, Wakings, Coming
<1>8. state \in {"LongSleeping", "Sleeping"} =>
         machine # "up" \/ signals # <<>> \/ Coming({"Resumed"})
  BY <1>2, <1>6, <1>7 DEF WaitsForWake, Settles, Dozes
<1> QED
  BY <1>2, <1>3, <1>4, <1>5, <1>8
     DEF Waits, WaitsForTimer, WaitsForAlarm, WaitsForFate, NeverStuck

\* No state that waits is left with nothing to wait for: every timer a state
\* needs runs or is about to, and every suspend that was asked for is answered,
\* whatever is refused, lost or overtaken on the way (core.rs, begin_suspend,
\* on_sleep_blocked, on_wake_scheduled, on_resumed; logind.rs, executor and
\* sleep_listener).  But for a sleep asked for while one is under way: its
\* refusal goes back to Suspending (begin_suspend, suspend_from = state).
THEOREM NeverStuckHolds ==
    DaemonSpec => [](NeverStuck \/ (state = "Suspending" /\ suspendFrom = "Suspending"))
<1>1. DaemonInit => WaitInv
  BY WaitInit
<1>2. Sorted /\ WaitInv /\ [DaemonNext]_daemonVars => WaitInv'
  BY WaitStep
<1>3. WaitInv => NeverStuck \/ (state = "Suspending" /\ suspendFrom = "Suspending")
  BY WaitsSay
<1> QED
  BY SortedAlways, <1>1, <1>2, <1>3, PTL DEF DaemonSpec

-----------------------------------------------------------------------------
(* At most one command that sleeps, powers off or sets the alarm is in the  *)
(* queue, and the state of the engine says which.                           *)

Due(c) ==
    \/ state = "Armed" /\ c \in {Do("ScheduleWake"), Suspend("Configured", FALSE)}
    \/ state = "Checking" /\ c \in {Suspend("Hibernate", TRUE), Do("PowerOff")}
    \/ state = "Suspending" /\ \E f \in BOOLEAN : c = Suspend("Configured", f)

OrderInv ==
    /\ queue \in Seq(Calm) \/ \E c : Due(c) /\ Lone(queue, c)
    /\ state \in {"Armed", "LongSleeping"} => queue \in Seq(Bare)

LEMMA DueCommands ==
  ASSUME NEW c, Due(c)
  PROVE  /\ c \notin Calm /\ c.op \in {"ScheduleWake", "Suspend", "PowerOff"}
         /\ c.op = "ScheduleWake" => state = "Armed" /\ c = Do("ScheduleWake")
         /\ c.op = "PowerOff" => state = "Checking"
         /\ c.op = "Suspend" /\ state = "Armed" => c = Suspend("Configured", FALSE)
<1>1. CASE c = Do("ScheduleWake") /\ state = "Armed"
  BY <1>1, NotCalm DEF Do
<1>2. CASE c = Do("PowerOff") /\ state = "Checking"
  BY <1>2, NotCalm DEF Do
<1>3. CASE c = Suspend("Hibernate", TRUE) /\ state = "Checking"
  BY <1>3, NotCalm DEF Suspend
<1>4. CASE state = "Armed" /\ c = Suspend("Configured", FALSE)
  BY <1>4, NotCalm DEF Suspend
<1>5. ASSUME state = "Suspending", NEW f \in BOOLEAN, c = Suspend("Configured", f)
      PROVE  c \notin Calm /\ c.op = "Suspend"
  BY <1>5, NotCalm DEF Suspend
<1> QED
  BY <1>1, <1>2, <1>3, <1>4, <1>5 DEF Due

LEMMA CalmSays ==
  ASSUME NEW q \in Seq(Calm)
  PROVE  ~Has(q, "Suspend") /\ ~Has(q, "ScheduleWake")
BY DEF Has, Calm

LEMMA LoneSays ==
  ASSUME NEW c, NEW q, Lone(q, c), NEW op \in {"Suspend", "ScheduleWake"}, c.op # op
  PROVE  ~Has(q, op)
BY DEF Has, Lone, Calm

\* The only command of its kind is left for later, or has gone.
LEMMA LoneTail ==
  ASSUME NEW c, c \notin Calm, NEW q, Lone(q, c), q # <<>>
  PROVE  /\ Head(q) = c => Tail(q) \in Seq(Calm)
         /\ Head(q) # c => Head(q) \in Calm /\ Lone(Tail(q), c)
<1> DEFINE S == Calm \cup {c}
<1>1. q \in Seq(S) /\ \A i, j \in 1..Len(q) : q[i] = c /\ q[j] = c => i = j
  BY DEF Lone
<1>2. /\ Head(q) \in S /\ Head(q) = q[1] /\ 1 \in 1..Len(q)
      /\ Tail(q) \in Seq(S) /\ Len(Tail(q)) = Len(q) - 1
      /\ \A i \in 1..Len(Tail(q)) : Tail(q)[i] = q[i + 1] /\ i + 1 \in 1..Len(q)
  BY <1>1, TailAt
<1>3. ASSUME Head(q) = c PROVE Tail(q) \in Seq(Calm)
  <2>1. ASSUME NEW i \in 1..Len(Tail(q)) PROVE Tail(q)[i] \in Calm
    <3>1. i + 1 # 1
      OBVIOUS
    <3>2. q[i + 1] # c
      BY <1>1, <1>2, <1>3, <3>1
    <3>3. Tail(q)[i] \in S /\ Tail(q)[i] = q[i + 1]
      BY <1>2
    <3> QED
      BY <3>2, <3>3
  <2> DEFINE t == Tail(q)
  <2>2. t \in Seq(S) /\ \A i \in 1..Len(t) : t[i] \in Calm
    BY <1>2, <2>1
  <2> HIDE DEF t, S
  <2>3. t \in Seq(Calm)
    BY <2>2
  <2> QED
    BY <2>3 DEF t
<1>4. ASSUME NEW i \in 1..Len(Tail(q)), NEW j \in 1..Len(Tail(q)),
             Tail(q)[i] = c, Tail(q)[j] = c
      PROVE  i = j
  <2>1. i + 1 = j + 1
    BY <1>1, <1>2, <1>4
  <2> QED
    BY <2>1
<1> QED
  BY <1>2, <1>3, <1>4 DEF Lone

\* What is executed, and what that leaves.
LEMMA OrderRest ==
  ASSUME OrderInv, queue # <<>>
  PROVE  /\ Now \in Calm => Rest \in Seq(Calm) \/ \E c : Due(c) /\ Lone(Rest, c)
         /\ Now \notin Calm => Due(Now) /\ Rest \in Seq(Calm)
         /\ state \in {"Armed", "LongSleeping"} => Now \in Bare /\ Rest \in Seq(Bare)
<1>1. CASE queue \in Seq(Calm)
  <2>1. Now \in Calm /\ Rest \in Seq(Calm)
    BY <1>1, TailAt DEF Now, Rest
  <2> QED
    BY <2>1, TailAt DEF Now, Rest, OrderInv
<1>2. ASSUME NEW c, Due(c), Lone(queue, c)
      PROVE  /\ Now \in Calm => Lone(Rest, c)
             /\ Now \notin Calm => Now = c /\ Rest \in Seq(Calm)
  BY <1>2, DueCommands, LoneTail DEF Now, Rest
<1>3. state \in {"Armed", "LongSleeping"} => Now \in Bare /\ Rest \in Seq(Bare)
  BY TailAt DEF Now, Rest, OrderInv
<1> QED
  BY <1>1, <1>2, <1>3 DEF OrderInv

\* Once a handler has said what it says.
LEMMA OrderSaid ==
  ASSUME Warranted \/ SleepsArmed \/ ArmsAnew,
         state' \in {"Armed", "LongSleeping"} => queue' \in Seq(Bare)
  PROVE  OrderInv'
<1>1. CASE Quiet
  BY <1>1 DEF Quiet, OrderInv
<1>2. CASE AsksForSleep
  <2>1. PICK f \in BOOLEAN :
           state' = "Suspending" /\ Lone(queue', Suspend("Configured", f))
    BY <1>2 DEF AsksForSleep
  <2> QED
    BY <2>1 DEF OrderInv, Due
<1>3. CASE ActsCritical
  BY <1>3 DEF ActsCritical, OrderInv, Due
<1>4. CASE SleepsArmed \/ ArmsAnew
  BY <1>4 DEF SleepsArmed, ArmsAnew, OrderInv, Due
<1> QED
  BY <1>1, <1>2, <1>3, <1>4 DEF Warranted

\* A suspend that cannot be asked for, an attempt that cannot be armed.
LEMMA FailedState ==
  /\ \A out : OnSleepFailed(out) => state' \in {state, "Active"}
  /\ \A armed, out : OnWakeScheduled(armed, out) => state' \in {state, "Active"}
<1>1. ASSUME NEW out, NEW reply, CycleFailure(out, reply) PROVE state' \in {state, "Active"}
  BY <1>1, BecomeState, LeaveCycleState DEF CycleFailure
<1>2. ASSUME NEW out, Answer(out) PROVE state' = state
  BY <1>2 DEF Answer, engineVars
<1>3. ASSUME NEW out, OnSleepFailed(out) PROVE state' \in {state, "Active"}
  <2>1. CASE state = "Suspending" /\ OnActivity(out, <<>>)
    BY <2>1, BecomeState DEF OnActivity
  <2> QED
    BY <1>1, <1>2, <1>3, <2>1 DEF OnSleepFailed
<1>4. ASSUME NEW armed, NEW out, OnWakeScheduled(armed, out)
      PROVE  state' \in {state, "Active"}
  BY <1>1, <1>2, <1>4, BecomeState, PowerIsBackState DEF OnWakeScheduled
<1> QED
  BY <1>3, <1>4

\* Everything the main loop executes, as far as sleep is concerned.
Passes ==
    /\ Done /\ Now.op \notin {"Suspend", "ScheduleWake", "PowerOff", "CancelWake"}
    /\ UNCHANGED <<requests, planner, saved>>
Asks == RunSuspend /\ Fits /\ Done
Fails == RunSuspend /\ OnSleepFailed(Rest) /\ UNCHANGED requests
Reloads1 == RunReload /\ Rest = <<>>
              /\ \E c \in Configs : SetConfig(c, Now.replyTo, <<>>)
Deeds ==
    \/ Passes \/ Asks \/ Fails \/ RunPowerOff \/ RunScheduleWake \/ RunCancelWake \/ Reloads1

LEMMA ExecuteDeeds ==
  ASSUME Sorted, Execute, ~Ends
  PROVE  /\ Deeds /\ queue # <<>> /\ Running /\ alive /\ Now \in Command
         /\ UNCHANGED <<events, machine, lock, signals, written, disk, alive>>
         /\ Now.op = "Reload" => Now.replyTo \in Clients \cup {NONE}
<1>1. /\ queue # <<>> /\ Running /\ alive
      /\ UNCHANGED <<events, machine, lock, signals, written, disk, alive>>
  BY DEF Execute, RunTimer, RunPanel, RunBroadcast, RunOther, RunSuspend,
     RunPowerOff, RunScheduleWake, RunCancelWake, RunReload, RunShutdown, Executing,
     Running, machineVars, diskVars, mainVars
<1>2. ASSUME RunTimer \/ RunPanel \/ RunBroadcast \/ RunOther PROVE Passes
  BY <1>2 DEF RunTimer, RunPanel, RunBroadcast, RunOther, Executing, Now, Passes,
     wakeVars, diskVars
<1>3. ASSUME RunReload PROVE Passes \/ Reloads1
  <2>1. Now.op = "Reload"
    BY <1>3 DEF RunReload, Executing, Now
  <2>2. Rest = <<>>
    BY <1>1, <2>1, NowTyped, RestAlone
  <2> QED
    BY <1>3, <2>1, <2>2 DEF RunReload, Passes, Reloads1, wakeVars, diskVars
<1>4. ASSUME RunSuspend PROVE Asks \/ Fails
  BY <1>4 DEF RunSuspend, Asks, Fails
<1> QED
  BY <1>1, <1>2, <1>3, <1>4, NowTyped
     DEF Execute, RunShutdown, Deeds

LEMMA OrderExecute ==
  ASSUME Sorted, OrderInv, Execute, ~Ends
  PROVE  OrderInv'
<1>0. /\ Deeds /\ queue # <<>> /\ Good /\ Now \in Command
      /\ Now.op = "Reload" => Now.replyTo \in Clients \cup {NONE}
  <2>1. Good
    BY SortedBase
  <2>2. Deeds /\ queue # <<>> /\ Now \in Command
    BY ExecuteDeeds
  <2>3. Now.op = "Reload" => Now.replyTo \in Clients \cup {NONE}
    BY ExecuteDeeds
  <2> QED
    BY <2>1, <2>2, <2>3
<1>1. /\ Now \in Calm => Rest \in Seq(Calm) \/ \E c : Due(c) /\ Lone(Rest, c)
      /\ Now \notin Calm => Due(Now) /\ Rest \in Seq(Calm)
      /\ state \in {"Armed", "LongSleeping"} => Now \in Bare /\ Rest \in Seq(Bare)
  BY <1>0, OrderRest
<1>2. ASSUME Done PROVE OrderInv'
  <2>1. queue' = Rest /\ state' = state
    BY <1>2 DEF Done, engineVars
  <2>2. \A c : Due(c)' <=> Due(c)
    BY <2>1 DEF Due
  <2> QED
    BY <1>1, <2>1, <2>2 DEF OrderInv
<1>3. CASE Fails
  <2>1. OnSleepFailed(Rest) /\ Now \notin Calm
    BY <1>3 DEF Fails, RunSuspend, Executing, Now, Calm
  <2>2. Quiet
    BY <1>0, <1>1, <2>1, SaysOnSleepFailed
  <2>3. ASSUME state' \in {"Armed", "LongSleeping"} PROVE queue' \in Seq(Bare)
    <3>1. Rest \in Seq(Bare)
      BY <1>1, <2>1, <2>3, FailedState
    <3> QED
      BY <1>0, <2>1, <2>3, <3>1, BareOnSleepFailed DEF NoStages, PastGrace, Phases
  <2> QED
    BY <2>2, <2>3, OrderSaid DEF Warranted
<1>4. CASE RunScheduleWake
  <2>1. PICK armed : OnWakeScheduled(armed, Rest)
    BY <1>4 DEF RunScheduleWake
  <2>2. Now \notin Calm
    BY <1>4 DEF RunScheduleWake, Executing, Now, Calm
  <2>3. Quiet \/ SleepsArmed
    BY <1>0, <1>1, <2>1, <2>2, SaysOnWakeScheduled
  <2>4. ASSUME state' \in {"Armed", "LongSleeping"} PROVE queue' \in Seq(Bare)
    <3>1. Rest \in Seq(Bare)
      BY <1>1, <2>1, <2>4, FailedState
    <3> QED
      BY <1>0, <2>1, <2>4, <3>1, BareOnWakeScheduled DEF NoStages, PastGrace, Phases
  <2> QED
    BY <2>3, <2>4, OrderSaid DEF Warranted
<1>5. CASE Reloads1
  <2>1. PICK c \in Configs : SetConfig(c, Now.replyTo, <<>>)
    BY <1>5 DEF Reloads1
  <2>2. Now.replyTo \in Clients \cup {NONE}
    BY <1>0, <1>5 DEF Reloads1, RunReload, Executing, Now
  <2>3. Quiet /\ NoStages
    BY <1>0, <2>1, <2>2, Silence, SaysSetConfig, BareSetConfig
  <2> QED
    BY <2>3, OrderSaid DEF Warranted, NoStages, PastGrace, Phases
<1>6. Asks \/ Passes \/ RunPowerOff \/ RunCancelWake => Done
  BY DEF Asks, Passes, RunPowerOff, RunCancelWake
<1> QED
  BY <1>0, <1>2, <1>3, <1>4, <1>5, <1>6 DEF Deeds

\* What the main loop adds to the queue when it takes an event, or a timer.
LEMMA OrderTakes ==
  ASSUME Sorted, TakeEvent \/ \E t \in Timers : TakeTimer(t)
  PROVE  OrderInv'
<1>0. Good /\ state \in States
  BY SortedBase
<1>1. CASE TakeEvent
  <2>1. Head(events) \in Events \cup Reports
    BY <1>1, TailAt DEF TakeEvent, Sorted, Sorts
  <2>2. CASE TakeResumed
    <3>1. PICK byUser : OnResumed(byUser)
      BY <2>2 DEF TakeResumed
    <3> QED
      BY <1>0, <3>1, SaysOnResumed, BareOnResumed, OrderSaid DEF NoStages, PastGrace, Phases
  <2>3. CASE Head(events).event # "Resumed" /\ Handle(Head(events))
    <3>1. Head(events) \in Event /\ Head(events).event # "Timer"
      BY <2>1, <2>3, EventTyped
    <3> QED
      BY <1>0, <2>3, <3>1, SaysHandle, BareHandle, OrderSaid DEF NoStages, PastGrace, Phases
  <2> QED
    BY <1>1, <2>2, <2>3 DEF TakeEvent
<1>2. ASSUME NEW t \in Timers, TakeTimer(t) PROVE OrderInv'
  <2>1. OnTimer(t)
    BY <1>2 DEF TakeTimer
  <2> QED
    BY <1>0, <2>1, SaysOnTimer, BareOnTimer, OrderSaid DEF NoStages, PastGrace, Phases
<1> QED
  BY <1>1, <1>2

LEMMA OrderBoots ==
  ASSUME Started
  PROVE  OrderInv
BY DEF Started, Boots, OrderInv

LEMMA OrderStep ==
  ASSUME Sorted, OrderInv, [DaemonNext]_daemonVars
  PROVE  OrderInv'
<1>1. CASE Execute /\ ~Ends
  BY <1>1, OrderExecute
<1>2. CASE TakeEvent \/ \E t \in Timers : TakeTimer(t)
  BY <1>2, OrderTakes
<1>3. CASE Ends
  <2>1. queue' = <<>> /\ <<>> \in Seq(Calm) /\ <<>> \in Seq(Bare)
    BY <1>3, EmptyTyped DEF Ends
  <2> QED
    BY <2>1 DEF OrderInv
<1>4. CASE Restart
  BY <1>4, StartedRestart DEF Started, Boots, OrderInv
<1>5. CASE Elsewhere
  <2>1. queue' = queue /\ state' = state
    BY <1>5, ElsewhereKeeps
  <2>2. \A c : Due(c)' <=> Due(c)
    BY <2>1 DEF Due
  <2> QED
    BY <2>1, <2>2 DEF OrderInv
<1> QED
  BY <1>1, <1>2, <1>3, <1>4, <1>5, StepKinds

-----------------------------------------------------------------------------
(* What the tasks know of one another.                                     *)

\* A plan ends with the cycle; the file can say that this is the cycle; it is
\* written for the signal being handled; a machine that is up and has no signal
\* to hear can be held up, where the lock is given; an alarm that is to come is in the RTC.
CycleSaved == saved.cycle
SleepSignalled == signals # <<>> /\ Head(signals)
Planning(q) == state \notin PastGrace => Settles(q, Alarms, Clear, planner = "none")
MemInv ==
    /\ alive => Planning(queue)
    /\ InCycle => CycleSaved
    /\ written => SleepSignalled
    /\ Faulty = {} /\ alive /\ machine = "up" /\ signals = <<>> => lock
    /\ alive /\ planner = "ahead" => alarm

LEMMA PlanningGoes ==
  ASSUME NEW out, NEW old, Goes(out, old),
         state \notin PastGrace =>
            LastIn(out, Alarms, Clear) \/ (Free(out, Alarms) /\ planner' = "none")
  PROVE  Planning(queue)'
<1>1. PICK body \in Seq(Command) : Clears(body) /\ Follows(out, body)
  BY DEF Goes
<1>2. SUFFICES ASSUME state' \notin PastGrace
               PROVE  \/ LastIn(queue', Alarms, Clear)
                      \/ Free(queue', Alarms) /\ planner' = "none"
  BY DEF Planning, Settles
<1>3. CASE LastIn(body, Alarms, Clear)
  BY <1>1, <1>3, CommonKinds DEF Follows
<1>4. CASE Free(body, Alarms) /\ state \notin PastGrace
  <2>1. CASE LastIn(out, Alarms, Clear)
    BY <1>1, <1>4, <2>1, CommonKinds DEF Follows
  <2>2. CASE Free(out, Alarms) /\ planner' = "none"
    BY <1>1, <1>4, <2>2, CommonKinds DEF Follows
  <2> QED
    BY <1>4, <2>1, <2>2
<1> QED
  BY <1>1, <1>2, <1>3, <1>4 DEF Clears, Clear

\* Nobody asks for an alarm but in Armed.
LEMMA ArmsInArmed ==
  ASSUME Sorted, OrderInv, RunScheduleWake
  PROVE  state = "Armed" /\ Rest \in Seq(Calm) /\ Rest \in Seq(Bare)
<1>1. queue # <<>> /\ Now.op = "ScheduleWake"
  BY DEF RunScheduleWake, Executing, Now
<1>2. Now \notin Calm
  BY <1>1 DEF Calm
<1> QED
  BY <1>1, <1>2, OrderRest, DueCommands

LEMMA PlanningExecute ==
  ASSUME Sorted, OrderInv, Planning(queue), Execute, ~Ends
  PROVE  Planning(queue)'
<1>0. Executes /\ alive /\ queue # <<>> /\ Now \in Command
  BY SortedExecute, ExecuteDeeds
<1>1. state \notin PastGrace =>
         LastIn(queue, Alarms, Clear) \/ (Free(queue, Alarms) /\ planner = "none")
  BY DEF Planning, Settles
<1>2. /\ Now \in Alarms => Now.op \in {"ScheduleWake", "CancelWake"}
      /\ Now.op = "CancelWake" => Now \in Alarms
      /\ Clear \subseteq Alarms
  BY <1>0, AlarmOps DEF Clear, Alarms
<1>3. /\ LastIn(queue, Alarms, Clear) =>
            LastIn(Rest, Alarms, Clear) \/ (Now \in Clear /\ Free(Rest, Alarms))
      /\ Free(queue, Alarms) => Now \notin Alarms /\ Free(Rest, Alarms)
  BY <1>0, RestSays
<1>4. CASE RunCancelWake
  <2>1. /\ queue' = Rest /\ state' = state /\ planner' = "none"
        /\ Now.op = "CancelWake"
    BY <1>4 DEF RunCancelWake, Done, engineVars, Executing, Now
  <2> QED
    BY <1>1, <1>2, <1>3, <2>1 DEF Planning, Settles
<1>5. CASE RunScheduleWake
  <2>1. state \in PastGrace
    BY <1>5, ArmsInArmed DEF PastGrace, Phases
  <2>2. PICK old : Goes(Rest, old)
    BY <1>0, <1>5 DEF Executes, RunReload, RunSuspend, RunScheduleWake, Executing, Now
  <2> QED
    BY <2>1, <2>2, PlanningGoes
<1>6. CASE ~RunCancelWake /\ ~RunScheduleWake
  <2>1. planner' = planner /\ Now.op \notin {"ScheduleWake", "CancelWake"}
    BY <1>6 DEF Execute, RunTimer, RunPanel, RunBroadcast, RunOther, RunSuspend,
       RunPowerOff, RunReload, RunShutdown, Executing, Now, wakeVars
  <2>2. state \notin PastGrace =>
           LastIn(Rest, Alarms, Clear) \/ (Free(Rest, Alarms) /\ planner' = "none")
    BY <1>1, <1>2, <1>3, <2>1
  <2>3. CASE Done
    BY <2>2, <2>3 DEF Done, engineVars, Planning, Settles
  <2>4. ASSUME NEW old, Goes(Rest, old) PROVE Planning(queue)'
    BY <2>2, <2>4, PlanningGoes
  <2> QED
    BY <1>0, <1>6, <2>3, <2>4 DEF Executes
<1> QED
  BY <1>4, <1>5, <1>6

LEMMA PlannerElsewhere ==
  ASSUME Elsewhere
  PROVE  /\ planner' = planner \/ (planner = "ahead" /\ planner' = "passed")
         /\ planner' = "ahead" => alarm' = alarm
         /\ saved' = saved
<1>1. CASE AlarmWakes
  BY <1>1 DEF AlarmWakes, Wakes, diskVars
<1>2. ASSUME NEW e \in Events, Arrives(e) PROVE UNCHANGED <<planner, alarm, saved>>
  BY <1>2 DEF Arrives, wakeVars, diskVars
<1>3. ASSUME ~AlarmWakes PROVE UNCHANGED <<planner, alarm, saved>>
  BY <1>2, <1>3, Zenon
     DEF Elsewhere, ExecuteRequest, OutsideSuspend, FallAsleep, UserWakes, Wakes,
         SaveState, ReportSleep, ReportWake, daemonVars, wakeVars, diskVars
<1> QED
  BY <1>1, <1>3

\* When the main loop takes an event, or a timer.
LEMMA TakesPlan ==
  ASSUME Sorted, TakeEvent \/ \E t \in Timers : TakeTimer(t)
  PROVE  /\ queue = <<>> /\ alive /\ alive' = alive /\ machine # "asleep"
         /\ UNCHANGED <<machineVars, alarm, disk, requests>>
         /\ planner' = planner \/ planner' = "none"
         /\ saved' = [cycle |-> state' \in Phases, wake |-> planner' # "none"]
         /\ \E old : Goes(<<>>, old)
<1>1. CASE TakeEvent
  <2>1. \E old : Goes(<<>>, old)
    BY <1>1, SortedTakeEvent DEF Takes1
  <2> QED
    BY <1>1, <2>1 DEF TakeEvent, TakeResumed, Takes, Running, mainVars, wakeVars, Remembers
<1>2. ASSUME NEW t \in Timers, TakeTimer(t)
      PROVE  /\ queue = <<>> /\ alive /\ alive' = alive /\ machine # "asleep"
             /\ UNCHANGED <<machineVars, alarm, disk, requests>>
             /\ planner' = planner
             /\ saved' = [cycle |-> state' \in Phases, wake |-> planner' # "none"]
             /\ \E old : Goes(<<>>, old)
  <2>1. \E old : Goes(<<>>, old)
    BY <1>2, SortedTakeTimer
  <2> QED
    BY <1>2, <2>1 DEF TakeTimer, Takes, Running, mainVars, wakeVars, Remembers
<1> QED
  BY <1>1, <1>2

LEMMA PlanningStep ==
  ASSUME Sorted, OrderInv, alive => Planning(queue), [DaemonNext]_daemonVars
  PROVE  alive' => Planning(queue)'
<1>1. CASE Execute /\ ~Ends
  BY <1>1, ExecuteDeeds, PlanningExecute
<1>2. CASE TakeEvent \/ \E t \in Timers : TakeTimer(t)
  <2>1. /\ queue = <<>> /\ alive
        /\ planner' = planner \/ planner' = "none"
        /\ \E old : Goes(<<>>, old)
    BY <1>2, TakesPlan
  <2>2. state \notin PastGrace => Free(<<>>, Alarms) /\ planner' = "none"
    BY <2>1, EmptySays DEF Planning, Settles
  <2> QED
    BY <2>1, <2>2, PlanningGoes
<1>3. CASE Ends
  BY <1>3 DEF Ends
<1>4. CASE Restart
  <2>1. Free(queue', Alarms)
    BY <1>4, StartedRestart DEF Started, Boots
  <2>2. planner' = "none"
    BY <1>4 DEF Restart
  <2> QED
    BY <2>1, <2>2 DEF Planning, Settles
<1>5. CASE Elsewhere
  BY <1>5, ElsewhereKeeps, PlannerElsewhere DEF Planning, Settles
<1> QED
  BY <1>1, <1>2, <1>3, <1>4, <1>5, StepKinds

\* The alarm and the file, when the main loop executes a command.
LEMMA DeedsPlan ==
  ASSUME Sorted, Execute, ~Ends
  PROVE  /\ disk' = disk
         /\ \/ /\ UNCHANGED <<planner, alarm, saved>> /\ state' \in {state, "Active"}
               /\ ~RunCancelWake /\ ~RunScheduleWake
            \/ RunCancelWake /\ planner' = "none" /\ saved' = saved /\ state' = state
            \/ /\ RunScheduleWake /\ state' \in {state, "Active"}
               /\ planner' \in {"ahead", "none"} /\ (planner' = "ahead" => alarm')
               /\ saved' = [cycle |-> state' \in Phases, wake |-> planner' # "none"]
<1>1. disk' = disk
  BY DEF Execute, RunTimer, RunPanel, RunBroadcast, RunOther, RunSuspend, RunPowerOff,
     RunScheduleWake, RunCancelWake, RunReload, RunShutdown, Executing, diskVars
<1>2. CASE RunCancelWake
  BY <1>1, <1>2 DEF RunCancelWake, Done, engineVars, diskVars
<1>3. CASE RunScheduleWake
  <2>1. PICK outcome \in SetOutcomes : SetsAlarm(outcome) /\ OnWakeScheduled(outcome = "armed", Rest)
    BY <1>3 DEF RunScheduleWake
  <2>2. state' \in {state, "Active"}
    BY <2>1, FailedState
  <2>3. planner' \in {"ahead", "none"} /\ (planner' = "ahead" => alarm')
    BY <2>1 DEF SetsAlarm
  <2>4. saved' = [cycle |-> state' \in Phases, wake |-> planner' # "none"]
    BY <1>3 DEF RunScheduleWake, Remembers
  <2> QED
    BY <1>1, <1>3, <2>2, <2>3, <2>4
<1>4. CASE ~RunCancelWake /\ ~RunScheduleWake
  <2>1. UNCHANGED <<planner, alarm, saved>>
    BY <1>4 DEF Execute, RunTimer, RunPanel, RunBroadcast, RunOther, RunSuspend,
       RunPowerOff, RunReload, RunShutdown, wakeVars, diskVars
  <2>2. ASSUME Done PROVE state' = state
    BY <2>2 DEF Done, engineVars
  <2>3. ASSUME Fails PROVE state' \in {state, "Active"}
    BY <2>3, FailedState DEF Fails
  <2>4. ASSUME NEW c, SetConfig(c, Now.replyTo, <<>>) PROVE state' = state
    BY <2>4, EntersSetConfig
  <2>5. Done \/ Fails \/ Reloads1
    BY <1>4, ExecuteDeeds DEF Deeds, Passes, Asks, RunPowerOff
  <2>6. state' \in {state, "Active"}
    BY <2>2, <2>3, <2>4, <2>5 DEF Reloads1, Done, engineVars
  <2> QED
    BY <1>1, <1>4, <2>1, <2>6
<1> QED
  BY <1>2, <1>3, <1>4

\* The head of what waits stays, when one more comes.
LEMMA HeadStays ==
  ASSUME NEW S, NEW s \in Seq(S), NEW a \in S
  PROVE  Append(s, a) # <<>> /\ (s # <<>> => Head(Append(s, a)) = Head(s))
<1>1. /\ Append(s, a) \in Seq(S) /\ Len(Append(s, a)) = Len(s) + 1 /\ Len(s) \in Nat
      /\ \A i \in 1..Len(s) : Append(s, a)[i] = s[i]
  OBVIOUS
<1>2. Append(s, a) # <<>>
  OBVIOUS
<1>3. ASSUME s # <<>> PROVE Head(Append(s, a)) = Head(s)
  <2>1. 1 \in 1..Len(s) /\ Head(s) = s[1]
    BY <1>3
  <2>2. Head(Append(s, a)) = Append(s, a)[1]
    BY <1>1, <1>2
  <2> QED
    BY <1>1, <2>1, <2>2
<1> QED
  BY <1>2, <1>3

LEMMA SavedSays ==
  /\ saved' = saved => (CycleSaved' <=> CycleSaved)
  /\ \A w : saved' = [cycle |-> state' \in Phases, wake |-> w] => (CycleSaved' <=> InCycle')
<1>1. ASSUME saved' = saved PROVE CycleSaved' <=> CycleSaved
  BY <1>1, Zenon DEF CycleSaved
<1>2. ASSUME NEW w, saved' = [cycle |-> state' \in Phases, wake |-> w]
      PROVE  CycleSaved' <=> InCycle'
  <2>1. (saved').cycle = (state' \in Phases)
    BY <1>2
  <2> QED
    BY <2>1, Zenon DEF CycleSaved, InCycle
<1> QED
  BY <1>1, <1>2

LEMMA SignalsSay ==
  ASSUME signals \in Seq(BOOLEAN)
  PROVE  /\ signals' = signals => (SleepSignalled' <=> SleepSignalled)
         /\ \A b \in BOOLEAN : signals' = Append(signals, b) =>
               signals' # <<>> /\ (SleepSignalled => SleepSignalled')
<1>2. ASSUME NEW b \in BOOLEAN, signals' = Append(signals, b)
      PROVE  signals' # <<>> /\ (SleepSignalled => SleepSignalled')
  <2>1. signals' # <<>> /\ (signals # <<>> => Head(signals') = Head(signals))
    BY <1>2, HeadStays
  <2> QED
    BY <2>1, Zenon DEF SleepSignalled
<1> QED
  BY <1>2, Zenon DEF SleepSignalled

LEMMA AttemptsLock ==
  ASSUME NEW c, lock' \in Attempt(c, machine = "up", {FALSE}),
         Faulty = {}, machine = "up"
  PROVE  lock'
<1>1. lock' = (machine = "up")
  BY Attempted, Zenon
<1> QED
  BY <1>1, Zenon

LEMMA MemExecute ==
  ASSUME Sorted, MemInv, Execute, ~Ends
  PROVE  /\ InCycle' => CycleSaved'
         /\ written' => SleepSignalled'
         /\ Faulty = {} /\ alive' /\ machine' = "up" /\ signals' = <<>> => lock'
         /\ alive' /\ planner' = "ahead" => alarm'
<1>1. UNCHANGED <<machine, lock, signals, written, alive>> /\ alive
  BY ExecuteDeeds
<1>2. InCycle' => CycleSaved'
  BY DeedsPlan, SavedSays DEF MemInv, InCycle, Phases
<1>3. alive' /\ planner' = "ahead" => alarm'
  BY <1>1, DeedsPlan DEF MemInv
<1>4. signals \in Seq(BOOLEAN)
  BY DEF Sorted, Sorts
<1> QED
  BY <1>1, <1>2, <1>3, <1>4, SignalsSay DEF MemInv

LEMMA MemTakes ==
  ASSUME Sorted, MemInv, TakeEvent \/ \E t \in Timers : TakeTimer(t)
  PROVE  /\ InCycle' => CycleSaved'
         /\ written' => SleepSignalled'
         /\ Faulty = {} /\ alive' /\ machine' = "up" /\ signals' = <<>> => lock'
         /\ alive' /\ planner' = "ahead" => alarm'
<1>1. /\ UNCHANGED <<machine, lock, signals, written, alive, alarm>>
      /\ planner' = planner \/ planner' = "none"
      /\ saved' = [cycle |-> state' \in Phases, wake |-> planner' # "none"]
  BY TakesPlan DEF machineVars
<1>2. signals \in Seq(BOOLEAN)
  BY DEF Sorted, Sorts
<1> QED
  BY <1>1, <1>2, SavedSays, SignalsSay DEF MemInv

LEMMA MemElsewhere ==
  ASSUME Sorted, WaitInv, MemInv, Elsewhere
  PROVE  /\ InCycle' => CycleSaved'
         /\ written' => SleepSignalled'
         /\ Faulty = {} /\ alive' /\ machine' = "up" /\ signals' = <<>> => lock'
         /\ alive' /\ planner' = "ahead" => alarm'
<1>0. /\ state' = state /\ alive' = alive /\ saved' = saved
      /\ planner' = "ahead" => planner = "ahead" /\ alarm' = alarm
  BY ElsewhereKeeps, PlannerElsewhere
<1>1. (InCycle' => CycleSaved') /\ (alive' /\ planner' = "ahead" => alarm')
  BY <1>0, SavedSays DEF MemInv, InCycle
<1>2. signals \in Seq(BOOLEAN) /\ TRUE \in BOOLEAN /\ FALSE \in BOOLEAN
  BY DEF Sorted, Sorts
<1> DEFINE Rights == /\ written' => SleepSignalled'
                     /\ Faulty = {} /\ alive' /\ machine' = "up" /\ signals' = <<>> => lock'
<1>3. ASSUME UNCHANGED <<signals, machine, lock, written>> PROVE Rights
  BY <1>0, <1>2, <1>3, SignalsSay DEF MemInv
<1>4. ASSUME Prepares PROVE Rights
  <2>1. /\ machine' = "preparing" /\ written' = written
        /\ signals' = Append(signals, TRUE) \/ signals' = signals
    BY <1>4 DEF Prepares
  <2> QED
    BY <1>2, <2>1, SignalsSay DEF MemInv
<1>5. ASSUME FallAsleep PROVE Rights
  <2>1. machine' = "asleep" /\ written' = written /\ signals' = signals
    BY <1>5 DEF FallAsleep
  <2> QED
    BY <1>2, <2>1, SignalsSay DEF MemInv
<1>6. ASSUME AlarmWakes \/ UserWakes PROVE Rights
  <2>1. /\ written' = written /\ lock' = lock
        /\ signals' = IF alive THEN Append(signals, FALSE) ELSE signals
    BY <1>6 DEF AlarmWakes, UserWakes, Wakes
  <2> QED
    BY <1>0, <1>2, <2>1, SignalsSay DEF MemInv
<1>7. ASSUME SaveState PROVE Rights
  <2>1. SleepSignalled
    BY <1>7, Zenon DEF SaveState, SleepSignalled
  <2>2. UNCHANGED <<signals, machine, lock>>
    BY <1>7, Zenon DEF SaveState
  <2> QED
    BY <1>0, <1>2, <2>1, <2>2, SignalsSay DEF MemInv
<1>8. ASSUME ReportSleep PROVE Rights
  <2>1. /\ alive /\ SleepSignalled /\ signals # <<>>
        /\ signals' = Tail(signals) /\ written' = FALSE /\ machine' = machine
    BY <1>8, Zenon DEF ReportSleep, Running, SleepSignalled
  <2>3. Head(signals) \notin {FALSE}
    BY <2>1, Zenon DEF SleepSignalled
  <2>2. ASSUME machine = "up" PROVE signals' # <<>>
    <3>1. LastIn(signals, BOOLEAN, {FALSE})
      BY <2>1, <2>2 DEF WaitInv, WaitsForWake
    <3>2. LastIn(signals', BOOLEAN, {FALSE})
      BY <1>2, <2>1, <2>3, <3>1, LastTail
    <3> QED
      BY <3>2, EmptySays
  <2> QED
    BY <2>1, <2>2
<1>9. ASSUME ReportWake PROVE Rights
  <2>1. /\ ~SleepSignalled /\ machine' = machine /\ written' = written
        /\ lock' \in Attempt(config, machine = "up", {FALSE})
    BY <1>9, Zenon DEF ReportWake, SleepSignalled
  <2>2. Faulty = {} /\ machine = "up" => lock'
    BY <2>1, AttemptsLock
  <2> QED
    BY <2>1, <2>2 DEF MemInv
<1>10. \/ UNCHANGED <<signals, machine, lock, written>> \/ Prepares
       \/ FallAsleep \/ AlarmWakes \/ UserWakes \/ SaveState \/ ReportSleep \/ ReportWake
  BY DEF Elsewhere, Arrives, ExecuteRequest, Refuses, OutsideSuspend, daemonVars, machineVars
<1>11. Rights
  BY <1>3, <1>4, <1>5, <1>6, <1>7, <1>8, <1>9, <1>10
<1> QED
  BY <1>1, <1>11

LEMMA MemStep ==
  ASSUME Sorted, OrderInv, WaitInv, MemInv, [DaemonNext]_daemonVars
  PROVE  MemInv'
<1>0. alive' => Planning(queue)'
  BY PlanningStep DEF MemInv
<1>1. CASE Execute /\ ~Ends
  BY <1>0, <1>1, MemExecute DEF MemInv
<1>2. CASE TakeEvent \/ \E t \in Timers : TakeTimer(t)
  BY <1>0, <1>2, MemTakes DEF MemInv
<1>3. CASE Ends
  <2>1. /\ alive' = FALSE /\ written' = FALSE /\ state' = state /\ saved' = saved
    BY <1>3 DEF Ends, engineVars, sleepVars, diskVars
  <2>2. InCycle' => CycleSaved'
    BY <2>1, SavedSays DEF MemInv, InCycle
  <2> QED
    BY <1>0, <2>1, <2>2 DEF MemInv
<1>4. CASE Restart
  <2>1. PICK goesOn \in BOOLEAN : state' = BootState(goesOn) /\ saved' = [cycle |-> goesOn, wake |-> FALSE]
    BY <1>4 DEF Restart
  <2>2. InCycle' => CycleSaved'
    <3>1. InCycle' => goesOn
      BY <2>1 DEF BootState, InCycle, Phases
    <3>2. (saved').cycle = goesOn
      BY <2>1
    <3> QED
      BY <3>1, <3>2, Zenon DEF CycleSaved
  <2>3. UNCHANGED <<machine, signals, written>> /\ planner' = "none"
    BY <1>4 DEF Restart
  <2>5. Faulty = {} /\ machine = "up" => lock'
    <3>1. PICK c : lock' \in Attempt(c, machine = "up", {FALSE})
      BY <1>4, Zenon DEF Restart
    <3> QED
      BY <3>1, AttemptsLock
  <2>4. signals \in Seq(BOOLEAN)
    BY DEF Sorted, Sorts
  <2> QED
    BY <1>0, <2>2, <2>3, <2>4, <2>5, SignalsSay DEF MemInv
<1>5. CASE Elsewhere
  BY <1>0, <1>5, MemElsewhere DEF MemInv
<1> QED
  BY <1>1, <1>2, <1>3, <1>4, <1>5, StepKinds

LEMMA MemInit == ASSUME DaemonInit PROVE MemInv
<1>1. Free(queue, Alarms)
  BY StartedInit DEF Started, Boots
<1>2. /\ alive = TRUE /\ written = FALSE /\ planner = "none"
      /\ saved = [cycle |-> InCycle, wake |-> FALSE]
  BY DEF DaemonInit
<1>3. ASSUME Faulty = {} PROVE lock
  <2>1. lock \in Attempt(config, TRUE, {FALSE})
    BY Zenon DEF DaemonInit
  <2>2. lock = TRUE
    BY <1>3, <2>1, Attempted, Zenon
  <2> QED
    BY <2>2
<1>4. InCycle => CycleSaved
  <2>1. saved.cycle = InCycle
    BY <1>2
  <2> QED
    BY <2>1, Zenon DEF CycleSaved
<1> QED
  BY <1>1, <1>2, <1>3, <1>4 DEF MemInv, Planning, Settles

LEMMA MemAlways == DaemonSpec => [](WaitInv /\ OrderInv /\ MemInv)
<1>1. DaemonInit => WaitInv /\ OrderInv /\ MemInv
  BY WaitInit, StartedInit, OrderBoots, MemInit
<1>2. Sorted /\ WaitInv /\ OrderInv /\ MemInv /\ [DaemonNext]_daemonVars
         => WaitInv' /\ OrderInv' /\ MemInv'
  BY WaitStep, OrderStep, MemStep
<1> QED
  BY SortedAlways, <1>1, <1>2, PTL DEF DaemonSpec

\* A command in the queue that puts the machine to sleep, powers it off or sets
\* its alarm is one the state of the engine calls for, and the only one.
AsMeant ==
    \A i \in 1..Len(queue) : queue[i].op \in {"Suspend", "PowerOff", "ScheduleWake"} =>
        /\ Due(queue[i])
        /\ \A j \in 1..Len(queue) :
              queue[j].op \in {"Suspend", "PowerOff", "ScheduleWake"} => i = j

\* The main loop never executes a suspend, a poweroff or a ScheduleWake that the
\* state has outlived, nor two of them: answers that reach the engine in the
\* middle of a queue (main.rs, handle_now) add none to one that still waits.
THEOREM ExecutesAsMeant == DaemonSpec => []AsMeant
<1>1. OrderInv => AsMeant
  <2> SUFFICES ASSUME OrderInv,
                      NEW i \in 1..Len(queue), NEW j \in 1..Len(queue),
                      queue[i].op \in {"Suspend", "PowerOff", "ScheduleWake"},
                      queue[j].op \in {"Suspend", "PowerOff", "ScheduleWake"}
               PROVE  Due(queue[i]) /\ i = j
    BY DEF AsMeant
  <2>1. queue[i] \notin Calm /\ queue[j] \notin Calm
    BY DEF Calm
  <2>2. PICK c : Due(c) /\ Lone(queue, c)
    BY <2>1 DEF OrderInv
  <2>3. queue[i] = c /\ queue[j] = c
    BY <2>1, <2>2 DEF Lone
  <2> QED
    BY <2>2, <2>3 DEF Lone
<1> QED
  BY MemAlways, <1>1, PTL

-----------------------------------------------------------------------------
(* A restart goes on with the cycle.                                       *)

\* When the engine hears of the sleep of the cycle, or is about to, the file
\* says that this is the cycle, and goes on saying it while the plan stands.
CycleOnDisk == disk.cycle
Naps == {e \in Events \cup Reports : e.event = "Suspending"}
Recorded ==
    /\ alive /\ (written \/ ~Free(events, Naps))
    /\ state = "Armed" \/ (InCycle /\ planner # "none")
    => CycleOnDisk
FileInv == Recorded /\ (state = "LongSleeping" /\ planner # "none" => CycleOnDisk)

LEMMA DiskSays ==
  /\ disk' = disk => (CycleOnDisk' <=> CycleOnDisk)
  /\ disk' = saved => (CycleOnDisk' <=> CycleSaved)
BY Zenon DEF CycleOnDisk, CycleSaved

\* What the others do to the file and to the events.
LEMMA FileElsewhere ==
  ASSUME Faulty = {}, Sorted, Elsewhere
  PROVE  \/ alive /\ disk' = saved
         \/ /\ disk' = disk /\ written
         \/ /\ disk' = disk /\ written' = written
            /\ Free(events, Naps) => Free(events', Naps)
<1>1. events \in Seq(Events \cup Reports)
  BY DEF Sorted, Sorts
<1>2. ASSUME NEW e \in Events \cup Reports, e.event # "Suspending", events' = Append(events, e)
      PROVE  Free(events, Naps) => Free(events', Naps)
  <2>1. e \notin Naps
    BY <1>2 DEF Naps
  <2> QED
    BY <1>1, <1>2, <2>1, ChannelSends
<1>3. ASSUME NEW e \in Events, Arrives(e)
      PROVE  disk' = disk /\ written' = written /\ (Free(events, Naps) => Free(events', Naps))
  BY <1>2, <1>3, DaemonAssumption DEF Arrives, machineVars, diskVars
<1>4. ASSUME ExecuteRequest
      PROVE  disk' = disk /\ written' = written /\ (Free(events, Naps) => Free(events', Naps))
  <2>1. /\ [event |-> "SleepBlocked", blocked |-> TRUE] \in Reports
        /\ [event |-> "SleepFailed"] \in Reports
        /\ [event |-> "ShutdownRequested"] \in Reports
    BY DEF Reports
  <2>2. \/ events' = events
        \/ events' = Append(events, [event |-> "SleepBlocked", blocked |-> TRUE])
        \/ events' = Append(events, [event |-> "SleepFailed"])
        \/ events' = Append(events, [event |-> "ShutdownRequested"])
    BY <1>4 DEF ExecuteRequest, Refuses, Sends
  <2>3. disk' = disk /\ written' = written
    BY <1>4 DEF ExecuteRequest, Prepares, machineVars, diskVars
  <2> QED
    BY <1>2, <2>1, <2>2, <2>3
<1>5. CASE ReportWake
  <2>1. /\ events' = Append(events, [event |-> "Resumed"])
        /\ disk' = disk /\ written' = written
    BY <1>5, Zenon DEF ReportWake, Sends, diskVars
  <2>2. [event |-> "Resumed"] \in Reports
    BY DEF Reports
  <2> QED
    BY <1>2, <2>1, <2>2
<1>6. CASE SaveState
  BY <1>6, Attempted, Zenon DEF SaveState, Running
<1>7. CASE ReportSleep
  BY <1>7, Zenon DEF ReportSleep, diskVars
<1>8. CASE OutsideSuspend \/ FallAsleep \/ AlarmWakes \/ UserWakes \/ UNCHANGED daemonVars
  BY <1>8 DEF OutsideSuspend, Prepares, FallAsleep, AlarmWakes, UserWakes, Wakes,
     daemonVars, machineVars, diskVars
<1> QED
  BY <1>3, <1>4, <1>5, <1>6, <1>7, <1>8 DEF Elsewhere

LEMMA FileExecute ==
  ASSUME Sorted, OrderInv, FileInv, Execute, ~Ends
  PROVE  FileInv'
<1>1. UNCHANGED <<events, written, alive, disk>> /\ (CycleOnDisk' <=> CycleOnDisk)
  BY ExecuteDeeds, DeedsPlan, DiskSays
<1>2. CASE planner' = planner /\ state' \in {state, "Active"}
  BY <1>1, <1>2 DEF FileInv, Recorded, InCycle, Phases
<1>3. CASE planner' = "none" /\ state' = state
  BY <1>1, <1>3 DEF FileInv, Recorded, InCycle
<1>4. CASE RunScheduleWake /\ state' \in {state, "Active"}
  <2>1. state = "Armed"
    BY <1>4, ArmsInArmed
  <2> QED
    BY <1>1, <1>4, <2>1 DEF FileInv, Recorded, InCycle, Phases
<1> QED
  BY <1>2, <1>3, <1>4, DeedsPlan

\* A resume ends the sleep of the cycle, or comes before anybody heard of it.
LEMMA ResumedState ==
  ASSUME NEW byUser, OnResumed(byUser)
  PROVE  state' = "Active" \/ (InCycle /\ state' = "Checking")
<1>1. CASE CheckPower /\ InCycle
  BY <1>1, CheckPowerState, PowerIsBackState DEF CheckPower
<1>2. CASE LeaveCycle(ac, TRUE, <<>>, <<>>)
  BY <1>2, LeaveCycleState
<1> QED
  BY <1>1, <1>2, BecomeState DEF OnResumed

LEMMA FileTakeEvent ==
  ASSUME Sorted, MemInv, FileInv, TakeEvent
  PROVE  FileInv'
<1> DEFINE e == Head(events)
<1>0. Good
  BY SortedBase
<1>1. /\ queue = <<>> /\ alive /\ alive' = alive /\ UNCHANGED <<written, disk>>
      /\ planner' = planner \/ planner' = "none"
  BY TakesPlan DEF machineVars
<1>2. /\ events \in Seq(Events \cup Reports) /\ events # <<>> /\ events' = Tail(events)
      /\ e \in Events \cup Reports
  BY TailAt DEF TakeEvent, Sorted, Sorts
<1>3. ~Free(events', Naps) => ~Free(events, Naps)
  BY <1>2, FreeTail
<1>4. e.event = "Suspending" => ~Free(events, Naps)
  <2>1. e.event = "Suspending" => e \in Naps
    BY <1>2 DEF Naps
  <2> QED
    BY <1>2, <2>1, FreeTail
<1>5. CycleOnDisk' <=> CycleOnDisk
  BY <1>1, DiskSays
<1>6. planner # "none" => state \in PastGrace
  BY <1>1, EmptySays DEF MemInv, Planning, Settles
<1> HIDE DEF e
<1>7. CASE TakeResumed
  <2>1. PICK byUser : OnResumed(byUser)
    BY <1>7 DEF TakeResumed
  <2>2. state' = "Active" \/ (InCycle /\ state' = "Checking")
    BY <2>1, ResumedState
  <2> QED
    BY <1>1, <1>3, <1>5, <2>2 DEF FileInv, Recorded, InCycle, Phases
<1>8. CASE e.event # "Resumed" /\ Handle(e)
  <2>1. CASE e.event = "Suspending"
    <3>1. OnSuspending
      BY <1>8, <2>1 DEF Handle
    <3>2. state' = IF InCycle THEN "LongSleeping" ELSE "Sleeping"
      BY <3>1, BecomeState DEF OnSuspending
    <3> QED
      BY <1>1, <1>3, <1>4, <1>5, <2>1, <3>2 DEF FileInv, Recorded, InCycle, Phases
  <2>2. CASE e.event # "Suspending"
    <3>1. e.event # "Timer"
      BY <1>2, EventTyped
    <3>2. state' \in PastGrace => state' = state
      BY <1>0, <1>8, <2>2, <3>1, EntersHandle DEF Enters
    <3> QED
      BY <1>1, <1>3, <1>5, <1>6, <3>2 DEF FileInv, Recorded, InCycle, PastGrace, Phases
  <2> QED
    BY <2>1, <2>2
<1> QED
  BY <1>7, <1>8 DEF TakeEvent, e

LEMMA FileTakeTimer ==
  ASSUME Prompt, Sorted, MemInv, FileInv, NEW t \in Timers, TakeTimer(t)
  PROVE  FileInv'
<1>1. /\ UNCHANGED <<written, disk, events, planner>> /\ OnTimer(t) /\ signals = <<>>
      /\ \A i \in 1..Len(events) : events[i].event \notin {"Suspending", "Resumed"}
  BY DEF TakeTimer, machineVars, wakeVars
<1>2. ~written
  BY <1>1, Zenon DEF MemInv, SleepSignalled
<1>3. Free(events', Naps)
  BY <1>1 DEF Free, Naps
<1>4. state' = "LongSleeping" => state = "LongSleeping"
  BY <1>1, TimerEnters DEF PastGrace, Phases
<1>5. CycleOnDisk' <=> CycleOnDisk
  BY <1>1, DiskSays
<1> QED
  BY <1>1, <1>2, <1>3, <1>4, <1>5 DEF FileInv, Recorded

LEMMA FileStep ==
  ASSUME Prompt, Faulty = {}, Sorted, OrderInv, MemInv, FileInv, [DaemonNext]_daemonVars
  PROVE  FileInv'
<1>1. CASE Execute /\ ~Ends
  BY <1>1, FileExecute
<1>2. CASE TakeEvent
  BY <1>2, FileTakeEvent
<1>3. ASSUME NEW t \in Timers, TakeTimer(t) PROVE FileInv'
  BY <1>3, FileTakeTimer
<1>4. CASE Ends
  <2>1. alive' = FALSE /\ state' = state /\ planner' = planner /\ disk' = disk
    BY <1>4 DEF Ends, engineVars, sleepVars, wakeVars, diskVars
  <2> QED
    BY <2>1, DiskSays DEF FileInv, Recorded
<1>5. CASE Restart
  <2>1. state' \in {"Active", "Checking"} /\ planner' = "none"
    BY <1>5, StartedRestart DEF Started, Restart
  <2> QED
    BY <2>1 DEF FileInv, Recorded
<1>6. CASE Elsewhere
  <2>1. /\ state' = state /\ alive' = alive /\ (planner' # "none" => planner # "none")
    BY <1>6, ElsewhereKeeps, PlannerElsewhere
  <2>2. CASE alive /\ disk' = saved
    <3>1. InCycle => CycleOnDisk'
      BY <2>2, DiskSays DEF MemInv
    <3> QED
      BY <2>1, <3>1 DEF FileInv, Recorded, InCycle, Phases
  <2>3. CASE disk' = disk /\ written
    BY <2>1, <2>3, DiskSays DEF FileInv, Recorded, InCycle
  <2>4. CASE disk' = disk /\ written' = written /\ (Free(events, Naps) => Free(events', Naps))
    BY <2>1, <2>4, DiskSays DEF FileInv, Recorded, InCycle
  <2> QED
    BY <1>6, <2>2, <2>3, <2>4, FileElsewhere
<1> QED
  BY <1>1, <1>2, <1>3, <1>4, <1>5, <1>6, StepKinds

LEMMA RestartSteps ==
  ASSUME Sorted, FileInv, [DaemonNext]_daemonVars, Restarts,
         state = "LongSleeping", planner # "none", config'.serverEnabled, ~ac'
  PROVE  InCycle'
<1>1. ~alive /\ alive'
  BY DEF Restarts
<1>2. Restart
  BY <1>1, StepKinds, ExecuteDeeds, TakesPlan, ElsewhereKeeps DEF Ends
<1>3. config'.serverEnabled /\ ~ac' /\ disk.cycle => state' = BootState(TRUE)
  <2>1. PICK c \in Configs, a \in BOOLEAN :
           config' = c /\ ac' = a /\ state' = BootState(c.serverEnabled /\ ~a /\ disk.cycle)
    BY <1>2, Zenon DEF Restart
  <2> QED
    BY <2>1, Zenon DEF BootState
<1>4. CycleOnDisk
  BY DEF FileInv
<1>5. state' = BootState(TRUE)
  BY <1>3, <1>4, Zenon DEF CycleOnDisk
<1> QED
  BY <1>5 DEF BootState, InCycle, Phases

\* A daemon that died in the long sleep with its alarm planned goes on with the
\* cycle, if it is started again without power and the configuration still has
\* it, wherever it died (logind.rs, sleep_listener; main.rs, remember; core.rs,
\* boot_commands).  Prompt: the state in which ScheduleWake was answered is the
\* one the signal finds, because the window of the attempt is much longer.  The
\* file can be written.
THEOREM RestartGoesOnHolds == Prompt /\ Faulty = {} => (DaemonSpec => RestartGoesOn)
<1> SUFFICES ASSUME Prompt, Faulty = {} PROVE DaemonSpec => RestartGoesOn
  OBVIOUS
<1> DEFINE A == Restarts /\ config \notin Faulty /\ state = "LongSleeping" /\ planner # "none"
                  /\ config'.serverEnabled /\ ~ac' => InCycle'
<1>1. DaemonInit => FileInv
  BY EmptySays DEF DaemonInit, FileInv, Recorded
<1>2. /\ Sorted /\ OrderInv /\ MemInv /\ FileInv /\ [DaemonNext]_daemonVars => FileInv'
  BY FileStep
<1>3. Sorted /\ FileInv /\ [DaemonNext]_daemonVars => [A]_daemonVars
  BY RestartSteps
<1> QED
  BY SortedAlways, MemAlways, <1>1, <1>2, <1>3, PTL DEF DaemonSpec, RestartGoesOn

-----------------------------------------------------------------------------
(* The sleep of the cycle has its alarm.                                    *)

\* Where nobody else suspends the machine, an attempt of the cycle goes through
\* three stages: it is prepared, the machine sleeps, the machine is up again;
\* through all of them at most one suspend is asked for or under way.
Own == /\ config \notin Outside /\ alive
       /\ state = "Armed" \/ (state = "LongSleeping" /\ planner # "none")
Asked == Has(queue, "Suspend") \/ requests # <<>>
Pending == Has(queue, "ScheduleWake")
Planned == [cycle |-> TRUE, wake |-> TRUE]
SleepSignal == <<TRUE>>
WakeSignal == <<FALSE>>

\* The engine has heard of the sleep, or will before it hears of the wake.
Heard == state = "LongSleeping" \/ FirstIn(events, Wakings, Naps)

Preparing ==
    /\ state = "Armed" /\ machine = "up" /\ signals = <<>> /\ Free(events, Moves)
    /\ Asked => /\ planner = "ahead" /\ saved = Planned /\ ~Pending
                /\ \/ requests = <<>>
                   \/ Tail(requests) = <<>> /\ ~Has(queue, "Suspend")
GoingDown ==
    /\ ~Asked /\ ~Pending /\ planner = "ahead"
    /\ machine = "preparing" /\ signals = SleepSignal /\ lock
    /\ saved = Planned /\ (written => disk = Planned)
    /\ state = "Armed" /\ Free(events, Moves)
Down ==
    /\ ~Asked /\ ~Pending /\ planner = "ahead"
    /\ machine # "up" /\ signals = <<>> /\ disk = Planned
    /\ Heard /\ Free(events, Wakings)
UpAgain ==
    /\ ~Asked /\ ~Pending /\ machine = "up" /\ Heard
    /\ \/ signals = WakeSignal /\ Free(events, Wakings)
       \/ signals = <<>> /\ ~Free(events, Wakings)

Stages == Preparing \/ GoingDown \/ Down \/ UpAgain
SleepInv ==
    /\ Own => Stages
    /\ config \notin Outside /\ alive /\ state = "Checking" => planner = "none"

\* No reload takes away what else suspends the machine.
OutsideStays == alive /\ config \in Outside => config' \in Outside

\* Nothing about sleep comes or goes.
EventsCalm ==
    /\ Free(events, Moves) => Free(events', Moves)
    /\ Free(events, Wakings) <=> Free(events', Wakings)
    /\ FirstIn(events, Wakings, Naps) => FirstIn(events', Wakings, Naps)

LEMMA MovesSay ==
  /\ Naps \subseteq Moves /\ Wakings \subseteq Moves /\ Naps \cap Wakings = {}
  /\ Free(events, Moves) => Free(events, Wakings)
  /\ \A e \in Events \cup Reports : e \in Moves <=> e.event \in {"Suspending", "Resumed"}
  /\ \A e \in Events \cup Reports : e \in Wakings <=> e.event = "Resumed"
  /\ \A e \in Events \cup Reports : e \in Naps <=> e.event = "Suspending"
BY DEF Naps, Moves, Wakings, Free

LEMMA OneSignal ==
  /\ Append(<<>>, TRUE) = SleepSignal /\ Append(<<>>, FALSE) = WakeSignal
  /\ SleepSignal # <<>> /\ Tail(SleepSignal) = <<>>
  /\ WakeSignal # <<>> /\ Tail(WakeSignal) = <<>>
  /\ SleepSignalled => signals # <<>> /\ signals # WakeSignal
  /\ signals # <<>> /\ ~SleepSignalled => signals # SleepSignal
<1>1. \A b : Append(<<>>, b) = <<b>> /\ <<b>> # <<>> /\ Tail(<<b>>) = <<>> /\ Head(<<b>>) = b
  OBVIOUS
<1> QED
  BY <1>1, Zenon DEF SleepSignal, WakeSignal, SleepSignalled

LEMMA CalmSent ==
  ASSUME Sorted, NEW e \in Events \cup Reports, events' = Append(events, e),
         e.event \notin {"Suspending", "Resumed"}
  PROVE  EventsCalm
<1>1. events \in Seq(Events \cup Reports)
  BY DEF Sorted, Sorts
<1>2. e \notin Moves /\ e \notin Wakings
  BY MovesSay
<1> QED
  BY <1>1, <1>2, ChannelSends, FirstSends DEF EventsCalm

LEMMA CalmTaken ==
  ASSUME Sorted, events # <<>>, events' = Tail(events),
         Head(events).event \notin {"Suspending", "Resumed"}
  PROVE  EventsCalm
<1>1. events \in Seq(Events \cup Reports) /\ Head(events) \in Events \cup Reports
  BY TailAt DEF Sorted, Sorts
<1>2. Head(events) \notin Moves /\ Head(events) \notin Wakings /\ Head(events) \notin Naps
  BY <1>1, MovesSay
<1> QED
  BY <1>1, <1>2, FreeTail, ChannelTakes, FirstTakes DEF EventsCalm

LEMMA PlannedSaved ==
  ASSUME saved' = [cycle |-> state' \in Phases, wake |-> planner' # "none"],
         state' \in Phases, planner' # "none"
  PROVE  saved' = Planned
<1>1. (state' \in Phases) = TRUE /\ (planner' # "none") = TRUE
  BY Zenon
<1> QED
  BY <1>1, Zenon DEF Planned

\* A step that has nothing to do with sleep.
LEMMA SleepStays ==
  ASSUME Stages, EventsCalm,
         UNCHANGED <<state, machine, signals, lock, planner, written, disk>>,
         saved' = saved \/ (planner = "ahead" => saved' = Planned),
         requests' = requests \/ requests' = <<>>,
         Has(queue', "Suspend") => Has(queue, "Suspend"),
         Has(queue', "ScheduleWake") => Has(queue, "ScheduleWake")
  PROVE  Stages'
<1>1. (Asked' => Asked) /\ (Pending' => Pending)
  BY DEF Asked, Pending
<1>2. Heard => Heard'
  BY DEF Heard, EventsCalm
<1>3. CASE Preparing
  BY <1>1, <1>3 DEF Preparing, EventsCalm, Stages
<1>4. CASE GoingDown
  BY <1>1, <1>4 DEF GoingDown, EventsCalm, Stages
<1>5. CASE Down
  BY <1>1, <1>2, <1>5 DEF Down, EventsCalm, Stages
<1>6. CASE UpAgain
  BY <1>1, <1>2, <1>6 DEF UpAgain, EventsCalm, Stages
<1> QED
  BY <1>3, <1>4, <1>5, <1>6 DEF Stages

LEMMA SleepExecute ==
  ASSUME Sorted, OrderInv, SleepInv, Execute, ~Ends, OutsideStays, Own'
  PROVE  Stages'
<1>0. /\ Deeds /\ queue # <<>> /\ alive /\ Now \in Command /\ Good
      /\ queue \in Seq(Command)
      /\ UNCHANGED <<events, machine, lock, signals, written>>
  BY ExecuteDeeds, SortedBase DEF Sorted, Sorts
<1>1. state' \in {"Armed", "LongSleeping"} /\ config \notin Outside
  BY <1>0 DEF Own, OutsideStays
<1>2. state' = state /\ disk' = disk
  BY <1>1, DeedsPlan
<1>3. /\ Now \in Calm => Rest \in Seq(Calm) \/ \E c : Due(c) /\ Lone(Rest, c)
      /\ Now \notin Calm => Due(Now) /\ Rest \in Seq(Calm)
      /\ Now \in Bare
  BY <1>0, <1>1, <1>2, OrderRest
<1>4. ~RunCancelWake
  <2>1. RunCancelWake => Now.op = "CancelWake"
    BY DEF RunCancelWake, Executing, Now
  <2>2. Now.op = "CancelWake" => Now = Do("CancelWake")
    BY <1>0, AlarmOps DEF Clear
  <2> QED
    BY <1>3, <2>1, <2>2 DEF Bare
<1>5. Own /\ Stages
  <2>1. planner' = planner \/ RunScheduleWake
    BY <1>4, DeedsPlan
  <2>2. RunScheduleWake => state = "Armed"
    BY ArmsInArmed
  <2> QED
    BY <1>0, <1>1, <1>2, <2>1, <2>2 DEF Own, SleepInv
<1>6. EventsCalm
  BY <1>0 DEF EventsCalm
<1>7. \A op : Has(Rest, op) \/ Now.op = op => Has(queue, op)
  BY <1>0, HasOf DEF Now, Rest
<1>8. CASE Passes
  <2>1. queue' = Rest /\ UNCHANGED <<requests, planner, saved>>
    BY <1>8 DEF Passes, Done
  <2> QED
    BY <1>0, <1>2, <1>5, <1>6, <1>7, <2>1, SleepStays
<1>9. CASE Reloads1 \/ Fails
  <2>1. UNCHANGED <<requests, planner, saved>>
    BY <1>9 DEF Reloads1, Fails, RunReload, RunSuspend, wakeVars, diskVars
  <2>2. Quiet
    <3>1. CASE Reloads1
      <4>1. PICK c \in Configs : SetConfig(c, Now.replyTo, <<>>)
        BY <3>1 DEF Reloads1
      <4>2. Now.op = "Reload"
        BY <3>1 DEF Reloads1, RunReload, Executing, Now
      <4>3. Now.replyTo \in Clients \cup {NONE}
        BY <4>2, ExecuteDeeds
      <4> QED
        BY <1>0, <4>1, <4>3, Silence, SaysSetConfig
    <3>2. CASE Fails
      <4>1. OnSleepFailed(Rest) /\ Now \notin Calm
        BY <3>2 DEF Fails, RunSuspend, Executing, Now, Calm
      <4> QED
        BY <1>0, <1>3, <4>1, SaysOnSleepFailed
    <3> QED
      BY <1>9, <3>1, <3>2
  <2>3. ~Has(queue', "Suspend") /\ ~Has(queue', "ScheduleWake")
    BY <2>2, CalmSays DEF Quiet
  <2> QED
    BY <1>0, <1>2, <1>5, <1>6, <2>1, <2>3, SleepStays
<1>10. CASE Asks
  <2>1. /\ Now.op = "Suspend" /\ Now \notin Calm /\ queue' = Rest
        /\ requests' = Append(requests, Sleep(Now)) \/ requests' = requests
        /\ UNCHANGED <<planner, saved>>
    BY <1>10 DEF Asks, RunSuspend, Executing, Now, Calm, Done, wakeVars, diskVars
  <2>2. Asked /\ Has(queue, "Suspend")
    BY <1>7, <2>1 DEF Asked
  <2>3. /\ Preparing /\ planner = "ahead" /\ saved = Planned
        /\ requests = <<>>
    BY <1>5, <2>2 DEF Stages, GoingDown, Down, UpAgain, Preparing
  <2>4. ~Has(queue', "Suspend") /\ ~Has(queue', "ScheduleWake")
    BY <1>3, <2>1, CalmSays
  <2>5. requests' = <<>> \/ Tail(requests') = <<>>
    <3>1. \A b : Tail(Append(<<>>, b)) = <<>>
      OBVIOUS
    <3> QED
      BY <2>1, <2>3, <3>1, Zenon
  <2> QED
    BY <1>0, <1>2, <1>6, <2>1, <2>3, <2>4, <2>5
       DEF Preparing, Stages, Asked, Pending, EventsCalm
<1>11. CASE RunPowerOff
  <2>1. Now.op = "PowerOff" /\ Now \notin Calm
    BY <1>11 DEF RunPowerOff, Executing, Now, Calm
  <2> QED
    BY <1>1, <1>2, <1>3, <2>1, DueCommands
<1>12. CASE RunScheduleWake
  <2>1. /\ Now.op = "ScheduleWake" /\ requests' = requests
        /\ saved' = [cycle |-> state' \in Phases, wake |-> planner' # "none"]
    BY <1>12 DEF RunScheduleWake, Executing, Now, Remembers
  <2>2. Pending /\ state = "Armed" /\ Rest \in Seq(Calm)
    BY <1>7, <1>12, <2>1, ArmsInArmed DEF Pending
  <2>3. Preparing /\ requests = <<>>
    BY <1>5, <2>2 DEF Stages, GoingDown, Down, UpAgain, Preparing, Asked
  <2>4. PICK outcome \in SetOutcomes :
           SetsAlarm(outcome) /\ OnWakeScheduled(outcome = "armed", Rest)
    BY <1>12 DEF RunScheduleWake
  <2>5. Quiet \/ (outcome = "armed" /\ SleepsArmed)
    BY <1>0, <2>2, <2>4, SaysOnWakeScheduled
  <2>6. CASE Quiet
    <3>1. ~Has(queue', "Suspend") /\ ~Has(queue', "ScheduleWake")
      BY <2>6, CalmSays DEF Quiet
    <3> QED
      BY <1>0, <1>2, <1>6, <2>1, <2>3, <3>1 DEF Preparing, Stages, Asked, EventsCalm
  <2>7. CASE outcome = "armed" /\ SleepsArmed
    <3>1. planner' = "ahead" /\ state' = "Armed"
      BY <2>4, <2>7 DEF SetsAlarm, SleepsArmed
    <3>2. saved' = Planned
      BY <2>1, <3>1, PlannedSaved DEF Phases
    <3>3. ~Has(queue', "ScheduleWake")
      <4>1. Lone(queue', Suspend("Configured", FALSE))
        BY <2>7 DEF SleepsArmed
      <4>2. Suspend("Configured", FALSE).op # "ScheduleWake"
        BY DEF Suspend
      <4> QED
        BY <4>1, <4>2, LoneSays
    <3> QED
      BY <1>0, <1>2, <1>6, <2>1, <2>3, <3>1, <3>2, <3>3
         DEF Preparing, Stages, Asked, Pending, EventsCalm
  <2> QED
    BY <2>5, <2>6, <2>7
<1> QED
  BY <1>0, <1>4, <1>8, <1>9, <1>10, <1>11, <1>12 DEF Deeds

\* What an event that leaves the engine in the cycle asks for.
LEMMA TakesQuiet ==
  ASSUME Sorted, TakeEvent, state' \in {"Armed", "LongSleeping"}
  PROVE  ~Has(queue', "Suspend") /\ ~Has(queue', "ScheduleWake")
<1> DEFINE e == Head(events)
<1>0. Good /\ e \in Events \cup Reports
  BY SortedBase, TailAt DEF TakeEvent, Sorted, Sorts
<1>1. Warranted
  <2>1. CASE TakeResumed
    BY <1>0, <2>1, SaysOnResumed DEF TakeResumed
  <2>2. CASE e.event # "Resumed" /\ Handle(e)
    <3>1. e \in Event /\ e.event # "Timer"
      BY <1>0, <2>2, EventTyped
    <3> QED
      BY <1>0, <2>2, <3>1, SaysHandle
  <2> QED
    BY <2>1, <2>2 DEF TakeEvent, e
<1>2. Quiet
  BY <1>1 DEF Warranted, AsksForSleep, ActsCritical
<1> QED
  BY <1>2, CalmSays DEF Quiet

LEMMA SleepTakeEvent ==
  ASSUME Sorted, MemInv, SleepInv, TakeEvent, OutsideStays
  PROVE  SleepInv'
<1> DEFINE e == Head(events)
<1>0. Good
  BY SortedBase
<1>1. /\ queue = <<>> /\ alive /\ alive' = alive
      /\ UNCHANGED <<machine, lock, signals, written, disk, requests>>
      /\ saved' = [cycle |-> state' \in Phases, wake |-> planner' # "none"]
      /\ config' \notin Outside => config \notin Outside
  BY TakesPlan DEF machineVars, OutsideStays
<1>2. /\ events \in Seq(Events \cup Reports) /\ events # <<>> /\ events' = Tail(events)
      /\ e \in Events \cup Reports
  BY TailAt DEF TakeEvent, Sorted, Sorts
<1>3. planner # "none" => state \in PastGrace
  BY <1>1, EmptySays DEF MemInv, Planning, Settles
<1>4. Own' => ~Asked' \/ requests # <<>>
  BY <1>1, TakesQuiet DEF Own, Asked
<1>5. Own' => ~Pending' /\ ~Has(queue', "Suspend")
  BY TakesQuiet DEF Own, Pending
<1>6. ~Has(queue, "Suspend") /\ ~Has(queue, "ScheduleWake")
  BY <1>1, EmptySays
<1> HIDE DEF e
<1>7. CASE TakeResumed
  <2>1. PICK byUser : OnResumed(byUser)
    BY <1>7 DEF TakeResumed
  <2>2. state' = "Active" \/ (state \in Phases /\ state' = "Checking")
    BY <2>1, ResumedState DEF InCycle
  <2>3. e \in Wakings /\ e \in Moves /\ e \notin Naps
    BY <1>2, <1>7, MovesSay DEF TakeResumed, e
  <2>4. /\ ~Free(events, Wakings) /\ ~Free(events, Moves)
        /\ ~FirstIn(events, Wakings, Naps)
    BY <1>2, <2>3, FreeTail, FirstTakes DEF e
  <2>5. config' \notin Outside => state # "Armed"
    BY <1>1, <2>4 DEF SleepInv, Own, Stages, Preparing, GoingDown, Down, UpAgain, Heard
  <2>6. state = "LongSleeping" => planner' = "none"
    BY <1>7 DEF TakeResumed
  <2>7. planner' = planner \/ planner' = "none"
    BY <1>7 DEF TakeResumed
  <2> QED
    BY <1>1, <1>3, <2>2, <2>5, <2>6, <2>7 DEF SleepInv, Own, PastGrace, Phases
<1>8. CASE e.event = "Suspending" /\ Handle(e) /\ planner' = planner
  <2>1. state' = IF InCycle THEN "LongSleeping" ELSE "Sleeping"
    <3>1. OnSuspending
      BY <1>8 DEF Handle
    <3> QED
      BY <3>1, BecomeState DEF OnSuspending
  <2>2. e \in Moves /\ e \notin Wakings
    BY <1>2, <1>8, MovesSay
  <2>3. /\ ~Free(events, Moves)
        /\ Free(events, Wakings) <=> Free(events', Wakings)
    BY <1>2, <2>2, FreeTail, ChannelTakes DEF e
  <2>4. Own' => Own
    BY <1>1, <1>3, <1>8, <2>1 DEF SleepInv, Own, PastGrace, Phases
  <2>5. Own' => Down \/ UpAgain
    BY <2>3, <2>4 DEF SleepInv, Stages, Preparing, GoingDown
  <2>6. Own' => Heard' /\ ~Asked'
    BY <1>4, <2>1, <2>5 DEF Own, Heard, Down, UpAgain, Asked
  <2>7. Own' /\ Down => Down'
    BY <1>1, <1>5, <1>8, <2>3, <2>6 DEF Down
  <2>8. Own' /\ UpAgain => UpAgain'
    BY <1>1, <1>5, <1>8, <2>3, <2>6 DEF UpAgain
  <2> QED
    BY <2>1, <2>5, <2>7, <2>8 DEF SleepInv, Stages
<1>9. CASE e.event \notin {"Resumed", "Suspending"} /\ Handle(e) /\ planner' = planner
  <2>1. state' \in PastGrace => state' = state
    BY <1>0, <1>2, <1>9, EventTyped, EntersHandle DEF Enters
  <2>2. EventsCalm
    BY <1>2, <1>9, CalmTaken DEF e
  <2>3. config' \notin Outside /\ state' = "Checking" => planner' = "none"
    BY <1>1, <1>9, <2>1 DEF SleepInv, PastGrace, Phases
  <2>4. ASSUME Own' PROVE Stages'
    <3>1. state' = state /\ Own /\ Stages
      BY <1>1, <1>9, <2>1, <2>4 DEF SleepInv, Own, PastGrace, Phases
    <3>2. planner = "ahead" => saved' = Planned
      BY <1>1, <1>9, <2>4, PlannedSaved DEF Own, Phases
    <3>3. ~Has(queue', "Suspend") /\ ~Has(queue', "ScheduleWake")
      BY <1>5, <2>4 DEF Pending
    <3> QED
      BY <1>1, <1>9, <2>2, <3>1, <3>2, <3>3, SleepStays
  <2> QED
    BY <2>3, <2>4 DEF SleepInv
<1> QED
  BY <1>7, <1>8, <1>9 DEF TakeEvent, wakeVars, e

LEMMA SleepTakeTimer ==
  ASSUME Prompt, Sorted, SleepInv, NEW t \in Timers, TakeTimer(t), OutsideStays
  PROVE  SleepInv'
<1>1. /\ queue = <<>> /\ alive /\ alive' = alive /\ OnTimer(t) /\ Good
      /\ UNCHANGED <<events, machine, lock, signals, written, disk, requests, planner>>
      /\ requests = <<>> /\ signals = <<>> /\ machine = "up"
      /\ \A i \in 1..Len(events) : events[i].event \notin {"Suspending", "Resumed"}
      /\ config' \notin Outside => config \notin Outside
  BY SortedBase DEF TakeTimer, Takes, Running, machineVars, wakeVars, diskVars, mainVars,
     OutsideStays
<1>2. Free(events, Moves)
  BY <1>1 DEF Free, Moves
<1>3. state' \in PastGrace => state' \in {state, "Armed"}
  BY <1>1, TimerEnters
<1>4. config' \notin Outside /\ state' = "Checking" => planner' = "none"
  BY <1>1, <1>3 DEF SleepInv, PastGrace, Phases
<1>5. ASSUME Own', state' = "Armed" PROVE Preparing'
  <2>1. ~Has(queue', "Suspend")
    <3>1. CASE Warranted
      BY <1>5, <3>1, CalmSays DEF Warranted, Quiet, AsksForSleep, ActsCritical
    <3>2. CASE ArmsAnew
      <4>1. Do("ScheduleWake").op # "Suspend"
        BY DEF Do
      <4> QED
        BY <3>2, <4>1, LoneSays DEF ArmsAnew
    <3> QED
      BY <1>1, <3>1, <3>2, SaysOnTimer
  <2> QED
    BY <1>1, <1>2, <1>5, <2>1 DEF Preparing, Asked
<1>6. ASSUME Own', state' = "LongSleeping" PROVE FALSE
  <2>1. state = "LongSleeping" /\ Own
    BY <1>1, <1>3, <1>6 DEF Own, PastGrace, Phases
  <2>2. ~Preparing /\ ~GoingDown /\ ~Down
    BY <1>1, <2>1 DEF Preparing, GoingDown, Down
  <2>3. ~UpAgain
    BY <1>1, <1>2, MovesSay, OneSignal DEF UpAgain
  <2> QED
    BY <2>1, <2>2, <2>3 DEF SleepInv, Stages
<1> QED
  BY <1>4, <1>5, <1>6 DEF SleepInv, Own, Stages

LEMMA SignalHeads ==
  /\ SleepSignalled => signals # <<>> /\ Head(signals)
  /\ signals # <<>> /\ Head(signals) => SleepSignalled
BY Zenon DEF SleepSignalled

\* What the tasks of logind and the world do to the sleep of the cycle: each
\* takes its attempt one stage on, or leaves it where it is.
LEMMA SleepElsewhere ==
  ASSUME Faulty = {}, Sorted, MemInv, SleepInv, Elsewhere, Own'
  PROVE  Stages'
<1>0. /\ events \in Seq(Events \cup Reports) /\ queue' = queue
      /\ state' = state /\ config' = config /\ alive' = alive /\ saved' = saved
      /\ planner' = planner \/ (planner = "ahead" /\ planner' = "passed")
  BY ElsewhereKeeps, PlannerElsewhere DEF Sorted, Sorts
<1>1. Own /\ Stages /\ alive /\ config \notin Outside
  BY <1>0 DEF SleepInv, Own
<1>2. ASSUME UNCHANGED <<machine, signals, lock, planner, written, disk, requests>>,
             EventsCalm
      PROVE  Stages'
  BY <1>0, <1>1, <1>2, SleepStays
<1>3. ASSUME NEW e \in Events, Arrives(e) PROVE Stages'
  <2>1. EventsCalm
    BY <1>3, CalmSent, DaemonAssumption DEF Arrives
  <2> QED
    BY <1>2, <1>3, <2>1 DEF Arrives, machineVars, wakeVars, diskVars
<1>4. CASE ExecuteRequest
  <2>1. /\ requests # <<>> /\ requests' = Tail(requests)
        /\ UNCHANGED <<planner, disk, written, lock>>
    BY <1>4 DEF ExecuteRequest, Prepares, wakeVars, diskVars, machineVars
  <2>2. /\ Preparing /\ planner = "ahead" /\ saved = Planned /\ ~Pending
        /\ Tail(requests) = <<>> /\ ~Has(queue, "Suspend")
    BY <1>1, <2>1 DEF Stages, Preparing, GoingDown, Down, UpAgain, Asked
  <2>3. ~Asked' /\ ~Pending'
    BY <1>0, <2>1, <2>2 DEF Asked, Pending
  <2>4. CASE Prepares /\ events' = events
    <3>1. machine' = "preparing" /\ signals' = Append(signals, TRUE)
      BY <1>1, <2>4 DEF Prepares
    <3>2. signals' = SleepSignal
      BY <2>2, <3>1, OneSignal DEF Preparing
    <3>3. lock /\ ~written
      <4>1. ~SleepSignalled
        BY <2>2, OneSignal DEF Preparing
      <4> QED
        BY <1>1, <2>2, <4>1 DEF Preparing, MemInv
    <3> QED
      BY <1>0, <2>1, <2>2, <2>3, <2>4, <3>1, <3>2, <3>3
         DEF Preparing, GoingDown, Stages
  <2>5. CASE EventsCalm /\ UNCHANGED machineVars
    BY <1>0, <2>1, <2>2, <2>3, <2>5 DEF Preparing, EventsCalm, Stages, machineVars
  <2>6. UNCHANGED machineVars => EventsCalm
    <3>1. /\ [event |-> "SleepBlocked", blocked |-> TRUE] \in Reports
          /\ [event |-> "SleepFailed"] \in Reports
          /\ [event |-> "ShutdownRequested"] \in Reports
      BY DEF Reports
    <3>2. UNCHANGED machineVars =>
             \/ events' = events
             \/ events' = Append(events, [event |-> "SleepBlocked", blocked |-> TRUE])
             \/ events' = Append(events, [event |-> "SleepFailed"])
             \/ events' = Append(events, [event |-> "ShutdownRequested"])
      BY <1>4 DEF ExecuteRequest, Refuses, Sends
    <3>3. events' = events => EventsCalm
      BY DEF EventsCalm
    <3> QED
      BY <3>1, <3>2, <3>3, CalmSent
  <2> QED
    BY <1>4, <2>4, <2>5, <2>6 DEF ExecuteRequest
<1>5. ~OutsideSuspend
  BY <1>1 DEF OutsideSuspend
<1>6. CASE FallAsleep
  <2>1. /\ machine = "preparing" /\ ~lock /\ machine' = "asleep"
        /\ UNCHANGED <<events, requests, signals, planner, disk>>
    BY <1>6 DEF FallAsleep, wakeVars, diskVars
  <2>2. Down
    BY <1>1, <2>1 DEF Stages, Preparing, GoingDown, UpAgain
  <2> QED
    BY <1>0, <2>1, <2>2 DEF Stages, Down, Asked, Pending, Heard
<1>7. CASE AlarmWakes \/ UserWakes
  <2>1. /\ machine = "asleep" /\ machine' = "up" /\ signals' = Append(signals, FALSE)
        /\ UNCHANGED <<events, requests>>
    BY <1>1, <1>7 DEF AlarmWakes, UserWakes, Wakes
  <2>2. Down
    BY <1>1, <2>1 DEF Stages, Preparing, GoingDown, UpAgain
  <2>3. signals' = WakeSignal
    BY <2>1, <2>2, OneSignal DEF Down
  <2> QED
    BY <1>0, <2>1, <2>2, <2>3 DEF Stages, Down, UpAgain, Asked, Pending, Heard
<1>8. CASE SaveState
  <2>1. /\ SleepSignalled /\ disk' = saved
        /\ UNCHANGED <<events, requests, machine, lock, signals, planner>>
    BY <1>8, Attempted, SignalHeads, Zenon DEF SaveState, wakeVars
  <2>2. GoingDown
    BY <1>1, <2>1, OneSignal DEF Stages, Preparing, Down, UpAgain
  <2> QED
    BY <1>0, <2>1, <2>2 DEF Stages, GoingDown, Asked, Pending
<1>9. CASE ReportSleep
  <2>1. SleepSignalled /\ written /\ events' = Append(events, [event |-> "Suspending"])
    BY <1>9, SignalHeads, Zenon DEF ReportSleep, Sends
  <2>2. /\ signals' = Tail(signals)
        /\ UNCHANGED <<requests, machine, planner, disk>>
    BY <1>9, Zenon DEF ReportSleep, wakeVars, diskVars
  <2>3. GoingDown
    BY <1>1, <2>1, OneSignal DEF Stages, Preparing, Down, UpAgain
  <2>4. [event |-> "Suspending"] \in Reports
    BY DEF Reports
  <2>5. [event |-> "Suspending"] \in Naps /\ [event |-> "Suspending"] \notin Wakings
    BY <2>4, MovesSay DEF Naps
  <2>6. Free(events', Wakings) /\ FirstIn(events', Wakings, Naps)
    BY <1>0, <2>1, <2>3, <2>4, <2>5, MovesSay, ChannelSends, FirstSends DEF GoingDown
  <2>7. signals' = <<>>
    BY <2>2, <2>3, OneSignal DEF GoingDown
  <2> QED
    BY <1>0, <2>1, <2>2, <2>3, <2>6, <2>7 DEF Stages, GoingDown, Down, Asked, Pending, Heard
<1>10. CASE ReportWake
  <2>1. signals # <<>> /\ ~SleepSignalled /\ events' = Append(events, [event |-> "Resumed"])
    BY <1>10, SignalHeads, Zenon DEF ReportWake, Sends
  <2>2. signals' = Tail(signals) /\ UNCHANGED <<requests, machine, planner>>
    BY <1>10, Zenon DEF ReportWake, wakeVars
  <2>3. UpAgain /\ signals = WakeSignal
    BY <1>1, <2>1, OneSignal DEF Stages, Preparing, GoingDown, Down, UpAgain
  <2>4. [event |-> "Resumed"] \in Reports
    BY DEF Reports
  <2>5. [event |-> "Resumed"] \in Wakings
    BY <2>4, MovesSay
  <2>6. ~Free(events', Wakings)
    BY <1>0, <2>1, <2>4, <2>5, ChannelSends
  <2>7. Heard => Heard'
    BY <1>0, <2>1, <2>4, FirstSends DEF Heard
  <2>8. signals' = <<>>
    BY <2>2, <2>3, OneSignal
  <2> QED
    BY <1>0, <2>2, <2>3, <2>6, <2>7, <2>8 DEF Stages, UpAgain, Asked, Pending
<1>11. CASE UNCHANGED daemonVars
  BY <1>2, <1>11 DEF daemonVars, machineVars, wakeVars, diskVars, EventsCalm
<1> QED
  BY <1>3, <1>4, <1>5, <1>6, <1>7, <1>8, <1>9, <1>10, <1>11 DEF Elsewhere

LEMMA SleepStep ==
  ASSUME Prompt, Faulty = {}, Sorted, OrderInv, MemInv, SleepInv, [DaemonNext]_daemonVars,
         [OutsideStays]_daemonVars
  PROVE  SleepInv'
<1>0. OutsideStays
  <2>1. UNCHANGED daemonVars => config' = config
    BY ElsewhereKeeps DEF Elsewhere
  <2> QED
    BY <2>1 DEF OutsideStays
<1>1. CASE Execute /\ ~Ends
  <2>1. config' \notin Outside => config \notin Outside
    BY <1>0, <1>1, ExecuteDeeds DEF OutsideStays
  <2>2. state' = "Checking" => state = "Checking" /\ planner' \in {planner, "none"}
    BY <1>1, DeedsPlan, ArmsInArmed
  <2> QED
    BY <1>0, <1>1, <2>1, <2>2, ExecuteDeeds, SleepExecute DEF SleepInv
<1>2. CASE TakeEvent \/ \E t \in Timers : TakeTimer(t)
  BY <1>0, <1>2, SleepTakeEvent, SleepTakeTimer
<1>3. CASE Ends
  BY <1>3 DEF Ends, SleepInv, Own
<1>4. CASE Restart
  <2>1. state' \in {"Active", "Checking"} /\ planner' = "none"
    BY <1>4, StartedRestart DEF Started, Restart
  <2> QED
    BY <2>1 DEF SleepInv, Own
<1>5. CASE Elsewhere
  <2>1. /\ UNCHANGED <<state, config, alive>>
        /\ planner = "none" => planner' = "none"
    BY <1>5, ElsewhereKeeps, PlannerElsewhere
  <2> QED
    BY <1>5, <2>1, SleepElsewhere DEF SleepInv
<1> QED
  BY <1>1, <1>2, <1>3, <1>4, <1>5, StepKinds

LEMMA SleepInit == ASSUME DaemonInit PROVE SleepInv
<1>1. state \in {"Active", "Checking"} /\ planner = "none"
  BY StartedInit DEF DaemonInit, Started
<1> QED
  BY <1>1 DEF SleepInv, Own

LEMMA SleepGoes ==
  ASSUME Sorted, MemInv, SleepInv, [DaemonNext]_daemonVars,
         config \notin Outside, CycleSleeps
  PROVE  alarm /\ disk = Planned
<1>1. machine = "preparing" /\ machine' = "asleep" /\ alive /\ Own
  BY DEF CycleSleeps, Own
<1>2. Elsewhere
  BY <1>1, StepKinds, ExecuteDeeds, TakesPlan DEF Ends, Restart, machineVars
<1>3. ~lock
  <2>1. CASE SaveState \/ ReportSleep \/ ReportWake
    BY <1>1, <2>1, Zenon DEF SaveState, ReportSleep, ReportWake
  <2>2. CASE FallAsleep
    BY <2>2 DEF FallAsleep
  <2> QED
    BY <1>1, <1>2, <2>1, <2>2 DEF Elsewhere, Arrives, ExecuteRequest, Prepares,
       OutsideSuspend, AlarmWakes, UserWakes, Wakes, daemonVars, machineVars
<1>4. Down
  BY <1>1, <1>3 DEF SleepInv, Stages, Preparing, GoingDown, UpAgain
<1> QED
  BY <1>1, <1>4 DEF Down, MemInv

\* Where nobody else suspends the machine, it never goes to sleep in the cycle
\* without its alarm, and state.json says by then that this is the cycle and
\* that an alarm is armed (main.rs, ScheduleWake and remember; logind.rs,
\* sleep_listener).  Prompt as above; the lock is given, and the file can be
\* written; no reload takes a daemon from a configuration beside which others
\* suspend to one beside which they do not.
THEOREM ServerSleepsWithAlarmHolds ==
  Prompt /\ Faulty = {} =>
     (DaemonSpec /\ [][OutsideStays]_daemonVars => ServerSleepsWithAlarm)
<1> SUFFICES ASSUME Prompt, Faulty = {}
             PROVE  DaemonSpec /\ [][OutsideStays]_daemonVars => ServerSleepsWithAlarm
  OBVIOUS
<1> DEFINE A == config \notin Outside \cup Faulty /\ CycleSleeps =>
                   alarm /\ disk = [cycle |-> TRUE, wake |-> TRUE]
<1>1. DaemonInit => SleepInv
  BY SleepInit
<1>2. /\ Sorted /\ OrderInv /\ MemInv /\ SleepInv /\ [DaemonNext]_daemonVars
      /\ [OutsideStays]_daemonVars
      => SleepInv'
  BY SleepStep
<1>3. Sorted /\ MemInv /\ SleepInv /\ [DaemonNext]_daemonVars => [A]_daemonVars
  BY SleepGoes DEF Planned
<1> QED
  BY SortedAlways, MemAlways, <1>1, <1>2, <1>3, PTL DEF DaemonSpec, ServerSleepsWithAlarm
=============================================================================
