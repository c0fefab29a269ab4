--------------------------- MODULE EngineProofs ---------------------------
(***************************************************************************)
(* Proofs about Engine, for every configuration, every percentage and any  *)
(* number of inhibitors and clients, and for any sequence of events.       *)
(*                                                                         *)
(* NoRetryInCycle and GivesUpInTime are proved together: their conjunction *)
(* CycleInv is inductive.  ModeFollowsPower and LowFollowsBattery are, in  *)
(* PowerInv, with the types of what they speak of.  Each handler has a     *)
(* lemma, for every `out`, so that Daemon can use it in mid-queue.         *)
(*                                                                         *)
(* Then the commands: they are typed, and of those that put the machine to *)
(* sleep or off there are no more than the state and the power warrant.    *)
(* Engine implements Cycle; whatever leaves the cycle past Grace turns the *)
(* screen on and clears the alarm; past Grace no handler sets idle stages. *)
(***************************************************************************)
EXTENDS Engine, TLAPS

-----------------------------------------------------------------------------
(* What the helpers do to the variables the invariants speak of.           *)

\* Become moves to the state it is given.
LEMMA BecomeState ==
  ASSUME NEW s, NEW intr, NEW out, Become(s, intr, out)
  PROVE  state' = s
BY DEF Become

\* Leaving the cycle, by whatever exit, ends in Active.
LEMMA LeaveCycleState ==
  ASSUME NEW a, NEW intr, NEW out, NEW reply, LeaveCycle(a, intr, out, reply)
  PROVE  state' = "Active"
BY BecomeState DEF LeaveCycle

LEMMA PowerIsBackState ==
  ASSUME NEW out, PowerIsBack(out)
  PROVE  state' = "Active"
BY LeaveCycleState DEF PowerIsBack

LEMMA CheckPowerState ==
  ASSUME CheckPower
  PROVE  state' \in {"Active", "Checking"}
BY BecomeState, PowerIsBackState DEF CheckPower, StayChecking

LEMMA EnterGraceState ==
  ASSUME NEW m, NEW out, NEW reply, EnterGrace(m, out, reply)
  PROVE  state' = "Grace" /\ pendingSleep' = FALSE /\ sleepFailures' = 0
BY BecomeState DEF EnterGrace

\* A failed attempt is counted, and the last one ends the cycle.
LEMMA CycleFailureState ==
  ASSUME NEW out, NEW reply, CycleFailure(out, reply), sleepFailures \in Nat
  PROVE  /\ sleepFailures' = sleepFailures + 1
         /\ \/ state' = "Active"
            \/ state' = state /\ sleepFailures' < MaxSleepFailures
<1>1. sleepFailures' = sleepFailures + 1
  BY DEF CycleFailure
<1>2. CASE LeaveCycle(ac, interrupted, out, reply)
  BY <1>1, <1>2, LeaveCycleState
<1>3. CASE /\ ~GivesUp(sleepFailures + 1)
           /\ Become(state, interrupted, out \o <<StartTimer(AwakeWindow)>> \o reply)
  BY <1>1, <1>3, BecomeState DEF GivesUp, MaxSleepFailures
<1> QED
  BY <1>2, <1>3 DEF CycleFailure

LEMMA ArmState ==
  ASSUME NEW first, Arm(first)
  PROVE  state' = "Armed"
BY BecomeState DEF Arm

LEMMA ArmSleepRetryState ==
  ASSUME NEW s, NEW pending, NEW out, ArmSleepRetry(s, pending, out)
  PROVE  state' = s
BY BecomeState DEF ArmSleepRetry

LEMMA GoToSleepState ==
  ASSUME NEW force, NEW reply, NEW out, GoToSleep(force, reply, out)
  PROVE  /\ state' = "Suspending" /\ pendingSleep' = FALSE
         /\ suspendFrom' = state
BY BecomeState DEF GoToSleep

-----------------------------------------------------------------------------
(* No retry, and no attempt too many, inside the cycle.                    *)

CycleInv ==
    /\ NoRetryInCycle
    /\ GivesUpInTime
    /\ sleepFailures \in Nat

\* The variables CycleInv depends on.
Kept == UNCHANGED <<state, pendingSleep, suspendFrom, sleepFailures>>

LEMMA CycleInvKept == ASSUME CycleInv, Kept PROVE CycleInv'
BY DEF CycleInv, Kept, NoRetryInCycle, GivesUpInTime, InCycle

\* A step that ends outside the cycle keeps CycleInv, whatever it does to the
\* flag, as long as it does not remember a phase as the state to go back to.
LEMMA CycleInvOutside ==
  ASSUME CycleInv, state' \notin Phases, suspendFrom' = suspendFrom,
         sleepFailures' \in Nat
  PROVE  CycleInv'
BY DEF CycleInv, NoRetryInCycle, GivesUpInTime, InCycle

\* A step inside the cycle keeps it if it arms no retry and counts nothing.
LEMMA CycleInvInside ==
  ASSUME CycleInv, InCycle, UNCHANGED <<pendingSleep, suspendFrom, sleepFailures>>
  PROVE  CycleInv'
BY DEF CycleInv, NoRetryInCycle, GivesUpInTime, InCycle

LEMMA AnswerKept == ASSUME NEW out, Answer(out) PROVE Kept
BY DEF Answer, Kept, engineVars, sleepVars, cycleVars

LEMMA BecomeKept ==
  ASSUME NEW intr, NEW out, Become(state, intr, out),
         UNCHANGED <<pendingSleep, suspendFrom, sleepFailures>>
  PROVE  Kept
BY BecomeState DEF Kept

LEMMA CycleInvFailure ==
  ASSUME NEW out, NEW reply, CycleInv, InCycle, CycleFailure(out, reply),
         UNCHANGED suspendFrom,
         pendingSleep' = pendingSleep \/ pendingSleep' = FALSE
  PROVE  CycleInv'
<1>1. sleepFailures' \in Nat
  BY CycleFailureState DEF CycleInv
<1>2. CASE state' = "Active"
  BY <1>1, <1>2, CycleInvOutside DEF Phases
<1>3. CASE state' = state /\ sleepFailures' < MaxSleepFailures
  BY <1>1, <1>3 DEF CycleInv, NoRetryInCycle, GivesUpInTime, InCycle
<1> QED
  BY <1>2, <1>3, CycleFailureState DEF CycleInv

LEMMA CycleInvEnterGrace ==
  ASSUME NEW m, NEW out, NEW reply, CycleInv, EnterGrace(m, out, reply),
         UNCHANGED suspendFrom
  PROVE  CycleInv'
<1>1. state' = "Grace" /\ pendingSleep' = FALSE /\ sleepFailures' = 0
  BY EnterGraceState
<1>2. NoRetryInCycle'
  BY <1>1 DEF CycleInv, NoRetryInCycle
<1>3. GivesUpInTime' /\ sleepFailures' \in Nat
  BY <1>1 DEF GivesUpInTime, MaxSleepFailures
<1> QED
  BY <1>2, <1>3 DEF CycleInv

LEMMA CycleInvRequestSleep ==
  ASSUME NEW pending, CycleInv, state \notin Phases, RequestSleep(pending)
  PROVE  CycleInv'
<1>1. UNCHANGED sleepFailures
  BY DEF RequestSleep, cycleVars
<1>2. CASE GoToSleep(FALSE, <<>>, <<>>)
  BY <1>1, <1>2, GoToSleepState
     DEF CycleInv, NoRetryInCycle, GivesUpInTime, InCycle, Phases
<1>3. CASE ArmSleepRetry(state, pending, <<>>) /\ UNCHANGED suspendFrom
  BY <1>1, <1>3, ArmSleepRetryState, CycleInvOutside DEF CycleInv
<1> QED
  BY <1>2, <1>3 DEF RequestSleep

LEMMA CycleInvOnActivity ==
  ASSUME NEW out, NEW reply, CycleInv, OnActivity(out, reply)
  PROVE  CycleInv'
<1> DEFINE cmds == out \o CancelPending
<1>0. pendingSleep' = FALSE /\ UNCHANGED suspendFrom
  BY DEF OnActivity
<1>1. ASSUME NEW cs, Become("Active", interrupted, cs), UNCHANGED cycleVars
      PROVE  CycleInv'
  BY <1>0, <1>1, BecomeState, CycleInvOutside DEF CycleInv, cycleVars, Phases
<1>2. ASSUME state = "Armed", CycleFailure(cmds, reply)
      PROVE  CycleInv'
  BY <1>0, <1>2, CycleInvFailure DEF InCycle, Phases
<1>3. ASSUME NEW cs, LeaveCycle(ac, TRUE, cs, reply), UNCHANGED sleepFailures
      PROVE  CycleInv'
  BY <1>0, <1>3, LeaveCycleState, CycleInvOutside DEF CycleInv, Phases
<1>4. ASSUME NEW cs, Become(state, interrupted, cs), UNCHANGED cycleVars
      PROVE  CycleInv'
  BY <1>0, <1>4, BecomeState
     DEF CycleInv, NoRetryInCycle, GivesUpInTime, InCycle, cycleVars
<1> QED
  BY <1>1, <1>2, <1>3, <1>4 DEF OnActivity

LEMMA CycleInvOnIdle ==
  ASSUME NEW stage, CycleInv, OnIdle(stage)
  PROVE  CycleInv'
<1>1. CASE Answer(<<>>)
  BY <1>1, AnswerKept, CycleInvKept
<1>2. ASSUME NEW s \in {"Dimmed", "ScreenOff"}, NEW cs, StepAside(s, cs)
      PROVE  CycleInv'
  BY <1>2, BecomeState, CycleInvOutside
     DEF StepAside, CycleInv, Phases, sleepVars, cycleVars
<1>3. CASE state \in Awake /\ RequestSleep(pendingSleep)
  BY <1>3, CycleInvRequestSleep DEF Awake, Phases
<1> QED
  BY <1>1, <1>2, <1>3 DEF OnIdle

LEMMA CycleInvOnAcChanged ==
  ASSUME NEW a, CycleInv, OnAcChanged(a)
  PROVE  CycleInv'
<1>1. CASE Answer(<<>>)
  BY <1>1, AnswerKept, CycleInvKept
<1>2. ASSUME NEW cs, Become("Active", interrupted, cs), UNCHANGED suspendFrom,
             UNCHANGED cycleVars
      PROVE  CycleInv'
  BY <1>2, BecomeState, CycleInvOutside DEF CycleInv, Phases, cycleVars
<1>3. ASSUME NEW cs, PowerIsBack(cs), UNCHANGED suspendFrom, UNCHANGED sleepFailures
      PROVE  CycleInv'
  BY <1>3, PowerIsBackState, CycleInvOutside DEF CycleInv, Phases
<1>4. ASSUME NEW m, NEW cs, EnterGrace(m, cs, <<>>), UNCHANGED suspendFrom
      PROVE  CycleInv'
  BY <1>4, CycleInvEnterGrace
<1>5. ASSUME NEW cs, Become(state, interrupted, cs), UNCHANGED suspendFrom,
             UNCHANGED pendingSleep, UNCHANGED cycleVars
      PROVE  CycleInv'
  BY <1>5, BecomeKept, CycleInvKept DEF cycleVars
<1> QED
  BY <1>1, <1>2, <1>3, <1>4, <1>5 DEF OnAcChanged

LEMMA CycleInvOnSleepBlocked ==
  ASSUME NEW blocked, CycleInv, OnSleepBlocked(blocked)
  PROVE  CycleInv'
<1>0. UNCHANGED suspendFrom
  BY DEF OnSleepBlocked
<1>1. CASE ArmSleepRetry(suspendFrom, pendingSleep, <<>>) /\ UNCHANGED cycleVars
  BY <1>0, <1>1, ArmSleepRetryState, CycleInvOutside
     DEF CycleInv, NoRetryInCycle, cycleVars
<1>2. CASE state = "Armed" /\ CycleFailure(<<>>, <<>>) /\ UNCHANGED pendingSleep
  BY <1>0, <1>2, CycleInvFailure DEF InCycle, Phases
<1>3. CASE Become(state, interrupted, <<>>) /\ UNCHANGED cycleVars
           /\ UNCHANGED pendingSleep
  BY <1>0, <1>3, BecomeKept, CycleInvKept DEF cycleVars
<1> QED
  BY <1>1, <1>2, <1>3 DEF OnSleepBlocked

LEMMA CycleInvOnSleepFailed ==
  ASSUME NEW out, CycleInv, OnSleepFailed(out)
  PROVE  CycleInv'
<1>1. CASE OnActivity(out, <<>>)
  BY <1>1, CycleInvOnActivity
<1>2. CASE state = "Armed" /\ CycleFailure(out, <<>>) /\ UNCHANGED sleepVars
  BY <1>2, CycleInvFailure DEF InCycle, Phases, sleepVars
<1>3. CASE Answer(out)
  BY <1>3, AnswerKept, CycleInvKept
<1> QED
  BY <1>1, <1>2, <1>3 DEF OnSleepFailed

LEMMA CycleInvOnSuspending ==
  ASSUME CycleInv, OnSuspending
  PROVE  CycleInv'
<1>1. /\ pendingSleep' = FALSE
      /\ suspendFrom' = suspendFrom
      /\ sleepFailures' = IF InCycle THEN 0 ELSE sleepFailures
      /\ state' = IF InCycle THEN "LongSleeping" ELSE "Sleeping"
  BY BecomeState DEF OnSuspending
<1>2. NoRetryInCycle'
  BY <1>1 DEF CycleInv, NoRetryInCycle
<1>3. GivesUpInTime' /\ sleepFailures' \in Nat
  BY <1>1 DEF CycleInv, GivesUpInTime, InCycle, Phases, MaxSleepFailures
<1> QED
  BY <1>2, <1>3 DEF CycleInv

LEMMA CycleInvCheckPower ==
  ASSUME CycleInv, InCycle, CheckPower, UNCHANGED suspendFrom,
         UNCHANGED sleepFailures, pendingSleep' = pendingSleep \/ pendingSleep' = FALSE
  PROVE  CycleInv'
BY CheckPowerState DEF CycleInv, NoRetryInCycle, GivesUpInTime, InCycle

LEMMA CycleInvOnResumed ==
  ASSUME NEW byUser, CycleInv, OnResumed(byUser)
  PROVE  CycleInv'
<1>0. pendingSleep' = FALSE /\ UNCHANGED suspendFrom /\ UNCHANGED sleepFailures
  BY DEF OnResumed
<1>1. CASE LeaveCycle(ac, TRUE, <<>>, <<>>)
  BY <1>0, <1>1, LeaveCycleState, CycleInvOutside DEF CycleInv, Phases
<1>2. CASE InCycle /\ CheckPower
  BY <1>0, <1>2, CycleInvCheckPower
<1>3. ASSUME NEW cs, Become("Active", interrupted, cs)
      PROVE  CycleInv'
  BY <1>0, <1>3, BecomeState, CycleInvOutside DEF CycleInv, Phases
<1> QED
  BY <1>1, <1>2, <1>3 DEF OnResumed

LEMMA CycleInvOnAwakeWindow ==
  ASSUME CycleInv, OnAwakeWindow
  PROVE  CycleInv'
<1>0. UNCHANGED sleepVars /\ UNCHANGED sleepFailures
  BY DEF OnAwakeWindow
<1>1. CASE PowerIsBack(<<>>)
  BY <1>0, <1>1, PowerIsBackState, CycleInvOutside DEF CycleInv, Phases, sleepVars
<1>2. CASE state \in {"Armed", "Checking"} /\ Arm(FALSE)
  BY <1>0, <1>2, CycleInvInside DEF InCycle, Phases, sleepVars
<1>3. CASE state = "Checking" /\ CheckPower
  BY <1>0, <1>3, CycleInvCheckPower DEF InCycle, Phases, sleepVars
<1>4. CASE Become(state, interrupted, <<>>)
  BY <1>0, <1>4, BecomeKept, CycleInvKept DEF sleepVars
<1> QED
  BY <1>1, <1>2, <1>3, <1>4 DEF OnAwakeWindow

LEMMA CycleInvOnTimer ==
  ASSUME NEW t, CycleInv, OnTimer(t)
  PROVE  CycleInv'
<1>1. CASE pendingSleep /\ RequestSleep(FALSE)
  BY <1>1, CycleInvRequestSleep DEF CycleInv, NoRetryInCycle, InCycle
<1>2. CASE Answer(<<>>)
  BY <1>2, AnswerKept, CycleInvKept
<1>3. ASSUME NEW n, OnInhibitExpiry(n) PROVE CycleInv'
  BY <1>3, BecomeKept, CycleInvKept DEF OnInhibitExpiry, sleepVars, cycleVars
<1>4. CASE state = "Grace" /\ Arm(TRUE) /\ UNCHANGED sleepVars /\ UNCHANGED cycleVars
  BY <1>4, CycleInvInside DEF InCycle, Phases, sleepVars, cycleVars
<1>5. CASE OnAwakeWindow
  BY <1>5, CycleInvOnAwakeWindow
<1> QED
  BY <1>1, <1>2, <1>3, <1>4, <1>5 DEF OnTimer

LEMMA CycleInvOnWakeScheduled ==
  ASSUME NEW armed, NEW out, CycleInv, OnWakeScheduled(armed, out)
  PROVE  CycleInv'
<1>1. CASE Answer(out)
  BY <1>1, AnswerKept, CycleInvKept
<1>2. CASE state = "Armed" /\ UNCHANGED sleepVars /\ CycleFailure(out, <<>>)
  BY <1>2, CycleInvFailure DEF InCycle, Phases, sleepVars
<1>3. CASE UNCHANGED sleepVars /\ PowerIsBack(out) /\ UNCHANGED sleepFailures
  BY <1>3, PowerIsBackState, CycleInvOutside DEF CycleInv, Phases, sleepVars
<1>4. ASSUME NEW cs, Become(state, interrupted, cs), UNCHANGED sleepVars,
             UNCHANGED cycleVars
      PROVE  CycleInv'
  BY <1>4, BecomeKept, CycleInvKept DEF sleepVars, cycleVars
<1> QED
  BY <1>1, <1>2, <1>3, <1>4 DEF OnWakeScheduled

LEMMA CycleInvOnIpc ==
  ASSUME NEW c, NEW r, CycleInv, OnIpc(c, r)
  PROVE  CycleInv'
<1>1. ASSUME NEW cs, Answer(cs) PROVE CycleInv'
  BY <1>1, AnswerKept, CycleInvKept
<1>2. ASSUME NEW cs, Become(state, interrupted, cs), UNCHANGED sleepVars,
             UNCHANGED cycleVars
      PROVE  CycleInv'
  BY <1>2, BecomeKept, CycleInvKept DEF sleepVars, cycleVars
<1>3. ASSUME NEW kind, NEW name, OnSetMode(c, kind, name) PROVE CycleInv'
  BY <1>1, <1>2, <1>3 DEF OnSetMode
<1>4. ASSUME NEW s \in {"Dimmed", "ScreenOff"}, NEW cs, StepAside(s, cs)
      PROVE  CycleInv'
  BY <1>4, BecomeState, CycleInvOutside
     DEF StepAside, CycleInv, Phases, sleepVars, cycleVars
<1>5. CASE OnDim(c)
  BY <1>1, <1>4, <1>5 DEF OnDim
<1>6. ASSUME NEW reply, OnActivity(<<>>, reply) PROVE CycleInv'
  BY <1>6, CycleInvOnActivity
<1>7. ASSUME NEW on, OnScreen(c, on) PROVE CycleInv'
  BY <1>1, <1>4, <1>6, <1>7 DEF OnScreen
<1>8. ASSUME NEW force, OnSleep(c, force) PROVE CycleInv'
  <2>1. ASSUME ~SleepRefused(force), GoToSleep(force, <<Reply(c, TRUE)>>, <<>>),
               UNCHANGED cycleVars
        PROVE  CycleInv'
    BY <2>1, GoToSleepState
       DEF SleepRefused, CycleInv, NoRetryInCycle, GivesUpInTime, InCycle,
           Phases, cycleVars
  <2> QED
    BY <1>1, <1>8, <2>1 DEF OnSleep
<1>9. ASSUME NEW cancel, OnLongSleep(c, cancel) PROVE CycleInv'
  <2>1. ASSUME NEW cs, NEW reply, LeaveCycle(ac, FALSE, cs, reply),
               UNCHANGED sleepVars, UNCHANGED sleepFailures
        PROVE  CycleInv'
    BY <2>1, LeaveCycleState, CycleInvOutside DEF CycleInv, Phases, sleepVars
  <2>2. ASSUME NEW m, NEW reply, EnterGrace(m, <<>>, reply), UNCHANGED suspendFrom
        PROVE  CycleInv'
    BY <2>2, CycleInvEnterGrace
  <2> QED
    BY <1>1, <1>9, <2>1, <2>2 DEF OnLongSleep
<1>10. ASSUME NEW what, NEW ttlZero, OnInhibit(c, what, ttlZero) PROVE CycleInv'
  BY <1>1, <1>2, <1>10 DEF OnInhibit
<1>11. ASSUME NEW n, OnUninhibit(c, n) PROVE CycleInv'
  BY <1>1, <1>2, <1>11 DEF OnUninhibit
<1> QED
  BY <1>1, <1>3, <1>5, <1>6, <1>7, <1>8, <1>9, <1>10, <1>11 DEF OnIpc

LEMMA CycleInvHandle ==
  ASSUME NEW e, CycleInv, Handle(e)
  PROVE  CycleInv'
<1>1. ASSUME NEW percent, OnBattery(percent) PROVE CycleInv'
  BY <1>1, BecomeKept, CycleInvKept DEF OnBattery, sleepVars, cycleVars
<1>2. ASSUME NEW blocked, OnInhibitors(blocked) PROVE CycleInv'
  BY <1>2, BecomeKept, CycleInvKept DEF OnInhibitors, sleepVars, cycleVars
<1>3. CASE OnShutdown
  <2>1. state' = "Active" /\ UNCHANGED sleepVars /\ UNCHANGED cycleVars
    BY <1>3, BecomeState DEF OnShutdown, StepAside
  <2> QED
    BY <2>1, CycleInvOutside DEF CycleInv, Phases, sleepVars, cycleVars
<1>4. ASSUME NEW cs, Answer(cs) PROVE CycleInv'
  BY <1>4, AnswerKept, CycleInvKept
<1> QED
  BY <1>1, <1>2, <1>3, <1>4, CycleInvOnIdle, CycleInvOnActivity,
     CycleInvOnAcChanged, CycleInvOnSuspending, CycleInvOnResumed, CycleInvOnTimer,
     CycleInvOnIpc, CycleInvOnSleepBlocked, CycleInvOnSleepFailed
  DEF Handle

LEMMA CycleInvSetConfig ==
  ASSUME NEW c, NEW client, NEW out, CycleInv, SetConfig(c, client, out)
  PROVE  CycleInv'
BY BecomeKept, CycleInvKept DEF SetConfig, sleepVars, cycleVars

\* Every step of the engine keeps CycleInv.
LEMMA CycleInvStep ==
  ASSUME CycleInv, [Next]_vars
  PROVE  CycleInv'
<1>1. CASE UNCHANGED vars
  BY <1>1, CycleInvKept DEF vars, engineVars, sleepVars, cycleVars, Kept
<1>2. CASE Next
  BY <1>2, CycleInvHandle, CycleInvOnWakeScheduled, CycleInvSetConfig DEF Next, Steps
<1> QED
  BY <1>1, <1>2

LEMMA CycleInvInit == Init => CycleInv
BY DEF Init, BootState, CycleInv, NoRetryInCycle, GivesUpInTime, InCycle, Phases,
       MaxSleepFailures

LEMMA CycleInvAlways == Spec => []CycleInv
<1>1. CycleInv /\ [Next]_vars => CycleInv'
  BY CycleInvStep
<1> QED
  BY CycleInvInit, <1>1, PTL DEF Spec

\* A retry of a refused idle sleep is never pending in the server cycle, and
\* no refused suspend goes back into it (core.rs, enter_grace).
THEOREM NoRetryInCycleHolds == Spec => []NoRetryInCycle
<1>1. CycleInv => NoRetryInCycle
  BY DEF CycleInv
<1> QED
  BY CycleInvAlways, <1>1, PTL

\* In the cycle the engine has always counted fewer failed attempts than it
\* gives up at (core.rs, cycle_failure).
THEOREM GivesUpInTimeHolds == Spec => []GivesUpInTime
<1>1. CycleInv => GivesUpInTime
  BY DEF CycleInv
<1> QED
  BY CycleInvAlways, <1>1, PTL

-----------------------------------------------------------------------------
(* The mode and the low-battery bit.                                       *)

Mode == [kind : {"Auto", "Manual"}, name : Modes \cup {NONE}]

PowerInv ==
    /\ config \in Configs
    /\ mode \in Mode
    /\ ac \in BOOLEAN
    /\ battery \in Batteries \cup {NONE}
    /\ low \in BOOLEAN
    /\ ModeFollowsPower
    /\ LowFollowsBattery

\* The mode [auto_mode] assigns to power a, with the low bit l, under c.
Assigned(c, a, l) ==
    IF a THEN c.onAc ELSE IF l THEN c.onLowBattery ELSE c.onBattery

LEMMA ConfigValid ==
  ASSUME NEW c \in Configs
  PROVE  Valid(c) /\ c \in Config /\ c.lowPercent \in 0..100
BY EngineAssumption DEF Valid, Config

\* An automatic choice is the mode assigned, and a mode in any case.
LEMMA AutoModeNameRight ==
  ASSUME NEW c \in Configs, NEW m \in Mode, NEW a, NEW l
  PROVE  /\ AutoModeName(c, m, a, l) \in Modes \cup {NONE}
         /\ c.autoEnabled => AutoModeName(c, m, a, l) = Assigned(c, a, l)
<1>1. /\ c.onAc \in Modes \cup {NONE} /\ c.onBattery \in Modes \cup {NONE}
      /\ c.onLowBattery \in Modes \cup {NONE} /\ c.first \in Modes \cup {NONE}
  BY ConfigValid DEF Config
<1>2. m.name \in Modes \cup {NONE}
  BY DEF Mode
<1> QED
  BY <1>1, <1>2 DEF AutoModeName, Assigned

\* select_auto_mode leaves a manual mode alone, and chooses otherwise.
LEMMA SelectAutoRight ==
  ASSUME NEW c \in Configs, NEW m \in Mode, NEW a, NEW l
  PROVE  /\ SelectAuto(c, m, a, l) \in Mode
         /\ SelectAuto(c, m, a, l).kind = m.kind
         /\ m.kind = "Auto" /\ c.autoEnabled =>
               SelectAuto(c, m, a, l).name = Assigned(c, a, l)
<1>1. CASE m.kind = "Auto"
  <2> DEFINE n == AutoModeName(c, m, a, l)
  <2>1. n \in Modes \cup {NONE} /\ (c.autoEnabled => n = Assigned(c, a, l))
    BY AutoModeNameRight
  <2>2. SelectAuto(c, m, a, l) = [m EXCEPT !.name = n]
    BY <1>1 DEF SelectAuto
  <2> HIDE DEF n
  <2>3. /\ [m EXCEPT !.name = n] \in Mode
        /\ [m EXCEPT !.name = n].kind = m.kind
        /\ [m EXCEPT !.name = n].name = n
    BY <2>1 DEF Mode
  <2> QED
    BY <2>1, <2>2, <2>3
<1>2. CASE m.kind # "Auto"
  BY <1>2 DEF SelectAuto
<1> QED
  BY <1>1, <1>2

\* compute_low never contradicts percentage and threshold, whatever the bit
\* was before.
LEMMA ComputeLowRight ==
  ASSUME NEW c \in Configs, NEW percent \in Batteries \cup {NONE},
         NEW was \in BOOLEAN
  PROVE  /\ ComputeLow(c, percent, was) \in BOOLEAN
         /\ percent # NONE =>
            /\ percent <= c.lowPercent => ComputeLow(c, percent, was)
            /\ percent > c.lowPercent
                 /\ (percent >= c.lowPercent + 5 \/ percent = 100)
               => ~ComputeLow(c, percent, was)
<1>1. c.lowPercent \in 0..100
  BY ConfigValid
<1>2. percent # NONE => percent \in 0..100
  BY EngineAssumption
<1> DEFINE clearsAt == IF c.lowPercent + 5 > 100 THEN 100 ELSE c.lowPercent + 5
<1>3. ComputeLow(c, percent, was)
         <=> percent # NONE /\ (percent <= c.lowPercent \/ (percent < clearsAt /\ was))
  BY Zenon DEF ComputeLow
<1>4. ComputeLow(c, percent, was) \in BOOLEAN
  BY Zenon DEF ComputeLow
<1>5. ASSUME percent # NONE, percent > c.lowPercent,
             percent >= c.lowPercent + 5 \/ percent = 100
      PROVE  ~(percent <= c.lowPercent) /\ ~(percent < clearsAt)
  BY <1>1, <1>2, <1>5
<1> QED
  BY <1>3, <1>4, <1>5, Zenon

-----------------------------------------------------------------------------
(* What a step may do to the mode: leave it, or choose again.              *)

Selects ==
    /\ UNCHANGED <<config, battery, low>>
    /\ \/ mode' = mode /\ ac' = ac
       \/ mode' = SelectAuto(config, mode, ac', low)

LEMMA PowerInvSelects == ASSUME PowerInv, Selects, ac' \in BOOLEAN PROVE PowerInv'
<1>1. config' = config /\ battery' = battery /\ low' = low
  BY DEF Selects
<1>2. LowFollowsBattery'
  BY <1>1 DEF PowerInv, LowFollowsBattery
<1>3. CASE mode' = mode /\ ac' = ac
  BY <1>1, <1>2, <1>3 DEF PowerInv, ModeFollowsPower
<1>4. CASE mode' = SelectAuto(config, mode, ac', low)
  <2>1. /\ mode' \in Mode
        /\ mode'.kind = mode.kind
        /\ mode.kind = "Auto" /\ config.autoEnabled =>
              mode'.name = Assigned(config, ac', low)
    BY <1>4, SelectAutoRight DEF PowerInv
  <2>2. ModeFollowsPower'
    BY <1>1, <2>1 DEF ModeFollowsPower, Assigned
  <2> QED
    BY <1>1, <1>2, <2>1, <2>2 DEF PowerInv
<1> QED
  BY <1>3, <1>4 DEF Selects

\* Nothing is chosen and the power is the same.
Unpowered == UNCHANGED <<config, mode, ac, battery, low>>

LEMMA UnpoweredSelects == ASSUME Unpowered PROVE Selects
BY DEF Unpowered, Selects

LEMMA AnswerUnpowered == ASSUME NEW out, Answer(out) PROVE Unpowered
BY DEF Answer, engineVars, powerVars, Unpowered

LEMMA StepAsideUnpowered == ASSUME NEW s, NEW cs, StepAside(s, cs) PROVE Unpowered
BY DEF StepAside, powerVars, Unpowered

LEMMA LeaveCycleSelects ==
  ASSUME NEW intr, NEW out, NEW reply, LeaveCycle(ac', intr, out, reply),
         UNCHANGED <<config, battery, low>>
  PROVE  Selects
BY DEF LeaveCycle, Selects

LEMMA PowerIsBackSelects ==
  ASSUME NEW out, PowerIsBack(out), ac' = TRUE, UNCHANGED <<config, battery, low>>
  PROVE  Selects
BY DEF PowerIsBack, LeaveCycle, Selects

LEMMA CycleFailureSelects ==
  ASSUME NEW out, NEW reply, CycleFailure(out, reply),
         UNCHANGED <<config, ac, battery, low>>
  PROVE  Selects
<1>1. CASE LeaveCycle(ac, interrupted, out, reply)
  BY <1>1, LeaveCycleSelects
<1>2. CASE UNCHANGED mode
  BY <1>2 DEF Selects
<1> QED
  BY <1>1, <1>2 DEF CycleFailure

LEMMA CheckPowerSelects ==
  ASSUME CheckPower, UNCHANGED <<config, ac, battery, low>>, ac \in BOOLEAN
  PROVE  Selects
<1>1. CASE ac /\ PowerIsBack(<<>>)
  BY <1>1, PowerIsBackSelects
<1>2. CASE UNCHANGED mode
  BY <1>2 DEF Selects
<1> QED
  BY <1>1, <1>2 DEF CheckPower

LEMMA RequestSleepUnpowered ==
  ASSUME NEW pending, RequestSleep(pending) PROVE Unpowered
BY DEF RequestSleep, powerVars, Unpowered

LEMMA SelectsOnActivity ==
  ASSUME NEW out, NEW reply, OnActivity(out, reply)
  PROVE  Selects
<1>0. UNCHANGED <<config, ac, battery, low>>
  BY DEF OnActivity, powerVars
<1>1. CASE CycleFailure(out \o CancelPending, reply)
  BY <1>0, <1>1, CycleFailureSelects
<1>2. CASE UNCHANGED mode
  BY <1>0, <1>2 DEF Selects
<1>3. CASE LeaveCycle(ac, TRUE, out \o CancelPending \o <<CancelTimer(AwakeWindow)>>, reply)
  BY <1>0, <1>3, LeaveCycleSelects
<1> QED
  BY <1>1, <1>2, <1>3 DEF OnActivity

LEMMA UnpoweredOnIdle ==
  ASSUME NEW stage, OnIdle(stage) PROVE Unpowered
BY AnswerUnpowered, StepAsideUnpowered, RequestSleepUnpowered DEF OnIdle

LEMMA SelectsOnSleepBlocked ==
  ASSUME NEW blocked, OnSleepBlocked(blocked)
  PROVE  Selects
<1>0. UNCHANGED <<config, ac, battery, low>>
  BY DEF OnSleepBlocked, powerVars
<1>1. CASE CycleFailure(<<>>, <<>>)
  BY <1>0, <1>1, CycleFailureSelects
<1>2. CASE UNCHANGED mode
  BY <1>0, <1>2 DEF Selects
<1> QED
  BY <1>1, <1>2 DEF OnSleepBlocked

LEMMA SelectsOnSleepFailed ==
  ASSUME NEW out, OnSleepFailed(out)
  PROVE  Selects
<1>1. CASE Answer(out)
  BY <1>1, AnswerUnpowered, UnpoweredSelects
<1>2. CASE CycleFailure(out, <<>>) /\ UNCHANGED config /\ UNCHANGED powerVars
  BY <1>2, CycleFailureSelects DEF powerVars
<1> QED
  BY <1>1, <1>2, SelectsOnActivity DEF OnSleepFailed

LEMMA UnpoweredOnSuspending == ASSUME OnSuspending PROVE Unpowered
BY DEF OnSuspending, powerVars, Unpowered

LEMMA SelectsOnResumed ==
  ASSUME NEW byUser, OnResumed(byUser), ac \in BOOLEAN
  PROVE  Selects
<1>0. UNCHANGED <<config, ac, battery, low>>
  BY DEF OnResumed, powerVars
<1>1. CASE LeaveCycle(ac, TRUE, <<>>, <<>>)
  BY <1>0, <1>1, LeaveCycleSelects
<1>2. CASE CheckPower
  BY <1>0, <1>2, CheckPowerSelects
<1>3. CASE UNCHANGED mode
  BY <1>0, <1>3 DEF Selects
<1> QED
  BY <1>1, <1>2, <1>3 DEF OnResumed

LEMMA SelectsOnAwakeWindow ==
  ASSUME OnAwakeWindow, ac \in BOOLEAN
  PROVE  Selects
<1>0. UNCHANGED <<config, ac, battery, low>>
  BY DEF OnAwakeWindow, powerVars
<1>1. CASE ac /\ PowerIsBack(<<>>)
  BY <1>0, <1>1, PowerIsBackSelects
<1>2. CASE CheckPower
  BY <1>0, <1>2, CheckPowerSelects
<1>3. CASE UNCHANGED mode
  BY <1>0, <1>3 DEF Selects
<1> QED
  BY <1>1, <1>2, <1>3 DEF OnAwakeWindow

LEMMA SelectsOnTimer ==
  ASSUME NEW t, OnTimer(t), ac \in BOOLEAN
  PROVE  Selects
<1>1. ASSUME NEW n, OnInhibitExpiry(n) PROVE Unpowered
  BY <1>1 DEF OnInhibitExpiry, powerVars, Unpowered
<1>2. CASE UNCHANGED <<config, mode, powerVars>>
  BY <1>2 DEF powerVars, Selects
<1> QED
  BY <1>1, <1>2, AnswerUnpowered, RequestSleepUnpowered, UnpoweredSelects,
     SelectsOnAwakeWindow DEF OnTimer

LEMMA SelectsOnWakeScheduled ==
  ASSUME NEW armed, NEW out, OnWakeScheduled(armed, out), ac \in BOOLEAN
  PROVE  Selects
<1>1. CASE Answer(out)
  BY <1>1, AnswerUnpowered, UnpoweredSelects
<1>2. CASE state = "Armed" /\ UNCHANGED <<config, powerVars>>
  <2>1. UNCHANGED <<config, ac, battery, low>>
    BY <1>2 DEF powerVars
  <2>2. CASE CycleFailure(out, <<>>)
    BY <2>1, <2>2, CycleFailureSelects
  <2>3. CASE ac /\ PowerIsBack(out)
    BY <2>1, <2>3, PowerIsBackSelects
  <2>4. CASE UNCHANGED mode
    BY <2>1, <2>4 DEF Selects
  <2> QED
    BY <1>2, <2>2, <2>3, <2>4 DEF OnWakeScheduled
<1> QED
  BY <1>1, <1>2 DEF OnWakeScheduled

LEMMA SelectsOnAcChanged ==
  ASSUME NEW a \in BOOLEAN, OnAcChanged(a)
  PROVE  Selects /\ ac' \in {a, ac}
<1> DEFINE m == SelectAuto(config, mode, a, low)
<1>1. CASE Answer(<<>>)
  BY <1>1, AnswerUnpowered, UnpoweredSelects DEF Unpowered
<1>2. CASE ac' = a /\ UNCHANGED <<config, battery, low>>
  <2>1. ASSUME mode' = m PROVE Selects
    BY <1>2, <2>1 DEF Selects
  <2>2. ASSUME NEW out, a, PowerIsBack(out) PROVE Selects
    BY <1>2, <2>2, PowerIsBackSelects
  <2>3. ASSUME NEW out, EnterGrace(m, out, <<>>) PROVE Selects
    BY <2>1, <2>3 DEF EnterGrace
  <2> HIDE DEF m
  <2>4. Selects
    BY <1>1, <1>2, <2>1, <2>2, <2>3, AnswerUnpowered, UnpoweredSelects
       DEF OnAcChanged, m
  <2> QED
    BY <1>2, <2>4
<1> QED
  BY <1>1, <1>2 DEF OnAcChanged

\* The one request that chooses the mode: a manual mode is free, "auto" is
\* what [auto_mode] assigns.
LEMMA PowerInvOnSetMode ==
  ASSUME NEW c, NEW kind \in {"Auto", "Manual"}, NEW name, PowerInv,
         OnSetMode(c, kind, name)
  PROVE  PowerInv'
<1>1. CASE Answer(<<Reply(c, FALSE)>>)
  BY <1>1, AnswerUnpowered, UnpoweredSelects, PowerInvSelects
     DEF Unpowered, PowerInv
<1>2. CASE /\ UNCHANGED <<config, powerVars>>
           /\ kind = "Auto" \/ name \in config.modes
           /\ mode' = IF kind = "Auto"
                      THEN [kind |-> "Auto", name |-> AutoModeName(config, mode, ac, low)]
                      ELSE [kind |-> "Manual", name |-> name]
  <2>1. UNCHANGED <<config, ac, battery, low>>
    BY <1>2 DEF powerVars
  <2>2. LowFollowsBattery'
    BY <2>1 DEF PowerInv, LowFollowsBattery
  <2>3. CASE kind = "Auto"
    <3> DEFINE n == AutoModeName(config, mode, ac, low)
    <3>1. n \in Modes \cup {NONE} /\ (config.autoEnabled => n = Assigned(config, ac, low))
      BY AutoModeNameRight DEF PowerInv
    <3>2. mode' = [kind |-> "Auto", name |-> n]
      BY <1>2, <2>3
    <3> HIDE DEF n
    <3>3. mode' \in Mode /\ mode'.name = n
      BY <3>1, <3>2 DEF Mode
    <3>4. ModeFollowsPower'
      BY <2>1, <3>1, <3>3 DEF ModeFollowsPower, Assigned
    <3> QED
      BY <2>1, <2>2, <3>3, <3>4 DEF PowerInv
  <2>4. CASE kind = "Manual"
    <3>1. name \in Modes
      BY <1>2, <2>4, ConfigValid DEF PowerInv, Config
    <3>2. mode' \in Mode /\ mode'.kind = "Manual"
      BY <1>2, <2>4, <3>1 DEF Mode
    <3>3. ModeFollowsPower'
      BY <3>2 DEF ModeFollowsPower
    <3> QED
      BY <2>1, <2>2, <3>2, <3>3 DEF PowerInv
  <2> QED
    BY <2>3, <2>4
<1> QED
  BY <1>1, <1>2 DEF OnSetMode

LEMMA SelectsOnLongSleep ==
  ASSUME NEW c, NEW cancel, OnLongSleep(c, cancel)
  PROVE  Selects
<1>1. ASSUME NEW cs, Answer(cs) PROVE Selects
  BY <1>1, AnswerUnpowered, UnpoweredSelects
<1>2. ASSUME NEW cs, NEW reply, LeaveCycle(ac, FALSE, cs, reply),
             UNCHANGED config, UNCHANGED powerVars
      PROVE  Selects
  BY <1>2, LeaveCycleSelects DEF powerVars
<1>3. ASSUME NEW cs, NEW reply, EnterGrace(mode, cs, reply),
             UNCHANGED config, UNCHANGED powerVars
      PROVE  Selects
  BY <1>3 DEF EnterGrace, powerVars, Selects
<1> QED
  BY <1>1, <1>2, <1>3 DEF OnLongSleep

LEMMA PowerInvOnIpc ==
  ASSUME NEW c, NEW r, PowerInv, OnIpc(c, r)
  PROVE  PowerInv'
<1>1. ASSUME Selects, ac' = ac PROVE PowerInv'
  BY <1>1, PowerInvSelects DEF PowerInv
<1>2. ASSUME Unpowered PROVE PowerInv'
  BY <1>1, <1>2, UnpoweredSelects DEF Unpowered
<1>3. ASSUME NEW cs, Answer(cs) PROVE Unpowered
  BY <1>3, AnswerUnpowered
<1>4. ASSUME NEW s, NEW cs, StepAside(s, cs) PROVE Unpowered
  BY <1>4, StepAsideUnpowered
<1>5. CASE OnDim(c)
  BY <1>2, <1>3, <1>4, <1>5 DEF OnDim
<1>6. ASSUME NEW reply, OnActivity(<<>>, reply) PROVE PowerInv'
  BY <1>1, <1>6, SelectsOnActivity DEF OnActivity, powerVars
<1>7. ASSUME NEW on, OnScreen(c, on) PROVE PowerInv'
  BY <1>2, <1>3, <1>4, <1>6, <1>7 DEF OnScreen
<1>8. ASSUME NEW force, OnSleep(c, force) PROVE PowerInv'
  <2>1. CASE UNCHANGED <<config, mode, powerVars>>
    BY <1>2, <2>1 DEF powerVars, Unpowered
  <2> QED
    BY <1>2, <1>3, <1>8, <2>1 DEF OnSleep
<1>9. ASSUME NEW cancel, OnLongSleep(c, cancel) PROVE PowerInv'
  <2>1. ac' = ac
    BY <1>9, AnswerUnpowered DEF OnLongSleep, powerVars, Unpowered
  <2> QED
    BY <1>1, <1>9, <2>1, SelectsOnLongSleep
<1>10. ASSUME NEW what, NEW ttlZero, OnInhibit(c, what, ttlZero) PROVE PowerInv'
  <2>1. CASE UNCHANGED <<config, mode, powerVars>>
    BY <1>2, <2>1 DEF powerVars, Unpowered
  <2> QED
    BY <1>2, <1>3, <1>10, <2>1 DEF OnInhibit
<1>11. ASSUME NEW n, OnUninhibit(c, n) PROVE PowerInv'
  <2>1. CASE UNCHANGED <<config, mode, powerVars>>
    BY <1>2, <2>1 DEF powerVars, Unpowered
  <2> QED
    BY <1>2, <1>3, <1>11, <2>1 DEF OnUninhibit
<1> QED
  BY <1>2, <1>3, <1>5, <1>6, <1>7, <1>8, <1>9, <1>10, <1>11, PowerInvOnSetMode
  DEF OnIpc

\* A percentage that moves the bit chooses the mode again.
LEMMA PowerInvOnBattery ==
  ASSUME NEW percent \in Batteries, PowerInv, OnBattery(percent)
  PROVE  PowerInv'
<1>1. /\ UNCHANGED <<config, ac>>
      /\ battery' = percent
      /\ low' = ComputeLow(config, percent, low)
      /\ mode' = IF low' = low THEN mode ELSE SelectAuto(config, mode, ac, low')
  BY DEF OnBattery
<1>2. LowFollowsBattery' /\ low' \in BOOLEAN
  <2>1. /\ ComputeLow(config, percent, low) \in BOOLEAN
        /\ percent # NONE =>
            /\ percent <= config.lowPercent => ComputeLow(config, percent, low)
            /\ percent > config.lowPercent
                 /\ (percent >= config.lowPercent + 5 \/ percent = 100)
               => ~ComputeLow(config, percent, low)
    BY ComputeLowRight DEF PowerInv
  <2> QED
    BY <1>1, <2>1 DEF LowFollowsBattery
<1>3. CASE mode' = mode /\ low' = low
  BY <1>1, <1>2, <1>3 DEF PowerInv, ModeFollowsPower
<1>4. CASE mode' = SelectAuto(config, mode, ac, low')
  <2>1. /\ mode' \in Mode
        /\ mode'.kind = mode.kind
        /\ mode.kind = "Auto" /\ config.autoEnabled =>
              mode'.name = Assigned(config, ac, low')
    BY <1>4, SelectAutoRight DEF PowerInv
  <2>2. ModeFollowsPower'
    BY <1>1, <2>1 DEF ModeFollowsPower, Assigned
  <2> QED
    BY <1>1, <1>2, <2>1, <2>2 DEF PowerInv
<1> QED
  BY <1>1, <1>3, <1>4

\* So does a reload, with the thresholds and the modes of the new file.
LEMMA PowerInvSetConfig ==
  ASSUME NEW c \in Configs, NEW client, NEW out, PowerInv, SetConfig(c, client, out)
  PROVE  PowerInv'
<1>1. /\ UNCHANGED <<ac, battery>>
      /\ config' = c
      /\ low' = ComputeLow(c, battery, low)
      /\ mode' = SelectAuto(c, mode, ac, low')
  BY DEF SetConfig
<1>2. LowFollowsBattery' /\ low' \in BOOLEAN
  <2>1. /\ ComputeLow(c, battery, low) \in BOOLEAN
        /\ battery # NONE =>
            /\ battery <= c.lowPercent => ComputeLow(c, battery, low)
            /\ battery > c.lowPercent
                 /\ (battery >= c.lowPercent + 5 \/ battery = 100)
               => ~ComputeLow(c, battery, low)
    BY ComputeLowRight DEF PowerInv
  <2> QED
    BY <1>1, <2>1 DEF LowFollowsBattery
<1>3. /\ mode' \in Mode
      /\ mode'.kind = mode.kind
      /\ mode.kind = "Auto" /\ c.autoEnabled => mode'.name = Assigned(c, ac, low')
  BY <1>1, SelectAutoRight DEF PowerInv
<1>4. ModeFollowsPower'
  BY <1>1, <1>3 DEF ModeFollowsPower, Assigned
<1> QED
  BY <1>1, <1>2, <1>3, <1>4 DEF PowerInv

LEMMA PowerInvOnResumed ==
  ASSUME NEW byUser, PowerInv, OnResumed(byUser)
  PROVE  PowerInv'
BY SelectsOnResumed, PowerInvSelects DEF OnResumed, powerVars, PowerInv

LEMMA PowerInvOnTimer ==
  ASSUME NEW t, PowerInv, OnTimer(t)
  PROVE  PowerInv'
<1>1. ac' = ac
  BY AnswerUnpowered, RequestSleepUnpowered
     DEF OnTimer, OnInhibitExpiry, OnAwakeWindow, powerVars, Unpowered
<1> QED
  BY <1>1, SelectsOnTimer, PowerInvSelects DEF PowerInv

LEMMA PowerInvOnSleepFailed ==
  ASSUME NEW out, PowerInv, OnSleepFailed(out)
  PROVE  PowerInv'
<1>1. ac' = ac
  BY AnswerUnpowered DEF OnSleepFailed, OnActivity, powerVars, Unpowered
<1> QED
  BY <1>1, SelectsOnSleepFailed, PowerInvSelects DEF PowerInv

LEMMA PowerInvOnWakeScheduled ==
  ASSUME NEW armed, NEW out, PowerInv, OnWakeScheduled(armed, out)
  PROVE  PowerInv'
<1>1. ac' = ac
  BY AnswerUnpowered DEF OnWakeScheduled, powerVars, Unpowered
<1> QED
  BY <1>1, SelectsOnWakeScheduled, PowerInvSelects DEF PowerInv

\* What is asked of the data of an event.
Typed(e) ==
    /\ e.event = "AcChanged" => e.ac \in BOOLEAN
    /\ e.event = "Battery" => e.percent \in Batteries

LEMMA EventsTyped == ASSUME NEW e \in Events PROVE Typed(e)
<1>1. e \in Event
  BY EngineAssumption
<1>2. ASSUME e.event = "AcChanged" PROVE e.ac \in BOOLEAN
  BY <1>1, <1>2 DEF Event
<1>3. ASSUME e.event = "Battery" PROVE e.percent \in Batteries
  BY <1>1, <1>3 DEF Event
<1> QED
  BY <1>2, <1>3 DEF Typed

LEMMA PowerInvHandle ==
  ASSUME NEW e, Typed(e), PowerInv, Handle(e)
  PROVE  PowerInv'
<1>1. ASSUME Selects, ac' = ac PROVE PowerInv'
  BY <1>1, PowerInvSelects DEF PowerInv
<1>2. ASSUME Unpowered PROVE PowerInv'
  BY <1>1, <1>2, UnpoweredSelects DEF Unpowered
<1>3. CASE e.event = "AcChanged" /\ OnAcChanged(e.ac)
  <2>1. e.ac \in BOOLEAN /\ ac \in BOOLEAN
    BY <1>3 DEF Typed, PowerInv
  <2> QED
    BY <1>3, <2>1, SelectsOnAcChanged, PowerInvSelects
<1>4. CASE e.event = "Battery" /\ OnBattery(e.percent)
  BY <1>4, PowerInvOnBattery DEF Typed
<1>5. ASSUME NEW out, NEW reply, OnActivity(out, reply) PROVE PowerInv'
  BY <1>1, <1>5, SelectsOnActivity DEF OnActivity, powerVars
<1>6. ASSUME NEW blocked, OnSleepBlocked(blocked) PROVE PowerInv'
  BY <1>1, <1>6, SelectsOnSleepBlocked DEF OnSleepBlocked, powerVars
<1>7. ASSUME NEW blocked, OnInhibitors(blocked) PROVE Unpowered
  BY <1>7 DEF OnInhibitors, powerVars, Unpowered
<1>8. CASE OnShutdown
  BY <1>2, <1>8, StepAsideUnpowered DEF OnShutdown
<1>9. ASSUME NEW cs, Answer(cs) PROVE Unpowered
  BY <1>9, AnswerUnpowered
<1> QED
  BY <1>2, <1>3, <1>4, <1>5, <1>6, <1>7, <1>8, <1>9, UnpoweredOnIdle,
     UnpoweredOnSuspending, PowerInvOnResumed, PowerInvOnTimer, PowerInvOnIpc,
     PowerInvOnSleepFailed
  DEF Handle

LEMMA PowerInvStep ==
  ASSUME PowerInv, [Next]_vars
  PROVE  PowerInv'
<1>1. CASE UNCHANGED vars
  BY <1>1 DEF vars, engineVars, powerVars, PowerInv, ModeFollowsPower,
     LowFollowsBattery
<1>2. CASE Next
  BY <1>2, PowerInvOnWakeScheduled, PowerInvSetConfig, PowerInvHandle, EventsTyped
     DEF Next, Steps
<1> QED
  BY <1>1, <1>2

\* At startup: a manual mode that was saved, or the mode assigned.
LEMMA BootModeRight ==
  ASSUME NEW c \in Configs, NEW a, NEW l, NEW choice
  PROVE  /\ BootMode(c, a, l, choice) \in Mode
         /\ BootMode(c, a, l, choice).kind = "Auto" /\ c.autoEnabled =>
               BootMode(c, a, l, choice).name = Assigned(c, a, l)
<1>1. CASE choice \in c.modes
  <2>1. BootMode(c, a, l, choice) = [kind |-> "Manual", name |-> choice]
    BY <1>1 DEF BootMode
  <2>2. choice \in Modes
    BY <1>1, ConfigValid DEF Config
  <2>3. [kind |-> "Manual", name |-> choice] \in Mode
    BY <2>2 DEF Mode
  <2> QED
    BY <2>1, <2>3
<1>2. CASE choice \notin c.modes
  <2> DEFINE unset == [kind |-> "Auto", name |-> NONE]
             n == AutoModeName(c, unset, a, l)
  <2>1. unset \in Mode
    BY DEF Mode
  <2>2. n \in Modes \cup {NONE} /\ (c.autoEnabled => n = Assigned(c, a, l))
    BY <2>1, AutoModeNameRight
  <2>3. BootMode(c, a, l, choice) = [unset EXCEPT !.name = n]
    BY <1>2 DEF BootMode
  <2> HIDE DEF n
  <2>4. [unset EXCEPT !.name = n] \in Mode /\ [unset EXCEPT !.name = n].name = n
    BY <2>2 DEF Mode
  <2> QED
    BY <2>2, <2>3, <2>4
<1> QED
  BY <1>1, <1>2

LEMMA PowerInvInit == Init => PowerInv
<1> SUFFICES ASSUME Init PROVE PowerInv
  OBVIOUS
<1>1. /\ config \in Configs /\ ac \in BOOLEAN /\ battery \in Batteries \cup {NONE}
      /\ low = ComputeLow(config, battery, FALSE)
  BY DEF Init
<1>2. /\ ComputeLow(config, battery, FALSE) \in BOOLEAN
      /\ battery # NONE =>
            /\ battery <= config.lowPercent => ComputeLow(config, battery, FALSE)
            /\ battery > config.lowPercent
                 /\ (battery >= config.lowPercent + 5 \/ battery = 100)
               => ~ComputeLow(config, battery, FALSE)
  BY <1>1, ComputeLowRight
<1>3. LowFollowsBattery /\ low \in BOOLEAN
  BY <1>1, <1>2 DEF LowFollowsBattery
<1>4. PICK choice : mode = BootMode(config, ac, low, choice)
  BY DEF Init
<1>5. /\ mode \in Mode
      /\ mode.kind = "Auto" /\ config.autoEnabled => mode.name = Assigned(config, ac, low)
  BY <1>1, <1>4, BootModeRight
<1>6. ModeFollowsPower
  BY <1>5 DEF ModeFollowsPower, Assigned
<1> QED
  BY <1>1, <1>3, <1>5, <1>6 DEF PowerInv

LEMMA PowerInvAlways == Spec => []PowerInv
<1>1. PowerInv /\ [Next]_vars => PowerInv'
  BY PowerInvStep
<1> QED
  BY PowerInvInit, <1>1, PTL DEF Spec

\* An automatic mode is the one [auto_mode] assigns to the power the engine
\* knows of, through every reload (core.rs, select_auto_mode and its callers).
THEOREM ModeFollowsPowerHolds == Spec => []ModeFollowsPower
<1>1. PowerInv => ModeFollowsPower
  BY DEF PowerInv
<1> QED
  BY PowerInvAlways, <1>1, PTL

\* The low-battery bit never contradicts the percentage and the thresholds in
\* force (core.rs, compute_low).
THEOREM LowFollowsBatteryHolds == Spec => []LowFollowsBattery
<1>1. PowerInv => LowFollowsBattery
  BY DEF PowerInv
<1> QED
  BY PowerInvAlways, <1>1, PTL

-----------------------------------------------------------------------------
(* The commands that the handlers return.                                  *)

\* The commands that neither suspend the machine, nor power it off, nor set its
\* alarm.
Calm == {c \in Command : c.op \notin {"Suspend", "PowerOff", "ScheduleWake"}}

\* Of the other commands, at most one: c, and once.
Lone(q, c) ==
    /\ q \in Seq(Calm \cup {c})
    /\ \A i, j \in 1..Len(q) : q[i] = c /\ q[j] = c => i = j

-----------------------------------------------------------------------------
(* Sequences of commands.                                                  *)

LEMMA CalmCommands ==
  /\ \A n \in {"Dim", "Undim", "RunHook", "Shutdown", "CancelWake"} :
        Do(n) \in Calm
  /\ \A on \in BOOLEAN : Screen(on) \in Calm
  /\ \A m \in Modes : ApplyMode(m) \in Calm
  /\ \A m \in Modes \cup {NONE} : ReplaceIdleStages(m) \in Calm
  /\ \A t \in Timers : StartTimer(t) \in Calm /\ CancelTimer(t) \in Calm
BY DEF Calm, Command, Do, Screen, ApplyMode, ReplaceIdleStages, StartTimer, CancelTimer

LEMMA CalmAnswers ==
  /\ \A c \in Clients, ok \in BOOLEAN : Reply(c, ok) \in Calm
  /\ \A c \in Clients \cup {NONE} : Reload(c) \in Calm
  /\ \A s, t \in States : BroadcastState(s, t) \in Calm
  /\ \A m \in Modes \cup {NONE} : BroadcastMode(m) \in Calm
  /\ \A a \in BOOLEAN : BroadcastPower(a) \in Calm
  /\ \A p \in Phases \cup {"idle", "interrupted", "critical"} : BroadcastCycle(p) \in Calm
BY DEF Calm, Command, Reply, Reload, BroadcastState, BroadcastMode, BroadcastPower,
       BroadcastCycle

LEMMA Concat ==
  ASSUME NEW S, NEW s \in Seq(S), NEW t \in Seq(S)
  PROVE  s \o t \in Seq(S)
OBVIOUS

LEMMA Single == ASSUME NEW S, NEW a \in S PROVE <<a>> \in Seq(S)
OBVIOUS

LEMMA Pair ==
  ASSUME NEW S, NEW a \in S, NEW b \in S
  PROVE  <<a, b>> \in Seq(S)
OBVIOUS

LEMMA Triple ==
  ASSUME NEW S, NEW a \in S, NEW b \in S, NEW c \in S
  PROVE  <<a, b, c>> \in Seq(S)
OBVIOUS

LEMMA More ==
  ASSUME NEW S, NEW T, S \subseteq T, NEW s \in Seq(S)
  PROVE  s \in Seq(T)
OBVIOUS

\* One command that is not calm stays the only one among calm ones.
LEMMA LoneSingle == ASSUME NEW c PROVE Lone(<<c>>, c)
BY DEF Lone

LEMMA LoneAfter ==
  ASSUME NEW c, c \notin Calm, NEW s \in Seq(Calm), NEW t, Lone(t, c)
  PROVE  Lone(s \o t, c)
<1> DEFINE S == Calm \cup {c}
<1>1. s \in Seq(S) /\ t \in Seq(S)
  BY More DEF Lone
<1>2. s \o t \in Seq(S)
  BY <1>1, Concat
<1>3. ASSUME NEW i \in 1..Len(s \o t), (s \o t)[i] = c
      PROVE  i - Len(s) \in 1..Len(t) /\ t[i - Len(s)] = c
  <2>1. Len(s \o t) = Len(s) + Len(t) /\ Len(s) \in Nat /\ Len(t) \in Nat
    BY <1>1
  <2>2. ASSUME i <= Len(s) PROVE FALSE
    <3>1. (s \o t)[i] = s[i] /\ i \in 1..Len(s)
      BY <1>1, <2>1, <2>2
    <3>2. s[i] \in Calm
      BY <3>1
    <3> QED
      BY <1>3, <3>1, <3>2
  <2>3. (s \o t)[i] = t[i - Len(s)] /\ i - Len(s) \in 1..Len(t)
    BY <1>1, <2>1, <2>2
  <2> QED
    BY <1>3, <2>3
<1>4. ASSUME NEW i \in 1..Len(s \o t), NEW j \in 1..Len(s \o t),
             (s \o t)[i] = c, (s \o t)[j] = c
      PROVE  i = j
  <2>1. i - Len(s) = j - Len(s)
    BY <1>3, <1>4 DEF Lone
  <2> QED
    BY <2>1
<1> QED
  BY <1>2, <1>4 DEF Lone

LEMMA LoneBefore ==
  ASSUME NEW c, c \notin Calm, NEW s, Lone(s, c), NEW t \in Seq(Calm)
  PROVE  Lone(s \o t, c)
<1> DEFINE S == Calm \cup {c}
<1>1. s \in Seq(S) /\ t \in Seq(S)
  BY More DEF Lone
<1>2. s \o t \in Seq(S)
  BY <1>1, Concat
<1>3. ASSUME NEW i \in 1..Len(s \o t), (s \o t)[i] = c
      PROVE  i \in 1..Len(s) /\ s[i] = c
  <2>1. Len(s \o t) = Len(s) + Len(t) /\ Len(s) \in Nat /\ Len(t) \in Nat
    BY <1>1
  <2>2. ASSUME i > Len(s) PROVE FALSE
    <3>1. (s \o t)[i] = t[i - Len(s)] /\ i - Len(s) \in 1..Len(t)
      BY <1>1, <2>1, <2>2
    <3>2. t[i - Len(s)] \in Calm
      BY <3>1
    <3> QED
      BY <1>3, <3>1, <3>2
  <2> QED
    BY <1>1, <1>3, <2>1, <2>2
<1>4. ASSUME NEW i \in 1..Len(s \o t), NEW j \in 1..Len(s \o t),
             (s \o t)[i] = c, (s \o t)[j] = c
      PROVE  i = j
  BY <1>3, <1>4 DEF Lone
<1> QED
  BY <1>2, <1>4 DEF Lone

\* The command by itself, and the two that turn the panel on.
LEMMA DoCalm ==
  ASSUME NEW n \in {"Dim", "Undim", "RunHook", "Shutdown", "CancelWake"}
  PROVE  <<Do(n)>> \in Seq(Calm)
<1>1. Do(n) \in Calm
  BY CalmCommands
<1> QED
  BY <1>1

LEMMA LitCalm == <<Do("Undim"), Screen(TRUE)>> \in Seq(Calm)
<1>1. Do("Undim") \in Calm /\ Screen(TRUE) \in Calm
  BY CalmCommands
<1> QED
  BY <1>1, Pair

LEMMA TimersTyped ==
  /\ Grace \in Timers /\ SleepRetry \in Timers /\ AwakeWindow \in Timers
  /\ \A n \in 1..MaxInhibits : InhibitExpiry(n) \in Timers
BY DEF Timers

LEMMA ModeCommandsCalm ==
  ASSUME NEW c \in Configs, NEW m \in Mode, NEW s
  PROVE  /\ ModeCommands(c, m, s) \in Seq(Calm)
         /\ ModeChanged(c, m, s) \in Seq(Calm)
<1>1. m.name \in Modes \cup {NONE} /\ c.modes \subseteq Modes
  BY ConfigValid DEF Mode, Config
<1>2. (IF m.name = NONE THEN <<>> ELSE <<ApplyMode(m.name)>>) \in Seq(Calm)
  BY <1>1, CalmCommands
<1>3. (IF s \in Phases \ {"Grace"} THEN NONE ELSE StagesOf(c, m)) \in Modes \cup {NONE}
  BY <1>1 DEF StagesOf
<1>4. ModeCommands(c, m, s) \in Seq(Calm)
  BY <1>2, <1>3, CalmCommands DEF ModeCommands
<1>5. <<BroadcastMode(m.name)>> \in Seq(Calm)
  BY <1>1, CalmAnswers
<1> QED
  BY <1>4, <1>5 DEF ModeChanged

LEMMA ReappliedCalm ==
  ASSUME config \in Configs, NEW m, NEW n \in Mode, NEW s
  PROVE  Reapplied(m, n, s) \in Seq(Calm)
BY ModeCommandsCalm DEF Reapplied

LEMMA CancelPendingCalm == CancelPending \in Seq(Calm)
BY TimersTyped, CalmCommands DEF CancelPending

\* What Become adds is calm.
Followed(out, q) == \E told, cycle \in Seq(Calm) : q = (out \o told) \o cycle

LEMMA BecomeAdds ==
  ASSUME NEW s \in States, NEW intr, NEW out, state \in States, Become(s, intr, out)
  PROVE  Followed(out, queue')
<1> DEFINE told == IF s = state THEN <<>> ELSE <<BroadcastState(state, s)>>
           cycle == IF s = state THEN <<>>
                    ELSE IF s \in Phases THEN <<BroadcastCycle(s)>>
                    ELSE IF InCycle THEN <<BroadcastCycle(IdlePhase(intr))>>
                    ELSE <<>>
<1>1. told \in Seq(Calm)
  BY CalmAnswers
<1>2. cycle \in Seq(Calm)
  BY CalmAnswers DEF IdlePhase
<1>3. queue' = (out \o told) \o cycle
  BY DEF Become
<1> HIDE DEF told, cycle
<1> QED
  BY <1>1, <1>2, <1>3 DEF Followed

LEMMA BecomeLone ==
  ASSUME NEW c, c \notin Calm, NEW s \in States, NEW intr, NEW out, Lone(out, c),
         state \in States, Become(s, intr, out)
  PROVE  Lone(queue', c)
<1>0. Followed(out, queue')
  BY BecomeAdds
<1>1. PICK told, cycle \in Seq(Calm) : queue' = (out \o told) \o cycle
  BY <1>0 DEF Followed
<1>2. Lone(out \o told, c)
  BY LoneBefore
<1> QED
  BY <1>1, <1>2, LoneBefore

LEMMA BecomeCalm ==
  ASSUME NEW s \in States, NEW intr, NEW out \in Seq(Calm),
         state \in States, Become(s, intr, out)
  PROVE  queue' \in Seq(Calm)
<1>0. Followed(out, queue')
  BY BecomeAdds
<1>1. PICK told, cycle \in Seq(Calm) : queue' = (out \o told) \o cycle
  BY <1>0 DEF Followed
<1> QED
  BY <1>1, Concat

\* What the helpers of the handlers need: types, but not of the queue.
Base ==
    /\ config \in Configs
    /\ mode \in Mode
    /\ state \in States

LEMMA LeaveCycleCalm ==
  ASSUME NEW a, NEW intr, NEW out \in Seq(Calm), NEW reply \in Seq(Calm), Base,
         LeaveCycle(a, intr, out, reply)
  PROVE  queue' \in Seq(Calm)
<1> DEFINE m == SelectAuto(config, mode, a, low)
           first == <<Do("CancelWake")>>
           modes == ModeCommands(config, m, "Active")
           news == IF m = mode THEN <<>> ELSE <<BroadcastMode(m.name)>>
           last == <<Do("Undim"), Screen(TRUE)>>
<1>1. m \in Mode
  BY SelectAutoRight DEF Base
<1>2. first \in Seq(Calm) /\ last \in Seq(Calm)
  BY DoCalm, LitCalm
<1>3. modes \in Seq(Calm)
  BY <1>1, ModeCommandsCalm DEF Base
<1>4. news \in Seq(Calm)
  BY <1>1, CalmAnswers DEF Mode
<1>5. Become("Active", intr,
             ((((out \o first) \o modes) \o news) \o last) \o reply)
  BY DEF LeaveCycle
<1> HIDE DEF first, modes, news, last, m
<1>6. ((((out \o first) \o modes) \o news) \o last) \o reply \in Seq(Calm)
  BY <1>2, <1>3, <1>4, Concat
<1> QED
  BY <1>5, <1>6, BecomeCalm DEF Base, States, Awake

LEMMA PowerIsBackCalm ==
  ASSUME NEW out \in Seq(Calm), Base, PowerIsBack(out)
  PROVE  queue' \in Seq(Calm)
<1>1. (IF config.hook THEN <<Do("RunHook")>> ELSE <<>>) \in Seq(Calm)
  <2>1. <<Do("RunHook")>> \in Seq(Calm)
    BY CalmCommands
  <2>2. <<>> \in Seq(Calm)
    OBVIOUS
  <2> QED
    BY <2>1, <2>2, Zenon
<1>2. out \o (IF config.hook THEN <<Do("RunHook")>> ELSE <<>>) \in Seq(Calm)
  BY <1>1, Concat
<1>3. <<>> \in Seq(Calm)
  OBVIOUS
<1> QED
  BY <1>2, <1>3, LeaveCycleCalm DEF PowerIsBack

LEMMA CycleFailureCalm ==
  ASSUME NEW out \in Seq(Calm), NEW reply \in Seq(Calm), Base,
         CycleFailure(out, reply)
  PROVE  queue' \in Seq(Calm)
<1>1. CASE LeaveCycle(ac, interrupted, out, reply)
  BY <1>1, LeaveCycleCalm
<1>2. CASE Become(state, interrupted, out \o <<StartTimer(AwakeWindow)>> \o reply)
  <2>1. <<StartTimer(AwakeWindow)>> \in Seq(Calm)
    BY TimersTyped, CalmCommands
  <2>2. out \o <<StartTimer(AwakeWindow)>> \o reply \in Seq(Calm)
    BY <2>1, Concat
  <2> QED
    BY <1>2, <2>2, BecomeCalm DEF Base
<1> QED
  BY <1>1, <1>2 DEF CycleFailure

LEMMA EnterGraceCalm ==
  ASSUME NEW m, NEW out \in Seq(Calm), NEW reply \in Seq(Calm), Base,
         EnterGrace(m, out, reply)
  PROVE  queue' \in Seq(Calm)
<1>1. <<StartTimer(Grace)>> \in Seq(Calm)
  BY TimersTyped, CalmCommands
<1>2. out \o CancelPending \o <<StartTimer(Grace)>> \o reply \in Seq(Calm)
  BY <1>1, CancelPendingCalm, Concat
<1> QED
  BY <1>2, BecomeCalm DEF EnterGrace, Base, States, Phases

LEMMA ArmLone ==
  ASSUME NEW first, Base, Arm(first)
  PROVE  state' = "Armed" /\ Lone(queue', Do("ScheduleWake"))
<1>1. (IF first THEN <<ReplaceIdleStages(NONE)>> ELSE <<>>) \in Seq(Calm)
  BY CalmCommands
<1>2. Do("ScheduleWake") \notin Calm
  BY DEF Calm, Do
<1>3. Lone((IF first THEN <<ReplaceIdleStages(NONE)>> ELSE <<>>)
              \o <<Do("ScheduleWake")>>, Do("ScheduleWake"))
  BY <1>1, <1>2, LoneSingle, LoneAfter
<1> QED
  BY <1>2, <1>3, BecomeLone, ArmState DEF Arm, Base, States, Phases

LEMMA ArmSleepRetryCalm ==
  ASSUME NEW s \in States, NEW pending, Base, ArmSleepRetry(s, pending, <<>>)
  PROVE  queue' \in Seq(Calm)
<1>1. <<>> \o (IF config.sleepRetry THEN <<StartTimer(SleepRetry)>> ELSE <<>>) \in Seq(Calm)
  BY TimersTyped, CalmCommands
<1> QED
  BY <1>1, BecomeCalm DEF ArmSleepRetry, Base

-----------------------------------------------------------------------------
(* What a step may return.                                                 *)

Quiet == queue' \in Seq(Calm)

\* A sleep that is asked for, outside the cycle.
AsksForSleep ==
    \E force \in BOOLEAN :
        /\ ~InCycle /\ state' = "Suspending"
        /\ force \/ ~Blocked'
        /\ Lone(queue', Suspend("Configured", force))

\* The sleep of the cycle.
SleepsArmed ==
    /\ state = "Armed" /\ state' = "Armed" /\ ~ac' /\ ~Blocked'
    /\ Lone(queue', Suspend("Configured", FALSE))

ActsCritical ==
    /\ (state = "Checking" /\ ~ac /\ BatteryCritical)'
    /\ Emitted(StartTimer(AwakeWindow))'
    /\ Emitted(Do("PowerOff"))' \/ hibernateAvailable
    /\ \E act \in {Suspend("Hibernate", TRUE), Do("PowerOff")} : Lone(queue', act)

\* A new attempt: its alarm is asked for.
ArmsAnew == state' = "Armed" /\ Lone(queue', Do("ScheduleWake"))

Warranted == Quiet \/ AsksForSleep \/ ActsCritical

LEMMA NotCalm ==
  /\ \A f \in BOOLEAN : Suspend("Configured", f) \notin Calm
  /\ Suspend("Hibernate", TRUE) \notin Calm /\ Do("PowerOff") \notin Calm
  /\ Do("ScheduleWake") \notin Calm
BY DEF Calm, Suspend, Do

LEMMA GoToSleepSays ==
  ASSUME NEW force \in BOOLEAN, NEW reply \in Seq(Calm), Base, ~InCycle,
         force \/ ~Blocked, GoToSleep(force, reply, <<>>),
         UNCHANGED <<config, blockVars>>
  PROVE  Warranted
<1> DEFINE c == Suspend("Configured", force)
           out == (<<>> \o <<c>>) \o reply
<1>1. state' = "Suspending" /\ Become("Suspending", interrupted, out)
  BY GoToSleepState DEF GoToSleep
<1>2. c \notin Calm
  BY NotCalm
<1>3. Lone(out, c)
  <2>1. <<>> \o <<c>> = <<c>>
    OBVIOUS
  <2> HIDE DEF c
  <2> QED
    BY <1>2, <2>1, LoneSingle, LoneBefore
<1> HIDE DEF c, out
<1>4. Lone(queue', c)
  BY <1>1, <1>2, <1>3, BecomeLone DEF Base, States
<1>5. force \/ ~Blocked'
  BY DEF Blocked, blockVars
<1> QED
  BY <1>1, <1>4, <1>5 DEF Warranted, AsksForSleep, c

LEMMA EmittedBefore ==
  ASSUME NEW S, NEW s \in Seq(S), NEW t \in Seq(S), NEW c,
         \E i \in 1..Len(s) : s[i] = c
  PROVE  \E i \in 1..Len(s \o t) : (s \o t)[i] = c
<1>1. PICK i \in 1..Len(s) : s[i] = c
  OBVIOUS
<1>2. i \in 1..Len(s \o t) /\ (s \o t)[i] = s[i]
  OBVIOUS
<1> QED
  BY <1>1, <1>2

LEMMA StayCheckingSays ==
  ASSUME Base, ~ac, StayChecking, UNCHANGED <<config, ac, battery>>
  PROVE  Warranted
<1> DEFINE act == IF config.criticalAction = "Hibernate" /\ hibernateAvailable
                  THEN Suspend("Hibernate", TRUE) ELSE Do("PowerOff")
           window == <<StartTimer(AwakeWindow)>>
<1>1. window \in Seq(Calm)
  BY TimersTyped, CalmCommands
<1>2. CASE ~BatteryCritical
  <2>1. Become("Checking", interrupted, <<>> \o window)
    BY <1>2 DEF StayChecking
  <2>2. <<>> \o window \in Seq(Calm)
    BY <1>1
  <2> QED
    BY <2>1, <2>2, BecomeCalm DEF Base, States, Phases, Warranted, Quiet
<1>3. CASE BatteryCritical
  <2> DEFINE said == <<BroadcastCycle("critical"), act>>
             out == said \o window
  <2>1. Become("Checking", interrupted, out) /\ state' = "Checking"
    BY <1>3, BecomeState DEF StayChecking
  <2>2. /\ act \in {Suspend("Hibernate", TRUE), Do("PowerOff")}
        /\ act = Do("PowerOff") \/ hibernateAvailable
        /\ act \notin Calm
    BY NotCalm
  <2> HIDE DEF act
  <2>3. Lone(said, act)
    <3>1. BroadcastCycle("critical") \in Calm
      BY CalmAnswers
    <3>2. said \in Seq(Calm \cup {act})
      BY <3>1, Pair
    <3>3. Len(said) = 2 /\ said[1] # act
      BY <2>2, <3>1
    <3> QED
      BY <3>2, <3>3 DEF Lone
  <2>4. Lone(out, act)
    BY <1>1, <2>2, <2>3, LoneBefore
  <2>5. Lone(queue', act)
    <3> HIDE DEF out
    <3> QED
      BY <2>1, <2>2, <2>4, BecomeLone DEF Base, States, Phases
  <2>6. PICK told, cycle \in Seq(Calm) : queue' = (out \o told) \o cycle
    <3> HIDE DEF out
    <3>1. Followed(out, queue')
      BY <2>1, BecomeAdds DEF Base, States, Phases
    <3> QED
      BY <3>1 DEF Followed
  <2>7. /\ \E i \in 1..Len(out) : out[i] = StartTimer(AwakeWindow)
        /\ \E i \in 1..Len(out) : out[i] = act
    <3>1. Len(out) = 3 /\ out[2] = act /\ out[3] = StartTimer(AwakeWindow)
      OBVIOUS
    <3> HIDE DEF out
    <3> QED
      BY <3>1
  <2>8. ASSUME NEW c, \E i \in 1..Len(out) : out[i] = c
        PROVE  Emitted(c)'
    <3> DEFINE S == Calm \cup {act}
    <3>1. out \in Seq(S) /\ told \in Seq(S) /\ cycle \in Seq(S)
      BY <2>4, More DEF Lone
    <3> HIDE DEF out, S
    <3>2. \E i \in 1..Len(out \o told) : (out \o told)[i] = c
      BY <2>8, <3>1, EmittedBefore
    <3>3. out \o told \in Seq(S)
      BY <3>1, Concat
    <3>4. \E i \in 1..Len((out \o told) \o cycle) : ((out \o told) \o cycle)[i] = c
      BY <3>1, <3>2, <3>3, EmittedBefore
    <3> QED
      BY <2>6, <3>4 DEF Emitted
  <2>9. /\ Emitted(StartTimer(AwakeWindow))'
        /\ Emitted(Do("PowerOff"))' \/ hibernateAvailable
    BY <2>2, <2>7, <2>8
  <2>10. BatteryCritical' /\ ~ac'
    BY <1>3 DEF BatteryCritical
  <2> QED
    BY <2>1, <2>2, <2>5, <2>9, <2>10 DEF Warranted, ActsCritical
<1> QED
  BY <1>2, <1>3

-----------------------------------------------------------------------------
(* The handlers.                                                           *)

\* The types PowerInv does not speak of.
OtherTypes ==
    /\ state \in States
    /\ inhibits \subseteq [id : 1..MaxInhibits, what : {"Idle", "Sleep"}]
    /\ nextInhibitId \in 1..MaxInhibits + 1
    /\ external \in BOOLEAN
    /\ pendingSleep \in BOOLEAN
    /\ suspendFrom \in States
    /\ hibernateAvailable \in BOOLEAN
    /\ sleepFailures \in 0..MaxSleepFailures
    /\ interrupted \in BOOLEAN

Good == CycleInv /\ PowerInv /\ OtherTypes

LEMMA GoodBase == ASSUME Good PROVE Base /\ suspendFrom \in States
BY DEF Good, PowerInv, OtherTypes, Base

LEMMA Silence == <<>> \in Seq(Calm)
OBVIOUS

LEMMA ReplyCalm ==
  ASSUME NEW c \in Clients, NEW ok \in BOOLEAN
  PROVE  <<Reply(c, ok)>> \in Seq(Calm)
<1>1. Reply(c, ok) \in Calm
  BY CalmAnswers
<1> QED
  BY <1>1

LEMMA SaysAnswer ==
  ASSUME NEW out \in Seq(Calm), Answer(out)
  PROVE  Quiet
BY DEF Answer, Quiet

LEMMA SaysBecome ==
  ASSUME NEW s \in States, NEW intr, NEW out \in Seq(Calm), Good, Become(s, intr, out)
  PROVE  Quiet
BY BecomeCalm, GoodBase DEF Base, Quiet

LEMMA SaysFailure ==
  ASSUME NEW out \in Seq(Calm), NEW reply \in Seq(Calm), Good, CycleFailure(out, reply)
  PROVE  Quiet
BY CycleFailureCalm, GoodBase DEF Quiet

LEMMA SaysLeave ==
  ASSUME NEW a, NEW intr, NEW out \in Seq(Calm), NEW reply \in Seq(Calm), Good,
         LeaveCycle(a, intr, out, reply)
  PROVE  Quiet
BY LeaveCycleCalm, GoodBase DEF Quiet

LEMMA SaysPowerIsBack ==
  ASSUME NEW out \in Seq(Calm), Good, PowerIsBack(out)
  PROVE  Quiet
BY PowerIsBackCalm, GoodBase DEF Quiet

LEMMA SaysCheckPower ==
  ASSUME Good, CheckPower, UNCHANGED <<config, ac, battery>>
  PROVE  Warranted
BY Silence, SaysPowerIsBack, StayCheckingSays, GoodBase DEF CheckPower, Warranted

LEMMA SaysRequestSleep ==
  ASSUME NEW pending, Good, ~InCycle, RequestSleep(pending)
  PROVE  Warranted
<1>1. CASE ~Blocked /\ GoToSleep(FALSE, <<>>, <<>>)
  BY <1>1, Silence, GoToSleepSays, GoodBase DEF RequestSleep
<1>2. CASE ArmSleepRetry(state, pending, <<>>)
  BY <1>2, ArmSleepRetryCalm, GoodBase DEF Base, Warranted, Quiet
<1> QED
  BY <1>1, <1>2 DEF RequestSleep

LEMMA SaysOnIdle ==
  ASSUME NEW stage, Good, OnIdle(stage)
  PROVE  Warranted
<1>1. CASE state \in Awake /\ RequestSleep(pendingSleep)
  BY <1>1, SaysRequestSleep DEF Awake, InCycle, Phases
<1>2. CASE StepAside("Dimmed", <<Do("Dim")>>)
  BY <1>2, DoCalm, SaysBecome DEF StepAside, States, Awake, Warranted
<1>3. CASE StepAside("ScreenOff", <<Screen(FALSE)>>)
  <2>1. Screen(FALSE) \in Calm
    BY CalmCommands
  <2>2. <<Screen(FALSE)>> \in Seq(Calm)
    BY <2>1, Single
  <2> QED
    BY <1>3, <2>2, SaysBecome DEF StepAside, States, Awake, Warranted
<1> QED
  BY <1>1, <1>2, <1>3, Silence, SaysAnswer DEF OnIdle, Warranted

LEMMA SaysOnActivity ==
  ASSUME NEW out \in Seq(Calm), NEW reply \in Seq(Calm), Good, OnActivity(out, reply)
  PROVE  Quiet
<1> DEFINE cmds == out \o CancelPending
<1>1. cmds \in Seq(Calm)
  BY CancelPendingCalm, Concat
<1> HIDE DEF cmds
<1>2. CASE Become("Active", interrupted, (cmds \o <<Do("Undim")>>) \o reply)
  <2>1. (cmds \o <<Do("Undim")>>) \o reply \in Seq(Calm)
    BY <1>1, DoCalm, Concat
  <2> QED
    BY <1>2, <2>1, SaysBecome DEF States, Awake
<1>3. CASE Become("Active", interrupted, (cmds \o <<Do("Undim"), Screen(TRUE)>>) \o reply)
  <2>1. (cmds \o <<Do("Undim"), Screen(TRUE)>>) \o reply \in Seq(Calm)
    BY <1>1, LitCalm, Concat
  <2> QED
    BY <1>3, <2>1, SaysBecome DEF States, Awake
<1>4. CASE CycleFailure(cmds, reply)
  BY <1>1, <1>4, SaysFailure
<1>5. CASE LeaveCycle(ac, TRUE, cmds \o <<CancelTimer(AwakeWindow)>>, reply)
  <2>1. <<CancelTimer(AwakeWindow)>> \in Seq(Calm)
    BY TimersTyped, CalmCommands
  <2>2. cmds \o <<CancelTimer(AwakeWindow)>> \in Seq(Calm)
    BY <1>1, <2>1, Concat
  <2> QED
    BY <1>5, <2>2, SaysLeave
<1>6. CASE Become(state, interrupted, cmds \o reply)
  <2>1. cmds \o reply \in Seq(Calm)
    BY <1>1, Concat
  <2> QED
    BY <1>6, <2>1, SaysBecome, GoodBase DEF Base
<1> QED
  BY <1>2, <1>3, <1>4, <1>5, <1>6 DEF OnActivity, cmds

LEMMA SaysOnSleepBlocked ==
  ASSUME NEW blocked, Good, OnSleepBlocked(blocked)
  PROVE  Quiet
<1>1. CASE ArmSleepRetry(suspendFrom, pendingSleep, <<>>)
  BY <1>1, ArmSleepRetryCalm, GoodBase DEF Quiet
<1>2. CASE CycleFailure(<<>>, <<>>)
  BY <1>2, Silence, SaysFailure
<1>3. CASE Become(state, interrupted, <<>>)
  BY <1>3, Silence, SaysBecome, GoodBase DEF Base
<1> QED
  BY <1>1, <1>2, <1>3 DEF OnSleepBlocked

LEMMA SaysOnSleepFailed ==
  ASSUME NEW out \in Seq(Calm), Good, OnSleepFailed(out)
  PROVE  Quiet
BY Silence, SaysOnActivity, SaysFailure, SaysAnswer DEF OnSleepFailed

LEMMA SaysOnSuspending == ASSUME Good, OnSuspending PROVE Quiet
<1>1. (IF InCycle THEN "LongSleeping" ELSE "Sleeping") \in States
  BY DEF States, Phases
<1> QED
  BY <1>1, Silence, SaysBecome DEF OnSuspending

LEMMA SaysOnResumed ==
  ASSUME NEW byUser, Good, OnResumed(byUser)
  PROVE  Warranted
<1>1. UNCHANGED <<config, ac, battery>>
  BY DEF OnResumed, powerVars
<1>2. CASE LeaveCycle(ac, TRUE, <<>>, <<>>)
  BY <1>2, Silence, SaysLeave DEF Warranted
<1>3. CASE CheckPower
  BY <1>1, <1>3, SaysCheckPower
<1>4. CASE Become("Active", interrupted,
                  <<Do("Undim"), Screen(TRUE), ReplaceIdleStages(StagesOf(config, mode))>>)
  <2>1. StagesOf(config, mode) \in Modes \cup {NONE}
    BY GoodBase, ConfigValid DEF Base, StagesOf, Config
  <2>2. /\ Do("Undim") \in Calm /\ Screen(TRUE) \in Calm
        /\ ReplaceIdleStages(StagesOf(config, mode)) \in Calm
    BY <2>1, CalmCommands
  <2>3. <<Do("Undim"), Screen(TRUE), ReplaceIdleStages(StagesOf(config, mode))>> \in Seq(Calm)
    BY <2>2, Triple
  <2> QED
    BY <1>4, <2>3, SaysBecome DEF States, Awake, Warranted
<1> QED
  BY <1>2, <1>3, <1>4 DEF OnResumed

LEMMA SaysOnAwakeWindow == ASSUME Good, OnAwakeWindow PROVE Warranted \/ ArmsAnew
<1>1. UNCHANGED <<config, ac, battery>>
  BY DEF OnAwakeWindow, powerVars
<1>2. CASE PowerIsBack(<<>>)
  BY <1>2, Silence, SaysPowerIsBack DEF Warranted
<1>3. CASE Arm(FALSE)
  BY <1>3, ArmLone, GoodBase DEF ArmsAnew
<1>4. CASE CheckPower
  BY <1>1, <1>4, SaysCheckPower
<1>5. CASE Become(state, interrupted, <<>>)
  BY <1>5, Silence, SaysBecome, GoodBase DEF Base, Warranted
<1> QED
  BY <1>2, <1>3, <1>4, <1>5 DEF OnAwakeWindow

LEMMA SaysOnTimer ==
  ASSUME NEW t, Good, OnTimer(t)
  PROVE  Warranted \/ ArmsAnew
<1>1. CASE pendingSleep /\ RequestSleep(FALSE)
  BY <1>1, SaysRequestSleep DEF Good, CycleInv, NoRetryInCycle
<1>2. ASSUME NEW n, OnInhibitExpiry(n) PROVE Warranted
  BY <1>2, Silence, SaysBecome, GoodBase DEF OnInhibitExpiry, Base, Warranted
<1>3. CASE Arm(TRUE)
  BY <1>3, ArmLone, GoodBase DEF ArmsAnew
<1> QED
  BY <1>1, <1>2, <1>3, Silence, SaysAnswer, SaysOnAwakeWindow DEF OnTimer, Warranted

LEMMA SaysOnWakeScheduled ==
  ASSUME NEW armed, NEW out \in Seq(Calm), Good, OnWakeScheduled(armed, out)
  PROVE  Quiet \/ (armed /\ SleepsArmed)
<1>1. CASE Answer(out)
  BY <1>1, SaysAnswer
<1>2. CASE CycleFailure(out, <<>>)
  BY <1>2, Silence, SaysFailure
<1>3. CASE PowerIsBack(out)
  BY <1>3, SaysPowerIsBack
<1>4. ASSUME state = "Armed", ~ac, ~Blocked, UNCHANGED <<config, powerVars, blockVars>>,
             Become(state, interrupted, out \o <<Suspend("Configured", FALSE)>>)
      PROVE  SleepsArmed
  <2> DEFINE c == Suspend("Configured", FALSE)
  <2>1. Lone(out \o <<c>>, c)
    BY NotCalm, LoneSingle, LoneAfter
  <2>2. Lone(queue', c)
    BY <1>4, <2>1, NotCalm, BecomeLone, GoodBase DEF Base
  <2>3. state' = "Armed" /\ ~ac' /\ ~Blocked'
    BY <1>4, BecomeState DEF Blocked, powerVars, blockVars
  <2> QED
    BY <1>4, <2>2, <2>3 DEF SleepsArmed
<1> QED
  BY <1>1, <1>2, <1>3, <1>4 DEF OnWakeScheduled

LEMMA SaysOnAcChanged ==
  ASSUME NEW a \in BOOLEAN, Good, OnAcChanged(a)
  PROVE  Warranted
<1> DEFINE told == <<BroadcastPower(a)>>
           m == SelectAuto(config, mode, a, low)
<1>1. told \in Seq(Calm)
  <2>1. BroadcastPower(a) \in Calm
    BY CalmAnswers
  <2> QED
    BY <2>1
<1>2. ASSUME NEW s PROVE Reapplied(mode, m, s) \in Seq(Calm)
  BY SelectAutoRight, ReappliedCalm, GoodBase DEF Base
<1>3. /\ <<CancelTimer(Grace)>> \in Seq(Calm)
      /\ <<CancelTimer(AwakeWindow)>> \in Seq(Calm)
  BY TimersTyped, CalmCommands
<1> HIDE DEF told, m
<1>4. CASE Answer(<<>>)
  BY <1>4, Silence, SaysAnswer DEF Warranted
<1>5. CASE Become("Active", interrupted,
                  (told \o <<CancelTimer(Grace)>>) \o Reapplied(mode, m, "Active"))
  <2>1. (told \o <<CancelTimer(Grace)>>) \o Reapplied(mode, m, "Active") \in Seq(Calm)
    BY <1>1, <1>2, <1>3, Concat
  <2> QED
    BY <1>5, <2>1, SaysBecome DEF States, Awake, Warranted
<1>6. CASE PowerIsBack(told \o <<CancelTimer(AwakeWindow)>>)
  <2>1. told \o <<CancelTimer(AwakeWindow)>> \in Seq(Calm)
    BY <1>1, <1>3, Concat
  <2> QED
    BY <1>6, <2>1, SaysPowerIsBack DEF Warranted
<1>7. CASE EnterGrace(m, told \o Reapplied(mode, m, state), <<>>)
  <2>1. told \o Reapplied(mode, m, state) \in Seq(Calm)
    BY <1>1, <1>2, Concat
  <2> QED
    BY <1>7, <2>1, Silence, EnterGraceCalm, GoodBase DEF Warranted, Quiet
<1>8. CASE Become(state, interrupted, told \o Reapplied(mode, m, state))
  <2>1. told \o Reapplied(mode, m, state) \in Seq(Calm)
    BY <1>1, <1>2, Concat
  <2> QED
    BY <1>8, <2>1, SaysBecome, GoodBase DEF Base, Warranted
<1> QED
  BY <1>4, <1>5, <1>6, <1>7, <1>8 DEF OnAcChanged, told, m

LEMMA SaysOnBattery ==
  ASSUME NEW percent, Good, OnBattery(percent)
  PROVE  Warranted
<1> DEFINE m == SelectAuto(config, mode, ac, low')
<1>1. mode' \in Mode
  <2>1. m \in Mode
    BY SelectAutoRight, GoodBase DEF Base
  <2>2. mode' = mode \/ mode' = m
    BY DEF OnBattery
  <2> QED
    BY <2>1, <2>2, GoodBase DEF Base
<1>2. Reapplied(mode, mode', state) \in Seq(Calm)
  BY <1>1, ReappliedCalm, GoodBase DEF Base
<1> QED
  BY <1>2, SaysBecome, GoodBase DEF OnBattery, Base, Warranted

LEMMA SaysOnSetMode ==
  ASSUME NEW c \in Clients, NEW kind \in {"Auto", "Manual"}, NEW name,
         kind = "Manual" => name \in Modes, Good, OnSetMode(c, kind, name)
  PROVE  Warranted
<1> DEFINE m == IF kind = "Auto"
                THEN [kind |-> "Auto", name |-> AutoModeName(config, mode, ac, low)]
                ELSE [kind |-> "Manual", name |-> name]
<1>1. m \in Mode
  BY AutoModeNameRight, GoodBase DEF Base, Mode
<1>2. ModeChanged(config, m, state) \o <<Reply(c, TRUE)>> \in Seq(Calm)
  <2>1. ModeChanged(config, m, state) \in Seq(Calm)
    BY <1>1, ModeCommandsCalm, GoodBase DEF Base
  <2> QED
    BY <2>1, ReplyCalm, Concat
<1> HIDE DEF m
<1>3. CASE Answer(<<Reply(c, FALSE)>>)
  BY <1>3, ReplyCalm, SaysAnswer DEF Warranted
<1>4. CASE Become(state, interrupted, ModeChanged(config, m, state) \o <<Reply(c, TRUE)>>)
  BY <1>2, <1>4, SaysBecome, GoodBase DEF Base, Warranted
<1> QED
  BY <1>3, <1>4 DEF OnSetMode, m

LEMMA SaysStepAside ==
  ASSUME NEW s \in States, NEW cs \in Seq(Calm), Good, StepAside(s, cs)
  PROVE  Quiet
BY SaysBecome DEF StepAside

LEMMA SaysOnDim == ASSUME NEW c \in Clients, Good, OnDim(c) PROVE Warranted
<1>1. Do("Dim") \in Calm /\ Reply(c, TRUE) \in Calm
  BY CalmCommands, CalmAnswers
<1>2. <<Do("Dim"), Reply(c, TRUE)>> \in Seq(Calm)
  BY <1>1, Pair
<1> QED
  BY <1>2, ReplyCalm, SaysStepAside, SaysAnswer DEF OnDim, States, Awake, Warranted

LEMMA SaysOnScreen ==
  ASSUME NEW c \in Clients, NEW on, Good, OnScreen(c, on)
  PROVE  Warranted
<1>1. Screen(FALSE) \in Calm /\ Reply(c, TRUE) \in Calm
  BY CalmCommands, CalmAnswers
<1>2. <<Screen(FALSE), Reply(c, TRUE)>> \in Seq(Calm)
  BY <1>1, Pair
<1> QED
  BY <1>2, Silence, ReplyCalm, SaysStepAside, SaysAnswer, SaysOnActivity
     DEF OnScreen, States, Awake, Warranted

LEMMA SaysOnSleep ==
  ASSUME NEW c \in Clients, NEW force \in BOOLEAN, Good, OnSleep(c, force)
  PROVE  Warranted
<1>1. CASE Answer(<<Reply(c, FALSE)>>)
  BY <1>1, ReplyCalm, SaysAnswer DEF Warranted
<1>2. CASE ~SleepRefused(force) /\ GoToSleep(force, <<Reply(c, TRUE)>>, <<>>)
           /\ UNCHANGED <<config, blockVars>>
  BY <1>2, ReplyCalm, GoToSleepSays, GoodBase DEF SleepRefused
<1> QED
  BY <1>1, <1>2 DEF OnSleep

LEMMA SaysOnLongSleep ==
  ASSUME NEW c \in Clients, NEW cancel, Good, OnLongSleep(c, cancel)
  PROVE  Warranted
<1> DEFINE cancelTimer == IF state = "Grace" THEN <<CancelTimer(Grace)>>
                          ELSE IF state = "LongSleeping" THEN <<>>
                          ELSE <<CancelTimer(AwakeWindow)>>
<1>1. cancelTimer \in Seq(Calm)
  BY TimersTyped, CalmCommands
<1> HIDE DEF cancelTimer
<1>2. CASE Answer(<<Reply(c, FALSE)>>)
  BY <1>2, ReplyCalm, SaysAnswer DEF Warranted
<1>3. CASE LeaveCycle(ac, FALSE, cancelTimer, <<Reply(c, TRUE)>>)
  BY <1>1, <1>3, ReplyCalm, SaysLeave DEF Warranted
<1>4. CASE EnterGrace(mode, <<>>, <<Reply(c, TRUE)>>)
  BY <1>4, Silence, ReplyCalm, EnterGraceCalm, GoodBase DEF Warranted, Quiet
<1> QED
  BY <1>2, <1>3, <1>4 DEF OnLongSleep, cancelTimer

LEMMA SaysOnInhibit ==
  ASSUME NEW c \in Clients, NEW what, NEW ttlZero, Good, OnInhibit(c, what, ttlZero)
  PROVE  Warranted
<1>1. CASE Answer(<<Reply(c, FALSE)>>)
  BY <1>1, ReplyCalm, SaysAnswer DEF Warranted
<1>2. CASE /\ nextInhibitId <= MaxInhibits
           /\ Become(state, interrupted,
                     <<StartTimer(InhibitExpiry(nextInhibitId)), Reply(c, TRUE)>>)
  <2>1. nextInhibitId \in 1..MaxInhibits
    BY <1>2, EngineAssumption DEF Good, OtherTypes
  <2>2. StartTimer(InhibitExpiry(nextInhibitId)) \in Calm /\ Reply(c, TRUE) \in Calm
    BY <2>1, TimersTyped, CalmCommands, CalmAnswers
  <2>3. <<StartTimer(InhibitExpiry(nextInhibitId)), Reply(c, TRUE)>> \in Seq(Calm)
    BY <2>2, Pair
  <2> QED
    BY <1>2, <2>3, SaysBecome, GoodBase DEF Base, Warranted
<1> QED
  BY <1>1, <1>2 DEF OnInhibit

LEMMA SaysOnUninhibit ==
  ASSUME NEW c \in Clients, NEW n \in 1..MaxInhibits, Good, OnUninhibit(c, n)
  PROVE  Warranted
<1>1. CancelTimer(InhibitExpiry(n)) \in Calm /\ Reply(c, TRUE) \in Calm
  BY TimersTyped, CalmCommands, CalmAnswers
<1>2. <<CancelTimer(InhibitExpiry(n)), Reply(c, TRUE)>> \in Seq(Calm)
  BY <1>1, Pair
<1> QED
  BY <1>2, ReplyCalm, SaysAnswer, SaysBecome, GoodBase DEF OnUninhibit, Base, Warranted

LEMMA ReloadCalm ==
  ASSUME NEW c \in Clients \cup {NONE}
  PROVE  <<Reload(c)>> \in Seq(Calm)
<1>1. Reload(c) \in Calm
  BY CalmAnswers
<1> QED
  BY <1>1

LEMMA SaysOnIpc ==
  ASSUME NEW c \in Clients, NEW r \in Request, Good, OnIpc(c, r)
  PROVE  Warranted
<1>1. /\ r.req = "Mode" => r.name \in Modes
      /\ r.req = "Sleep" => r.force \in BOOLEAN
      /\ r.req = "Uninhibit" => r.id \in 1..MaxInhibits
  BY DEF Request
<1>2. CASE Answer(<<Reply(c, TRUE)>>)
  BY <1>2, ReplyCalm, SaysAnswer DEF Warranted
<1>3. CASE Answer(<<Reload(c)>>)
  BY <1>3, ReloadCalm, SaysAnswer DEF Warranted
<1>4. CASE OnActivity(<<>>, <<Reply(c, TRUE)>>)
  BY <1>4, Silence, ReplyCalm, SaysOnActivity DEF Warranted
<1> QED
  BY <1>1, <1>2, <1>3, <1>4, SaysOnSetMode, SaysOnDim, SaysOnScreen, SaysOnSleep,
     SaysOnLongSleep, SaysOnInhibit, SaysOnUninhibit
  DEF OnIpc

LEMMA SaysOnShutdown == ASSUME Good, OnShutdown PROVE Warranted
<1> DEFINE first == IF InCycle THEN <<Do("CancelWake")>> ELSE <<>>
           last == <<Do("Undim"), Screen(TRUE), Do("Shutdown")>>
<1>1. first \in Seq(Calm)
  BY DoCalm, Silence
<1>2. last \in Seq(Calm)
  <2>1. Do("Undim") \in Calm /\ Screen(TRUE) \in Calm /\ Do("Shutdown") \in Calm
    BY CalmCommands
  <2> QED
    BY <2>1, Triple
<1> HIDE DEF first, last
<1>3. first \o last \in Seq(Calm)
  BY <1>1, <1>2, Concat
<1> QED
  BY <1>3, SaysStepAside DEF OnShutdown, first, last, States, Awake, Warranted

LEMMA SaysHandle ==
  ASSUME NEW e \in Event, Good, Handle(e)
  PROVE  Warranted \/ (e.event = "Timer" /\ ArmsAnew)
<1>1. /\ e.event = "AcChanged" => e.ac \in BOOLEAN
      /\ e.event = "Ipc" => e.client \in Clients /\ e.request \in Request
  BY DEF Event
<1>2. CASE OnActivity(<<>>, <<>>)
  BY <1>2, Silence, SaysOnActivity DEF Warranted
<1>3. CASE OnSleepFailed(<<>>)
  BY <1>3, Silence, SaysOnSleepFailed DEF Warranted
<1>4. CASE Answer(<<Reload(NONE)>>)
  BY <1>4, ReloadCalm, SaysAnswer DEF Warranted
<1>5. ASSUME NEW blocked, OnInhibitors(blocked) PROVE Warranted
  BY <1>5, Silence, SaysBecome, GoodBase DEF OnInhibitors, Base, Warranted
<1> QED
  BY <1>1, <1>2, <1>3, <1>4, <1>5, SaysOnIdle, SaysOnAcChanged, SaysOnBattery,
     SaysOnSuspending, SaysOnResumed, SaysOnTimer, SaysOnIpc, SaysOnSleepBlocked,
     SaysOnShutdown
  DEF Handle, Warranted

LEMMA SaysSetConfig ==
  ASSUME NEW c \in Configs, NEW client \in Clients \cup {NONE},
         NEW out \in Seq(Calm), Good, SetConfig(c, client, out)
  PROVE  Quiet
<1> DEFINE m == SelectAuto(c, mode, ac, ComputeLow(c, battery, low))
           reply == IF client = NONE THEN <<>> ELSE <<Reply(client, TRUE)>>
<1>1. m \in Mode
  BY SelectAutoRight, GoodBase DEF Base
<1>2. ModeCommands(c, m, state) \in Seq(Calm)
  BY <1>1, ModeCommandsCalm
<1>3. reply \in Seq(Calm)
  BY ReplyCalm, Silence
<1> HIDE DEF m, reply
<1>4. (out \o ModeCommands(c, m, state)) \o reply \in Seq(Calm)
  BY <1>2, <1>3, Concat
<1>5. Become(state, interrupted, (out \o ModeCommands(c, m, state)) \o reply)
  BY DEF SetConfig, m, reply
<1> QED
  BY <1>4, <1>5, SaysBecome, GoodBase DEF Base

-----------------------------------------------------------------------------
(* The types.                                                              *)

\* What most handlers may change of OtherTypes.
Turn ==
    /\ state' \in States
    /\ pendingSleep' \in BOOLEAN
    /\ suspendFrom' \in States
    /\ sleepFailures' \in 0..MaxSleepFailures
    /\ interrupted' \in BOOLEAN
    /\ hibernateAvailable' = hibernateAvailable

LEMMA TurnTypes == ASSUME OtherTypes, Turn, UNCHANGED blockVars PROVE OtherTypes'
BY DEF OtherTypes, Turn, blockVars

LEMMA TurnStays ==
  ASSUME OtherTypes, state' \in States,
         UNCHANGED <<sleepVars, hibernateAvailable, cycleVars>>
  PROVE  Turn
BY DEF OtherTypes, Turn, sleepVars, cycleVars

LEMMA TypesAnswer == ASSUME NEW out, OtherTypes, Answer(out) PROVE OtherTypes'
BY DEF Answer, engineVars, OtherTypes, blockVars, sleepVars, cycleVars

LEMMA TypesStepAside ==
  ASSUME NEW s \in States, NEW cs, OtherTypes, StepAside(s, cs)
  PROVE  OtherTypes'
BY BecomeState, TurnStays, TurnTypes DEF StepAside

LEMMA LeaveCycleTurns ==
  ASSUME NEW a, NEW intr \in BOOLEAN, NEW out, NEW reply,
         LeaveCycle(a, intr, out, reply)
  PROVE  state' \in States /\ interrupted' \in BOOLEAN
BY LeaveCycleState DEF LeaveCycle, States, Awake

LEMMA PowerIsBackTurns ==
  ASSUME NEW out, OtherTypes, PowerIsBack(out)
  PROVE  state' \in States /\ interrupted' \in BOOLEAN
BY LeaveCycleTurns DEF PowerIsBack, OtherTypes

LEMMA CycleFailureTurns ==
  ASSUME NEW out, NEW reply, CycleInv, InCycle, OtherTypes, CycleFailure(out, reply)
  PROVE  /\ state' \in States /\ interrupted' \in BOOLEAN
         /\ sleepFailures' \in 0..MaxSleepFailures
<1>1. sleepFailures' = sleepFailures + 1 /\ sleepFailures < MaxSleepFailures
  BY CycleFailureState DEF CycleInv, GivesUpInTime
<1>2. sleepFailures' \in 0..MaxSleepFailures
  BY <1>1 DEF OtherTypes, MaxSleepFailures
<1>3. CASE LeaveCycle(ac, interrupted, out, reply)
  BY <1>2, <1>3, LeaveCycleTurns DEF OtherTypes
<1>4. CASE Become(state, interrupted, out \o <<StartTimer(AwakeWindow)>> \o reply)
           /\ UNCHANGED interrupted
  BY <1>2, <1>4, BecomeState DEF OtherTypes
<1> QED
  BY <1>3, <1>4 DEF CycleFailure

LEMMA CheckPowerTurns ==
  ASSUME OtherTypes, CheckPower
  PROVE  state' \in States /\ interrupted' \in BOOLEAN
<1>1. CASE PowerIsBack(<<>>)
  BY <1>1, PowerIsBackTurns
<1>2. CASE StayChecking /\ UNCHANGED interrupted
  BY <1>2, CheckPowerState DEF CheckPower, States, Awake, Phases, OtherTypes
<1> QED
  BY <1>1, <1>2 DEF CheckPower

LEMMA TypesRequestSleep ==
  ASSUME NEW pending \in BOOLEAN, PowerInv, OtherTypes, RequestSleep(pending)
  PROVE  OtherTypes'
<1>1. config.sleepRetry \in BOOLEAN
  BY ConfigValid DEF PowerInv, Config
<1>2. CASE GoToSleep(FALSE, <<>>, <<>>)
  <2>1. Turn
    BY <1>2, GoToSleepState DEF RequestSleep, Turn, OtherTypes, cycleVars, States
  <2> QED
    BY <2>1, TurnTypes DEF RequestSleep
<1>3. CASE ArmSleepRetry(state, pending, <<>>) /\ UNCHANGED suspendFrom
  <2>1. pendingSleep' \in BOOLEAN
    BY <1>1, <1>3 DEF ArmSleepRetry
  <2>2. Turn
    BY <1>3, <2>1, ArmSleepRetryState DEF RequestSleep, Turn, OtherTypes, cycleVars
  <2> QED
    BY <2>2, TurnTypes DEF RequestSleep
<1> QED
  BY <1>2, <1>3 DEF RequestSleep

LEMMA TypesEnterGrace ==
  ASSUME NEW m, NEW out, NEW reply, OtherTypes, EnterGrace(m, out, reply),
         UNCHANGED <<blockVars, suspendFrom, hibernateAvailable>>
  PROVE  OtherTypes'
<1>1. /\ state' = "Grace" /\ pendingSleep' = FALSE /\ sleepFailures' = 0
      /\ interrupted' = FALSE
  BY EnterGraceState DEF EnterGrace
<1>2. state' \in States /\ suspendFrom' \in States
  <2>1. "Grace" \in States
    BY DEF States, Phases
  <2> QED
    BY <1>1, <2>1 DEF OtherTypes
<1>3. sleepFailures' \in 0..MaxSleepFailures
  BY <1>1 DEF MaxSleepFailures
<1>4. pendingSleep' \in BOOLEAN /\ interrupted' \in BOOLEAN
  BY <1>1
<1>5. Turn
  BY <1>2, <1>3, <1>4 DEF Turn
<1> QED
  BY <1>5, TurnTypes

LEMMA TypesOnIdle ==
  ASSUME NEW stage, Good, OnIdle(stage)
  PROVE  OtherTypes'
<1>1. OtherTypes /\ PowerInv /\ pendingSleep \in BOOLEAN
  BY DEF Good, OtherTypes
<1> QED
  BY <1>1, TypesAnswer, TypesStepAside, TypesRequestSleep DEF OnIdle, States, Awake

LEMMA TypesOnActivity ==
  ASSUME NEW out, NEW reply, Good, OnActivity(out, reply)
  PROVE  OtherTypes'
<1> DEFINE cmds == out \o CancelPending
<1>1. /\ OtherTypes /\ CycleInv
      /\ pendingSleep' = FALSE
      /\ UNCHANGED <<blockVars, suspendFrom, hibernateAvailable>>
  BY DEF Good, OnActivity
<1>2. ASSUME state' \in States, interrupted' \in BOOLEAN,
             sleepFailures' \in 0..MaxSleepFailures
      PROVE  OtherTypes'
  <2>1. Turn
    BY <1>1, <1>2 DEF Turn, OtherTypes
  <2> QED
    BY <1>1, <2>1, TurnTypes
<1>3. ASSUME NEW s \in States, NEW cs, Become(s, interrupted, cs), UNCHANGED cycleVars
      PROVE  OtherTypes'
  BY <1>1, <1>2, <1>3, BecomeState DEF OtherTypes, cycleVars
<1>4. CASE state = "Armed" /\ CycleFailure(cmds, reply)
  BY <1>1, <1>2, <1>4, CycleFailureTurns DEF InCycle, Phases
<1>5. ASSUME NEW cs, LeaveCycle(ac, TRUE, cs, reply), UNCHANGED sleepFailures
      PROVE  OtherTypes'
  BY <1>1, <1>2, <1>5, LeaveCycleTurns DEF OtherTypes
<1>6. "Active" \in States /\ state \in States
  BY <1>1 DEF OtherTypes, States, Awake
<1> QED
  BY <1>3, <1>4, <1>5, <1>6 DEF OnActivity

LEMMA TypesOnSleepBlocked ==
  ASSUME NEW blocked \in BOOLEAN, Good, OnSleepBlocked(blocked)
  PROVE  OtherTypes'
<1>1. /\ OtherTypes /\ CycleInv /\ config.sleepRetry \in BOOLEAN
      /\ external' = blocked
      /\ UNCHANGED <<inhibits, nextInhibitId, suspendFrom, hibernateAvailable>>
  BY ConfigValid DEF Good, PowerInv, Config, OnSleepBlocked
<1>2. ASSUME Turn PROVE OtherTypes'
  BY <1>1, <1>2 DEF Turn, OtherTypes
<1>3. CASE ArmSleepRetry(suspendFrom, pendingSleep, <<>>) /\ UNCHANGED cycleVars
  <2>1. pendingSleep' \in BOOLEAN
    BY <1>1, <1>3 DEF ArmSleepRetry, OtherTypes
  <2>2. Turn
    BY <1>1, <1>3, <2>1, ArmSleepRetryState DEF Turn, OtherTypes, cycleVars
  <2> QED
    BY <1>2, <2>2
<1>4. CASE state = "Armed" /\ CycleFailure(<<>>, <<>>) /\ UNCHANGED pendingSleep
  <2>1. Turn
    BY <1>1, <1>4, CycleFailureTurns DEF Turn, OtherTypes, InCycle, Phases
  <2> QED
    BY <1>2, <2>1
<1>5. CASE Become(state, interrupted, <<>>) /\ UNCHANGED cycleVars
           /\ UNCHANGED pendingSleep
  <2>1. Turn
    BY <1>1, <1>5, BecomeState DEF Turn, OtherTypes, cycleVars
  <2> QED
    BY <1>2, <2>1
<1> QED
  BY <1>3, <1>4, <1>5 DEF OnSleepBlocked

LEMMA TypesOnSleepFailed ==
  ASSUME NEW out, Good, OnSleepFailed(out)
  PROVE  OtherTypes'
<1>1. CASE OnActivity(out, <<>>)
  BY <1>1, TypesOnActivity
<1>2. CASE /\ state = "Armed" /\ CycleFailure(out, <<>>)
           /\ UNCHANGED <<blockVars, sleepVars, hibernateAvailable>>
  <2>1. Turn
    BY <1>2, CycleFailureTurns DEF Good, Turn, OtherTypes, InCycle, Phases, sleepVars
  <2> QED
    BY <1>2, <2>1, TurnTypes DEF Good
<1>3. CASE Answer(out)
  BY <1>3, TypesAnswer DEF Good
<1> QED
  BY <1>1, <1>2, <1>3 DEF OnSleepFailed

LEMMA TypesOnSuspending == ASSUME OtherTypes, OnSuspending PROVE OtherTypes'
<1>1. /\ state' = IF InCycle THEN "LongSleeping" ELSE "Sleeping"
      /\ sleepFailures' = IF InCycle THEN 0 ELSE sleepFailures
      /\ pendingSleep' = FALSE
      /\ UNCHANGED <<blockVars, suspendFrom, hibernateAvailable, interrupted>>
  BY BecomeState DEF OnSuspending
<1>2. state' \in States /\ suspendFrom' \in States
  <2>1. "LongSleeping" \in States /\ "Sleeping" \in States
    BY DEF States, Phases
  <2> QED
    BY <1>1, <2>1 DEF OtherTypes
<1>3. sleepFailures' \in 0..MaxSleepFailures
  <2>1. 0 \in 0..MaxSleepFailures
    BY DEF MaxSleepFailures
  <2> QED
    BY <1>1, <2>1 DEF OtherTypes
<1>4. pendingSleep' \in BOOLEAN /\ interrupted' \in BOOLEAN
  BY <1>1 DEF OtherTypes
<1>5. Turn
  BY <1>1, <1>2, <1>3, <1>4 DEF Turn
<1> QED
  BY <1>1, <1>5, TurnTypes

LEMMA TypesOnResumed ==
  ASSUME NEW byUser, OtherTypes, OnResumed(byUser)
  PROVE  OtherTypes'
<1>1. /\ pendingSleep' = FALSE
      /\ UNCHANGED <<blockVars, suspendFrom, hibernateAvailable, sleepFailures>>
  BY DEF OnResumed
<1>2. ASSUME state' \in States, interrupted' \in BOOLEAN PROVE OtherTypes'
  <2>1. Turn
    BY <1>1, <1>2 DEF Turn, OtherTypes
  <2> QED
    BY <1>1, <2>1, TurnTypes
<1>3. CASE LeaveCycle(ac, TRUE, <<>>, <<>>)
  BY <1>2, <1>3, LeaveCycleTurns
<1>4. CASE CheckPower
  BY <1>2, <1>4, CheckPowerTurns
<1>5. ASSUME NEW cs, Become("Active", interrupted, cs), UNCHANGED interrupted
      PROVE  OtherTypes'
  BY <1>2, <1>5, BecomeState DEF OtherTypes, States, Awake
<1> QED
  BY <1>3, <1>4, <1>5 DEF OnResumed

LEMMA TypesOnAwakeWindow == ASSUME OtherTypes, OnAwakeWindow PROVE OtherTypes'
<1>1. UNCHANGED <<blockVars, sleepVars, hibernateAvailable, sleepFailures>>
  BY DEF OnAwakeWindow
<1>2. ASSUME state' \in States, interrupted' \in BOOLEAN PROVE OtherTypes'
  <2>1. Turn
    BY <1>1, <1>2 DEF Turn, OtherTypes, sleepVars
  <2> QED
    BY <1>1, <2>1, TurnTypes
<1>3. CASE PowerIsBack(<<>>)
  BY <1>2, <1>3, PowerIsBackTurns
<1>4. CASE Arm(FALSE) /\ UNCHANGED interrupted
  BY <1>2, <1>4, ArmState DEF OtherTypes, States, Phases
<1>5. CASE CheckPower
  BY <1>2, <1>5, CheckPowerTurns
<1>6. CASE Become(state, interrupted, <<>>) /\ UNCHANGED interrupted
  BY <1>2, <1>6, BecomeState DEF OtherTypes
<1> QED
  BY <1>3, <1>4, <1>5, <1>6 DEF OnAwakeWindow

LEMMA TypesOnTimer ==
  ASSUME NEW t, Good, OnTimer(t)
  PROVE  OtherTypes'
<1>1. PowerInv /\ OtherTypes
  BY DEF Good
<1>2. ASSUME NEW n, OnInhibitExpiry(n) PROVE OtherTypes'
  BY <1>1, <1>2, BecomeState DEF OnInhibitExpiry, OtherTypes, sleepVars, cycleVars
<1>3. CASE /\ Arm(TRUE)
           /\ UNCHANGED <<blockVars, sleepVars, hibernateAvailable, cycleVars>>
  BY <1>1, <1>3, ArmState, TurnStays, TurnTypes DEF States, Phases
<1>4. CASE RequestSleep(FALSE)
  BY <1>1, <1>4, TypesRequestSleep
<1> QED
  BY <1>1, <1>2, <1>3, <1>4, TypesAnswer, TypesOnAwakeWindow DEF OnTimer

LEMMA TypesOnWakeScheduled ==
  ASSUME NEW armed, NEW out, Good, OnWakeScheduled(armed, out)
  PROVE  OtherTypes'
<1>1. CycleInv /\ OtherTypes
  BY DEF Good
<1>2. ASSUME state' \in States, interrupted' \in BOOLEAN,
             sleepFailures' \in 0..MaxSleepFailures,
             UNCHANGED <<blockVars, sleepVars, hibernateAvailable>>
      PROVE  OtherTypes'
  <2>1. Turn
    BY <1>1, <1>2 DEF Turn, OtherTypes, sleepVars
  <2> QED
    BY <1>1, <1>2, <2>1, TurnTypes
<1>3. CASE Answer(out)
  BY <1>1, <1>3, TypesAnswer
<1>4. CASE /\ state = "Armed" /\ CycleFailure(out, <<>>)
           /\ UNCHANGED <<blockVars, sleepVars, hibernateAvailable>>
  BY <1>1, <1>2, <1>4, CycleFailureTurns DEF InCycle, Phases
<1>5. CASE /\ PowerIsBack(out) /\ UNCHANGED sleepFailures
           /\ UNCHANGED <<blockVars, sleepVars, hibernateAvailable>>
  BY <1>1, <1>2, <1>5, PowerIsBackTurns DEF OtherTypes
<1>6. ASSUME NEW cs, Become(state, interrupted, cs), UNCHANGED cycleVars,
             UNCHANGED <<blockVars, sleepVars, hibernateAvailable>>
      PROVE  OtherTypes'
  BY <1>1, <1>2, <1>6, BecomeState DEF OtherTypes, cycleVars
<1> QED
  BY <1>3, <1>4, <1>5, <1>6 DEF OnWakeScheduled

LEMMA TypesOnAcChanged ==
  ASSUME NEW a, OtherTypes, OnAcChanged(a)
  PROVE  OtherTypes'
<1>1. CASE Answer(<<>>)
  BY <1>1, TypesAnswer
<1>2. ASSUME NEW s \in States, NEW cs, Become(s, interrupted, cs),
             UNCHANGED <<blockVars, suspendFrom, hibernateAvailable>>,
             UNCHANGED <<pendingSleep, cycleVars>>
      PROVE  OtherTypes'
  <2>1. UNCHANGED <<sleepVars, hibernateAvailable, cycleVars>> /\ state' \in States
    BY <1>2, BecomeState DEF sleepVars
  <2> QED
    BY <1>2, <2>1, TurnStays, TurnTypes
<1>3. ASSUME NEW cs, PowerIsBack(cs),
             UNCHANGED <<blockVars, suspendFrom, hibernateAvailable>>,
             UNCHANGED <<pendingSleep, sleepFailures>>
      PROVE  OtherTypes'
  <2>1. Turn
    BY <1>3, PowerIsBackTurns DEF Turn, OtherTypes
  <2> QED
    BY <1>3, <2>1, TurnTypes
<1>4. ASSUME NEW m, NEW cs, EnterGrace(m, cs, <<>>),
             UNCHANGED <<blockVars, suspendFrom, hibernateAvailable>>
      PROVE  OtherTypes'
  BY <1>4, TypesEnterGrace
<1>5. "Active" \in States /\ state \in States
  BY DEF OtherTypes, States, Awake
<1> QED
  BY <1>1, <1>2, <1>3, <1>4, <1>5 DEF OnAcChanged

LEMMA TypesOnIpc ==
  ASSUME NEW c, NEW r \in Request, Good, OnIpc(c, r)
  PROVE  OtherTypes'
<1>1. PowerInv /\ OtherTypes
  BY DEF Good
<1>2. ASSUME NEW cs, Answer(cs) PROVE OtherTypes'
  BY <1>1, <1>2, TypesAnswer
<1>3. ASSUME NEW s \in {"Dimmed", "ScreenOff"}, NEW cs, StepAside(s, cs) PROVE OtherTypes'
  BY <1>1, <1>3, TypesStepAside DEF States, Awake
<1>4. ASSUME NEW reply, OnActivity(<<>>, reply) PROVE OtherTypes'
  BY <1>4, TypesOnActivity
<1>5. ASSUME NEW kind, NEW name, OnSetMode(c, kind, name) PROVE OtherTypes'
  <2>1. ASSUME NEW cs, Become(state, interrupted, cs),
               UNCHANGED <<blockVars, sleepVars, hibernateAvailable, cycleVars>>
        PROVE  OtherTypes'
    BY <1>1, <2>1, BecomeState, TurnStays, TurnTypes DEF OtherTypes
  <2> QED
    BY <1>2, <1>5, <2>1 DEF OnSetMode
<1>6. CASE OnDim(c)
  BY <1>2, <1>3, <1>6 DEF OnDim
<1>7. ASSUME NEW on, OnScreen(c, on) PROVE OtherTypes'
  BY <1>2, <1>3, <1>4, <1>7 DEF OnScreen
<1>8. ASSUME NEW force, OnSleep(c, force) PROVE OtherTypes'
  <2>1. ASSUME GoToSleep(force, <<Reply(c, TRUE)>>, <<>>),
               UNCHANGED <<blockVars, hibernateAvailable, cycleVars>>
        PROVE  OtherTypes'
    <3>1. Turn
      BY <1>1, <2>1, GoToSleepState DEF Turn, OtherTypes, cycleVars, States
    <3> QED
      BY <1>1, <2>1, <3>1, TurnTypes
  <2> QED
    BY <1>2, <1>8, <2>1 DEF OnSleep
<1>9. ASSUME NEW cancel, OnLongSleep(c, cancel) PROVE OtherTypes'
  <2>1. ASSUME NEW cs, LeaveCycle(ac, FALSE, cs, <<Reply(c, TRUE)>>),
               UNCHANGED <<blockVars, sleepVars, hibernateAvailable, sleepFailures>>
        PROVE  OtherTypes'
    <3>1. Turn
      BY <1>1, <2>1, LeaveCycleTurns DEF Turn, OtherTypes, sleepVars
    <3> QED
      BY <1>1, <2>1, <3>1, TurnTypes
  <2>2. ASSUME EnterGrace(mode, <<>>, <<Reply(c, TRUE)>>),
               UNCHANGED <<blockVars, suspendFrom, hibernateAvailable>>
        PROVE  OtherTypes'
    BY <1>1, <2>2, TypesEnterGrace
  <2> QED
    BY <1>2, <1>9, <2>1, <2>2 DEF OnLongSleep
<1>10. ASSUME OnInhibit(c, r.what, r.ttlZero), r.req = "Inhibit" PROVE OtherTypes'
  <2>1. CASE /\ nextInhibitId <= MaxInhibits
             /\ inhibits' = inhibits \cup {[id |-> nextInhibitId, what |-> r.what]}
             /\ nextInhibitId' = nextInhibitId + 1
             /\ state' = state
             /\ UNCHANGED <<external, sleepVars, hibernateAvailable, cycleVars>>
    <3>1. r.what \in {"Idle", "Sleep"}
      BY <1>10 DEF Request
    <3>2. nextInhibitId \in 1..MaxInhibits /\ nextInhibitId' \in 1..MaxInhibits + 1
      BY <1>1, <2>1, EngineAssumption DEF OtherTypes
    <3>3. inhibits' \subseteq [id : 1..MaxInhibits, what : {"Idle", "Sleep"}]
      BY <1>1, <2>1, <3>1, <3>2 DEF OtherTypes
    <3> QED
      BY <1>1, <2>1, <3>2, <3>3 DEF OtherTypes, sleepVars, cycleVars
  <2> QED
    BY <1>2, <1>10, <2>1, BecomeState DEF OnInhibit
<1>11. ASSUME NEW n, OnUninhibit(c, n) PROVE OtherTypes'
  <2>1. ASSUME NEW cs, inhibits' = {i \in inhibits : i.id # n},
               Become(state, interrupted, cs),
               UNCHANGED <<nextInhibitId, external, sleepVars, hibernateAvailable, cycleVars>>
        PROVE  OtherTypes'
    BY <1>1, <2>1, BecomeState DEF OtherTypes, sleepVars, cycleVars
  <2> QED
    BY <1>2, <1>11, <2>1 DEF OnUninhibit
<1> QED
  BY <1>2, <1>4, <1>5, <1>6, <1>7, <1>8, <1>9, <1>10, <1>11 DEF OnIpc

LEMMA TypesHandle ==
  ASSUME NEW e \in Event, Good, Handle(e)
  PROVE  OtherTypes'
<1>1. PowerInv /\ OtherTypes
  BY DEF Good
<1>2. /\ e.event = "Ipc" => e.request \in Request
      /\ e.event \in {"SleepBlocked", "Inhibitors"} => e.blocked \in BOOLEAN
  BY DEF Event
<1>3. ASSUME NEW percent, OnBattery(percent) PROVE OtherTypes'
  BY <1>1, <1>3, BecomeState, TurnStays, TurnTypes DEF OnBattery, OtherTypes
<1>4. ASSUME NEW blocked \in BOOLEAN, OnInhibitors(blocked) PROVE OtherTypes'
  BY <1>1, <1>4, BecomeState DEF OnInhibitors, OtherTypes, sleepVars, cycleVars
<1>5. CASE OnShutdown
  BY <1>1, <1>5, TypesStepAside DEF OnShutdown, States, Awake
<1>6. ASSUME NEW cs, Answer(cs) PROVE OtherTypes'
  BY <1>1, <1>6, TypesAnswer
<1> QED
  BY <1>1, <1>2, <1>3, <1>4, <1>5, <1>6, TypesOnIdle, TypesOnActivity, TypesOnAcChanged,
     TypesOnSuspending, TypesOnResumed, TypesOnTimer, TypesOnIpc, TypesOnSleepBlocked,
     TypesOnSleepFailed
  DEF Handle

LEMMA TypesSetConfig ==
  ASSUME NEW c, NEW client, NEW out, OtherTypes, SetConfig(c, client, out)
  PROVE  OtherTypes'
<1>1. state' = state /\ UNCHANGED <<blockVars, sleepVars, hibernateAvailable, cycleVars>>
  BY BecomeState DEF SetConfig
<1> QED
  BY <1>1, TurnStays, TurnTypes DEF OtherTypes

-----------------------------------------------------------------------------
(* Every step.                                                             *)

CommandInv == Good /\ queue \in Seq(Command)

LEMMA CommandsTyped ==
  /\ Calm \subseteq Command
  /\ \A f \in BOOLEAN : Suspend("Configured", f) \in Command
  /\ Suspend("Hibernate", TRUE) \in Command
  /\ Do("PowerOff") \in Command /\ Do("ScheduleWake") \in Command
BY DEF Calm, Command, Suspend, Do

LEMMA SaidTyped ==
  ASSUME Warranted \/ SleepsArmed \/ ArmsAnew
  PROVE  queue' \in Seq(Command)
<1>1. ASSUME NEW c \in Command, Lone(queue', c)
      PROVE  queue' \in Seq(Command)
  <2>1. Calm \cup {c} \subseteq Command
    BY CommandsTyped
  <2> QED
    BY <1>1, <2>1, More DEF Lone
<1>2. CASE Quiet
  BY <1>2, More, CommandsTyped DEF Quiet
<1>3. CASE AsksForSleep
  BY <1>1, <1>3, CommandsTyped DEF AsksForSleep
<1>4. CASE ActsCritical
  BY <1>1, <1>4, CommandsTyped DEF ActsCritical
<1>5. CASE SleepsArmed \/ ArmsAnew
  BY <1>1, <1>5, CommandsTyped DEF SleepsArmed, ArmsAnew
<1> QED
  BY <1>2, <1>3, <1>4, <1>5 DEF Warranted

LEMMA NextSays ==
  ASSUME CommandInv, Next
  PROVE  /\ Warranted \/ ArmsAnew \/ (Returned("ScheduleWake") /\ SleepsArmed)
         /\ OtherTypes'
<1>1. Good /\ queue \in Seq(Command) /\ OtherTypes
  BY DEF CommandInv, Good
<1>2. CASE Returned("ScheduleWake") /\ \E armed \in BOOLEAN : OnWakeScheduled(armed, <<>>)
  BY <1>1, <1>2, Silence, SaysOnWakeScheduled, TypesOnWakeScheduled DEF Warranted
<1>3. ASSUME NEW i \in 1..Len(queue), NEW c \in Configs, queue[i].op = "Reload",
             SetConfig(c, queue[i].replyTo, <<>>)
      PROVE  Warranted /\ OtherTypes'
  <2>1. queue[i] \in Command
    BY <1>1
  <2>2. queue[i].replyTo \in Clients \cup {NONE}
    BY <1>3, <2>1 DEF Command
  <2> QED
    BY <1>1, <1>3, <2>2, Silence, SaysSetConfig, TypesSetConfig DEF Warranted
<1>4. ASSUME NEW e \in Events, Handle(e) PROVE (Warranted \/ ArmsAnew) /\ OtherTypes'
  BY <1>1, <1>4, EngineAssumption, SaysHandle, TypesHandle
<1> QED
  BY <1>2, <1>3, <1>4 DEF Next, Steps

LEMMA CommandInvStep ==
  ASSUME CommandInv, [Next]_vars
  PROVE  CommandInv'
<1>1. CycleInv' /\ PowerInv'
  BY CycleInvStep, PowerInvStep DEF CommandInv, Good
<1>2. CASE UNCHANGED vars
  BY <1>1, <1>2 DEF vars, engineVars, blockVars, sleepVars, cycleVars, CommandInv, Good, OtherTypes
<1>3. CASE Next
  BY <1>1, <1>3, NextSays, SaidTyped DEF CommandInv, Good
<1> QED
  BY <1>2, <1>3

LEMMA CommandInvInit == Init => CommandInv
<1> SUFFICES ASSUME Init PROVE CommandInv
  OBVIOUS
<1>1. CycleInv /\ PowerInv
  BY CycleInvInit, PowerInvInit
<1>2. OtherTypes
  <2>1. \A inCycle \in BOOLEAN : BootState(inCycle) \in States
    BY DEF BootState, States, Awake, Phases
  <2>2. state \in States
    <3>1. PICK inCycle \in {config.serverEnabled /\ ~ac, FALSE} :
              state = BootState(inCycle)
      BY DEF Init
    <3>2. inCycle \in BOOLEAN
      BY <3>1
    <3> QED
      BY <2>1, <3>1, <3>2
  <2>3. suspendFrom \in States
    BY DEF Init, States, Awake
  <2>4. nextInhibitId \in 1..MaxInhibits + 1 /\ sleepFailures \in 0..MaxSleepFailures
    <3>1. nextInhibitId = 1 /\ sleepFailures = 0
      BY DEF Init
    <3> QED
      BY <3>1, EngineAssumption DEF MaxSleepFailures
  <2>5. inhibits \subseteq [id : 1..MaxInhibits, what : {"Idle", "Sleep"}]
    BY DEF Init
  <2>6. /\ external \in BOOLEAN /\ pendingSleep \in BOOLEAN
        /\ hibernateAvailable \in BOOLEAN /\ interrupted \in BOOLEAN
    BY DEF Init
  <2> QED
    BY <2>2, <2>3, <2>4, <2>5, <2>6 DEF OtherTypes
<1>3. PICK inCycle \in BOOLEAN : queue = BootCommands(config, mode, inCycle)
  BY DEF Init
<1>4. ModeCommands(config, mode, "Active") \in Seq(Calm)
  BY <1>1, ModeCommandsCalm DEF PowerInv
<1>5. (IF inCycle THEN <<ReplaceIdleStages(NONE), StartTimer(AwakeWindow)>> ELSE <<>>)
         \in Seq(Calm)
  <2>1. ReplaceIdleStages(NONE) \in Calm /\ StartTimer(AwakeWindow) \in Calm
    BY TimersTyped, CalmCommands
  <2> QED
    BY <2>1, Pair, Silence
<1>6. queue \in Seq(Calm)
  BY <1>3, <1>4, <1>5, Concat DEF BootCommands
<1>7. queue \in Seq(Command)
  BY <1>6, More, CommandsTyped
<1> QED
  BY <1>1, <1>2, <1>7 DEF CommandInv, Good

LEMMA CommandInvAlways == Spec => []CommandInv
<1>1. CommandInv /\ [Next]_vars => CommandInv'
  BY CommandInvStep
<1> QED
  BY CommandInvInit, <1>1, PTL DEF Spec

-----------------------------------------------------------------------------
(* Theorems.                                                               *)

\* Type correctness of the engine: its variables and every command it returns.
THEOREM TypeOKHolds == Spec => []TypeOK
<1>1. CommandInv => TypeOK
  BY DEF CommandInv, Good, PowerInv, OtherTypes, Mode, TypeOK
<1> QED
  BY CommandInvAlways, <1>1, PTL

\* A command that is not calm, and not the one that is, is not returned.
LEMMA NotSaid ==
  ASSUME NEW b, NEW c, c \notin Calm, c # b, Lone(queue', b)
  PROVE  ~Emitted(c)'
BY DEF Emitted, Lone

LEMMA QuietSays ==
  ASSUME Quiet, NEW c, c \notin Calm
  PROVE  ~Emitted(c)'
BY DEF Quiet, Emitted

LEMMA Different ==
  /\ Suspend("Configured", TRUE) # Suspend("Configured", FALSE)
  /\ \A f \in BOOLEAN : /\ Suspend("Configured", f) # Suspend("Hibernate", TRUE)
                         /\ Suspend("Configured", f) # Do("PowerOff")
                         /\ Suspend("Configured", f) # Do("ScheduleWake")
  /\ Do("ScheduleWake") # Do("PowerOff") /\ Do("ScheduleWake") # Suspend("Hibernate", TRUE)
BY DEF Suspend, Do

\* No suspend without force is sent past an inhibitor the engine knows of
\* (core.rs, request_sleep, on_sleep and on_wake_scheduled).
THEOREM RespectsInhibitorsHolds == Spec => RespectsInhibitors
<1>1. ASSUME CommandInv, Next, Emitted(Suspend("Configured", FALSE))'
      PROVE  ~Blocked'
  <2>1. Warranted \/ SleepsArmed \/ ArmsAnew
    BY <1>1, NextSays
  <2>2. ~Quiet
    BY <1>1, NotCalm, QuietSays
  <2>3. ~ActsCritical /\ ~ArmsAnew
    BY <1>1, NotCalm, NotSaid, Different DEF ActsCritical, ArmsAnew
  <2>4. CASE AsksForSleep
    <3>1. PICK force \in BOOLEAN :
             /\ force \/ ~Blocked'
             /\ Lone(queue', Suspend("Configured", force))
      BY <2>4 DEF AsksForSleep
    <3>2. ~force
      BY <1>1, <3>1, NotCalm, NotSaid, Different
    <3> QED
      BY <3>1, <3>2
  <2>5. CASE SleepsArmed
    BY <2>5 DEF SleepsArmed
  <2> QED
    BY <2>1, <2>2, <2>3, <2>4, <2>5 DEF Warranted
<1>2. CommandInv /\ [Next]_vars => [Emitted(Suspend("Configured", FALSE))' => ~Blocked']_vars
  BY <1>1
<1> QED
  BY CommandInvAlways, <1>2, PTL DEF Spec, RespectsInhibitors

\* In the cycle a suspend of the configured method follows the answer that the
\* alarm is armed, with the power still away (core.rs, on_wake_scheduled).
THEOREM CycleSuspendsOnlyArmedHolds == Spec => CycleSuspendsOnlyArmed
<1> DEFINE A == InCycle /\ (\E f \in BOOLEAN : Emitted(Suspend("Configured", f))') =>
                   /\ Returned("ScheduleWake")
                   /\ state = "Armed" /\ state' = "Armed" /\ ~ac'
<1>1. ASSUME CommandInv, Next, InCycle, NEW f \in BOOLEAN,
             Emitted(Suspend("Configured", f))'
      PROVE  /\ Returned("ScheduleWake")
             /\ state = "Armed" /\ state' = "Armed" /\ ~ac'
  <2>1. Warranted \/ ArmsAnew \/ (Returned("ScheduleWake") /\ SleepsArmed)
    BY <1>1, NextSays
  <2>2. ~Quiet
    BY <1>1, NotCalm, QuietSays
  <2>3. ~ActsCritical /\ ~ArmsAnew
    BY <1>1, NotCalm, NotSaid, Different DEF ActsCritical, ArmsAnew
  <2>4. ~AsksForSleep
    BY <1>1 DEF AsksForSleep
  <2> QED
    BY <2>1, <2>2, <2>3, <2>4 DEF Warranted, SleepsArmed
<1>2. CommandInv /\ [Next]_vars => [A]_vars
  BY <1>1
<1> QED
  BY CommandInvAlways, <1>2, PTL DEF Spec, CycleSuspendsOnlyArmed

\* A forced hibernate or a poweroff is only ever returned in Checking, without
\* power, with a critical battery, and with the window running (core.rs,
\* check_power).
THEOREM CriticalActionIsWarrantedHolds == Spec => CriticalActionIsWarranted
<1> DEFINE A == (Emitted(Suspend("Hibernate", TRUE)) \/ Emitted(Do("PowerOff")))' =>
                   /\ (state = "Checking" /\ ~ac /\ BatteryCritical)'
                   /\ Emitted(StartTimer(AwakeWindow))'
                   /\ Emitted(Do("PowerOff"))' \/ hibernateAvailable
<1>1. ASSUME CommandInv, Next, NEW c \in {Suspend("Hibernate", TRUE), Do("PowerOff")},
             Emitted(c)'
      PROVE  ActsCritical
  <2>1. Warranted \/ SleepsArmed \/ ArmsAnew
    BY <1>1, NextSays
  <2>2. ~Quiet
    BY <1>1, NotCalm, QuietSays
  <2>3. ASSUME NEW force \in BOOLEAN, Lone(queue', Suspend("Configured", force))
        PROVE  FALSE
    BY <1>1, <2>3, NotCalm, NotSaid, Different
  <2>4. ~ArmsAnew
    BY <1>1, NotCalm, NotSaid, Different DEF ArmsAnew
  <2> QED
    BY <2>1, <2>2, <2>3, <2>4 DEF Warranted, AsksForSleep, SleepsArmed
<1>2. CommandInv /\ [Next]_vars => [A]_vars
  BY <1>1 DEF ActsCritical
<1> QED
  BY CommandInvAlways, <1>2, PTL DEF Spec, CriticalActionIsWarranted

-----------------------------------------------------------------------------
(* The server cycle: Engine implements Cycle, since each handler is a step  *)
(* of it or none; how the cycle is left; and what it keeps quiet.           *)

CycleStep == [Abstract!Next]_(Abstract!cycleVars)

-----------------------------------------------------------------------------
(* The ways a handler goes on, as steps of Cycle.                          *)

LEMMA StepStays ==
  ASSUME state' = state, ac' = ac
  PROVE  CycleStep
BY DEF CycleStep, Abstract!cycleVars, InCycle

LEMMA StepOut ==
  ASSUME state' \notin Phases, ac' = ac
  PROVE  CycleStep
<1>1. CASE InCycle
  <2>1. Abstract!Leaves
    BY <1>1 DEF Abstract!Leaves, InCycle, Phases
  <2> QED
    BY <2>1 DEF CycleStep, Abstract!Next
<1>2. CASE ~InCycle
  BY <1>2 DEF CycleStep, Abstract!cycleVars, InCycle
<1> QED
  BY <1>1, <1>2

LEMMA StepBegins ==
  ASSUME ~InCycle, state' = "Grace", ac' = ac
  PROVE  CycleStep
<1>1. Abstract!Begins
  BY DEF Abstract!Begins, InCycle, Phases
<1> QED
  BY <1>1 DEF CycleStep, Abstract!Next

LEMMA StepArms ==
  ASSUME state = "Grace" \/ (state \in {"Armed", "Checking"} /\ ~ac),
         state' = "Armed", ac' = ac
  PROVE  CycleStep
<1>1. Abstract!Arms
  BY DEF Abstract!Arms, InCycle, Phases
<1> QED
  BY <1>1 DEF CycleStep, Abstract!Next

LEMMA StepSleeps ==
  ASSUME InCycle, state' = "LongSleeping", ac' = ac
  PROVE  CycleStep
<1>1. Abstract!Sleeps
  BY DEF Abstract!Sleeps, InCycle, Phases
<1> QED
  BY <1>1 DEF CycleStep, Abstract!Next

LEMMA StepChecks ==
  ASSUME InCycle, ~ac, state' = "Checking", ac' = ac
  PROVE  CycleStep
<1>1. Abstract!Resumes(FALSE)
  BY DEF Abstract!Resumes, InCycle, Phases
<1> QED
  BY <1>1 DEF CycleStep, Abstract!Next

\* What is said of helpers that may leave the cycle.
LEMMA StepFailure ==
  ASSUME NEW out, NEW reply, CycleInv, CycleFailure(out, reply), ac' = ac
  PROVE  CycleStep
<1>1. state' = "Active" \/ state' = state
  BY CycleFailureState DEF CycleInv
<1> QED
  BY <1>1, StepOut, StepStays DEF Phases

LEMMA StepCheckPower ==
  ASSUME InCycle, CheckPower, ac' = ac
  PROVE  CycleStep
<1>1. CASE PowerIsBack(<<>>)
  BY <1>1, PowerIsBackState, StepOut DEF Phases
<1>2. CASE ~ac /\ StayChecking
  BY <1>2, BecomeState, StepChecks DEF StayChecking
<1> QED
  BY <1>1, <1>2 DEF CheckPower

LEMMA StepRequestSleep ==
  ASSUME NEW pending, ~InCycle, RequestSleep(pending)
  PROVE  CycleStep
<1>1. ac' = ac
  BY DEF RequestSleep, powerVars
<1>2. state' \notin Phases
  BY GoToSleepState, ArmSleepRetryState DEF RequestSleep, InCycle, Phases
<1> QED
  BY <1>1, <1>2, StepOut

-----------------------------------------------------------------------------
(* The handlers.                                                           *)

LEMMA StepAnswer == ASSUME NEW out, Answer(out) PROVE CycleStep
BY StepStays DEF Answer, engineVars, powerVars

LEMMA StepStepAside ==
  ASSUME NEW s, NEW cs, s \notin Phases, StepAside(s, cs)
  PROVE  CycleStep
BY BecomeState, StepOut DEF StepAside, powerVars

LEMMA StepOnIdle ==
  ASSUME NEW stage, OnIdle(stage)
  PROVE  CycleStep
<1>1. CASE state \in Awake /\ RequestSleep(pendingSleep)
  BY <1>1, StepRequestSleep DEF Awake, InCycle, Phases
<1>2. ASSUME NEW s \in {"Dimmed", "ScreenOff"}, NEW cs, StepAside(s, cs)
      PROVE  CycleStep
  BY <1>2, StepStepAside DEF Phases
<1> QED
  BY <1>1, <1>2, StepAnswer DEF OnIdle

LEMMA StepOnActivity ==
  ASSUME NEW out, NEW reply, CycleInv, OnActivity(out, reply)
  PROVE  CycleStep
<1> DEFINE cmds == out \o CancelPending
<1>1. ac' = ac
  BY DEF OnActivity, powerVars
<1>2. ASSUME NEW cs, Become("Active", interrupted, cs) PROVE CycleStep
  BY <1>1, <1>2, BecomeState, StepOut DEF Phases
<1>3. ASSUME CycleFailure(cmds, reply) PROVE CycleStep
  BY <1>1, <1>3, StepFailure
<1>4. ASSUME NEW cs, LeaveCycle(ac, TRUE, cs, reply) PROVE CycleStep
  BY <1>1, <1>4, LeaveCycleState, StepOut DEF Phases
<1>5. ASSUME NEW cs, Become(state, interrupted, cs) PROVE CycleStep
  BY <1>1, <1>5, BecomeState, StepStays
<1> QED
  BY <1>2, <1>3, <1>4, <1>5 DEF OnActivity

LEMMA StepOnSleepBlocked ==
  ASSUME NEW blocked, CycleInv, OnSleepBlocked(blocked)
  PROVE  CycleStep
<1>1. ac' = ac
  BY DEF OnSleepBlocked, powerVars
<1>2. CASE ArmSleepRetry(suspendFrom, pendingSleep, <<>>)
  <2>1. state' \notin Phases
    BY <1>2, ArmSleepRetryState DEF CycleInv, NoRetryInCycle
  <2> QED
    BY <1>1, <2>1, StepOut
<1>3. CASE CycleFailure(<<>>, <<>>)
  BY <1>1, <1>3, StepFailure
<1>4. CASE Become(state, interrupted, <<>>)
  BY <1>1, <1>4, BecomeState, StepStays
<1> QED
  BY <1>2, <1>3, <1>4 DEF OnSleepBlocked

LEMMA StepOnSleepFailed ==
  ASSUME NEW out, CycleInv, OnSleepFailed(out)
  PROVE  CycleStep
<1>1. CASE OnActivity(out, <<>>)
  BY <1>1, StepOnActivity
<1>2. CASE CycleFailure(out, <<>>) /\ UNCHANGED powerVars
  BY <1>2, StepFailure DEF powerVars
<1> QED
  BY <1>1, <1>2, StepAnswer DEF OnSleepFailed

LEMMA StepOnSuspending == ASSUME OnSuspending PROVE CycleStep
<1>1. /\ ac' = ac
      /\ state' = IF InCycle THEN "LongSleeping" ELSE "Sleeping"
  BY BecomeState DEF OnSuspending, powerVars
<1> QED
  BY <1>1, StepSleeps, StepOut DEF Phases

LEMMA StepOnResumed ==
  ASSUME NEW byUser, OnResumed(byUser)
  PROVE  CycleStep
<1>1. ac' = ac
  BY DEF OnResumed, powerVars
<1>2. CASE LeaveCycle(ac, TRUE, <<>>, <<>>)
  BY <1>1, <1>2, LeaveCycleState, StepOut DEF Phases
<1>3. CASE InCycle /\ CheckPower
  BY <1>1, <1>3, StepCheckPower
<1>4. ASSUME NEW cs, Become("Active", interrupted, cs) PROVE CycleStep
  BY <1>1, <1>4, BecomeState, StepOut DEF Phases
<1> QED
  BY <1>2, <1>3, <1>4 DEF OnResumed

LEMMA StepOnAwakeWindow == ASSUME OnAwakeWindow PROVE CycleStep
<1>1. ac' = ac
  BY DEF OnAwakeWindow, powerVars
<1>2. CASE PowerIsBack(<<>>)
  BY <1>1, <1>2, PowerIsBackState, StepOut DEF Phases
<1>3. CASE state \in {"Armed", "Checking"} /\ ~ac /\ Arm(FALSE)
  BY <1>1, <1>3, ArmState, StepArms
<1>4. CASE state = "Checking" /\ CheckPower
  BY <1>1, <1>4, StepCheckPower DEF InCycle, Phases
<1>5. CASE Become(state, interrupted, <<>>)
  BY <1>1, <1>5, BecomeState, StepStays
<1> QED
  BY <1>2, <1>3, <1>4, <1>5 DEF OnAwakeWindow

LEMMA StepOnTimer ==
  ASSUME NEW t, CycleInv, OnTimer(t)
  PROVE  CycleStep
<1>1. CASE pendingSleep /\ RequestSleep(FALSE)
  BY <1>1, StepRequestSleep DEF CycleInv, NoRetryInCycle
<1>2. ASSUME NEW n, OnInhibitExpiry(n) PROVE CycleStep
  BY <1>2, BecomeState, StepStays DEF OnInhibitExpiry, powerVars
<1>3. CASE state = "Grace" /\ Arm(TRUE) /\ UNCHANGED powerVars
  BY <1>3, ArmState, StepArms DEF powerVars
<1> QED
  BY <1>1, <1>2, <1>3, StepAnswer, StepOnAwakeWindow DEF OnTimer

LEMMA StepOnWakeScheduled ==
  ASSUME NEW armed, NEW out, CycleInv, OnWakeScheduled(armed, out)
  PROVE  CycleStep
<1>1. CASE Answer(out)
  BY <1>1, StepAnswer
<1>2. CASE UNCHANGED powerVars /\ CycleFailure(out, <<>>)
  BY <1>2, StepFailure DEF powerVars
<1>3. CASE UNCHANGED powerVars /\ PowerIsBack(out)
  BY <1>3, PowerIsBackState, StepOut DEF powerVars, Phases
<1>4. ASSUME NEW cs, Become(state, interrupted, cs), UNCHANGED powerVars
      PROVE  CycleStep
  BY <1>4, BecomeState, StepStays DEF powerVars
<1> QED
  BY <1>1, <1>2, <1>3, <1>4 DEF OnWakeScheduled

\* The one handler that changes the power.
LEMMA StepOnAcChanged ==
  ASSUME NEW a \in BOOLEAN, ac \in BOOLEAN, OnAcChanged(a)
  PROVE  CycleStep
<1>1. CASE Answer(<<>>)
  BY <1>1, StepAnswer
<1>2. ASSUME a # ac, ac' = a, a, state \in {"Grace", "Checking"}, state' = "Active"
      PROVE  CycleStep
  <2>1. Abstract!PowerComes
    BY <1>2 DEF Abstract!PowerComes, InCycle, Phases
  <2> QED
    BY <2>1 DEF CycleStep, Abstract!Next
<1>3. ASSUME a # ac, ac' = a, ~a, state \in Awake, state' = "Grace"
      PROVE  CycleStep
  <2>1. Abstract!PowerGoes
    BY <1>3 DEF Abstract!PowerGoes, InCycle, Phases, Awake
  <2> QED
    BY <2>1 DEF CycleStep, Abstract!Next
<1>4. ASSUME a # ac, ac' = a, ~(a /\ state \in {"Grace", "Checking"}), state' = state
      PROVE  CycleStep
  <2>1. CASE a
    <3>1. Abstract!PowerComes
      BY <1>4, <2>1 DEF Abstract!PowerComes, InCycle, Phases
    <3> QED
      BY <3>1 DEF CycleStep, Abstract!Next
  <2>2. CASE ~a
    <3>1. Abstract!PowerGoes
      BY <1>4, <2>2 DEF Abstract!PowerGoes, InCycle, Phases
    <3> QED
      BY <3>1 DEF CycleStep, Abstract!Next
  <2> QED
    BY <2>1, <2>2
<1>5. ASSUME NEW cs, Become("Active", interrupted, cs) PROVE state' = "Active"
  BY <1>5, BecomeState
<1>6. ASSUME NEW cs, PowerIsBack(cs) PROVE state' = "Active"
  BY <1>6, PowerIsBackState
<1>7. ASSUME NEW m, NEW cs, EnterGrace(m, cs, <<>>) PROVE state' = "Grace"
  BY <1>7, EnterGraceState
<1>8. ASSUME NEW cs, Become(state, interrupted, cs) PROVE state' = state
  BY <1>8, BecomeState
<1> QED
  BY <1>1, <1>2, <1>3, <1>4, <1>5, <1>6, <1>7, <1>8 DEF OnAcChanged

LEMMA StepOnIpc ==
  ASSUME NEW c, NEW r, CycleInv, OnIpc(c, r)
  PROVE  CycleStep
<1>1. ASSUME NEW cs, Become(state, interrupted, cs), UNCHANGED powerVars
      PROVE  CycleStep
  BY <1>1, BecomeState, StepStays DEF powerVars
<1>2. ASSUME NEW kind, NEW name, OnSetMode(c, kind, name) PROVE CycleStep
  BY <1>1, <1>2, StepAnswer DEF OnSetMode
<1>3. ASSUME NEW s \in {"Dimmed", "ScreenOff"}, NEW cs, StepAside(s, cs)
      PROVE  CycleStep
  BY <1>3, StepStepAside DEF Phases
<1>4. CASE OnDim(c)
  BY <1>3, <1>4, StepAnswer DEF OnDim
<1>5. ASSUME NEW on, OnScreen(c, on) PROVE CycleStep
  BY <1>3, <1>5, StepAnswer, StepOnActivity DEF OnScreen
<1>6. ASSUME NEW force, OnSleep(c, force) PROVE CycleStep
  <2>1. ASSUME NEW reply, GoToSleep(force, reply, <<>>), UNCHANGED powerVars
        PROVE  CycleStep
    BY <2>1, GoToSleepState, StepOut DEF powerVars, Phases
  <2> QED
    BY <1>6, <2>1, StepAnswer DEF OnSleep
<1>7. ASSUME NEW cancel, OnLongSleep(c, cancel) PROVE CycleStep
  <2>1. ASSUME NEW cs, NEW reply, LeaveCycle(ac, FALSE, cs, reply), UNCHANGED powerVars
        PROVE  CycleStep
    BY <2>1, LeaveCycleState, StepOut DEF powerVars, Phases
  <2>2. ASSUME NEW reply, state \in Awake, EnterGrace(mode, <<>>, reply),
               UNCHANGED powerVars
        PROVE  CycleStep
    BY <2>2, EnterGraceState, StepBegins DEF powerVars, InCycle, Awake, Phases
  <2> QED
    BY <1>7, <2>1, <2>2, StepAnswer DEF OnLongSleep
<1>8. ASSUME NEW what, NEW ttlZero, OnInhibit(c, what, ttlZero) PROVE CycleStep
  BY <1>1, <1>8, StepAnswer DEF OnInhibit
<1>9. ASSUME NEW n, OnUninhibit(c, n) PROVE CycleStep
  BY <1>1, <1>9, StepAnswer DEF OnUninhibit
<1> QED
  BY <1>2, <1>4, <1>5, <1>6, <1>7, <1>8, <1>9, StepAnswer, StepOnActivity DEF OnIpc

LEMMA StepHandle ==
  ASSUME NEW e, Typed(e), CycleInv, ac \in BOOLEAN, Handle(e)
  PROVE  CycleStep
<1>1. ASSUME NEW percent, OnBattery(percent) PROVE CycleStep
  BY <1>1, BecomeState, StepStays DEF OnBattery
<1>2. ASSUME NEW blocked, OnInhibitors(blocked) PROVE CycleStep
  BY <1>2, BecomeState, StepStays DEF OnInhibitors, powerVars
<1>3. CASE OnShutdown
  BY <1>3, StepStepAside DEF OnShutdown, Phases
<1>4. CASE e.event = "AcChanged" /\ OnAcChanged(e.ac)
  BY <1>4, StepOnAcChanged DEF Typed
<1> QED
  BY <1>1, <1>2, <1>3, <1>4, StepAnswer, StepOnIdle, StepOnActivity, StepOnSuspending,
     StepOnResumed, StepOnTimer, StepOnIpc, StepOnSleepBlocked, StepOnSleepFailed
  DEF Handle

LEMMA StepSetConfig ==
  ASSUME NEW c, NEW client, NEW out, SetConfig(c, client, out)
  PROVE  CycleStep
BY BecomeState, StepStays DEF SetConfig

LEMMA EngineStep ==
  ASSUME CycleInv, ac \in BOOLEAN, [Next]_vars
  PROVE  CycleStep
<1>1. CASE UNCHANGED vars
  BY <1>1, StepStays DEF vars, engineVars, powerVars
<1>2. CASE Next
  BY <1>2, StepOnWakeScheduled, StepSetConfig, StepHandle, EventsTyped DEF Next, Steps
<1> QED
  BY <1>1, <1>2

\* Whatever happens, the engine keeps to the server cycle as Cycle states it: it
\* arms only out of Grace or without power, looks at the power after every
\* sleep, and power ends Grace and Checking at once (core.rs, `handle`).
THEOREM EngineImplementsCycle == Spec => ImplementsCycle
<1>1. Init => Abstract!Init
  BY DEF Init, BootState, InCycle, Phases, Abstract!Init
<1>2. PowerInv => ac \in BOOLEAN
  BY DEF PowerInv
<1>3. CycleInv /\ ac \in BOOLEAN /\ [Next]_vars => [Abstract!Next]_(Abstract!cycleVars)
  BY EngineStep DEF CycleStep
<1> QED
  BY <1>1, <1>2, <1>3, CycleInvAlways, PowerInvAlways, PTL
     DEF Spec, ImplementsCycle, Abstract!Spec

-----------------------------------------------------------------------------
(* The way out: a step that leaves the cycle from a phase past Grace.      *)

Lit ==
    (/\ Emitted(Do("CancelWake"))
     /\ Emitted(Do("Undim"))
     /\ Emitted(Screen(TRUE)))'

LitExit == InCycle /\ state # "Grace" /\ state' \notin Phases => Lit

Says(s, c) == \E i \in 1..Len(s) : s[i] = c

LEMMA SaysBefore ==
  ASSUME NEW S, NEW s \in Seq(S), NEW t \in Seq(S), NEW c, Says(s, c)
  PROVE  Says(s \o t, c)
BY EmittedBefore DEF Says

LEMMA SaysAfter ==
  ASSUME NEW S, NEW s \in Seq(S), NEW t \in Seq(S), NEW c, Says(t, c)
  PROVE  Says(s \o t, c)
<1>1. PICK i \in 1..Len(t) : t[i] = c
  BY DEF Says
<1>2. Len(s) + i \in 1..Len(s \o t) /\ (s \o t)[Len(s) + i] = t[i]
  OBVIOUS
<1> QED
  BY <1>1, <1>2 DEF Says

\* What a handler returns stands before what `handle` adds.
LEMMA BecomeEmits ==
  ASSUME NEW s \in States, NEW intr, NEW out \in Seq(Calm), state \in States,
         Become(s, intr, out), NEW c, Says(out, c)
  PROVE  Emitted(c)'
<1> DEFINE told == IF s = state THEN <<>> ELSE <<BroadcastState(state, s)>>
           cycle == IF s = state THEN <<>>
                    ELSE IF s \in Phases THEN <<BroadcastCycle(s)>>
                    ELSE IF InCycle THEN <<BroadcastCycle(IdlePhase(intr))>>
                    ELSE <<>>
<1>1. told \in Seq(Calm)
  BY CalmAnswers
<1>2. cycle \in Seq(Calm)
  BY CalmAnswers DEF IdlePhase
<1>3. queue' = (out \o told) \o cycle
  BY DEF Become
<1> HIDE DEF told, cycle
<1>4. out \o told \in Seq(Calm) /\ Says(out \o told, c)
  BY <1>1, Concat, SaysBefore
<1>5. Says((out \o told) \o cycle, c)
  BY <1>2, <1>4, SaysBefore
<1> QED
  BY <1>3, <1>5 DEF Emitted, Says

\* Every exit through leave_cycle is lit.
LEMMA LeaveCycleLit ==
  ASSUME NEW a, NEW intr, NEW out \in Seq(Calm), NEW reply \in Seq(Calm), Base,
         LeaveCycle(a, intr, out, reply)
  PROVE  Lit
<1> DEFINE m == SelectAuto(config, mode, a, low)
           first == <<Do("CancelWake")>>
           modes == ModeCommands(config, m, "Active")
           news == IF m = mode THEN <<>> ELSE <<BroadcastMode(m.name)>>
           last == <<Do("Undim"), Screen(TRUE)>>
           q1 == out \o first
           q2 == q1 \o modes
           q3 == q2 \o news
           q4 == q3 \o last
           q5 == q4 \o reply
<1>1. m \in Mode
  BY SelectAutoRight DEF Base
<1>2. first \in Seq(Calm) /\ last \in Seq(Calm)
  BY DoCalm, LitCalm
<1>3. modes \in Seq(Calm)
  BY <1>1, ModeCommandsCalm DEF Base
<1>4. news \in Seq(Calm)
  BY <1>1, CalmAnswers DEF Mode
<1>5. Become("Active", intr, q5)
  BY DEF LeaveCycle
<1>6. /\ Says(first, Do("CancelWake"))
      /\ Says(last, Do("Undim")) /\ Says(last, Screen(TRUE))
  <2>1. Len(first) = 1 /\ first[1] = Do("CancelWake")
    OBVIOUS
  <2>2. Len(last) = 2 /\ last[1] = Do("Undim") /\ last[2] = Screen(TRUE)
    OBVIOUS
  <2>3. 1 \in 1..Len(first) /\ 1 \in 1..Len(last) /\ 2 \in 1..Len(last)
    BY <2>1, <2>2
  <2> HIDE DEF first, last
  <2> QED
    BY <2>1, <2>2, <2>3, Zenon DEF Says
<1> HIDE DEF first, modes, news, last, m
<1>7. q1 \in Seq(Calm) /\ Says(q1, Do("CancelWake"))
  BY <1>2, <1>6, Concat, SaysAfter
<1> HIDE DEF q1
<1>8. q2 \in Seq(Calm) /\ Says(q2, Do("CancelWake"))
  BY <1>3, <1>7, Concat, SaysBefore
<1> HIDE DEF q2
<1>9. q3 \in Seq(Calm) /\ Says(q3, Do("CancelWake"))
  BY <1>4, <1>8, Concat, SaysBefore
<1> HIDE DEF q3
<1>10. q4 \in Seq(Calm) /\ Says(q4, Do("CancelWake"))
  BY <1>2, <1>9, Concat, SaysBefore
<1>11. Says(q4, Do("Undim")) /\ Says(q4, Screen(TRUE))
  BY <1>2, <1>6, <1>9, SaysAfter
<1> HIDE DEF q4
<1>12. /\ q5 \in Seq(Calm) /\ Says(q5, Do("CancelWake"))
       /\ Says(q5, Do("Undim")) /\ Says(q5, Screen(TRUE))
  BY <1>10, <1>11, Concat, SaysBefore
<1> HIDE DEF q5
<1>13. "Active" \in States /\ state \in States
  BY DEF Base, States, Awake
<1>14. Emitted(Do("CancelWake"))' /\ Emitted(Do("Undim"))' /\ Emitted(Screen(TRUE))'
  BY <1>5, <1>12, <1>13, BecomeEmits
<1> QED
  BY <1>14 DEF Lit

LEMMA PowerIsBackLit ==
  ASSUME NEW out \in Seq(Calm), Base, PowerIsBack(out)
  PROVE  Lit
<1>1. (IF config.hook THEN <<Do("RunHook")>> ELSE <<>>) \in Seq(Calm)
  BY DoCalm, Silence, Zenon
<1>2. out \o (IF config.hook THEN <<Do("RunHook")>> ELSE <<>>) \in Seq(Calm)
  BY <1>1, Concat
<1> QED
  BY <1>2, Silence, LeaveCycleLit DEF PowerIsBack

\* The steps that are no exit.
LEMMA NoExit ==
  ASSUME \/ state' = state
         \/ state' \in Phases
         \/ ~InCycle
         \/ state = "Grace"
  PROVE  LitExit
BY DEF LitExit, InCycle

LEMMA ExitAnswer == ASSUME NEW out, Answer(out) PROVE LitExit
BY NoExit DEF Answer, engineVars

LEMMA ExitStays == ASSUME NEW intr, NEW out, Become(state, intr, out) PROVE LitExit
BY BecomeState, NoExit

LEMMA ExitLeave ==
  ASSUME NEW a, NEW intr, NEW out \in Seq(Calm), NEW reply \in Seq(Calm), Good,
         LeaveCycle(a, intr, out, reply)
  PROVE  LitExit
BY LeaveCycleLit, GoodBase DEF LitExit

LEMMA ExitPowerIsBack ==
  ASSUME NEW out \in Seq(Calm), Good, PowerIsBack(out)
  PROVE  LitExit
BY PowerIsBackLit, GoodBase DEF LitExit

LEMMA ExitFailure ==
  ASSUME NEW out \in Seq(Calm), NEW reply \in Seq(Calm), Good, CycleFailure(out, reply)
  PROVE  LitExit
BY ExitLeave, ExitStays DEF CycleFailure

LEMMA ExitCheckPower == ASSUME Good, CheckPower PROVE LitExit
<1>1. CASE PowerIsBack(<<>>)
  BY <1>1, Silence, ExitPowerIsBack
<1>2. CASE StayChecking
  BY <1>2, BecomeState, NoExit DEF StayChecking, Phases
<1> QED
  BY <1>1, <1>2 DEF CheckPower

\* What OnActivity cancels, and what it has to answer.
LEMMA ExitOnActivity ==
  ASSUME NEW out \in Seq(Calm), NEW reply \in Seq(Calm), Good, OnActivity(out, reply)
  PROVE  LitExit
<1> DEFINE cmds == out \o CancelPending
<1>1. cmds \in Seq(Calm)
  BY CancelPendingCalm, Concat
<1>2. <<CancelTimer(AwakeWindow)>> \in Seq(Calm)
  BY TimersTyped, CalmCommands
<1>3. cmds \o <<CancelTimer(AwakeWindow)>> \in Seq(Calm)
  BY <1>1, <1>2, Concat
<1> HIDE DEF cmds
<1>4. CASE state \in {"Dimmed", "ScreenOff", "Suspending"}
  BY <1>4, NoExit DEF InCycle, Phases
<1>5. CASE CycleFailure(cmds, reply)
  BY <1>1, <1>5, ExitFailure
<1>6. CASE LeaveCycle(ac, TRUE, cmds \o <<CancelTimer(AwakeWindow)>>, reply)
  BY <1>3, <1>6, ExitLeave
<1>7. CASE Become(state, interrupted, cmds \o reply)
  BY <1>7, ExitStays
<1> QED
  BY <1>4, <1>5, <1>6, <1>7 DEF OnActivity, cmds

LEMMA ExitOnIdle == ASSUME NEW stage, OnIdle(stage) PROVE LitExit
<1>1. CASE state \in Awake
  BY <1>1, NoExit DEF InCycle, Phases, Awake
<1> QED
  BY <1>1, ExitAnswer DEF OnIdle, Awake

LEMMA ExitOnSleepBlocked ==
  ASSUME NEW blocked, Good, OnSleepBlocked(blocked)
  PROVE  LitExit
<1>1. CASE state = "Suspending"
  BY <1>1, NoExit DEF InCycle, Phases
<1>2. CASE CycleFailure(<<>>, <<>>)
  BY <1>2, Silence, ExitFailure
<1> QED
  BY <1>1, <1>2, ExitStays DEF OnSleepBlocked

LEMMA ExitOnSleepFailed ==
  ASSUME NEW out \in Seq(Calm), Good, OnSleepFailed(out)
  PROVE  LitExit
BY Silence, ExitOnActivity, ExitFailure, ExitAnswer DEF OnSleepFailed

LEMMA ExitOnSuspending == ASSUME OnSuspending PROVE LitExit
<1>1. state' = IF InCycle THEN "LongSleeping" ELSE "Sleeping"
  BY BecomeState DEF OnSuspending
<1> QED
  BY <1>1, NoExit DEF Phases

LEMMA ExitOnResumed ==
  ASSUME NEW byUser, Good, OnResumed(byUser)
  PROVE  LitExit
BY Silence, ExitLeave, ExitCheckPower, NoExit DEF OnResumed

LEMMA ExitOnTimer == ASSUME NEW t, Good, OnTimer(t) PROVE LitExit
<1>1. CASE pendingSleep
  BY <1>1, NoExit DEF Good, CycleInv, NoRetryInCycle
<1>2. ASSUME NEW first, Arm(first) PROVE LitExit
  BY <1>2, ArmState, NoExit DEF Phases
<1>3. ASSUME NEW n, OnInhibitExpiry(n) PROVE LitExit
  BY <1>3, ExitStays DEF OnInhibitExpiry
<1>4. CASE OnAwakeWindow
  BY <1>2, <1>4, Silence, ExitPowerIsBack, ExitCheckPower, ExitStays DEF OnAwakeWindow
<1> QED
  BY <1>1, <1>2, <1>3, <1>4, ExitAnswer DEF OnTimer

LEMMA ExitOnWakeScheduled ==
  ASSUME NEW armed, NEW out \in Seq(Calm), Good, OnWakeScheduled(armed, out)
  PROVE  LitExit
BY Silence, ExitAnswer, ExitFailure, ExitPowerIsBack, ExitStays DEF OnWakeScheduled

LEMMA ExitOnAcChanged ==
  ASSUME NEW a \in BOOLEAN, OnAcChanged(a), Good
  PROVE  LitExit
<1>1. <<BroadcastPower(a)>> \o <<CancelTimer(AwakeWindow)>> \in Seq(Calm)
  <2>1. BroadcastPower(a) \in Calm /\ CancelTimer(AwakeWindow) \in Calm
    BY TimersTyped, CalmCommands, CalmAnswers
  <2> QED
    BY <2>1, Single, Concat
<1>2. CASE PowerIsBack(<<BroadcastPower(a)>> \o <<CancelTimer(AwakeWindow)>>)
  BY <1>1, <1>2, ExitPowerIsBack
<1>3. CASE state = "Grace"
  BY <1>3, NoExit
<1>4. CASE state \in Awake
  BY <1>4, NoExit DEF InCycle, Phases, Awake
<1> QED
  BY <1>2, <1>3, <1>4, ExitAnswer, ExitStays DEF OnAcChanged

LEMMA ExitOnLongSleep ==
  ASSUME NEW c \in Clients, NEW cancel, Good, OnLongSleep(c, cancel)
  PROVE  LitExit
<1> DEFINE cancelTimer == IF state = "Grace" THEN <<CancelTimer(Grace)>>
                          ELSE IF state = "LongSleeping" THEN <<>>
                          ELSE <<CancelTimer(AwakeWindow)>>
<1>1. cancelTimer \in Seq(Calm)
  <2>1. /\ <<CancelTimer(Grace)>> \in Seq(Calm)
        /\ <<CancelTimer(AwakeWindow)>> \in Seq(Calm)
    BY TimersTyped, CalmCommands
  <2> QED
    BY <2>1, Silence
<1> HIDE DEF cancelTimer
<1>2. CASE LeaveCycle(ac, FALSE, cancelTimer, <<Reply(c, TRUE)>>)
  BY <1>1, <1>2, ReplyCalm, ExitLeave
<1>3. CASE state \in Awake
  BY <1>3, NoExit DEF InCycle, Phases, Awake
<1> QED
  BY <1>2, <1>3, ExitAnswer DEF OnLongSleep, cancelTimer

LEMMA ExitOnIpc ==
  ASSUME NEW c \in Clients, NEW r, Good, OnIpc(c, r)
  PROVE  LitExit
<1>1. CASE OnActivity(<<>>, <<Reply(c, TRUE)>>)
  BY <1>1, Silence, ReplyCalm, ExitOnActivity
<1>2. ASSUME NEW kind, NEW name, OnSetMode(c, kind, name) PROVE LitExit
  BY <1>2, ExitAnswer, ExitStays DEF OnSetMode
<1>3. CASE OnDim(c)
  BY <1>3, ExitAnswer, NoExit DEF OnDim, InCycle, Phases
<1>4. ASSUME NEW on, OnScreen(c, on) PROVE LitExit
  BY <1>1, <1>4, ExitAnswer, NoExit DEF OnScreen, InCycle, Phases
<1>5. ASSUME NEW force, OnSleep(c, force) PROVE LitExit
  BY <1>5, ExitAnswer, NoExit DEF OnSleep, SleepRefused
<1>6. ASSUME NEW what, NEW ttlZero, OnInhibit(c, what, ttlZero) PROVE LitExit
  BY <1>6, ExitAnswer, ExitStays DEF OnInhibit
<1>7. ASSUME NEW n, OnUninhibit(c, n) PROVE LitExit
  BY <1>7, ExitAnswer, ExitStays DEF OnUninhibit
<1> QED
  BY <1>1, <1>2, <1>3, <1>4, <1>5, <1>6, <1>7, ExitAnswer, ExitOnLongSleep DEF OnIpc

\* The one exit that is not leave_cycle.
LEMMA ExitOnShutdown == ASSUME Good, OnShutdown PROVE LitExit
<1> SUFFICES ASSUME InCycle PROVE Lit
  BY DEF LitExit
<1> DEFINE first == <<Do("CancelWake")>>
           last == <<Do("Undim"), Screen(TRUE), Do("Shutdown")>>
<1>1. Become("Active", interrupted, first \o last)
  BY DEF OnShutdown, StepAside
<1>2. first \in Seq(Calm) /\ last \in Seq(Calm)
  <2>1. Do("Undim") \in Calm /\ Screen(TRUE) \in Calm /\ Do("Shutdown") \in Calm
    BY CalmCommands
  <2> QED
    BY <2>1, DoCalm, Triple
<1>3. first \o last \in Seq(Calm)
  BY <1>2, Concat
<1>4. /\ Says(first, Do("CancelWake"))
      /\ Says(last, Do("Undim")) /\ Says(last, Screen(TRUE))
  <2>1. Len(first) = 1 /\ first[1] = Do("CancelWake")
    OBVIOUS
  <2>2. Len(last) = 3 /\ last[1] = Do("Undim") /\ last[2] = Screen(TRUE)
    OBVIOUS
  <2>3. 1 \in 1..Len(first) /\ 1 \in 1..Len(last) /\ 2 \in 1..Len(last)
    BY <2>1, <2>2
  <2> HIDE DEF first, last
  <2> QED
    BY <2>1, <2>2, <2>3, Zenon DEF Says
<1> HIDE DEF first, last
<1>5. /\ Says(first \o last, Do("CancelWake"))
      /\ Says(first \o last, Do("Undim")) /\ Says(first \o last, Screen(TRUE))
  BY <1>2, <1>4, SaysBefore, SaysAfter
<1>6. "Active" \in States /\ state \in States
  BY GoodBase DEF Base, States, Awake
<1>7. Emitted(Do("CancelWake"))' /\ Emitted(Do("Undim"))' /\ Emitted(Screen(TRUE))'
  BY <1>1, <1>3, <1>5, <1>6, BecomeEmits
<1> QED
  BY <1>7 DEF Lit

LEMMA ExitHandle ==
  ASSUME NEW e \in Event, Good, Handle(e)
  PROVE  LitExit
<1>1. /\ e.event = "AcChanged" => e.ac \in BOOLEAN
      /\ e.event = "Ipc" => e.client \in Clients
  BY DEF Event
<1>2. CASE OnActivity(<<>>, <<>>) \/ OnSleepFailed(<<>>)
  BY <1>2, Silence, ExitOnActivity, ExitOnSleepFailed
<1>3. ASSUME NEW percent, OnBattery(percent) PROVE LitExit
  BY <1>3, ExitStays DEF OnBattery
<1>4. ASSUME NEW blocked, OnInhibitors(blocked) PROVE LitExit
  BY <1>4, ExitStays DEF OnInhibitors
<1> QED
  BY <1>1, <1>2, <1>3, <1>4, ExitAnswer, ExitOnIdle, ExitOnAcChanged, ExitOnSuspending,
     ExitOnResumed, ExitOnTimer, ExitOnIpc, ExitOnSleepBlocked, ExitOnShutdown
  DEF Handle

LEMMA EngineExitsLit == ASSUME CommandInv, Next PROVE LitExit
<1>1. Good
  BY DEF CommandInv
<1>2. ASSUME NEW c, NEW client, SetConfig(c, client, <<>>) PROVE LitExit
  BY <1>2, ExitStays DEF SetConfig
<1>3. ASSUME NEW armed, OnWakeScheduled(armed, <<>>) PROVE LitExit
  BY <1>1, <1>3, Silence, ExitOnWakeScheduled
<1>4. ASSUME NEW e \in Events, Handle(e) PROVE LitExit
  BY <1>1, <1>4, EngineAssumption, ExitHandle
<1> QED
  BY <1>2, <1>3, <1>4 DEF Next, Steps

\* Whichever way the cycle is left past Grace, power, a user, a request, failed
\* attempts or the end of the daemon, the alarm is cleared and the screen comes
\* on (core.rs, leave_cycle and the handler of ShutdownRequested).
THEOREM ExitsCycleLitHolds == Spec => ExitsCycleLit
<1> DEFINE A == InCycle /\ state # "Grace" /\ ~InCycle' =>
                  (/\ Emitted(Do("CancelWake"))
                   /\ Emitted(Do("Undim"))
                   /\ Emitted(Screen(TRUE)))'
<1>1. ASSUME CommandInv, Next PROVE A
  BY <1>1, EngineExitsLit DEF LitExit, Lit, InCycle
<1>2. CommandInv /\ [Next]_vars => [A]_vars
  BY <1>1
<1> QED
  BY CommandInvAlways, <1>2, PTL DEF Spec, ExitsCycleLit

-----------------------------------------------------------------------------
(* Past Grace nothing watches for idleness.                                *)

\* The commands that set no mode's stages and do not clear the alarm.
Bare == {c \in Command : c # Do("CancelWake") /\ \A m \in Modes : c # ReplaceIdleStages(m)}

PastGrace == Phases \ {"Grace"}

NoStages == state' \in PastGrace => queue' \in Seq(Bare)

LEMMA BareCommands ==
  /\ \A n \in {"Dim", "Undim", "RunHook", "Shutdown", "ScheduleWake", "PowerOff"} :
        Do(n) \in Bare
  /\ \A m \in Modes : ApplyMode(m) \in Bare
  /\ \A t \in Timers : StartTimer(t) \in Bare /\ CancelTimer(t) \in Bare
  /\ \A f \in BOOLEAN : Suspend("Configured", f) \in Bare
  /\ Suspend("Hibernate", TRUE) \in Bare
BY DEF Bare, Command, Do, ApplyMode, StartTimer, CancelTimer, Suspend, ReplaceIdleStages

LEMMA BareAnswers ==
  /\ \A c \in Clients, ok \in BOOLEAN : Reply(c, ok) \in Bare
  /\ \A c \in Clients \cup {NONE} : Reload(c) \in Bare
  /\ \A s, t \in States : BroadcastState(s, t) \in Bare
  /\ \A m \in Modes \cup {NONE} : BroadcastMode(m) \in Bare
  /\ \A a \in BOOLEAN : BroadcastPower(a) \in Bare
  /\ \A p \in Phases \cup {"idle", "interrupted", "critical"} : BroadcastCycle(p) \in Bare
BY DEF Bare, Command, Reply, Reload, BroadcastState, BroadcastMode, BroadcastPower,
       BroadcastCycle, ReplaceIdleStages, Do

LEMMA ClearsBare == ReplaceIdleStages(NONE) \in Bare
BY EngineAssumption DEF Bare, Command, ReplaceIdleStages, Do

LEMMA Nothing == <<>> \in Seq(Bare)
OBVIOUS

LEMMA ReplyBare ==
  ASSUME NEW c \in Clients, NEW ok \in BOOLEAN
  PROVE  <<Reply(c, ok)>> \in Seq(Bare)
<1>1. Reply(c, ok) \in Bare
  BY BareAnswers
<1> QED
  BY <1>1

\* What `mode_commands` returns past Grace.
LEMMA ModeCommandsBare ==
  ASSUME NEW c \in Configs, NEW m \in Mode, NEW s \in PastGrace
  PROVE  /\ ModeCommands(c, m, s) \in Seq(Bare)
         /\ ModeChanged(c, m, s) \in Seq(Bare)
<1>1. m.name \in Modes \cup {NONE}
  BY DEF Mode
<1>2. (IF m.name = NONE THEN <<>> ELSE <<ApplyMode(m.name)>>) \in Seq(Bare)
  BY <1>1, BareCommands
<1>3. <<ReplaceIdleStages(NONE)>> \in Seq(Bare)
  BY ClearsBare, Single
<1>4. (IF m.name = NONE THEN <<>> ELSE <<ApplyMode(m.name)>>)
         \o <<ReplaceIdleStages(NONE)>> \in Seq(Bare)
  BY <1>2, <1>3, Concat
<1>5. ModeCommands(c, m, s) \in Seq(Bare)
  BY <1>4 DEF ModeCommands, PastGrace
<1>6. <<BroadcastMode(m.name)>> \in Seq(Bare)
  BY <1>1, BareAnswers
<1> QED
  BY <1>5, <1>6, Concat DEF ModeChanged

LEMMA ReappliedBare ==
  ASSUME config \in Configs, NEW m, NEW n \in Mode, NEW s \in PastGrace
  PROVE  Reapplied(m, n, s) \in Seq(Bare)
BY ModeCommandsBare DEF Reapplied

LEMMA CancelPendingBare == CancelPending \in Seq(Bare)
BY TimersTyped, BareCommands DEF CancelPending

LEMMA BecomeBare ==
  ASSUME NEW s \in States, NEW intr, NEW out, Good, Become(s, intr, out),
         s \in PastGrace => out \in Seq(Bare)
  PROVE  NoStages
<1> SUFFICES ASSUME s \in PastGrace PROVE queue' \in Seq(Bare)
  BY BecomeState DEF NoStages
<1> DEFINE told == IF s = state THEN <<>> ELSE <<BroadcastState(state, s)>>
           cycle == IF s = state THEN <<>>
                    ELSE IF s \in Phases THEN <<BroadcastCycle(s)>>
                    ELSE IF InCycle THEN <<BroadcastCycle(IdlePhase(intr))>>
                    ELSE <<>>
<1>1. told \in Seq(Bare)
  BY BareAnswers, GoodBase DEF Base
<1>2. cycle \in Seq(Bare)
  BY BareAnswers DEF IdlePhase
<1>3. queue' = (out \o told) \o cycle
  BY DEF Become
<1> HIDE DEF told, cycle
<1> QED
  BY <1>1, <1>2, <1>3, Concat

\* A handler that stays has to answer for what it returns only past Grace.
LEMMA StaysBare ==
  ASSUME NEW intr, NEW out, Good, Become(state, intr, out),
         state \in PastGrace => out \in Seq(Bare)
  PROVE  NoStages
BY BecomeBare, GoodBase DEF Base

LEMMA ElsewhereBare == ASSUME state' \notin PastGrace PROVE NoStages
BY DEF NoStages

LEMMA AnswerBare ==
  ASSUME NEW out \in Seq(Bare), Answer(out)
  PROVE  NoStages
BY DEF Answer, NoStages

LEMMA LeaveBare ==
  ASSUME NEW a, NEW intr, NEW out, NEW reply, LeaveCycle(a, intr, out, reply)
  PROVE  NoStages
BY LeaveCycleState, ElsewhereBare DEF PastGrace, Phases

LEMMA PowerIsBackBare == ASSUME NEW out, PowerIsBack(out) PROVE NoStages
BY LeaveBare DEF PowerIsBack

LEMMA FailureBare ==
  ASSUME NEW out \in Seq(Bare), NEW reply \in Seq(Bare), Good, CycleFailure(out, reply)
  PROVE  NoStages
<1>1. <<StartTimer(AwakeWindow)>> \in Seq(Bare)
  BY TimersTyped, BareCommands
<1>2. out \o <<StartTimer(AwakeWindow)>> \o reply \in Seq(Bare)
  BY <1>1, Concat
<1> QED
  BY <1>2, LeaveBare, StaysBare DEF CycleFailure

LEMMA EnterGraceBare ==
  ASSUME NEW m, NEW out, NEW reply, EnterGrace(m, out, reply)
  PROVE  NoStages
BY EnterGraceState, ElsewhereBare DEF PastGrace

LEMMA ArmBare == ASSUME NEW first, Good, Arm(first) PROVE NoStages
<1>1. (IF first THEN <<ReplaceIdleStages(NONE)>> ELSE <<>>) \in Seq(Bare)
  BY ClearsBare
<1>2. <<Do("ScheduleWake")>> \in Seq(Bare)
  BY BareCommands
<1>3. (IF first THEN <<ReplaceIdleStages(NONE)>> ELSE <<>>)
         \o <<Do("ScheduleWake")>> \in Seq(Bare)
  BY <1>1, <1>2, Concat
<1> QED
  BY <1>3, BecomeBare DEF Arm, States, Phases

LEMMA CheckPowerBare == ASSUME Good, CheckPower PROVE NoStages
<1> DEFINE act == IF config.criticalAction = "Hibernate" /\ hibernateAvailable
                  THEN Suspend("Hibernate", TRUE) ELSE Do("PowerOff")
           said == IF ~BatteryCritical THEN <<>>
                   ELSE <<BroadcastCycle("critical"), act>>
           window == <<StartTimer(AwakeWindow)>>
<1>1. act \in Bare /\ BroadcastCycle("critical") \in Bare
  BY BareCommands, BareAnswers
<1>2. window \in Seq(Bare)
  BY TimersTyped, BareCommands
<1>3. CASE StayChecking
  <2>1. Become("Checking", interrupted, said \o window)
    BY <1>3 DEF StayChecking
  <2> HIDE DEF act
  <2>2. said \in Seq(Bare)
    BY <1>1, Pair, Nothing
  <2>3. said \o window \in Seq(Bare)
    BY <1>2, <2>2, Concat
  <2> QED
    BY <2>1, <2>3, BecomeBare DEF States, Phases
<1> QED
  BY <1>3, PowerIsBackBare DEF CheckPower

LEMMA RequestSleepBare ==
  ASSUME NEW pending, ~InCycle, RequestSleep(pending)
  PROVE  NoStages
BY GoToSleepState, ArmSleepRetryState, ElsewhereBare
   DEF RequestSleep, InCycle, PastGrace, Phases

LEMMA BareStepAside ==
  ASSUME NEW s \in Awake, NEW cs, StepAside(s, cs)
  PROVE  NoStages
BY BecomeState, ElsewhereBare DEF StepAside, PastGrace, Phases, Awake

LEMMA BareOnActivity ==
  ASSUME NEW out \in Seq(Bare), NEW reply \in Seq(Bare), Good, OnActivity(out, reply)
  PROVE  NoStages
<1> DEFINE cmds == out \o CancelPending
<1>1. cmds \in Seq(Bare) /\ cmds \o reply \in Seq(Bare)
  BY CancelPendingBare, Concat
<1> HIDE DEF cmds
<1>2. ASSUME NEW cs, Become("Active", interrupted, cs) PROVE NoStages
  BY <1>2, BecomeState, ElsewhereBare DEF PastGrace, Phases
<1>3. CASE CycleFailure(cmds, reply)
  BY <1>1, <1>3, FailureBare
<1>4. ASSUME NEW cs, LeaveCycle(ac, TRUE, cs, reply) PROVE NoStages
  BY <1>4, LeaveBare
<1>5. CASE Become(state, interrupted, cmds \o reply)
  BY <1>1, <1>5, StaysBare
<1> QED
  BY <1>2, <1>3, <1>4, <1>5 DEF OnActivity, cmds

LEMMA BareOnIdle == ASSUME NEW stage, OnIdle(stage) PROVE NoStages
<1>1. CASE state \in Awake /\ RequestSleep(pendingSleep)
  BY <1>1, RequestSleepBare DEF InCycle, Phases, Awake
<1> QED
  BY <1>1, Nothing, AnswerBare, BareStepAside DEF OnIdle, Awake

LEMMA BareOnSleepBlocked ==
  ASSUME NEW blocked, Good, OnSleepBlocked(blocked)
  PROVE  NoStages
<1>1. CASE ArmSleepRetry(suspendFrom, pendingSleep, <<>>)
  BY <1>1, ArmSleepRetryState, ElsewhereBare DEF Good, CycleInv, NoRetryInCycle, PastGrace
<1>2. CASE CycleFailure(<<>>, <<>>)
  BY <1>2, Nothing, FailureBare
<1>3. CASE Become(state, interrupted, <<>>)
  BY <1>3, Nothing, StaysBare
<1> QED
  BY <1>1, <1>2, <1>3 DEF OnSleepBlocked

LEMMA BareOnSleepFailed ==
  ASSUME NEW out \in Seq(Bare), Good, OnSleepFailed(out)
  PROVE  NoStages
BY Nothing, BareOnActivity, FailureBare, AnswerBare DEF OnSleepFailed

LEMMA BareOnSuspending == ASSUME Good, OnSuspending PROVE NoStages
<1>1. "LongSleeping" \in States /\ "Sleeping" \in States
  BY DEF States, Phases
<1>2. Become(IF InCycle THEN "LongSleeping" ELSE "Sleeping", interrupted, <<>>)
  BY DEF OnSuspending
<1> QED
  BY <1>1, <1>2, Nothing, BecomeBare

LEMMA BareOnResumed ==
  ASSUME NEW byUser, Good, OnResumed(byUser)
  PROVE  NoStages
<1>1. ASSUME NEW cs, Become("Active", interrupted, cs) PROVE NoStages
  BY <1>1, BecomeState, ElsewhereBare DEF PastGrace, Phases
<1> QED
  BY <1>1, LeaveBare, CheckPowerBare DEF OnResumed

LEMMA BareOnTimer == ASSUME NEW t, Good, OnTimer(t) PROVE NoStages
<1>1. CASE pendingSleep /\ RequestSleep(FALSE)
  BY <1>1, RequestSleepBare DEF Good, CycleInv, NoRetryInCycle
<1>2. ASSUME NEW n, OnInhibitExpiry(n) PROVE NoStages
  BY <1>2, Nothing, StaysBare DEF OnInhibitExpiry
<1>3. CASE OnAwakeWindow
  BY <1>3, Nothing, PowerIsBackBare, ArmBare, CheckPowerBare, StaysBare DEF OnAwakeWindow
<1> QED
  BY <1>1, <1>2, <1>3, Nothing, AnswerBare, ArmBare DEF OnTimer

LEMMA BareOnWakeScheduled ==
  ASSUME NEW armed, NEW out \in Seq(Bare), Good, OnWakeScheduled(armed, out)
  PROVE  NoStages
<1>1. out \o <<Suspend("Configured", FALSE)>> \in Seq(Bare)
  BY BareCommands, Single, Concat
<1>2. CASE Become(state, interrupted, out \o <<Suspend("Configured", FALSE)>>)
  BY <1>1, <1>2, StaysBare
<1> QED
  BY <1>2, Nothing, AnswerBare, FailureBare, PowerIsBackBare DEF OnWakeScheduled

LEMMA BareOnAcChanged ==
  ASSUME NEW a \in BOOLEAN, Good, OnAcChanged(a)
  PROVE  NoStages
<1> DEFINE told == <<BroadcastPower(a)>>
           m == SelectAuto(config, mode, a, low)
<1>1. told \in Seq(Bare)
  BY BareAnswers, Single
<1>2. m \in Mode
  BY SelectAutoRight, GoodBase DEF Base
<1> HIDE DEF told, m
<1>3. ASSUME state \in PastGrace PROVE told \o Reapplied(mode, m, state) \in Seq(Bare)
  <2>1. Reapplied(mode, m, state) \in Seq(Bare)
    BY <1>2, <1>3, ReappliedBare, GoodBase DEF Base
  <2> QED
    BY <1>1, <2>1, Concat
<1>4. CASE Become(state, interrupted, told \o Reapplied(mode, m, state))
  BY <1>3, <1>4, StaysBare
<1>5. ASSUME NEW cs, Become("Active", interrupted, cs) PROVE NoStages
  BY <1>5, BecomeState, ElsewhereBare DEF PastGrace, Phases
<1> QED
  BY <1>4, <1>5, Nothing, AnswerBare, PowerIsBackBare, EnterGraceBare
     DEF OnAcChanged, told, m

LEMMA BareOnBattery ==
  ASSUME NEW percent, Good, OnBattery(percent)
  PROVE  NoStages
<1>1. mode' \in Mode
  <2>1. SelectAuto(config, mode, ac, low') \in Mode
    BY SelectAutoRight, GoodBase DEF Base
  <2> QED
    BY <2>1, GoodBase DEF OnBattery, Base
<1>2. ASSUME state \in PastGrace PROVE Reapplied(mode, mode', state) \in Seq(Bare)
  BY <1>1, <1>2, ReappliedBare, GoodBase DEF Base
<1> QED
  BY <1>2, StaysBare DEF OnBattery

LEMMA BareOnSetMode ==
  ASSUME NEW c \in Clients, NEW kind \in {"Auto", "Manual"}, NEW name,
         kind = "Manual" => name \in Modes, Good, OnSetMode(c, kind, name)
  PROVE  NoStages
<1> DEFINE m == IF kind = "Auto"
                THEN [kind |-> "Auto", name |-> AutoModeName(config, mode, ac, low)]
                ELSE [kind |-> "Manual", name |-> name]
<1>1. m \in Mode
  BY AutoModeNameRight, GoodBase DEF Base, Mode
<1> HIDE DEF m
<1>2. ASSUME state \in PastGrace
      PROVE  ModeChanged(config, m, state) \o <<Reply(c, TRUE)>> \in Seq(Bare)
  <2>1. ModeChanged(config, m, state) \in Seq(Bare)
    BY <1>1, <1>2, ModeCommandsBare, GoodBase DEF Base
  <2> QED
    BY <2>1, ReplyBare, Concat
<1>3. CASE Become(state, interrupted, ModeChanged(config, m, state) \o <<Reply(c, TRUE)>>)
  BY <1>2, <1>3, StaysBare
<1> QED
  BY <1>3, ReplyBare, AnswerBare DEF OnSetMode, m

LEMMA BareOnInhibit ==
  ASSUME NEW c \in Clients, NEW what, NEW ttlZero, Good, OnInhibit(c, what, ttlZero)
  PROVE  NoStages
<1> DEFINE out == <<StartTimer(InhibitExpiry(nextInhibitId)), Reply(c, TRUE)>>
<1>1. ASSUME nextInhibitId <= MaxInhibits PROVE out \in Seq(Bare)
  <2>1. nextInhibitId \in 1..MaxInhibits
    BY <1>1, EngineAssumption DEF Good, OtherTypes
  <2>2. StartTimer(InhibitExpiry(nextInhibitId)) \in Bare /\ Reply(c, TRUE) \in Bare
    BY <2>1, TimersTyped, BareCommands, BareAnswers
  <2> QED
    BY <2>2, Pair
<1> HIDE DEF out
<1> QED
  BY <1>1, ReplyBare, AnswerBare, StaysBare DEF OnInhibit, out

LEMMA BareOnUninhibit ==
  ASSUME NEW c \in Clients, NEW n \in 1..MaxInhibits, Good, OnUninhibit(c, n)
  PROVE  NoStages
<1>1. CancelTimer(InhibitExpiry(n)) \in Bare /\ Reply(c, TRUE) \in Bare
  BY TimersTyped, BareCommands, BareAnswers
<1>2. <<CancelTimer(InhibitExpiry(n)), Reply(c, TRUE)>> \in Seq(Bare)
  BY <1>1, Pair
<1> QED
  BY <1>2, ReplyBare, AnswerBare, StaysBare DEF OnUninhibit

LEMMA BareOnIpc ==
  ASSUME NEW c \in Clients, NEW r \in Request, Good, OnIpc(c, r)
  PROVE  NoStages
<1>1. /\ r.req = "Mode" => r.name \in Modes
      /\ r.req = "Uninhibit" => r.id \in 1..MaxInhibits
  BY DEF Request
<1>2. CASE OnActivity(<<>>, <<Reply(c, TRUE)>>)
  BY <1>2, Nothing, ReplyBare, BareOnActivity
<1>3. CASE Answer(<<Reload(c)>>)
  <2>1. <<Reload(c)>> \in Seq(Bare)
    BY BareAnswers
  <2> QED
    BY <1>3, <2>1, AnswerBare
<1>4. CASE OnDim(c)
  BY <1>4, ReplyBare, AnswerBare, BareStepAside DEF OnDim, Awake
<1>5. ASSUME NEW on, OnScreen(c, on) PROVE NoStages
  BY <1>2, <1>5, ReplyBare, AnswerBare, BareStepAside DEF OnScreen, Awake
<1>6. ASSUME NEW force, OnSleep(c, force) PROVE NoStages
  BY <1>6, ReplyBare, AnswerBare, GoToSleepState, ElsewhereBare
     DEF OnSleep, PastGrace, Phases
<1>7. ASSUME NEW cancel, OnLongSleep(c, cancel) PROVE NoStages
  BY <1>7, ReplyBare, AnswerBare, LeaveBare, EnterGraceBare DEF OnLongSleep
<1> QED
  BY <1>1, <1>2, <1>3, <1>4, <1>5, <1>6, <1>7, ReplyBare, AnswerBare, BareOnSetMode,
     BareOnInhibit, BareOnUninhibit
  DEF OnIpc

LEMMA BareHandle ==
  ASSUME NEW e \in Event, Good, Handle(e)
  PROVE  NoStages
<1>1. /\ e.event = "AcChanged" => e.ac \in BOOLEAN
      /\ e.event = "Ipc" => e.client \in Clients /\ e.request \in Request
  BY DEF Event
<1>2. CASE OnActivity(<<>>, <<>>) \/ OnSleepFailed(<<>>)
  BY <1>2, Nothing, BareOnActivity, BareOnSleepFailed
<1>3. CASE Answer(<<Reload(NONE)>>)
  <2>1. <<Reload(NONE)>> \in Seq(Bare)
    BY BareAnswers
  <2> QED
    BY <1>3, <2>1, AnswerBare
<1>4. ASSUME NEW blocked, OnInhibitors(blocked) PROVE NoStages
  BY <1>4, Nothing, StaysBare DEF OnInhibitors
<1>5. CASE OnShutdown
  BY <1>5, BareStepAside DEF OnShutdown, Awake
<1> QED
  BY <1>1, <1>2, <1>3, <1>4, <1>5, BareOnIdle, BareOnAcChanged, BareOnBattery,
     BareOnSuspending, BareOnResumed, BareOnTimer, BareOnIpc, BareOnSleepBlocked
  DEF Handle

LEMMA BareSetConfig ==
  ASSUME NEW c \in Configs, NEW client \in Clients \cup {NONE}, Good,
         SetConfig(c, client, <<>>)
  PROVE  NoStages
<1> DEFINE m == SelectAuto(c, mode, ac, ComputeLow(c, battery, low))
           reply == IF client = NONE THEN <<>> ELSE <<Reply(client, TRUE)>>
<1>1. m \in Mode
  BY SelectAutoRight, GoodBase DEF Base
<1>2. reply \in Seq(Bare)
  BY ReplyBare, Nothing
<1> HIDE DEF m, reply
<1>3. ASSUME state \in PastGrace
      PROVE  (<<>> \o ModeCommands(c, m, state)) \o reply \in Seq(Bare)
  BY <1>1, <1>2, <1>3, ModeCommandsBare, Nothing, Concat
<1>4. Become(state, interrupted, (<<>> \o ModeCommands(c, m, state)) \o reply)
  BY DEF SetConfig, m, reply
<1> QED
  BY <1>3, <1>4, StaysBare

LEMMA EngineIsBarePastGrace == ASSUME CommandInv, Next PROVE NoStages
<1>1. Good /\ queue \in Seq(Command)
  BY DEF CommandInv
<1>2. ASSUME NEW i \in 1..Len(queue), NEW c \in Configs, queue[i].op = "Reload",
             SetConfig(c, queue[i].replyTo, <<>>)
      PROVE  NoStages
  <2>1. queue[i] \in Command
    BY <1>1
  <2>2. queue[i].replyTo \in Clients \cup {NONE}
    BY <1>2, <2>1 DEF Command
  <2> QED
    BY <1>1, <1>2, <2>2, BareSetConfig
<1>3. ASSUME NEW armed, OnWakeScheduled(armed, <<>>) PROVE NoStages
  BY <1>1, <1>3, Nothing, BareOnWakeScheduled
<1>4. ASSUME NEW e \in Events, Handle(e) PROVE NoStages
  BY <1>1, <1>4, EngineAssumption, BareHandle
<1> QED
  BY <1>2, <1>3, <1>4 DEF Next, Steps

\* Past Grace no step sets the idle stages of a mode: not a mode chosen by hand
\* or by the power, not a reload, not a failed attempt (core.rs, mode_commands).
THEOREM NoStagesPastGraceHolds == Spec => NoStagesPastGrace
<1> DEFINE A == state' \in Phases \ {"Grace"} =>
                  \A m \in Modes : ~Emitted(ReplaceIdleStages(m))'
<1>1. ASSUME CommandInv, Next PROVE A
  <2>1. NoStages
    BY <1>1, EngineIsBarePastGrace
  <2>2. ASSUME NEW m \in Modes, queue' \in Seq(Bare)
        PROVE  ~Emitted(ReplaceIdleStages(m))'
    BY <2>2 DEF Emitted, Bare
  <2> QED
    BY <2>1, <2>2 DEF NoStages, PastGrace
<1>2. CommandInv /\ [Next]_vars => [A]_vars
  BY <1>1
<1> QED
  BY CommandInvAlways, <1>2, PTL DEF Spec, NoStagesPastGrace

-----------------------------------------------------------------------------
(* Past Grace: only a timer, a sleep and a wake bring the engine there, or   *)
(* from one phase to the next.                                              *)

Enters == state' \in PastGrace => state' = state

LEMMA EntersStays == ASSUME state' = state PROVE Enters
BY DEF Enters

LEMMA EntersElsewhere == ASSUME state' \notin PastGrace PROVE Enters
BY DEF Enters

LEMMA EntersBecome ==
  ASSUME NEW s, NEW intr, NEW out, Become(s, intr, out), s \notin PastGrace \/ s = state
  PROVE  Enters
BY BecomeState, EntersStays, EntersElsewhere

LEMMA EntersAnswer == ASSUME NEW out, Answer(out) PROVE Enters
BY DEF Answer, engineVars, Enters

LEMMA EntersLeave ==
  ASSUME NEW a, NEW intr, NEW out, NEW reply, LeaveCycle(a, intr, out, reply)
  PROVE  Enters
BY LeaveCycleState, EntersElsewhere DEF PastGrace, Phases

LEMMA EntersPowerIsBack == ASSUME NEW out, PowerIsBack(out) PROVE Enters
BY PowerIsBackState, EntersElsewhere DEF PastGrace, Phases

LEMMA EntersFailure == ASSUME NEW out, NEW reply, CycleFailure(out, reply) PROVE Enters
BY EntersLeave, EntersBecome DEF CycleFailure

LEMMA EntersGrace ==
  ASSUME NEW m, NEW out, NEW reply, EnterGrace(m, out, reply)
  PROVE  Enters
BY EnterGraceState, EntersElsewhere DEF PastGrace

LEMMA EntersSleep ==
  ASSUME NEW force, NEW reply, NEW out, GoToSleep(force, reply, out)
  PROVE  Enters
BY GoToSleepState, EntersElsewhere DEF PastGrace, Phases

LEMMA EntersStepAside ==
  ASSUME NEW s \in Awake, NEW cs, StepAside(s, cs)
  PROVE  Enters
BY EntersBecome DEF StepAside, PastGrace, Phases, Awake

LEMMA EntersOnActivity ==
  ASSUME NEW out, NEW reply, OnActivity(out, reply)
  PROVE  Enters
<1>1. ASSUME NEW s \in {"Active", state}, NEW cs, Become(s, interrupted, cs) PROVE Enters
  BY <1>1, EntersBecome DEF PastGrace, Phases
<1> QED
  BY <1>1, EntersLeave, EntersFailure DEF OnActivity

LEMMA EntersOnIdle == ASSUME NEW stage, OnIdle(stage) PROVE Enters
<1>1. CASE RequestSleep(pendingSleep)
  BY <1>1, EntersSleep, ArmSleepRetryState, EntersStays DEF RequestSleep
<1> QED
  BY <1>1, EntersAnswer, EntersStepAside DEF OnIdle, Awake

LEMMA EntersOnSleepBlocked == ASSUME NEW blocked, Good, OnSleepBlocked(blocked) PROVE Enters
<1>1. CASE ArmSleepRetry(suspendFrom, pendingSleep, <<>>)
  BY <1>1, ArmSleepRetryState, EntersElsewhere DEF Good, CycleInv, NoRetryInCycle, PastGrace
<1> QED
  BY <1>1, EntersFailure, EntersBecome DEF OnSleepBlocked

LEMMA EntersOnSleepFailed == ASSUME NEW out, OnSleepFailed(out) PROVE Enters
BY EntersOnActivity, EntersFailure, EntersAnswer DEF OnSleepFailed

LEMMA EntersOnWakeScheduled == ASSUME NEW armed, NEW out, OnWakeScheduled(armed, out) PROVE Enters
BY EntersAnswer, EntersFailure, EntersPowerIsBack, EntersBecome DEF OnWakeScheduled

LEMMA EntersOnAcChanged == ASSUME NEW a, OnAcChanged(a) PROVE Enters
<1>1. ASSUME NEW s \in {"Active", state}, NEW cs, Become(s, interrupted, cs) PROVE Enters
  BY <1>1, EntersBecome DEF PastGrace, Phases
<1> QED
  BY <1>1, EntersAnswer, EntersPowerIsBack, EntersGrace DEF OnAcChanged

LEMMA EntersOnIpc == ASSUME NEW c, NEW r, OnIpc(c, r) PROVE Enters
<1>1. ASSUME NEW kind, NEW name, OnSetMode(c, kind, name) PROVE Enters
  BY <1>1, EntersAnswer, EntersBecome DEF OnSetMode
<1>2. CASE OnDim(c)
  BY <1>2, EntersAnswer, EntersStepAside DEF OnDim, Awake
<1>3. ASSUME NEW on, OnScreen(c, on) PROVE Enters
  BY <1>3, EntersOnActivity, EntersAnswer, EntersStepAside DEF OnScreen, Awake
<1>4. ASSUME NEW force, OnSleep(c, force) PROVE Enters
  BY <1>4, EntersAnswer, EntersSleep DEF OnSleep
<1>5. ASSUME NEW cancel, OnLongSleep(c, cancel) PROVE Enters
  BY <1>5, EntersAnswer, EntersLeave, EntersGrace DEF OnLongSleep
<1>6. ASSUME NEW what, NEW ttlZero, OnInhibit(c, what, ttlZero) PROVE Enters
  BY <1>6, EntersAnswer, EntersBecome DEF OnInhibit
<1>7. ASSUME NEW n, OnUninhibit(c, n) PROVE Enters
  BY <1>7, EntersAnswer, EntersBecome DEF OnUninhibit
<1> QED
  BY <1>1, <1>2, <1>3, <1>4, <1>5, <1>6, <1>7, EntersOnActivity, EntersAnswer DEF OnIpc

LEMMA EntersHandle ==
  ASSUME NEW e, e.event \notin {"Timer", "Suspending", "Resumed"}, Good, Handle(e)
  PROVE  Enters
<1>1. ASSUME NEW blocked, OnInhibitors(blocked) PROVE Enters
  BY <1>1, EntersBecome DEF OnInhibitors
<1>2. ASSUME NEW percent, OnBattery(percent) PROVE Enters
  BY <1>2, EntersBecome DEF OnBattery
<1>3. CASE OnShutdown
  BY <1>3, EntersStepAside DEF OnShutdown, Awake
<1>4. CASE OnActivity(<<>>, <<>>) \/ OnSleepFailed(<<>>)
  BY <1>4, EntersOnActivity, EntersOnSleepFailed
<1> QED
  BY <1>1, <1>2, <1>3, <1>4, EntersAnswer, EntersOnIdle, EntersOnAcChanged, EntersOnIpc,
     EntersOnSleepBlocked
  DEF Handle

LEMMA EntersSetConfig ==
  ASSUME NEW c, NEW client, NEW out, SetConfig(c, client, out)
  PROVE  state' = state
BY BecomeState DEF SetConfig

LEMMA TimerEnters ==
  ASSUME NEW t, OnTimer(t), state' \in PastGrace
  PROVE  state' = state \/ state' = "Armed"
<1>1. CASE OnAwakeWindow
  <2>1. CASE CheckPower
    BY <1>1, <2>1, CheckPowerState, PowerIsBackState, ArmState, BecomeState DEF OnAwakeWindow, PastGrace, Phases
  <2> QED
    BY <1>1, <2>1, PowerIsBackState, ArmState, BecomeState DEF OnAwakeWindow, PastGrace, Phases
<1>2. ASSUME NEW pending, RequestSleep(pending) PROVE Enters
  BY <1>2, EntersSleep, ArmSleepRetryState, EntersStays DEF RequestSleep
<1>3. ASSUME NEW n, OnInhibitExpiry(n) PROVE Enters
  BY <1>3, EntersBecome DEF OnInhibitExpiry
<1> QED
  BY <1>1, <1>2, <1>3, EntersAnswer, ArmState DEF OnTimer, Enters
=============================================================================
