---------------------------- MODULE QueueProofs ----------------------------
(***************************************************************************)
(* What a handler of the engine does to the queue of commands, for the      *)
(* proofs about the daemon that executes them: of each kind of commands     *)
(* (the broadcasts, the modes, the alarm, the timers, the panel) the last   *)
(* one in the queue decides what is left behind, and every handler leaves   *)
(* a last one that agrees with the state it leaves.                         *)
(***************************************************************************)
EXTENDS EngineProofs, Queues

-----------------------------------------------------------------------------
(* The kinds of commands the invariants of the daemon speak of.            *)

StateNews == [op : {"Broadcast"}, from : States, to : States]
ModeNews == [op : {"Broadcast"}, mode : Modes \cup {NONE}]
Applies == [op : {"ApplyMode"}, mode : Modes]
Alarms == {Do("ScheduleWake"), Do("CancelWake")}
Switches(t) == {StartTimer(t), CancelTimer(t)}
Panels == {Screen(TRUE), Screen(FALSE)}
Dims == {Do("Dim"), Do("Undim")}
Reloads == [op : {"Reload"}, replyTo : Clients \cup {NONE}]
Kinds == {StateNews, ModeNews, Applies, Alarms, Switches(Grace),
          Switches(AwakeWindow), Panels, Dims, Reloads}

\* Commands of none of them, and those a choice of mode leads to.
Neutral == {c \in Command : \A K \in Kinds : c \notin K}
Orders == Neutral \cup Applies \cup ModeNews

LEMMA KindsOps ==
  /\ \A c \in Applies : c.op = "ApplyMode"
  /\ \A c \in Alarms : c.op \in {"ScheduleWake", "CancelWake"}
  /\ \A t : \A c \in Switches(t) : c.op \in {"StartTimer", "CancelTimer"} /\ c.id = t
  /\ \A c \in Panels : c.op = "Screen"
  /\ \A c \in Dims : c.op \in {"Dim", "Undim"}
  /\ \A c \in Reloads : c.op = "Reload"
  /\ \A c \in StateNews : c.op = "Broadcast" /\ DOMAIN c = {"op", "from", "to"}
  /\ \A c \in ModeNews : c.op = "Broadcast" /\ DOMAIN c = {"op", "mode"}
BY DEF Applies, Alarms, Switches, Panels, Dims, Reloads, StateNews, ModeNews, Do,
       Screen, StartTimer, CancelTimer

LEMMA KindsTyped ==
  /\ \A K \in Kinds : K \subseteq Command
  /\ Applies \subseteq Command /\ ModeNews \subseteq Command
  /\ Alarms \subseteq Command /\ Panels \subseteq Command /\ Dims \subseteq Command
  /\ Switches(Grace) \subseteq Command /\ Switches(AwakeWindow) \subseteq Command
  /\ StateNews \subseteq Command /\ Reloads \subseteq Command
  /\ Neutral \subseteq Command /\ Orders \subseteq Command
<1>1. Applies \subseteq Command /\ ModeNews \subseteq Command
  BY DEF Applies, ModeNews, Command
<1>2. Alarms \subseteq Command /\ Panels \subseteq Command /\ Dims \subseteq Command
  BY DEF Alarms, Panels, Dims, Command, Do, Screen
<1>3. Switches(Grace) \subseteq Command /\ Switches(AwakeWindow) \subseteq Command
  BY TimersTyped DEF Switches, StartTimer, CancelTimer, Command
<1>4. StateNews \subseteq Command /\ Reloads \subseteq Command
  BY DEF StateNews, Reloads, Command
<1>5. \A K \in Kinds : K \subseteq Command
  BY <1>1, <1>2, <1>3, <1>4 DEF Kinds
<1> QED
  BY <1>1, <1>2, <1>3, <1>4, <1>5 DEF Neutral, Orders

LEMMA KindsKnown ==
  /\ StateNews \in Kinds /\ ModeNews \in Kinds /\ Applies \in Kinds
  /\ Alarms \in Kinds /\ Switches(Grace) \in Kinds /\ Switches(AwakeWindow) \in Kinds
  /\ Panels \in Kinds /\ Dims \in Kinds /\ Reloads \in Kinds
BY DEF Kinds

LEMMA TimersDiffer == Grace # AwakeWindow /\ Grace # SleepRetry /\ AwakeWindow # SleepRetry
BY DEF Grace, AwakeWindow, SleepRetry

\* No command is of two kinds.
LEMMA KindsApart ==
  /\ (Applies \cup ModeNews) \cap (StateNews \cup Alarms \cup Switches(Grace)
        \cup Switches(AwakeWindow) \cup Panels \cup Dims \cup Reloads) = {}
  /\ StateNews \cap (Alarms \cup Switches(Grace) \cup Switches(AwakeWindow)
        \cup Panels \cup Dims \cup Reloads) = {}
  /\ Alarms \cap (Switches(Grace) \cup Switches(AwakeWindow)
        \cup Panels \cup Dims \cup Reloads) = {}
  /\ Switches(Grace) \cap Switches(AwakeWindow) = {}
  /\ (Switches(Grace) \cup Switches(AwakeWindow)) \cap (Panels \cup Dims \cup Reloads) = {}
  /\ Panels \cap (Dims \cup Reloads) = {}
  /\ Dims \cap Reloads = {}
  /\ Applies \cap ModeNews = {}
<1>1. StateNews \cap ModeNews = {}
  BY KindsOps
<1>2. Switches(Grace) \cap Switches(AwakeWindow) = {}
  BY KindsOps, TimersDiffer
<1> QED
  BY <1>1, <1>2, KindsOps

LEMMA OpsNeutral ==
  ASSUME NEW c \in Command,
         c.op \in {"RunHook", "Shutdown", "PowerOff", "ReplaceIdleStages", "Suspend", "Reply"}
  PROVE  c \in Neutral
BY KindsOps DEF Neutral, Kinds

LEMMA TimerNeutral ==
  ASSUME NEW t \in Timers, t # Grace, t # AwakeWindow
  PROVE  StartTimer(t) \in Neutral /\ CancelTimer(t) \in Neutral
<1>1. /\ StartTimer(t) \in Command /\ StartTimer(t).op = "StartTimer" /\ StartTimer(t).id = t
      /\ CancelTimer(t) \in Command /\ CancelTimer(t).op = "CancelTimer"
      /\ CancelTimer(t).id = t
  BY DEF StartTimer, CancelTimer, Command
<1> QED
  BY <1>1, KindsOps DEF Neutral, Kinds

LEMMA NewsNeutral ==
  /\ \A a \in BOOLEAN : BroadcastPower(a) \in Neutral
  /\ \A p \in Phases \cup {"idle", "interrupted", "critical"} : BroadcastCycle(p) \in Neutral
<1>1. ASSUME NEW c \in Command, c.op = "Broadcast",
             DOMAIN c # {"op", "from", "to"}, DOMAIN c # {"op", "mode"}
      PROVE  c \in Neutral
  BY <1>1, KindsOps DEF Neutral, Kinds
<1>2. ASSUME NEW a \in BOOLEAN PROVE BroadcastPower(a) \in Neutral
  <2>1. BroadcastPower(a) \in Command
    BY DEF BroadcastPower, Command
  <2>2. BroadcastPower(a).op = "Broadcast" /\ DOMAIN BroadcastPower(a) = {"op", "ac"}
    BY DEF BroadcastPower
  <2> QED
    BY <1>1, <2>1, <2>2
<1>3. ASSUME NEW p \in Phases \cup {"idle", "interrupted", "critical"}
      PROVE  BroadcastCycle(p) \in Neutral
  <2>1. BroadcastCycle(p) \in Command
    BY DEF BroadcastCycle, Command
  <2>2. BroadcastCycle(p).op = "Broadcast" /\ DOMAIN BroadcastCycle(p) = {"op", "phase"}
    BY DEF BroadcastCycle
  <2> QED
    BY <1>1, <2>1, <2>2
<1> QED
  BY <1>2, <1>3

LEMMA RetryNeutral ==
  /\ CancelPending \in Seq(Neutral)
  /\ <<StartTimer(SleepRetry)>> \in Seq(Neutral)
<1>1. CancelTimer(SleepRetry) \in Neutral /\ StartTimer(SleepRetry) \in Neutral
  BY TimerNeutral, TimersTyped, TimersDiffer
<1> QED
  BY <1>1 DEF CancelPending

LEMMA ExpiryNeutral ==
  ASSUME NEW n \in 1..MaxInhibits
  PROVE  StartTimer(InhibitExpiry(n)) \in Neutral /\ CancelTimer(InhibitExpiry(n)) \in Neutral
<1>1. InhibitExpiry(n) # Grace /\ InhibitExpiry(n) # AwakeWindow
  BY DEF InhibitExpiry, Grace, AwakeWindow
<1> QED
  BY <1>1, TimerNeutral, TimersTyped

LEMMA ReplyNeutral ==
  ASSUME NEW c \in Clients, NEW ok \in BOOLEAN
  PROVE  Reply(c, ok) \in Neutral /\ <<Reply(c, ok)>> \in Seq(Neutral)
<1>1. Reply(c, ok) \in Command /\ Reply(c, ok).op = "Reply"
  BY DEF Reply, Command
<1>2. Reply(c, ok) \in Neutral
  BY <1>1, OpsNeutral
<1> QED
  BY <1>2

LEMMA StagesNeutral ==
  ASSUME NEW m \in Modes \cup {NONE}
  PROVE  ReplaceIdleStages(m) \in Neutral /\ <<ReplaceIdleStages(m)>> \in Seq(Neutral)
<1>1. ReplaceIdleStages(m) \in Command /\ ReplaceIdleStages(m).op = "ReplaceIdleStages"
  BY DEF ReplaceIdleStages, Command
<1>2. ReplaceIdleStages(m) \in Neutral
  BY <1>1, OpsNeutral
<1> QED
  BY <1>2

LEMMA DoNeutral ==
  ASSUME NEW n \in {"RunHook", "Shutdown", "PowerOff"}
  PROVE  Do(n) \in Neutral /\ <<Do(n)>> \in Seq(Neutral)
<1>1. Do(n) \in Command /\ Do(n).op = n
  BY DEF Do, Command
<1>2. Do(n) \in Neutral
  BY <1>1, OpsNeutral
<1> QED
  BY <1>2

LEMMA SuspendNeutral ==
  ASSUME NEW method \in {"Configured", "Hibernate"}, NEW force \in BOOLEAN
  PROVE  Suspend(method, force) \in Neutral /\ <<Suspend(method, force)>> \in Seq(Neutral)
<1>1. Suspend(method, force) \in Command /\ Suspend(method, force).op = "Suspend"
  BY DEF Suspend, Command
<1>2. Suspend(method, force) \in Neutral
  BY <1>1, OpsNeutral
<1> QED
  BY <1>2

LEMMA NeutralFree ==
  ASSUME NEW s \in Seq(Neutral), NEW K \in Kinds
  PROVE  Free(s, K)
BY FreeIn DEF Neutral

-----------------------------------------------------------------------------
(* What a handler adds to the queue, beside the broadcast of the new state. *)

LitStates == {"Active", "Dimmed", "Grace"}
BrightStates == {"Active", "Grace"}

\* The state a suspend under way goes back to if it is refused.
Back == IF state = "Suspending" THEN suspendFrom ELSE state

\* The cycle is entered with the panel off or dimmed.
DarkEntry == state' = "Grace" /\ state \notin BrightStates

\* The mode is applied, and written to its file.
Carries(body) ==
    /\ mode'.name # NONE =>
          /\ Free(body, Applies \ {ApplyMode(mode'.name)})
          /\ mode'.name \in config'.modes \/ mode'.name = mode.name
          /\ \/ LastIn(body, Applies, {ApplyMode(mode'.name)})
             \/ Free(body, Applies) /\ mode'.name = mode.name /\ config' = config
    /\ \/ LastIn(body, ModeNews, {BroadcastMode(mode'.name)})
       \/ /\ Free(body, ModeNews)
          /\ mode'.kind = mode.kind
          /\ mode.kind = "Manual" => mode'.name = mode.name

\* The alarm is cleared on the way out of the cycle.
Clears(body) ==
    state' \notin PastGrace =>
        \/ LastIn(body, Alarms, {Do("CancelWake")})
        \/ Free(body, Alarms) /\ state \notin PastGrace

\* A state that waits gets what it waits for; a state of `old` may have it.
Times(body, old) ==
    /\ state' = "Grace" =>
          \/ LastIn(body, Switches(Grace), {StartTimer(Grace)})
          \/ Free(body, Switches(Grace)) /\ state = "Grace" /\ state \in old
    /\ state' = "Checking" =>
          \/ LastIn(body, Switches(AwakeWindow), {StartTimer(AwakeWindow)})
          \/ Free(body, Switches(AwakeWindow)) /\ state = "Checking" /\ state \in old
    /\ state' = "Armed" =>
          \/ LastIn(body, Switches(AwakeWindow), {StartTimer(AwakeWindow)})
          \/ Has(body, "ScheduleWake") \/ Has(body, "Suspend")
          \/ Free(body, Switches(AwakeWindow)) /\ state = "Armed" /\ state \in old
    /\ state' = "Suspending" =>
          \/ Has(body, "Suspend") \/ suspendFrom' = "Suspending"
          \/ state = "Suspending" /\ state \in old /\ suspendFrom' = suspendFrom

\* The panel is lit where it has to be.
Lights(body) ==
    /\ Back' \in LitStates =>
          \/ LastIn(body, Panels, {Screen(TRUE)})
          \/ Free(body, Panels) /\ (Back \in LitStates \/ DarkEntry)
    /\ Back' \in BrightStates =>
          \/ LastIn(body, Dims, {Do("Undim")})
          \/ Free(body, Dims) /\ (Back \in BrightStates \/ DarkEntry)

Sound(body, old) ==
    /\ body \in Seq(Command)
    /\ Free(body, StateNews) /\ Free(body, Reloads)
    /\ Carries(body) /\ Clears(body) /\ Times(body, old) /\ Lights(body)

\* The broadcast of the new state comes last but for that of the phase.
Announced == IF state' = state THEN <<>> ELSE <<BroadcastState(state, state')>>
Acts(out, old) ==
    \E body \in Seq(Command), news \in Seq(Neutral) :
        Sound(body, old) /\ queue' = ((out \o body) \o Announced) \o news

\* Only a suspend that happens leads to sleep.
Dozes == state \in {"Sleeping", "LongSleeping"}
            \/ (state = "Suspending" /\ suspendFrom = "Sleeping")
Wakeful == Dozes' => Dozes

LEMMA BecomeActs ==
  ASSUME NEW s \in States, state \in States, NEW intr, NEW cmds, NEW out \in Seq(Command),
         NEW body, NEW old, Become(s, intr, cmds), cmds = out \o body, Sound(body, old)
  PROVE  Acts(out, old)
<1> DEFINE news == IF s = state THEN <<>>
                   ELSE IF s \in Phases THEN <<BroadcastCycle(s)>>
                   ELSE IF InCycle THEN <<BroadcastCycle(IdlePhase(intr))>>
                   ELSE <<>>
<1>1. state' = s /\ queue' = ((out \o body) \o Announced) \o news
  BY DEF Become, Announced
<1>2. news \in Seq(Neutral)
  BY NewsNeutral DEF IdlePhase
<1> QED
  BY <1>1, <1>2 DEF Acts, Sound

\* An answer says the same in the state it finds.
LEMMA AnswerActs ==
  ASSUME NEW out \in Seq(Command), NEW body, NEW old, Answer(out \o body), Sound(body, old)
  PROVE  Acts(out, old)
<1>1. queue' = out \o body /\ state' = state
  BY DEF Answer, engineVars
<1>2. out \o body \in Seq(Command) /\ body \in Seq(Command) /\ <<>> \in Seq(Neutral)
  BY ConcatAt DEF Sound
<1>3. queue' = ((out \o body) \o Announced) \o <<>>
  BY <1>1, <1>2, EmptyConcat DEF Announced
<1> QED
  BY <1>2, <1>3 DEF Acts

-----------------------------------------------------------------------------
(* The mode.                                                               *)

Unmoded == {c \in Command : c \notin Applies /\ c \notin ModeNews}

LEMMA NeutralUnmoded == \A s \in Seq(Neutral) : s \in Seq(Unmoded)
BY KindsKnown, More DEF Neutral, Unmoded

LEMMA UnmodedFree ==
  ASSUME NEW s \in Seq(Unmoded), NEW K, K \subseteq Applies \/ K \subseteq ModeNews
  PROVE  s \in Seq(Command) /\ Free(s, K)
BY FreeIn DEF Unmoded

LEMMA CarriesNothing ==
  ASSUME NEW body \in Seq(Unmoded), mode' = mode, config' = config
  PROVE  Carries(body)
BY UnmodedFree DEF Carries

LEMMA CarriesWrapped ==
  ASSUME NEW pre \in Seq(Unmoded), NEW mid \in Seq(Command), NEW post \in Seq(Unmoded),
         Carries(mid)
  PROVE  Carries((pre \o mid) \o post) /\ (pre \o mid) \o post \in Seq(Command)
<1>1. pre \in Seq(Command) /\ post \in Seq(Command) /\ pre \o mid \in Seq(Command)
  BY UnmodedFree, Concat
<1>2. ASSUME NEW K, NEW G, K \subseteq Applies \/ K \subseteq ModeNews, LastIn(mid, K, G)
      PROVE  LastIn((pre \o mid) \o post, K, G)
  <2>1. LastIn(pre \o mid, K, G)
    BY <1>1, <1>2, LastAfter
  <2> QED
    BY <1>1, <1>2, <2>1, UnmodedFree, LastBefore
<1>3. ASSUME NEW K, K \subseteq Applies \/ K \subseteq ModeNews, Free(mid, K)
      PROVE  Free((pre \o mid) \o post, K)
  <2>1. Free(pre \o mid, K)
    BY <1>1, <1>3, UnmodedFree, FreeConcat
  <2> QED
    BY <1>1, <1>3, <2>1, UnmodedFree, FreeConcat
<1>4. Applies \ {ApplyMode(mode'.name)} \subseteq Applies
  OBVIOUS
<1>5. (pre \o mid) \o post \in Seq(Command)
  BY <1>1, Concat
<1> HIDE DEF Carries
<1>6. Carries((pre \o mid) \o post)
  BY <1>2, <1>3, <1>4 DEF Carries
<1> QED
  BY <1>5, <1>6

\* What a choice of mode says.
LEMMA ModeCommandsSay ==
  ASSUME NEW c \in Configs, NEW m \in Mode, NEW s
  PROVE  /\ ModeCommands(c, m, s) \in Seq(Orders)
         /\ ModeCommands(c, m, s) \in Seq(Command)
         /\ Free(ModeCommands(c, m, s), ModeNews)
         /\ m.name # NONE =>
              /\ LastIn(ModeCommands(c, m, s), Applies, {ApplyMode(m.name)})
              /\ Free(ModeCommands(c, m, s), Applies \ {ApplyMode(m.name)})
<1> DEFINE stages == <<ReplaceIdleStages(IF s \in Phases \ {"Grace"} THEN NONE
                                         ELSE StagesOf(c, m))>>
<1>1. stages \in Seq(Neutral)
  <2>1. (IF s \in Phases \ {"Grace"} THEN NONE ELSE StagesOf(c, m)) \in Modes \cup {NONE}
    BY ConfigValid DEF StagesOf, Config
  <2> QED
    BY <2>1, StagesNeutral
<1> HIDE DEF stages
<1>2. Neutral \subseteq Orders /\ Orders \subseteq Command /\ Applies \subseteq Orders
  BY KindsTyped DEF Orders
<1>3. /\ stages \in Seq(Orders) /\ stages \in Seq(Command)
      /\ Free(stages, ModeNews) /\ Free(stages, Applies)
  BY <1>1, <1>2, More, NeutralFree, KindsKnown
<1>4. CASE m.name = NONE
  <2>1. ModeCommands(c, m, s) = <<>> \o stages
    BY <1>4 DEF ModeCommands, stages
  <2>2. ModeCommands(c, m, s) = stages
    BY <1>3, <2>1, EmptyConcat
  <2> QED
    BY <1>3, <1>4, <2>2
<1>5. CASE m.name # NONE
  <2> DEFINE first == <<ApplyMode(m.name)>>
  <2>1. ModeCommands(c, m, s) = first \o stages
    BY <1>5 DEF ModeCommands, stages
  <2>2. ApplyMode(m.name) \in Applies
    BY <1>5 DEF Mode, Applies, ApplyMode
  <2>3. ApplyMode(m.name) \notin ModeNews /\ ApplyMode(m.name) \in Orders
    BY <1>2, <2>2, KindsApart
  <2>4. /\ first \in Seq(Orders) /\ first \in Seq(Command)
        /\ first \in Seq({ApplyMode(m.name)})
    BY <1>2, <2>3, Single
  <2>5. Free(first, ModeNews) /\ Free(first, Applies \ {ApplyMode(m.name)})
    <3>1. /\ {ApplyMode(m.name)} \cap ModeNews = {}
          /\ {ApplyMode(m.name)} \cap (Applies \ {ApplyMode(m.name)}) = {}
      BY <2>3
    <3> QED
      BY <2>4, <3>1, FreeIn
  <2>6. LastIn(first, Applies, {ApplyMode(m.name)})
    BY LastSingle
  <2>7. Free(stages, Applies \ {ApplyMode(m.name)})
    BY <1>3 DEF Free
  <2> HIDE DEF first
  <2>8. /\ first \o stages \in Seq(Orders) /\ first \o stages \in Seq(Command)
        /\ Free(first \o stages, ModeNews)
        /\ LastIn(first \o stages, Applies, {ApplyMode(m.name)})
        /\ Free(first \o stages, Applies \ {ApplyMode(m.name)})
    BY <1>3, <2>4, <2>5, <2>6, <2>7, Concat, FreeConcat, LastBefore
  <2> QED
    BY <2>1, <2>8
<1> QED
  BY <1>4, <1>5

LEMMA ModeNewsSay ==
  ASSUME NEW m \in Mode
  PROVE  /\ <<BroadcastMode(m.name)>> \in Seq(Orders)
         /\ <<BroadcastMode(m.name)>> \in Seq(Command)
         /\ Free(<<BroadcastMode(m.name)>>, Applies)
         /\ LastIn(<<BroadcastMode(m.name)>>, ModeNews, {BroadcastMode(m.name)})
<1>1. BroadcastMode(m.name) \in ModeNews
  BY DEF Mode, ModeNews, BroadcastMode
<1>2. BroadcastMode(m.name) \in Orders /\ BroadcastMode(m.name) \notin Applies
  BY <1>1, KindsApart DEF Orders
<1>3. /\ <<BroadcastMode(m.name)>> \in Seq(Orders)
      /\ <<BroadcastMode(m.name)>> \in Seq({BroadcastMode(m.name)})
  BY <1>2, Single
<1>4. <<BroadcastMode(m.name)>> \in Seq(Command)
  BY <1>3, KindsTyped, More
<1>5. Free(<<BroadcastMode(m.name)>>, Applies)
  <2>1. {BroadcastMode(m.name)} \cap Applies = {}
    BY <1>2
  <2> QED
    BY <1>3, <2>1, FreeIn
<1>6. LastIn(<<BroadcastMode(m.name)>>, ModeNews, {BroadcastMode(m.name)})
  BY LastSingle
<1> QED
  BY <1>3, <1>4, <1>5, <1>6

\* ... by the handlers that say it in full.
LEMMA ModeChangedCarries ==
  ASSUME NEW c \in Configs, NEW m \in Mode, NEW s, mode' = m,
         m.name \in config'.modes \/ m.name = mode.name \/ m.name = NONE
  PROVE  ModeChanged(c, m, s) \in Seq(Orders) /\ Carries(ModeChanged(c, m, s))
<1> DEFINE orders == ModeCommands(c, m, s)
           news == <<BroadcastMode(m.name)>>
<1>1. ModeChanged(c, m, s) = orders \o news
  BY DEF ModeChanged
<1>2. /\ orders \in Seq(Orders) /\ orders \in Seq(Command)
      /\ Free(orders, ModeNews)
      /\ m.name # NONE => /\ LastIn(orders, Applies, {ApplyMode(m.name)})
                          /\ Free(orders, Applies \ {ApplyMode(m.name)})
  BY ModeCommandsSay
<1>3. /\ news \in Seq(Orders) /\ news \in Seq(Command)
      /\ Free(news, Applies) /\ LastIn(news, ModeNews, {BroadcastMode(m.name)})
  BY ModeNewsSay
<1>4. Free(news, Applies \ {ApplyMode(m.name)})
  BY <1>3 DEF Free
<1> HIDE DEF orders, news
<1>5. orders \o news \in Seq(Orders)
  BY <1>2, <1>3, Concat
<1>6. LastIn(orders \o news, ModeNews, {BroadcastMode(m.name)})
  BY <1>2, <1>3, LastAfter
<1>7. m.name # NONE => /\ LastIn(orders \o news, Applies, {ApplyMode(m.name)})
                       /\ Free(orders \o news, Applies \ {ApplyMode(m.name)})
  BY <1>2, <1>3, <1>4, LastBefore, FreeConcat
<1> QED
  BY <1>1, <1>5, <1>6, <1>7 DEF Carries

\* ... and by those that keep the kind of the mode and have nothing to announce.
LEMMA ModeCommandsCarry ==
  ASSUME NEW c \in Configs, NEW m \in Mode, NEW s, mode' = m,
         m.name \in config'.modes \/ m.name = mode.name \/ m.name = NONE,
         m.kind = mode.kind, mode.kind = "Manual" => m.name = mode.name
  PROVE  ModeCommands(c, m, s) \in Seq(Orders) /\ Carries(ModeCommands(c, m, s))
BY ModeCommandsSay DEF Carries

\* What an automatic choice may change.
LEMMA SelectAutoKeeps ==
  ASSUME NEW c \in Configs, NEW m \in Mode, NEW a, NEW l
  PROVE  LET n == SelectAuto(c, m, a, l)
         IN  /\ n \in Mode /\ n.kind = m.kind
             /\ m.kind = "Manual" => n = m
             /\ n.name \in c.modes \/ n.name = m.name \/ n.name = NONE
             /\ n # m => n.name # m.name
<1> DEFINE n == SelectAuto(c, m, a, l)
           name == AutoModeName(c, m, a, l)
<1>1. n \in Mode
  BY SelectAutoRight
<1>2. name \in c.modes \/ name = m.name \/ name = NONE
  BY ConfigValid DEF AutoModeName, Valid
<1>3. CASE m.kind = "Auto"
  <2>1. n = [kind |-> "Auto", name |-> name]
    BY <1>3 DEF SelectAuto, Mode
  <2>2. m = [kind |-> "Auto", name |-> m.name]
    BY <1>3 DEF Mode
  <2> QED
    BY <1>1, <1>2, <1>3, <2>1, <2>2
<1>4. CASE m.kind # "Auto"
  BY <1>1, <1>4 DEF SelectAuto
<1> QED
  BY <1>3, <1>4

LEMMA ReappliedCarries ==
  ASSUME Base, NEW n \in Mode, NEW s, mode' = n, config' = config,
         n.name \in config.modes \/ n.name = mode.name \/ n.name = NONE
  PROVE  Reapplied(mode, n, s) \in Seq(Orders) /\ Carries(Reapplied(mode, n, s))
<1>1. CASE n = mode
  <2>1. Reapplied(mode, n, s) = <<>>
    BY <1>1 DEF Reapplied
  <2>2. <<>> \in Seq(Unmoded) /\ <<>> \in Seq(Orders)
    BY EmptyTyped
  <2> QED
    BY <1>1, <2>1, <2>2, CarriesNothing
<1>2. CASE n # mode
  <2>1. Reapplied(mode, n, s) = ModeChanged(config, n, s)
    BY <1>2 DEF Reapplied
  <2> QED
    BY <2>1, ModeChangedCarries DEF Base
<1> QED
  BY <1>1, <1>2

-----------------------------------------------------------------------------
(* The forms that what a handler adds can take.                            *)

\* The kinds that are not about the mode.
Others == {StateNews, Alarms, Switches(Grace), Switches(AwakeWindow), Panels, Dims,
           Reloads}

LEMMA OthersKnown ==
  /\ StateNews \in Others /\ Alarms \in Others /\ Switches(Grace) \in Others
  /\ Switches(AwakeWindow) \in Others /\ Panels \in Others /\ Dims \in Others
  /\ Reloads \in Others
BY DEF Others

LEMMA OrdersFree ==
  ASSUME NEW s \in Seq(Orders), NEW K \in Others
  PROVE  Free(s, K) /\ s \in Seq(Command)
<1>1. Orders \cap K = {} /\ Orders \subseteq Command
  BY KindsApart, KindsTyped, KindsKnown DEF Others, Orders, Neutral
<1> QED
  BY <1>1, FreeIn, More

LEMMA NeutralOrders == \A s \in Seq(Neutral) : s \in Seq(Orders) /\ s \in Seq(Command)
BY More, KindsTyped DEF Orders

LEMMA Middle ==
  ASSUME NEW pre \in Seq(Command), NEW core \in Seq(Command), NEW post \in Seq(Command)
  PROVE  /\ (pre \o core) \o post \in Seq(Command)
         /\ \A K, G : LastIn(core, K, G) /\ Free(post, K) => LastIn((pre \o core) \o post, K, G)
         /\ \A K : Free(pre, K) /\ Free(core, K) /\ Free(post, K) => Free((pre \o core) \o post, K)
<1>1. pre \o core \in Seq(Command)
  BY Concat
<1>2. (pre \o core) \o post \in Seq(Command)
  BY <1>1, Concat
<1>3. ASSUME NEW K, NEW G, LastIn(core, K, G), Free(post, K)
      PROVE  LastIn((pre \o core) \o post, K, G)
  <2>1. LastIn(pre \o core, K, G)
    BY <1>3, LastAfter
  <2> QED
    BY <1>1, <1>3, <2>1, LastBefore
<1>4. ASSUME NEW K, Free(pre, K), Free(core, K), Free(post, K)
      PROVE  Free((pre \o core) \o post, K)
  <2>1. Free(pre \o core, K)
    BY <1>4, FreeConcat
  <2> QED
    BY <1>1, <1>4, <2>1, FreeConcat
<1> QED
  BY <1>2, <1>3, <1>4

\* One command among others that no invariant speaks of.
LEMMA OneCommand ==
  ASSUME NEW pre \in Seq(Orders), NEW c \in Command, NEW post \in Seq(Orders)
  PROVE  /\ (pre \o <<c>>) \o post \in Seq(Command)
         /\ \A K \in Others : LastIn((pre \o <<c>>) \o post, K, {c})
         /\ \A K \in Others : c \notin K => Free((pre \o <<c>>) \o post, K)
<1>1. <<c>> \in Seq(Command) /\ <<c>> \in Seq({c})
  OBVIOUS
<1>2. pre \in Seq(Command) /\ post \in Seq(Command)
  BY More, KindsTyped
<1>3. ASSUME NEW K \in Others PROVE LastIn((pre \o <<c>>) \o post, K, {c})
  BY <1>1, <1>2, LastSingle, OrdersFree, Middle
<1>4. ASSUME NEW K \in Others, c \notin K PROVE Free((pre \o <<c>>) \o post, K)
  <2>1. {c} \cap K = {}
    BY <1>4
  <2>2. Free(<<c>>, K)
    BY <1>1, <2>1, FreeIn
  <2> QED
    BY <1>1, <1>2, <2>2, OrdersFree, Middle
<1>5. (pre \o <<c>>) \o post \in Seq(Command)
  BY <1>1, <1>2, Middle
<1> QED
  BY <1>3, <1>4, <1>5

\* No command that any invariant speaks of, but those about the mode.
LEMMA SoundFree ==
  ASSUME NEW old, NEW body \in Seq(Orders), Carries(body),
         state' \in PastGrace \/ state \notin PastGrace,
         state' \in {"Grace", "Checking", "Armed"} => state' = state /\ state \in old,
         state' = "Suspending" =>
            \/ Has(body, "Suspend") \/ suspendFrom' = "Suspending"
            \/ state = "Suspending" /\ state \in old /\ suspendFrom' = suspendFrom,
         Back' \in LitStates => Back \in LitStates,
         Back' \in BrightStates => Back \in BrightStates
  PROVE  Sound(body, old)
<1>1. body \in Seq(Command) /\ \A K \in Others : Free(body, K)
  BY OrdersFree, More, KindsTyped
<1>2. Clears(body)
  BY <1>1, OthersKnown DEF Clears
<1>3. Times(body, old)
  BY <1>1, OthersKnown DEF Times
<1>4. Lights(body)
  BY <1>1, OthersKnown DEF Lights
<1> QED
  BY <1>1, <1>2, <1>3, <1>4, OthersKnown DEF Sound

LEMMA SoundStill ==
  ASSUME NEW old, NEW body \in Seq(Orders), Carries(body), state \in old,
         state' = state, suspendFrom' = suspendFrom
  PROVE  Sound(body, old)
<1>1. Back' = Back
  BY DEF Back
<1> QED
  BY <1>1, SoundFree

LEMMA SoundQuiet ==
  ASSUME NEW old, NEW body \in Seq(Neutral), state \in old, state' = state,
         suspendFrom' = suspendFrom, mode' = mode, config' = config
  PROVE  Sound(body, old)
<1>1. Carries(body) /\ body \in Seq(Orders)
  BY NeutralUnmoded, NeutralOrders, CarriesNothing
<1> QED
  BY <1>1, SoundStill

LEMMA KindsUnmoded ==
  /\ Alarms \subseteq Unmoded /\ Switches(Grace) \subseteq Unmoded
  /\ Switches(AwakeWindow) \subseteq Unmoded /\ Panels \subseteq Unmoded
  /\ Dims \subseteq Unmoded /\ Neutral \subseteq Unmoded
BY KindsApart, KindsTyped, KindsKnown DEF Unmoded, Neutral

\* Awake, it dims and darkens.
LEMMA SoundDims ==
  ASSUME NEW old, NEW body \in Seq(Neutral \cup Dims), state = "Active",
         state' = "Dimmed", mode' = mode, config' = config
  PROVE  Sound(body, old)
<1> DEFINE T == Neutral \cup Dims
<1>1. /\ T \cap StateNews = {} /\ T \cap Reloads = {} /\ T \cap Alarms = {}
      /\ T \cap Panels = {}
  BY KindsApart, KindsKnown DEF Neutral
<1>2. /\ Free(body, StateNews) /\ Free(body, Reloads) /\ Free(body, Alarms)
      /\ Free(body, Panels)
  BY <1>1, FreeIn
<1>3. T \subseteq Command /\ T \subseteq Unmoded
  BY KindsTyped, KindsUnmoded
<1>4. Carries(body) /\ body \in Seq(Command)
  BY <1>3, More, CarriesNothing
<1>5. Clears(body) /\ Times(body, old)
  BY <1>2 DEF Clears, Times, PastGrace, Phases
<1>6. Lights(body)
  BY <1>2 DEF Lights, Back, LitStates, BrightStates
<1> QED
  BY <1>2, <1>4, <1>5, <1>6 DEF Sound

LEMMA SoundDarkens ==
  ASSUME NEW old, NEW body \in Seq(Neutral \cup Panels), state \in {"Active", "Dimmed"},
         state' = "ScreenOff", mode' = mode, config' = config
  PROVE  Sound(body, old)
<1> DEFINE T == Neutral \cup Panels
<1>1. T \cap StateNews = {} /\ T \cap Reloads = {} /\ T \cap Alarms = {}
  BY KindsApart, KindsKnown DEF Neutral
<1>2. Free(body, StateNews) /\ Free(body, Reloads) /\ Free(body, Alarms)
  BY <1>1, FreeIn
<1>3. T \subseteq Command /\ T \subseteq Unmoded
  BY KindsTyped, KindsUnmoded
<1>4. Carries(body) /\ body \in Seq(Command)
  BY <1>3, More, CarriesNothing
<1>5. Clears(body) /\ Times(body, old)
  BY <1>2 DEF Clears, Times, PastGrace, Phases
<1>6. Lights(body)
  BY <1>2 DEF Lights, Back, LitStates, BrightStates
<1> QED
  BY <1>2, <1>4, <1>5, <1>6 DEF Sound

LEMMA PairAt ==
  ASSUME NEW a, NEW b
  PROVE  /\ 1 \in 1..Len(<<a, b>>) /\ <<a, b>>[1] = a
         /\ 2 \in 1..Len(<<a, b>>) /\ <<a, b>>[2] = b
         /\ \A j \in 1..Len(<<a, b>>) : j > 1 => j = 2
         /\ \A j \in 1..Len(<<a, b>>) : ~(j > 2)
OBVIOUS

LEMMA LitPair ==
  LET lit == <<Do("Undim"), Screen(TRUE)>> IN
  /\ lit \in Seq(Command) /\ lit \in Seq(Unmoded)
  /\ LastIn(lit, Dims, {Do("Undim")}) /\ LastIn(lit, Panels, {Screen(TRUE)})
  /\ Free(lit, StateNews) /\ Free(lit, Reloads) /\ Free(lit, Alarms)
<1> DEFINE lit == <<Do("Undim"), Screen(TRUE)>>
           D == {Do("Undim"), Screen(TRUE)}
<1>1. Do("Undim") \in Dims /\ Screen(TRUE) \in Panels
  BY DEF Dims, Panels
<1>2. D \subseteq Dims \cup Panels
  BY <1>1
<1>3. /\ D \cap StateNews = {} /\ D \cap Reloads = {} /\ D \cap Alarms = {}
      /\ Screen(TRUE) \notin Dims
  BY <1>1, KindsApart
<1>4. D \subseteq Command /\ D \subseteq Unmoded
  BY <1>2, KindsTyped, KindsUnmoded
<1>5. lit \in Seq(D)
  BY Pair
<1>6. /\ 1 \in 1..Len(lit) /\ lit[1] = Do("Undim")
      /\ 2 \in 1..Len(lit) /\ lit[2] = Screen(TRUE)
      /\ \A j \in 1..Len(lit) : j > 1 => j = 2
      /\ \A j \in 1..Len(lit) : ~(j > 2)
  BY PairAt
<1> HIDE DEF lit, D
<1>7. LastIn(lit, Dims, {Do("Undim")})
  BY <1>3, <1>6 DEF LastIn
<1>8. LastIn(lit, Panels, {Screen(TRUE)})
  BY <1>6 DEF LastIn
<1>9. Free(lit, StateNews) /\ Free(lit, Reloads) /\ Free(lit, Alarms)
  BY <1>3, <1>5, FreeIn
<1>10. lit \in Seq(Command) /\ lit \in Seq(Unmoded)
  BY <1>4, <1>5, More
<1> QED
  BY <1>7, <1>8, <1>9, <1>10 DEF lit

\* Back to Active, with the panel lit, and past Grace with the alarm cleared.
LEMMA SoundLit ==
  ASSUME NEW old, NEW pre \in Seq(Command), NEW post \in Seq(Neutral),
         state' = "Active",
         LastIn(pre, Alarms, {Do("CancelWake")}) \/ (Free(pre, Alarms) /\ state \notin PastGrace),
         Free(pre, StateNews), Free(pre, Reloads),
         Carries((pre \o <<Do("Undim"), Screen(TRUE)>>) \o post)
  PROVE  Sound((pre \o <<Do("Undim"), Screen(TRUE)>>) \o post, old)
<1> DEFINE lit == <<Do("Undim"), Screen(TRUE)>>
           body == (pre \o lit) \o post
<1>1. /\ lit \in Seq(Command)
      /\ LastIn(lit, Dims, {Do("Undim")}) /\ LastIn(lit, Panels, {Screen(TRUE)})
      /\ Free(lit, StateNews) /\ Free(lit, Reloads) /\ Free(lit, Alarms)
  BY LitPair
<1>2. post \in Seq(Command) /\ \A K \in Kinds : Free(post, K)
  BY NeutralOrders, NeutralFree
<1> HIDE DEF lit
<1>3. /\ body \in Seq(Command)
      /\ LastIn(body, Dims, {Do("Undim")}) /\ LastIn(body, Panels, {Screen(TRUE)})
      /\ Free(body, StateNews) /\ Free(body, Reloads)
      /\ Free(pre, Alarms) => Free(body, Alarms)
  BY <1>1, <1>2, Middle, KindsKnown
<1>4. LastIn(pre, Alarms, {Do("CancelWake")}) => LastIn(body, Alarms, {Do("CancelWake")})
  <2>1. SUFFICES ASSUME LastIn(pre, Alarms, {Do("CancelWake")})
                 PROVE  LastIn(body, Alarms, {Do("CancelWake")})
    OBVIOUS
  <2>2. LastIn(pre \o lit, Alarms, {Do("CancelWake")})
    BY <1>1, <2>1, LastBefore
  <2>3. pre \o lit \in Seq(Command)
    BY <1>1, Concat
  <2> QED
    BY <1>2, <2>2, <2>3, LastBefore, KindsKnown
<1>5. Clears(body)
  BY <1>3, <1>4 DEF Clears
<1>6. Times(body, old)
  BY DEF Times
<1>7. Lights(body)
  BY <1>3 DEF Lights
<1>8. Carries(body)
  BY DEF lit
<1> QED
  BY <1>3, <1>5, <1>6, <1>7, <1>8 DEF Sound, lit

LEMMA SoundUndims ==
  ASSUME NEW old, NEW pre \in Seq(Neutral), NEW post \in Seq(Neutral),
         state = "Dimmed", state' = "Active", mode' = mode, config' = config
  PROVE  Sound((pre \o <<Do("Undim")>>) \o post, old)
<1> DEFINE body == (pre \o <<Do("Undim")>>) \o post
<1>1. Do("Undim") \in Dims /\ Do("Undim") \in Command /\ Do("Undim") \in Unmoded
  BY KindsTyped, KindsUnmoded DEF Dims
<1>2. /\ Do("Undim") \notin StateNews /\ Do("Undim") \notin Reloads
      /\ Do("Undim") \notin Alarms /\ Do("Undim") \notin Panels
  BY <1>1, KindsApart
<1>3. /\ body \in Seq(Command)
      /\ Free(body, StateNews) /\ Free(body, Reloads) /\ Free(body, Alarms)
      /\ Free(body, Panels) /\ LastIn(body, Dims, {Do("Undim")})
  BY <1>1, <1>2, NeutralOrders, OneCommand, OthersKnown
<1>4. Carries(body)
  <2>1. <<Do("Undim")>> \in Seq(Unmoded) /\ pre \in Seq(Unmoded) /\ post \in Seq(Unmoded)
    BY <1>1, NeutralUnmoded
  <2>2. body \in Seq(Unmoded)
    BY <2>1, Concat
  <2> QED
    BY <2>2, CarriesNothing
<1> HIDE DEF body
<1>5. Clears(body) /\ Times(body, old)
  BY <1>3 DEF Clears, Times, PastGrace, Phases
<1>6. Lights(body)
  BY <1>3 DEF Lights, Back, LitStates
<1> QED
  BY <1>3, <1>4, <1>5, <1>6 DEF Sound, body

-----------------------------------------------------------------------------
(* What the helpers of the handlers add.                                   *)

Shifts(s, t, u) == (s \o t) \o u = s \o (t \o u)

LEMMA ShiftsCommands ==
  \A s, t, u \in Seq(Command) : Shifts(s, t, u)
BY Assoc DEF Shifts

LEMMA ConcatCommands == \A s, t \in Seq(Command) : s \o t \in Seq(Command)
BY Concat

Does(out, old) == Acts(out, old) /\ Wakeful

LEMMA DoesBecome ==
  ASSUME NEW s \in States, state \in States, NEW intr, NEW cmds, NEW out \in Seq(Command),
         NEW body, NEW old, Become(s, intr, cmds), cmds = out \o body, Sound(body, old),
         \/ s \notin {"Sleeping", "LongSleeping", "Suspending"}
         \/ s = state /\ suspendFrom' = suspendFrom
  PROVE  Does(out, old)
<1>1. state' = s
  BY BecomeState
<1>2. Wakeful
  BY <1>1 DEF Wakeful, Dozes
<1> QED
  BY <1>2, BecomeActs DEF Does

LEMMA DoesAnswer ==
  ASSUME NEW out \in Seq(Command), NEW body \in Seq(Neutral), NEW old, state \in old,
         Answer(out \o body)
  PROVE  Does(out, old)
<1>1. /\ state' = state /\ suspendFrom' = suspendFrom /\ mode' = mode
      /\ config' = config
  BY DEF Answer, engineVars, sleepVars
<1>2. Sound(body, old)
  BY <1>1, SoundQuiet
<1>3. Wakeful
  BY <1>1 DEF Wakeful, Dozes
<1> QED
  BY <1>2, <1>3, AnswerActs DEF Does

LEMMA DoesSilent ==
  ASSUME NEW out \in Seq(Command), NEW old, state \in old, Answer(out)
  PROVE  Does(out, old)
<1>1. out = out \o <<>> /\ <<>> \in Seq(Neutral)
  BY EmptyConcat, EmptyTyped
<1> QED
  BY <1>1, DoesAnswer

LEMMA DoesStay ==
  ASSUME NEW intr, NEW cmds, NEW out \in Seq(Command), NEW body \in Seq(Neutral),
         NEW old, state \in States, state \in old, Become(state, intr, cmds),
         cmds = out \o body, suspendFrom' = suspendFrom, mode' = mode, config' = config
  PROVE  Does(out, old)
<1>1. state' = state
  BY BecomeState
<1>2. Sound(body, old)
  BY <1>1, SoundQuiet
<1> QED
  BY <1>2, DoesBecome

LEMMA CarriesAfter ==
  ASSUME NEW pre \in Seq(Unmoded), NEW mid \in Seq(Command), Carries(mid)
  PROVE  Carries(pre \o mid)
<1>1. <<>> \in Seq(Unmoded)
  BY EmptyTyped
<1>2. pre \in Seq(Command)
  BY UnmodedFree
<1>3. (pre \o mid) \o <<>> = pre \o mid
  BY <1>2, Concat, EmptyConcat
<1>4. Carries((pre \o mid) \o <<>>)
  BY <1>1, CarriesWrapped
<1> QED
  BY <1>3, <1>4

LEMMA CarriesBefore ==
  ASSUME NEW mid \in Seq(Command), NEW post \in Seq(Unmoded), Carries(mid)
  PROVE  Carries(mid \o post)
<1>1. <<>> \in Seq(Unmoded) /\ <<>> \o mid = mid
  BY EmptyTyped, EmptyConcat
<1> QED
  BY <1>1, CarriesWrapped

\* leave_cycle
Ahead == Neutral \cup Switches(Grace) \cup Switches(AwakeWindow)

LEMMA AheadKinds ==
  /\ Ahead \subseteq Command /\ Ahead \subseteq Unmoded
  /\ Ahead \cap StateNews = {} /\ Ahead \cap Reloads = {} /\ Ahead \cap Alarms = {}
BY KindsApart, KindsTyped, KindsUnmoded, KindsKnown DEF Ahead, Neutral

LEMMA CancelWakeAt ==
  /\ <<Do("CancelWake")>> \in Seq(Command) /\ <<Do("CancelWake")>> \in Seq(Unmoded)
  /\ LastIn(<<Do("CancelWake")>>, Alarms, {Do("CancelWake")})
  /\ Free(<<Do("CancelWake")>>, StateNews) /\ Free(<<Do("CancelWake")>>, Reloads)
<1>1. Do("CancelWake") \in Alarms
  BY DEF Alarms
<1>2. Do("CancelWake") \in Command /\ Do("CancelWake") \in Unmoded
  BY <1>1, KindsTyped, KindsUnmoded
<1>3. /\ {Do("CancelWake")} \cap StateNews = {} /\ {Do("CancelWake")} \cap Reloads = {}
  BY <1>1, KindsApart
<1>4. <<Do("CancelWake")>> \in Seq({Do("CancelWake")})
  BY Single
<1> QED
  BY <1>2, <1>3, <1>4, Single, FreeIn, LastSingle

LEMMA LeaveCarries ==
  ASSUME Base, NEW a, NEW news, mode' = SelectAuto(config, mode, a, low), config' = config,
         news = IF mode' = mode THEN <<>> ELSE <<BroadcastMode(mode'.name)>>
  PROVE  /\ ModeCommands(config, mode', "Active") \in Seq(Orders) /\ news \in Seq(Orders)
         /\ Carries(ModeCommands(config, mode', "Active") \o news)
<1> DEFINE m == SelectAuto(config, mode, a, low)
           orders == ModeCommands(config, m, "Active")
<1>0. config \in Configs /\ mode \in Mode
  BY DEF Base
<1>1. /\ m \in Mode /\ m.kind = mode.kind
      /\ mode.kind = "Manual" => m = mode
      /\ m.name \in config.modes \/ m.name = mode.name \/ m.name = NONE
  BY <1>0, SelectAutoKeeps
<1>2. mode' = m
  OBVIOUS
<1> HIDE DEF m
<1>3. orders \in Seq(Orders) /\ Carries(orders)
  BY <1>0, <1>1, <1>2, ModeCommandsCarry
<1>4. CASE m = mode
  <2>1. news = <<>>
    BY <1>2, <1>4
  <2>2. orders \o news = orders
    BY <1>3, <2>1, EmptyConcat
  <2> QED
    BY <1>2, <1>3, <2>1, <2>2, EmptyTyped
<1>5. CASE m # mode
  <2>1. news = <<BroadcastMode(m.name)>>
    BY <1>2, <1>5
  <2>2. orders \o news = ModeChanged(config, m, "Active")
    BY <2>1 DEF ModeChanged
  <2>3. Carries(ModeChanged(config, m, "Active"))
    BY <1>0, <1>1, <1>2, ModeChangedCarries
  <2>4. news \in Seq(Orders)
    BY <1>1, <2>1, ModeNewsSay
  <2> QED
    BY <1>2, <1>3, <2>2, <2>3, <2>4
<1> QED
  BY <1>4, <1>5

LEMMA SoundLeaves ==
  ASSUME Base, NEW a, NEW old, NEW pre \in Seq(Ahead), NEW orders, NEW news,
         NEW reply \in Seq(Neutral), state' = "Active", config' = config,
         mode' = SelectAuto(config, mode, a, low),
         orders = ModeCommands(config, mode', "Active"),
         news = IF mode' = mode THEN <<>> ELSE <<BroadcastMode(mode'.name)>>
  PROVE  Sound(((((pre \o <<Do("CancelWake")>>) \o orders) \o news)
                   \o <<Do("Undim"), Screen(TRUE)>>) \o reply, old)
<1> DEFINE first == <<Do("CancelWake")>>
           lit == <<Do("Undim"), Screen(TRUE)>>
           P == pre \o first
           B == (P \o orders) \o news
<1>1. /\ orders \in Seq(Orders) /\ news \in Seq(Orders)
      /\ Carries(orders \o news)
  BY LeaveCarries
<1>2. /\ first \in Seq(Command) /\ first \in Seq(Unmoded)
      /\ LastIn(first, Alarms, {Do("CancelWake")})
      /\ Free(first, StateNews) /\ Free(first, Reloads)
  BY CancelWakeAt
<1>3. lit \in Seq(Command) /\ lit \in Seq(Unmoded)
  BY LitPair
<1>4. /\ pre \in Seq(Command) /\ pre \in Seq(Unmoded)
      /\ Free(pre, StateNews) /\ Free(pre, Reloads)
  BY AheadKinds, More, FreeIn
<1>5. reply \in Seq(Unmoded) /\ reply \in Seq(Command)
  BY NeutralUnmoded, NeutralOrders
<1> HIDE DEF first, lit
<1>6. P \in Seq(Command) /\ P \in Seq(Unmoded)
  BY <1>2, <1>4, Concat
<1>7. /\ LastIn(P, Alarms, {Do("CancelWake")}) /\ Free(P, StateNews) /\ Free(P, Reloads)
  BY <1>2, <1>4, LastAfter, FreeConcat
<1>8. /\ orders \in Seq(Command) /\ news \in Seq(Command)
      /\ \A K \in Others : Free(orders, K) /\ Free(news, K)
  BY <1>1, OrdersFree, More, KindsTyped
<1> HIDE DEF P
<1>9. B \in Seq(Command) /\ P \o orders \in Seq(Command)
  BY <1>6, <1>8, Concat
<1>10. /\ LastIn(B, Alarms, {Do("CancelWake")})
       /\ Free(B, StateNews) /\ Free(B, Reloads)
  BY <1>6, <1>7, <1>8, <1>9, LastBefore, FreeConcat, OthersKnown
<1>11. Carries((B \o lit) \o reply)
  <2>1. Shifts(P, orders, news)
    BY <1>6, <1>8, ShiftsCommands
  <2>2. Shifts(B, lit, reply)
    <3> HIDE DEF B
    <3> QED
      BY <1>3, <1>5, <1>9, ShiftsCommands
  <2>3. lit \o reply \in Seq(Unmoded) /\ orders \o news \in Seq(Command)
    BY <1>3, <1>5, <1>8, Concat
  <2>4. Carries((P \o (orders \o news)) \o (lit \o reply))
    BY <1>1, <1>6, <2>3, CarriesWrapped
  <2> QED
    BY <2>1, <2>2, <2>4, Zenon DEF Shifts
<1> HIDE DEF B
<1>12. Sound((B \o lit) \o reply, old)
  BY <1>9, <1>10, <1>11, SoundLit DEF lit
<1> QED
  BY <1>12 DEF B, P, first, lit

\* What precedes the commands of a helper can be taken apart.
OnwardBy(o, a, b, c) == ((o \o a) \o b) \o c = o \o ((a \o b) \o c)

LEMMA Onward ==
  ASSUME NEW o \in Seq(Command), NEW a \in Seq(Command), NEW b \in Seq(Command),
         NEW c \in Seq(Command)
  PROVE  OnwardBy(o, a, b, c)
<1> DEFINE x == a \o b
<1>1. Shifts(o, a, b) /\ x \in Seq(Command)
  BY ShiftsCommands, ConcatCommands
<1> HIDE DEF x
<1>2. Shifts(o, x, c)
  BY <1>1, ShiftsCommands
<1> QED
  BY <1>1, <1>2, Zenon DEF x, Shifts, OnwardBy

LEMMA OnwardCommands ==
  \A o, a, b, c \in Seq(Command) :
     OnwardBy(o, a, b, c) /\ (a \o b) \o c \in Seq(Command)
<1> TAKE o, a, b, c \in Seq(Command)
<1>1. OnwardBy(o, a, b, c)
  BY Onward
<1>2. a \o b \in Seq(Command)
  BY ConcatCommands
<1>3. (a \o b) \o c \in Seq(Command)
  BY <1>2, ConcatCommands
<1> QED
  BY <1>1, <1>3

LEMMA OnwardLong ==
  ASSUME NEW o \in Seq(Command), NEW a \in Seq(Command), NEW b \in Seq(Command),
         NEW c \in Seq(Command), NEW d \in Seq(Command), NEW e \in Seq(Command),
         NEW f \in Seq(Command)
  PROVE  (((((o \o a) \o b) \o c) \o d) \o e) \o f
            = o \o (((((a \o b) \o c) \o d) \o e) \o f)
<1> DEFINE x == (a \o b) \o c
           y == (x \o d) \o e
<1>1. OnwardBy(o, a, b, c) /\ x \in Seq(Command)
  BY OnwardCommands
<1>2. OnwardBy(o, x, d, e) /\ y \in Seq(Command)
  <2> HIDE DEF x
  <2> QED
    BY <1>1, OnwardCommands
<1>3. Shifts(o, y, f)
  <2> HIDE DEF x, y
  <2> QED
    BY <1>2, ShiftsCommands
<1> QED
  BY <1>1, <1>2, <1>3, Zenon DEF OnwardBy, Shifts

LongBy(o, a, b, c, d, e, f) ==
    (((((o \o a) \o b) \o c) \o d) \o e) \o f = o \o (((((a \o b) \o c) \o d) \o e) \o f)

LEMMA LongCommands ==
  \A o, a, b, c, d, e, f \in Seq(Command) : LongBy(o, a, b, c, d, e, f)
BY OnwardLong DEF LongBy

LEMMA DoesLeave ==
  ASSUME Base, NEW a, NEW intr, NEW out \in Seq(Command), NEW pre \in Seq(Ahead),
         NEW cmds, NEW reply \in Seq(Neutral), NEW old, config' = config,
         LeaveCycle(a, intr, cmds, reply), cmds = out \o pre
  PROVE  Does(out, old)
<1> DEFINE m == SelectAuto(config, mode, a, low)
           first == <<Do("CancelWake")>>
           orders == ModeCommands(config, m, "Active")
           news == IF m = mode THEN <<>> ELSE <<BroadcastMode(m.name)>>
           lit == <<Do("Undim"), Screen(TRUE)>>
           body == ((((pre \o first) \o orders) \o news) \o lit) \o reply
           all == (((((out \o pre) \o first) \o orders) \o news) \o lit) \o reply
<1>1. mode' = m /\ Become("Active", intr, all) /\ state' = "Active"
  BY BecomeState DEF LeaveCycle
<1>2. orders \in Seq(Orders) /\ news \in Seq(Orders)
  BY <1>1, LeaveCarries
<1>3. /\ orders \in Seq(Command) /\ news \in Seq(Command)
  BY <1>2, More, KindsTyped
<1>4. first \in Seq(Command) /\ lit \in Seq(Command) /\ reply \in Seq(Command)
      /\ pre \in Seq(Command)
  BY CancelWakeAt, LitPair, NeutralOrders, AheadKinds, More
<1>5. Sound(body, old)
  BY <1>1, SoundLeaves
<1> HIDE DEF m, first, orders, news, lit
<1>6. all = out \o body
  <2>1. LongBy(out, pre, first, orders, news, lit, reply)
    BY <1>3, <1>4, LongCommands
  <2> QED
    BY <2>1 DEF LongBy
<1> HIDE DEF all, body
<1>7. "Active" \in States /\ state \in States
  BY DEF States, Awake, Base
<1> QED
  BY <1>1, <1>5, <1>6, <1>7, DoesBecome

LEMMA HookNeutral ==
  (IF config.hook THEN <<Do("RunHook")>> ELSE <<>>) \in Seq(Neutral)
<1>1. <<Do("RunHook")>> \in Seq(Neutral) /\ <<>> \in Seq(Neutral)
  BY DoNeutral, EmptyTyped
<1> QED
  BY <1>1

LEMMA DoesPowerIsBack ==
  ASSUME Base, NEW out \in Seq(Command), NEW pre \in Seq(Ahead), NEW cmds, NEW old,
         config' = config, PowerIsBack(cmds), cmds = out \o pre
  PROVE  Does(out, old)
<1> DEFINE hook == IF config.hook THEN <<Do("RunHook")>> ELSE <<>>
<1>1. LeaveCycle(TRUE, interrupted, cmds \o hook, <<>>)
  BY DEF PowerIsBack
<1>2. hook \in Seq(Ahead) /\ hook \in Seq(Command) /\ pre \in Seq(Command)
  <2>1. hook \in Seq(Neutral)
    BY HookNeutral
  <2> HIDE DEF hook
  <2>2. Neutral \subseteq Ahead
    BY DEF Ahead
  <2> QED
    BY <2>1, <2>2, AheadKinds, More, NeutralOrders
<1> HIDE DEF hook
<1>3. cmds \o hook = out \o (pre \o hook)
  BY <1>2, ShiftsCommands DEF Shifts
<1>4. pre \o hook \in Seq(Ahead) /\ <<>> \in Seq(Neutral)
  BY <1>2, Concat, EmptyTyped
<1> QED
  BY <1>1, <1>3, <1>4, DoesLeave

\* cycle_failure, in Armed
LEMMA WindowAt ==
  /\ StartTimer(AwakeWindow) \in Command /\ StartTimer(AwakeWindow) \in Unmoded
  /\ StartTimer(AwakeWindow) \in Switches(AwakeWindow)
  /\ StartTimer(AwakeWindow) \notin StateNews /\ StartTimer(AwakeWindow) \notin Reloads
  /\ StartTimer(AwakeWindow) \notin Alarms /\ StartTimer(AwakeWindow) \notin Panels
  /\ StartTimer(AwakeWindow) \notin Dims
<1>1. StartTimer(AwakeWindow) \in Switches(AwakeWindow)
  BY DEF Switches
<1> QED
  BY <1>1, KindsApart, KindsTyped, KindsUnmoded

LEMMA SoundWindow ==
  ASSUME NEW old, NEW pre \in Seq(Neutral), NEW post \in Seq(Neutral),
         state' \in {"Armed", "Checking"}, mode' = mode, config' = config
  PROVE  Sound((pre \o <<StartTimer(AwakeWindow)>>) \o post, old)
<1> DEFINE body == (pre \o <<StartTimer(AwakeWindow)>>) \o post
<1>1. /\ body \in Seq(Command) /\ Free(body, StateNews) /\ Free(body, Reloads)
      /\ LastIn(body, Switches(AwakeWindow), {StartTimer(AwakeWindow)})
  BY WindowAt, NeutralOrders, OneCommand, OthersKnown
<1>2. Carries(body)
  <2>1. <<StartTimer(AwakeWindow)>> \in Seq(Unmoded) /\ pre \in Seq(Unmoded)
        /\ post \in Seq(Unmoded)
    BY WindowAt, NeutralUnmoded, Single
  <2>2. body \in Seq(Unmoded)
    BY <2>1, Concat
  <2> QED
    BY <2>2, CarriesNothing
<1> HIDE DEF body
<1>3. Clears(body) /\ Times(body, old)
  BY <1>1 DEF Clears, Times, PastGrace, Phases
<1>4. Lights(body)
  BY DEF Lights, Back, LitStates, BrightStates
<1> QED
  BY <1>1, <1>2, <1>3, <1>4 DEF Sound, body

LEMMA DoesFailure ==
  ASSUME Base, NEW out \in Seq(Command), NEW pre \in Seq(Neutral), NEW cmds,
         NEW reply \in Seq(Neutral), NEW old, state = "Armed", config' = config,
         CycleFailure(cmds, reply), cmds = out \o pre
  PROVE  Does(out, old)
<1>1. CASE LeaveCycle(ac, interrupted, cmds, reply)
  <2>1. pre \in Seq(Ahead)
    BY More DEF Ahead
  <2> QED
    BY <1>1, <2>1, DoesLeave
<1>2. CASE /\ Become(state, interrupted, (cmds \o <<StartTimer(AwakeWindow)>>) \o reply)
           /\ mode' = mode
  <2> DEFINE body == (pre \o <<StartTimer(AwakeWindow)>>) \o reply
  <2>1. state' = "Armed"
    BY <1>2, BecomeState
  <2>2. Sound(body, old)
    BY <1>2, <2>1, SoundWindow
  <2>3. <<StartTimer(AwakeWindow)>> \in Seq(Command)
        /\ pre \in Seq(Command) /\ reply \in Seq(Command)
    BY WindowAt, Single, NeutralOrders
  <2>4. (cmds \o <<StartTimer(AwakeWindow)>>) \o reply = out \o body
    <3>1. OnwardBy(out, pre, <<StartTimer(AwakeWindow)>>, reply)
      BY <2>3, OnwardCommands
    <3> QED
      BY <3>1 DEF OnwardBy
  <2> HIDE DEF body
  <2> QED
    BY <1>2, <2>2, <2>4, DoesBecome DEF Base
<1> QED
  BY <1>1, <1>2 DEF CycleFailure
\* check_power
LEMMA DoesStayChecking ==
  ASSUME Base, NEW old, StayChecking, mode' = mode, config' = config
  PROVE  Does(<<>>, old)
<1> DEFINE act == IF config.criticalAction = "Hibernate" /\ hibernateAvailable
                  THEN Suspend("Hibernate", TRUE) ELSE Do("PowerOff")
           said == IF ~BatteryCritical THEN <<>> ELSE <<BroadcastCycle("critical"), act>>
           window == <<StartTimer(AwakeWindow)>>
           body == said \o window
<1>1. act \in Neutral /\ BroadcastCycle("critical") \in Neutral
  BY SuspendNeutral, DoNeutral, NewsNeutral
<1>2. said \in Seq(Neutral)
  <2> HIDE DEF act
  <2>1. <<BroadcastCycle("critical"), act>> \in Seq(Neutral) /\ <<>> \in Seq(Neutral)
    BY <1>1, Pair, EmptyTyped
  <2> QED
    BY <2>1, Zenon
<1>3. Become("Checking", interrupted, body) /\ state' = "Checking"
  BY BecomeState DEF StayChecking
<1> HIDE DEF said
<1>4. window \in Seq(Command) /\ said \in Seq(Command) /\ <<>> \in Seq(Neutral)
  BY <1>2, WindowAt, Single, NeutralOrders, EmptyTyped
<1>5. Sound(body \o <<>>, old)
  BY <1>2, <1>3, <1>4, SoundWindow
<1> HIDE DEF window
<1>6. body \in Seq(Command)
  BY <1>4, ConcatCommands
<1> HIDE DEF body
<1>7. body \o <<>> = body /\ <<>> \o body = body
  BY <1>6, EmptyConcat
<1>8. "Checking" \in States /\ state \in States /\ <<>> \in Seq(Command)
  BY EmptyTyped DEF Base, States, Phases
<1> QED
  BY <1>3, <1>5, <1>7, <1>8, DoesBecome

LEMMA DoesCheckPower ==
  ASSUME Base, NEW old, CheckPower, config' = config
  PROVE  Does(<<>>, old)
<1>1. CASE PowerIsBack(<<>>)
  <2>1. <<>> \in Seq(Command) /\ <<>> \in Seq(Ahead) /\ <<>> = <<>> \o <<>>
    BY EmptyTyped, EmptyConcat
  <2> QED
    BY <1>1, <2>1, DoesPowerIsBack
<1>2. CASE StayChecking /\ mode' = mode
  BY <1>2, DoesStayChecking
<1> QED
  BY <1>1, <1>2 DEF CheckPower

\* arm
LEMMA DoesArm ==
  ASSUME Base, NEW first, NEW old, Arm(first), mode' = mode, config' = config
  PROVE  Does(<<>>, old)
<1> DEFINE clear == IF first THEN <<ReplaceIdleStages(NONE)>> ELSE <<>>
           plan == <<Do("ScheduleWake")>>
           body == clear \o plan
<1>1. clear \in Seq(Neutral)
  <2>1. <<ReplaceIdleStages(NONE)>> \in Seq(Neutral) /\ <<>> \in Seq(Neutral)
    BY StagesNeutral, EmptyTyped
  <2> QED
    BY <2>1, Zenon
<1>2. Become("Armed", interrupted, body) /\ state' = "Armed"
  BY BecomeState DEF Arm
<1>3. /\ Do("ScheduleWake") \in Alarms /\ Do("ScheduleWake") \in Command
      /\ Do("ScheduleWake") \in Unmoded
      /\ Do("ScheduleWake") \notin StateNews /\ Do("ScheduleWake") \notin Reloads
  <2>1. Do("ScheduleWake") \in Alarms
    BY DEF Alarms
  <2> QED
    BY <2>1, KindsTyped, KindsUnmoded, KindsApart
<1> HIDE DEF clear
<1>4. /\ clear \in Seq(Command) /\ clear \in Seq(Unmoded)
      /\ Free(clear, StateNews) /\ Free(clear, Reloads)
  BY <1>1, NeutralOrders, NeutralUnmoded, NeutralFree, KindsKnown
<1>5. /\ plan \in Seq(Command) /\ plan \in Seq(Unmoded)
      /\ plan \in Seq({Do("ScheduleWake")})
  BY <1>3, Single
<1>6. Free(plan, StateNews) /\ Free(plan, Reloads)
  <2>1. {Do("ScheduleWake")} \cap StateNews = {} /\ {Do("ScheduleWake")} \cap Reloads = {}
    BY <1>3
  <2> QED
    BY <1>5, <2>1, FreeIn
<1>7. Has(plan, "ScheduleWake")
  <2>1. 1 \in 1..Len(plan) /\ plan[1].op = "ScheduleWake"
    BY DEF Do
  <2> QED
    BY <2>1 DEF Has
<1> HIDE DEF plan
<1>8. /\ body \in Seq(Command) /\ body \in Seq(Unmoded)
      /\ Free(body, StateNews) /\ Free(body, Reloads) /\ Has(body, "ScheduleWake")
  BY <1>4, <1>5, <1>6, <1>7, Concat, FreeConcat, HasConcat
<1> HIDE DEF body
<1>9. Carries(body)
  BY <1>8, CarriesNothing
<1>10. Clears(body) /\ Times(body, old) /\ Lights(body)
  BY <1>2, <1>8 DEF Clears, Times, PastGrace, Phases, Lights, Back, LitStates,
     BrightStates
<1>11. Sound(body, old)
  BY <1>8, <1>9, <1>10 DEF Sound
<1>12. <<>> \o body = body /\ <<>> \in Seq(Command)
  BY <1>8, EmptyConcat, EmptyTyped
<1> QED
  BY <1>2, <1>11, <1>12, DoesBecome DEF Base, States, Phases

\* enter_grace
LEMMA DoesEnterGrace ==
  ASSUME Base, NEW m, NEW pre \in Seq(Orders), NEW reply \in Seq(Neutral), NEW old,
         state \in Awake, config' = config, Carries(pre), EnterGrace(m, pre, reply)
  PROVE  Does(<<>>, old)
<1> DEFINE timer == <<StartTimer(Grace)>>
           body == ((pre \o CancelPending) \o timer) \o reply
<1>1. Become("Grace", FALSE, body) /\ state' = "Grace"
  BY BecomeState DEF EnterGrace
<1>2. /\ StartTimer(Grace) \in Switches(Grace) /\ StartTimer(Grace) \in Command
      /\ StartTimer(Grace) \in Unmoded
      /\ StartTimer(Grace) \notin StateNews /\ StartTimer(Grace) \notin Reloads
      /\ StartTimer(Grace) \notin Alarms /\ StartTimer(Grace) \notin Panels
      /\ StartTimer(Grace) \notin Dims
  <2>1. StartTimer(Grace) \in Switches(Grace)
    BY DEF Switches
  <2> QED
    BY <2>1, KindsApart, KindsTyped, KindsUnmoded
<1>3. CancelPending \in Seq(Neutral) /\ CancelPending \in Seq(Orders)
      /\ CancelPending \in Seq(Unmoded)
  BY RetryNeutral, NeutralOrders, NeutralUnmoded
<1>4. pre \o CancelPending \in Seq(Orders) /\ reply \in Seq(Orders)
  BY <1>3, Concat, NeutralOrders
<1>5. /\ body \in Seq(Command) /\ LastIn(body, Switches(Grace), {StartTimer(Grace)})
      /\ Free(body, StateNews) /\ Free(body, Reloads) /\ Free(body, Alarms)
      /\ Free(body, Panels) /\ Free(body, Dims)
  BY <1>2, <1>4, OneCommand, OthersKnown
<1>6. Carries(body)
  <2>1. pre \in Seq(Command) /\ pre \o CancelPending \in Seq(Command)
    BY <1>4, More, KindsTyped
  <2>2. Carries(pre \o CancelPending)
    BY <1>3, <2>1, CarriesBefore
  <2>3. timer \in Seq(Unmoded) /\ timer \in Seq(Command)
    BY <1>2, Single
  <2> HIDE DEF timer
  <2>4. Carries((pre \o CancelPending) \o timer)
        /\ (pre \o CancelPending) \o timer \in Seq(Command)
    BY <2>1, <2>2, <2>3, CarriesBefore, Concat
  <2>5. reply \in Seq(Unmoded)
    BY NeutralUnmoded
  <2> QED
    BY <2>4, <2>5, CarriesBefore
<1> HIDE DEF body, timer
<1>7. Clears(body) /\ Times(body, old)
  BY <1>1, <1>5 DEF Clears, Times, PastGrace, Phases, Awake
<1>8. Lights(body)
  <2>1. Back' = "Grace"
    BY <1>1 DEF Back
  <2>2. state \in LitStates \/ DarkEntry
    BY <1>1 DEF Awake, LitStates, BrightStates, DarkEntry
  <2>3. Back = state
    BY DEF Back, Awake
  <2> QED
    BY <1>1, <1>5, <2>1, <2>2, <2>3 DEF Lights, DarkEntry
<1>9. Sound(body, old)
  BY <1>5, <1>6, <1>7, <1>8 DEF Sound
<1>10. <<>> \o body = body /\ <<>> \in Seq(Command)
  BY <1>5, EmptyConcat, EmptyTyped
<1> QED
  BY <1>1, <1>9, <1>10, DoesBecome DEF Base, States, Phases, body, timer

\* request_sleep
LEMMA DoesGoToSleep ==
  ASSUME Base, NEW force \in BOOLEAN, NEW reply \in Seq(Neutral), NEW old, ~InCycle,
         GoToSleep(force, reply, <<>>), mode' = mode, config' = config
  PROVE  Does(<<>>, old)
<1> DEFINE order == <<Suspend("Configured", force)>>
           body == order \o reply
<1>1. state' = "Suspending" /\ suspendFrom' = state
  BY GoToSleepState
<1>2. order \in Seq(Neutral) /\ order \in Seq(Command) /\ reply \in Seq(Command)
  BY SuspendNeutral, NeutralOrders
<1>3. Has(order, "Suspend")
  <2>1. 1 \in 1..Len(order) /\ order[1].op = "Suspend"
    BY DEF Suspend
  <2> QED
    BY <2>1 DEF Has
<1>4. Become("Suspending", interrupted, (<<>> \o order) \o reply)
  BY DEF GoToSleep
<1> HIDE DEF order
<1>5. <<>> \o order = order
  BY <1>2, EmptyConcat
<1>6. body \in Seq(Neutral) /\ Has(body, "Suspend")
  BY <1>2, <1>3, Concat, HasConcat
<1> HIDE DEF body
<1>7. body \in Seq(Orders) /\ body \in Seq(Unmoded) /\ body \in Seq(Command)
  BY <1>6, NeutralOrders, NeutralUnmoded
<1>8. Carries(body)
  BY <1>7, CarriesNothing
<1>9. Back' = state /\ (state \in LitStates => Back = state)
  BY <1>1 DEF Back, LitStates
<1>10. BrightStates \subseteq LitStates
  BY DEF BrightStates, LitStates
<1>11. state' \notin {"Grace", "Checking", "Armed"} /\ state \notin PastGrace
  BY <1>1 DEF InCycle, Phases, PastGrace
<1>12. Sound(body, old)
  BY <1>6, <1>7, <1>8, <1>9, <1>10, <1>11, SoundFree
<1>13. <<>> \o body = body /\ <<>> \in Seq(Command)
  BY <1>7, EmptyConcat, EmptyTyped
<1>14. Become("Suspending", interrupted, body)
  BY <1>4, <1>5 DEF body
<1>15. Acts(<<>>, old)
  BY <1>12, <1>13, <1>14, BecomeActs DEF Base, States
<1>16. Wakeful
  BY <1>1 DEF Wakeful, Dozes
<1> QED
  BY <1>15, <1>16 DEF Does

LEMMA RetryCommands ==
  (IF config.sleepRetry THEN <<StartTimer(SleepRetry)>> ELSE <<>>) \in Seq(Neutral)
<1>1. <<StartTimer(SleepRetry)>> \in Seq(Neutral) /\ <<>> \in Seq(Neutral)
  BY RetryNeutral, EmptyTyped
<1> QED
  BY <1>1, Zenon

LEMMA DoesRequestSleep ==
  ASSUME Base, NEW pending, NEW old, state \in old, ~InCycle, RequestSleep(pending)
  PROVE  Does(<<>>, old)
<1>1. mode' = mode /\ config' = config
  BY DEF RequestSleep
<1>2. CASE GoToSleep(FALSE, <<>>, <<>>)
  BY <1>1, <1>2, EmptyTyped, DoesGoToSleep
<1>3. CASE ArmSleepRetry(state, pending, <<>>) /\ UNCHANGED suspendFrom
  <2>1. Become(state, interrupted,
               <<>> \o IF config.sleepRetry THEN <<StartTimer(SleepRetry)>> ELSE <<>>)
    BY <1>3 DEF ArmSleepRetry
  <2>2. <<>> \in Seq(Command)
    BY EmptyTyped
  <2> QED
    BY <1>1, <1>3, <2>1, <2>2, RetryCommands, DoesStay DEF Base
<1> QED
  BY <1>2, <1>3 DEF RequestSleep

\* A refused suspend goes back to where it came from.
LEMMA DoesGoBack ==
  ASSUME Good, NEW old, state = "Suspending", ArmSleepRetry(suspendFrom, pendingSleep, <<>>),
         mode' = mode, config' = config, suspendFrom' = suspendFrom
  PROVE  Does(<<>>, old)
<1> DEFINE body == IF config.sleepRetry THEN <<StartTimer(SleepRetry)>> ELSE <<>>
<1>1. /\ state' = suspendFrom /\ suspendFrom \notin Phases /\ suspendFrom \in States
      /\ state \in States
  BY ArmSleepRetryState, GoodBase DEF Good, CycleInv, NoRetryInCycle, Base
<1>2. Become(suspendFrom, interrupted, <<>> \o body)
  BY DEF ArmSleepRetry
<1>3. body \in Seq(Neutral)
  BY RetryCommands
<1> HIDE DEF body
<1>4. body \in Seq(Orders) /\ body \in Seq(Unmoded) /\ <<>> \in Seq(Command)
  BY <1>3, NeutralOrders, NeutralUnmoded, EmptyTyped
<1>5. Carries(body)
  BY <1>4, CarriesNothing
<1>6. Back = suspendFrom /\ (Back' = state' \/ state' = "Suspending")
  BY DEF Back
<1>7. Back' = suspendFrom
  BY <1>1 DEF Back
<1>8. state \notin PastGrace /\ state' \notin {"Grace", "Checking", "Armed"}
  BY <1>1 DEF PastGrace, Phases
<1>9. Sound(body, old)
  BY <1>1, <1>4, <1>5, <1>6, <1>7, <1>8, SoundFree
<1>10. Acts(<<>>, old)
  BY <1>1, <1>2, <1>4, <1>9, BecomeActs
<1>11. Wakeful
  BY <1>1 DEF Wakeful, Dozes, Phases
<1> QED
  BY <1>10, <1>11 DEF Does
-----------------------------------------------------------------------------
(* What each handler adds.                                                 *)

LEMMA DoesAlone ==
  ASSUME NEW s \in States, state \in States, NEW intr, NEW body, NEW old,
         Become(s, intr, body), Sound(body, old),
         \/ s \notin {"Sleeping", "LongSleeping", "Suspending"}
         \/ s = state /\ suspendFrom' = suspendFrom
  PROVE  Does(<<>>, old)
<1>1. body \in Seq(Command) /\ <<>> \in Seq(Command)
  BY EmptyTyped DEF Sound
<1>2. body = <<>> \o body
  BY <1>1, EmptyConcat
<1> QED
  BY <1>1, <1>2, DoesBecome

LEMMA DoesStayAlone ==
  ASSUME NEW intr, NEW body \in Seq(Orders), NEW old, state \in States, state \in old,
         Become(state, intr, body), Carries(body), suspendFrom' = suspendFrom
  PROVE  Does(<<>>, old)
<1>1. state' = state
  BY BecomeState
<1>2. Sound(body, old)
  BY <1>1, SoundStill
<1> QED
  BY <1>2, DoesAlone

LEMMA DoesQuiet ==
  ASSUME NEW intr, NEW body \in Seq(Neutral), NEW old, state \in States, state \in old,
         Become(state, intr, body), suspendFrom' = suspendFrom, mode' = mode,
         config' = config
  PROVE  Does(<<>>, old)
<1>1. Carries(body) /\ body \in Seq(Orders)
  BY NeutralUnmoded, NeutralOrders, CarriesNothing
<1> QED
  BY <1>1, DoesStayAlone

LEMMA DoesReply ==
  ASSUME NEW body \in Seq(Neutral), NEW old, state \in old, Answer(body)
  PROVE  Does(<<>>, old)
<1>1. body \in Seq(Command) /\ <<>> \in Seq(Command)
  BY NeutralOrders, EmptyTyped
<1>2. body = <<>> \o body
  BY <1>1, EmptyConcat
<1> QED
  BY <1>1, <1>2, DoesAnswer

LEMMA DimAt ==
  /\ Do("Dim") \in Dims /\ Screen(FALSE) \in Panels
  /\ <<Do("Dim")>> \in Seq(Neutral \cup Dims)
  /\ <<Screen(FALSE)>> \in Seq(Neutral \cup Panels)
  /\ \A c \in Clients : /\ <<Do("Dim"), Reply(c, TRUE)>> \in Seq(Neutral \cup Dims)
                        /\ <<Screen(FALSE), Reply(c, TRUE)>> \in Seq(Neutral \cup Panels)
<1>1. Do("Dim") \in Dims /\ Screen(FALSE) \in Panels
  BY DEF Dims, Panels
<1>2. \A c \in Clients : Reply(c, TRUE) \in Neutral
  BY ReplyNeutral
<1> QED
  BY <1>1, <1>2, Single, Pair

LEMMA DoesDim ==
  ASSUME Good, NEW old, NEW body \in Seq(Neutral \cup Dims), state = "Active",
         StepAside("Dimmed", body)
  PROVE  Does(<<>>, old)
<1>1. /\ Become("Dimmed", interrupted, body) /\ state' = "Dimmed"
      /\ mode' = mode /\ config' = config /\ state \in States /\ "Dimmed" \in States
  BY BecomeState, GoodBase DEF StepAside, Base, States, Awake
<1>2. Sound(body, old)
  BY <1>1, SoundDims
<1> QED
  BY <1>1, <1>2, DoesAlone

LEMMA DoesDarken ==
  ASSUME Good, NEW old, NEW body \in Seq(Neutral \cup Panels),
         state \in {"Active", "Dimmed"}, StepAside("ScreenOff", body)
  PROVE  Does(<<>>, old)
<1>1. /\ Become("ScreenOff", interrupted, body) /\ state' = "ScreenOff"
      /\ mode' = mode /\ config' = config /\ state \in States /\ "ScreenOff" \in States
  BY BecomeState, GoodBase DEF StepAside, Base, States, Awake
<1>2. Sound(body, old)
  BY <1>1, SoundDarkens
<1> QED
  BY <1>1, <1>2, DoesAlone

LEMMA DoesOnIdle ==
  ASSUME Good, NEW stage, NEW old, state \in old, OnIdle(stage)
  PROVE  Does(<<>>, old)
<1>1. CASE state \in Awake /\ RequestSleep(pendingSleep)
  <2>1. ~InCycle
    BY <1>1 DEF Awake, InCycle, Phases
  <2> QED
    BY <1>1, <2>1, GoodBase, DoesRequestSleep
<1>2. CASE state = "Active" /\ StepAside("Dimmed", <<Do("Dim")>>)
  BY <1>2, DimAt, DoesDim
<1>3. CASE state \in {"Active", "Dimmed"} /\ StepAside("ScreenOff", <<Screen(FALSE)>>)
  BY <1>3, DimAt, DoesDarken
<1>4. CASE Answer(<<>>)
  BY <1>4, EmptyTyped, DoesReply
<1> QED
  BY <1>1, <1>2, <1>3, <1>4 DEF OnIdle

LEMMA DoesLit ==
  ASSUME Good, NEW intr, NEW out \in Seq(Command), NEW pre \in Seq(Neutral), NEW cmds,
         NEW post \in Seq(Neutral), NEW old, state \notin Phases,
         Become("Active", intr, (cmds \o <<Do("Undim"), Screen(TRUE)>>) \o post),
         cmds = out \o pre, mode' = mode, config' = config
  PROVE  Does(out, old)
<1> DEFINE lit == <<Do("Undim"), Screen(TRUE)>>
           body == (pre \o lit) \o post
<1>1. state' = "Active" /\ state \in States /\ "Active" \in States
  BY BecomeState, GoodBase DEF Base, States, Awake
<1>2. lit \in Seq(Command) /\ lit \in Seq(Unmoded)
  BY LitPair
<1>3. /\ pre \in Seq(Command) /\ post \in Seq(Command)
      /\ pre \in Seq(Unmoded) /\ post \in Seq(Unmoded)
  BY NeutralOrders, NeutralUnmoded
<1>4. Free(pre, StateNews) /\ Free(pre, Reloads) /\ Free(pre, Alarms)
  BY NeutralFree, KindsKnown
<1>5. Carries(body)
  <2> HIDE DEF lit
  <2>1. body \in Seq(Unmoded)
    BY <1>2, <1>3, Concat
  <2> HIDE DEF body
  <2> QED
    BY <2>1, CarriesNothing
<1>6. state \notin PastGrace
  BY DEF PastGrace
<1>7. Sound(body, old)
  BY <1>1, <1>3, <1>4, <1>5, <1>6, SoundLit
<1> HIDE DEF lit
<1>8. (cmds \o lit) \o post = out \o body
  <2>1. OnwardBy(out, pre, lit, post)
    BY <1>2, <1>3, OnwardCommands
  <2> QED
    BY <2>1 DEF OnwardBy
<1> HIDE DEF body
<1> QED
  BY <1>1, <1>7, <1>8, DoesBecome DEF lit

LEMMA DoesOnActivity ==
  ASSUME Good, NEW out \in Seq(Command), NEW reply \in Seq(Neutral), NEW old,
         state \in old \/ state = "Suspending", OnActivity(out, reply)
  PROVE  Does(out, old)
<1> DEFINE cmds == out \o CancelPending
<1>1. config' = config /\ suspendFrom' = suspendFrom
  BY DEF OnActivity
<1>2. /\ CancelPending \in Seq(Neutral) /\ CancelPending \in Seq(Command)
      /\ reply \in Seq(Command)
  BY RetryNeutral, NeutralOrders
<1>3. Base /\ state \in States /\ "Active" \in States
  BY GoodBase DEF Base, States, Awake
<1>4. CASE /\ state = "Dimmed" /\ mode' = mode
           /\ Become("Active", interrupted, (cmds \o <<Do("Undim")>>) \o reply)
  <2> DEFINE body == (CancelPending \o <<Do("Undim")>>) \o reply
  <2>1. state' = "Active"
    BY <1>4, BecomeState
  <2>2. Sound(body, old)
    BY <1>1, <1>2, <1>4, <2>1, SoundUndims
  <2>3. <<Do("Undim")>> \in Seq(Command)
    <3>1. Do("Undim") \in Command
      BY KindsTyped DEF Dims
    <3> QED
      BY <3>1, Single
  <2>4. OnwardBy(out, CancelPending, <<Do("Undim")>>, reply)
    BY <1>2, <2>3, OnwardCommands
  <2>5. (cmds \o <<Do("Undim")>>) \o reply = out \o body
    BY <2>4 DEF OnwardBy
  <2> HIDE DEF body, cmds
  <2> QED
    BY <1>3, <1>4, <2>2, <2>5, DoesBecome
<1>5. CASE /\ state \in {"ScreenOff", "Suspending"} /\ mode' = mode
           /\ Become("Active", interrupted,
                     (cmds \o <<Do("Undim"), Screen(TRUE)>>) \o reply)
  <2>1. state \notin Phases
    BY <1>5 DEF Phases
  <2> QED
    BY <1>1, <1>2, <1>5, <2>1, DoesLit
<1>6. CASE state = "Armed" /\ CycleFailure(cmds, reply)
  BY <1>1, <1>2, <1>3, <1>6, DoesFailure
<1>7. CASE LeaveCycle(ac, TRUE, cmds \o <<CancelTimer(AwakeWindow)>>, reply)
  <2> DEFINE timer == <<CancelTimer(AwakeWindow)>>
  <2>1. timer \in Seq(Ahead) /\ CancelPending \in Seq(Ahead)
    <3>1. CancelTimer(AwakeWindow) \in Ahead
      BY DEF Ahead, Switches
    <3>2. Neutral \subseteq Ahead
      BY DEF Ahead
    <3> QED
      BY <1>2, <3>1, <3>2, Single, More
  <2> HIDE DEF timer
  <2>2. timer \in Seq(Command) /\ CancelPending \o timer \in Seq(Ahead)
    BY <2>1, AheadKinds, More, Concat
  <2>3. Shifts(out, CancelPending, timer)
    BY <1>2, <2>2, ShiftsCommands
  <2>4. cmds \o timer = out \o (CancelPending \o timer)
    BY <2>3 DEF Shifts
  <2> QED
    BY <1>1, <1>3, <1>7, <2>2, <2>4, DoesLeave DEF timer
<1>8. CASE /\ state \in {"Active", "Sleeping", "Grace", "LongSleeping"} /\ mode' = mode
           /\ Become(state, interrupted, cmds \o reply)
  <2>1. CancelPending \o reply \in Seq(Neutral)
    BY <1>2, Concat
  <2>2. Shifts(out, CancelPending, reply)
    BY <1>2, ShiftsCommands
  <2>3. cmds \o reply = out \o (CancelPending \o reply)
    BY <2>2 DEF Shifts
  <2> HIDE DEF cmds
  <2> QED
    BY <1>1, <1>3, <1>8, <2>1, <2>3, DoesStay
<1> QED
  BY <1>4, <1>5, <1>6, <1>7, <1>8 DEF OnActivity, cycleVars
LEMMA DoesOnSleepBlocked ==
  ASSUME Good, NEW blocked, NEW old, state \in old \/ state \in {"Suspending", "Armed"},
         OnSleepBlocked(blocked)
  PROVE  Does(<<>>, old)
<1>1. /\ config' = config /\ suspendFrom' = suspendFrom /\ Base /\ state \in States
      /\ <<>> \in Seq(Command) /\ <<>> \in Seq(Neutral) /\ <<>> = <<>> \o <<>>
  BY GoodBase, EmptyTyped, EmptyConcat DEF OnSleepBlocked, Base
<1>2. CASE /\ state = "Suspending" /\ mode' = mode
           /\ ArmSleepRetry(suspendFrom, pendingSleep, <<>>)
  BY <1>1, <1>2, DoesGoBack
<1>3. CASE state = "Armed" /\ CycleFailure(<<>>, <<>>)
  BY <1>1, <1>3, DoesFailure
<1>4. CASE /\ state \notin {"Suspending", "Armed"} /\ mode' = mode
           /\ Become(state, interrupted, <<>>)
  BY <1>1, <1>4, DoesQuiet
<1> QED
  BY <1>2, <1>3, <1>4 DEF OnSleepBlocked

LEMMA DoesOnSleepFailed ==
  ASSUME Good, NEW out \in Seq(Command), NEW old,
         state \in old \/ state \in {"Suspending", "Armed"}, OnSleepFailed(out)
  PROVE  Does(out, old)
<1>1. <<>> \in Seq(Neutral) /\ out = out \o <<>> /\ Base
  BY GoodBase, EmptyTyped, EmptyConcat
<1>2. CASE state = "Suspending" /\ OnActivity(out, <<>>)
  BY <1>1, <1>2, DoesOnActivity
<1>3. CASE state = "Armed" /\ CycleFailure(out, <<>>) /\ config' = config
  BY <1>1, <1>3, DoesFailure
<1>4. CASE state \notin {"Suspending", "Armed"} /\ Answer(out)
  BY <1>4, DoesSilent
<1> QED
  BY <1>2, <1>3, <1>4 DEF OnSleepFailed

\* A suspend that happens is what leads to sleep.
LEMMA ActsOnSuspending ==
  ASSUME Good, NEW old, OnSuspending
  PROVE  Acts(<<>>, old)
<1> DEFINE s == IF InCycle THEN "LongSleeping" ELSE "Sleeping"
<1>1. /\ state' = s /\ Become(s, interrupted, <<>>) /\ s \in States /\ state \in States
      /\ mode' = mode /\ config' = config
  BY BecomeState, GoodBase DEF OnSuspending, Base, States, Phases
<1>2. /\ <<>> \in Seq(Command) /\ <<>> \in Seq(Orders) /\ <<>> \in Seq(Unmoded)
      /\ <<>> = <<>> \o <<>>
  BY EmptyTyped, EmptyConcat
<1>3. Carries(<<>>)
  BY <1>1, <1>2, CarriesNothing
<1>4. state' \in PastGrace \/ state \notin PastGrace
  BY <1>1 DEF InCycle, PastGrace, Phases
<1>5. Back' \notin LitStates /\ Back' \notin BrightStates
  BY <1>1 DEF Back, LitStates, BrightStates
<1>6. state' \notin {"Grace", "Checking", "Armed", "Suspending"}
  BY <1>1
<1>7. Sound(<<>>, old)
  BY <1>2, <1>3, <1>4, <1>5, <1>6, SoundFree
<1> QED
  BY <1>1, <1>2, <1>7, BecomeActs

\* Out of the cycle, to a lit panel.
LEMMA SoundPanel ==
  ASSUME NEW old, NEW body \in Seq(Unmoded), state' = "Active", state \notin Phases,
         mode' = mode, config' = config,
         Free(body, StateNews), Free(body, Reloads), Free(body, Alarms),
         LastIn(body, Panels, {Screen(TRUE)}), LastIn(body, Dims, {Do("Undim")})
  PROVE  Sound(body, old)
<1>1. body \in Seq(Command) /\ Carries(body)
  BY UnmodedFree, CarriesNothing
<1>2. Clears(body)
  BY DEF Clears, PastGrace
<1>3. Times(body, old) /\ Lights(body)
  BY DEF Times, Lights
<1> QED
  BY <1>1, <1>2, <1>3 DEF Sound

LEMMA TripleAt ==
  ASSUME NEW a, NEW b, NEW c
  PROVE  /\ 1 \in 1..Len(<<a, b, c>>) /\ <<a, b, c>>[1] = a
         /\ 2 \in 1..Len(<<a, b, c>>) /\ <<a, b, c>>[2] = b
         /\ \A j \in 1..Len(<<a, b, c>>) : j = 1 \/ j = 2 \/ j = 3
         /\ <<a, b, c>>[3] = c /\ ~(1 > 1) /\ ~(1 > 2) /\ ~(2 > 2)
OBVIOUS

LEMMA LitTriple ==
  ASSUME NEW c \in Neutral
  PROVE  LET body == <<Do("Undim"), Screen(TRUE), c>> IN
         /\ body \in Seq(Unmoded) /\ body \in Seq(Command)
         /\ Free(body, StateNews) /\ Free(body, Reloads) /\ Free(body, Alarms)
         /\ LastIn(body, Panels, {Screen(TRUE)}) /\ LastIn(body, Dims, {Do("Undim")})
<1> DEFINE body == <<Do("Undim"), Screen(TRUE), c>>
           D == {Do("Undim"), Screen(TRUE), c}
<1>1. Do("Undim") \in Dims /\ Screen(TRUE) \in Panels
  BY DEF Dims, Panels
<1>2. /\ D \cap StateNews = {} /\ D \cap Reloads = {} /\ D \cap Alarms = {}
      /\ Screen(TRUE) \notin Dims /\ c \notin Dims /\ c \notin Panels
  BY <1>1, KindsApart, KindsKnown DEF Neutral
<1>3. D \subseteq Command /\ D \subseteq Unmoded
  BY <1>1, KindsTyped, KindsUnmoded
<1>4. body \in Seq(D)
  BY Triple
<1>5. /\ 1 \in 1..Len(body) /\ body[1] = Do("Undim")
      /\ 2 \in 1..Len(body) /\ body[2] = Screen(TRUE)
      /\ \A j \in 1..Len(body) : j = 1 \/ j = 2 \/ j = 3
      /\ body[3] = c /\ ~(1 > 1) /\ ~(1 > 2) /\ ~(2 > 2)
  BY TripleAt
<1> HIDE DEF body, D
<1>6. LastIn(body, Dims, {Do("Undim")})
  BY <1>2, <1>5 DEF LastIn
<1>7. LastIn(body, Panels, {Screen(TRUE)})
  BY <1>2, <1>5 DEF LastIn
<1>8. Free(body, StateNews) /\ Free(body, Reloads) /\ Free(body, Alarms)
  BY <1>2, <1>4, FreeIn
<1>9. body \in Seq(Command) /\ body \in Seq(Unmoded)
  BY <1>3, <1>4, More
<1> QED
  BY <1>6, <1>7, <1>8, <1>9 DEF body

LEMMA DoesOnResumed ==
  ASSUME Good, NEW byUser, NEW old, OnResumed(byUser)
  PROVE  Does(<<>>, old)
<1>1. /\ config' = config /\ Base /\ state \in States /\ "Active" \in States
      /\ <<>> \in Seq(Command) /\ <<>> \in Seq(Ahead) /\ <<>> = <<>> \o <<>>
      /\ <<>> \in Seq(Neutral)
  BY GoodBase, EmptyTyped, EmptyConcat DEF OnResumed, Base, States, Awake
<1>2. CASE LeaveCycle(ac, TRUE, <<>>, <<>>)
  BY <1>1, <1>2, DoesLeave
<1>3. CASE CheckPower
  BY <1>1, <1>3, DoesCheckPower
<1>4. CASE /\ ~InCycle /\ mode' = mode
           /\ Become("Active", interrupted,
                     <<Do("Undim"), Screen(TRUE),
                       ReplaceIdleStages(StagesOf(config, mode))>>)
  <2> DEFINE c == ReplaceIdleStages(StagesOf(config, mode))
             body == <<Do("Undim"), Screen(TRUE), c>>
  <2>1. c \in Neutral
    <3>1. StagesOf(config, mode) \in Modes \cup {NONE}
      BY <1>1, ConfigValid DEF Base, StagesOf, Config
    <3> QED
      BY <3>1, StagesNeutral
  <2> HIDE DEF c
  <2>2. state' = "Active" /\ state \notin Phases
    BY <1>4, BecomeState DEF InCycle
  <2>3. /\ body \in Seq(Unmoded)
        /\ Free(body, StateNews) /\ Free(body, Reloads) /\ Free(body, Alarms)
        /\ LastIn(body, Panels, {Screen(TRUE)}) /\ LastIn(body, Dims, {Do("Undim")})
    BY <2>1, LitTriple
  <2> HIDE DEF body
  <2>4. Sound(body, old)
    BY <1>1, <1>4, <2>2, <2>3, SoundPanel
  <2>5. Become("Active", interrupted, body)
    BY <1>4 DEF body, c
  <2> QED
    BY <1>1, <2>4, <2>5, DoesAlone
<1> QED
  BY <1>2, <1>3, <1>4 DEF OnResumed

LEMMA DoesOnAwakeWindow ==
  ASSUME Good, NEW old, state \in old \/ state \in {"Armed", "Checking"}, OnAwakeWindow
  PROVE  Does(<<>>, old)
<1>1. /\ config' = config /\ suspendFrom' = suspendFrom /\ Base /\ state \in States
      /\ <<>> \in Seq(Command) /\ <<>> \in Seq(Ahead) /\ <<>> = <<>> \o <<>>
      /\ <<>> \in Seq(Neutral)
  BY GoodBase, EmptyTyped, EmptyConcat DEF OnAwakeWindow, Base, sleepVars
<1>2. CASE PowerIsBack(<<>>)
  BY <1>1, <1>2, DoesPowerIsBack
<1>3. CASE Arm(FALSE) /\ mode' = mode
  BY <1>1, <1>3, DoesArm
<1>4. CASE CheckPower
  BY <1>1, <1>4, DoesCheckPower
<1>5. CASE /\ state \notin {"Armed", "Checking"} /\ mode' = mode
           /\ Become(state, interrupted, <<>>)
  BY <1>1, <1>5, DoesQuiet
<1> QED
  BY <1>2, <1>3, <1>4, <1>5 DEF OnAwakeWindow

LEMMA DoesOnTimer ==
  ASSUME Good, NEW t, NEW old, OnTimer(t),
         \/ state \in old
         \/ t = Grace /\ state = "Grace"
         \/ t = AwakeWindow /\ state \in {"Armed", "Checking"}
  PROVE  Does(<<>>, old)
<1>1. Base /\ state \in States /\ <<>> \in Seq(Neutral)
  BY GoodBase, EmptyTyped DEF Base
<1>2. t # Grace /\ t # AwakeWindow => state \in old
  OBVIOUS
<1>3. CASE t = SleepRetry /\ pendingSleep /\ RequestSleep(FALSE)
  <2>1. ~InCycle
    BY <1>3 DEF Good, CycleInv, NoRetryInCycle
  <2>2. state \in old
    BY <1>2, <1>3, TimersDiffer
  <2> QED
    BY <1>1, <1>3, <2>1, <2>2, DoesRequestSleep
<1>4. CASE t = SleepRetry /\ Answer(<<>>)
  BY <1>1, <1>2, <1>4, TimersDiffer, DoesReply
<1>5. CASE t.timer = "InhibitExpiry" /\ OnInhibitExpiry(t.id)
  <2>1. t # Grace /\ t # AwakeWindow
    BY <1>5 DEF Grace, AwakeWindow
  <2>2. /\ Become(state, interrupted, <<>>) /\ mode' = mode /\ config' = config
        /\ suspendFrom' = suspendFrom
    BY <1>5 DEF OnInhibitExpiry, sleepVars
  <2> QED
    BY <1>1, <1>2, <2>1, <2>2, DoesQuiet
<1>6. CASE t = Grace /\ state = "Grace" /\ Arm(TRUE) /\ mode' = mode /\ config' = config
  BY <1>1, <1>6, DoesArm
<1>7. CASE t = Grace /\ state # "Grace" /\ Answer(<<>>)
  <2>1. state \in old
    BY <1>7, TimersDiffer
  <2> QED
    BY <1>1, <1>7, <2>1, DoesReply
<1>8. CASE t = AwakeWindow /\ OnAwakeWindow
  <2>1. state \in old \/ state \in {"Armed", "Checking"}
    BY <1>8, TimersDiffer
  <2> QED
    BY <1>8, <2>1, DoesOnAwakeWindow
<1> QED
  BY <1>3, <1>4, <1>5, <1>6, <1>7, <1>8 DEF OnTimer

LEMMA DoesOnWakeScheduled ==
  ASSUME Good, NEW armed, NEW out \in Seq(Command), NEW old,
         state \in old \/ state = "Armed", OnWakeScheduled(armed, out)
  PROVE  Does(out, old)
<1>1. /\ Base /\ state \in States /\ <<>> \in Seq(Neutral) /\ <<>> \in Seq(Ahead)
      /\ out = out \o <<>>
  BY GoodBase, EmptyTyped, EmptyConcat DEF Base
<1>2. CASE state # "Armed" /\ Answer(out)
  BY <1>2, DoesSilent
<1>3. CASE state = "Armed" /\ config' = config /\ CycleFailure(out, <<>>)
  BY <1>1, <1>3, DoesFailure
<1>4. CASE config' = config /\ PowerIsBack(out)
  BY <1>1, <1>4, DoesPowerIsBack
<1>5. CASE /\ state = "Armed" /\ config' = config /\ mode' = mode
           /\ Become(state, interrupted, out \o <<Suspend("Configured", FALSE)>>)
  <2> DEFINE body == <<Suspend("Configured", FALSE)>>
  <2>1. state' = "Armed"
    BY <1>5, BecomeState
  <2>2. body \in Seq(Neutral)
    BY SuspendNeutral
  <2>3. Has(body, "Suspend")
    <3>1. 1 \in 1..Len(body) /\ body[1].op = "Suspend"
      BY DEF Suspend
    <3> QED
      BY <3>1 DEF Has
  <2> HIDE DEF body
  <2>4. /\ body \in Seq(Command) /\ body \in Seq(Unmoded)
        /\ Free(body, StateNews) /\ Free(body, Reloads)
    BY <2>2, NeutralOrders, NeutralUnmoded, NeutralFree, KindsKnown
  <2>5. Carries(body)
    BY <1>5, <2>4, CarriesNothing
  <2>6. Clears(body) /\ Times(body, old) /\ Lights(body)
    BY <2>1, <2>3 DEF Clears, Times, PastGrace, Phases, Lights, Back, LitStates,
       BrightStates
  <2>7. Sound(body, old)
    BY <2>4, <2>5, <2>6 DEF Sound
  <2> QED
    BY <1>1, <1>5, <2>7, DoesBecome DEF body
<1> QED
  BY <1>2, <1>3, <1>4, <1>5 DEF OnWakeScheduled
LEMMA DoesOnAcChanged ==
  ASSUME Good, NEW a \in BOOLEAN, NEW old, state \in old, OnAcChanged(a)
  PROVE  Does(<<>>, old)
<1> DEFINE said == <<BroadcastPower(a)>>
           m == SelectAuto(config, mode, a, low)
<1>1. /\ Base /\ state \in States /\ "Active" \in States /\ config \in Configs
      /\ mode \in Mode /\ <<>> \in Seq(Command) /\ <<>> \in Seq(Neutral)
  BY GoodBase, EmptyTyped DEF Base, States, Awake
<1>2. /\ m \in Mode
      /\ m.name \in config.modes \/ m.name = mode.name \/ m.name = NONE
  BY <1>1, SelectAutoKeeps
<1>3. said \in Seq(Neutral) /\ said \in Seq(Unmoded) /\ said \in Seq(Orders)
  <2>1. said \in Seq(Neutral)
    BY NewsNeutral, Single
  <2> HIDE DEF said
  <2> QED
    BY <2>1, NeutralUnmoded, NeutralOrders
<1>4. CASE Answer(<<>>)
  BY <1>1, <1>4, DoesReply
<1> HIDE DEF m, said
<1>5. ASSUME mode' = m, config' = config, NEW s
      PROVE  /\ Reapplied(mode, m, s) \in Seq(Orders) /\ Carries(Reapplied(mode, m, s))
             /\ Reapplied(mode, m, s) \in Seq(Command)
  <2>1. Reapplied(mode, m, s) \in Seq(Orders) /\ Carries(Reapplied(mode, m, s))
    BY <1>1, <1>2, <1>5, ReappliedCarries
  <2> QED
    BY <2>1, More, KindsTyped
<1>6. CASE /\ state = "Grace" /\ mode' = m /\ config' = config
           /\ Become("Active", interrupted,
                     (said \o <<CancelTimer(Grace)>>) \o Reapplied(mode, m, "Active"))
  <2> DEFINE timer == <<CancelTimer(Grace)>>
             pre == said \o timer
             body == pre \o Reapplied(mode, m, "Active")
  <2>1. state' = "Active"
    BY <1>6, BecomeState
  <2>2. /\ CancelTimer(Grace) \in Ahead
    BY DEF Ahead, Switches
  <2>3. Neutral \subseteq Ahead
    BY DEF Ahead
  <2>4. timer \in Seq(Ahead) /\ said \in Seq(Ahead)
    BY <1>3, <2>2, <2>3, Single, More
  <2> HIDE DEF timer
  <2>5. pre \in Seq(Ahead)
    BY <2>4, Concat
  <2> HIDE DEF pre
  <2>6. /\ pre \in Seq(Command) /\ pre \in Seq(Unmoded)
        /\ Free(pre, StateNews) /\ Free(pre, Reloads) /\ Free(pre, Alarms)
    BY <2>5, AheadKinds, More, FreeIn
  <2>7. Free(pre, Panels) /\ Free(pre, Dims)
    <3>1. Ahead \cap Panels = {} /\ Ahead \cap Dims = {}
      BY KindsApart, KindsKnown DEF Ahead, Neutral
    <3> QED
      BY <2>5, <3>1, FreeIn
  <2>8. /\ Reapplied(mode, m, "Active") \in Seq(Orders)
        /\ Reapplied(mode, m, "Active") \in Seq(Command)
        /\ Carries(Reapplied(mode, m, "Active"))
    BY <1>5, <1>6
  <2>9. \A K \in Others : Free(Reapplied(mode, m, "Active"), K)
    BY <2>8, OrdersFree
  <2>10. /\ body \in Seq(Command)
         /\ Free(body, StateNews) /\ Free(body, Reloads) /\ Free(body, Alarms)
         /\ Free(body, Panels) /\ Free(body, Dims)
    BY <2>6, <2>7, <2>8, <2>9, Concat, FreeConcat, OthersKnown
  <2>11. Carries(body)
    BY <2>6, <2>8, CarriesAfter
  <2> HIDE DEF body
  <2>12. Clears(body) /\ Times(body, old) /\ Lights(body)
    BY <1>6, <2>1, <2>10 DEF Clears, Times, PastGrace, Phases, Lights, Back,
       LitStates, BrightStates
  <2>13. Sound(body, old)
    BY <2>10, <2>11, <2>12 DEF Sound
  <2>14. Become("Active", interrupted, body)
    BY <1>6 DEF body, pre, timer
  <2> QED
    BY <1>1, <2>13, <2>14, DoesAlone
<1>7. CASE config' = config /\ PowerIsBack(said \o <<CancelTimer(AwakeWindow)>>)
  <2> DEFINE timer == <<CancelTimer(AwakeWindow)>>
             pre == said \o timer
  <2>1. /\ CancelTimer(AwakeWindow) \in Ahead
    BY DEF Ahead, Switches
  <2>2. Neutral \subseteq Ahead
    BY DEF Ahead
  <2>3. timer \in Seq(Ahead) /\ said \in Seq(Ahead)
    BY <1>3, <2>1, <2>2, Single, More
  <2> HIDE DEF timer
  <2>4. pre \in Seq(Ahead) /\ pre \in Seq(Command)
    BY <2>3, Concat, AheadKinds, More
  <2> HIDE DEF pre
  <2>5. pre = <<>> \o pre
    BY <2>4, EmptyConcat
  <2>6. PowerIsBack(pre)
    BY <1>7 DEF pre, timer
  <2> QED
    BY <1>1, <1>7, <2>4, <2>5, <2>6, DoesPowerIsBack
<1>8. CASE /\ state \in Awake /\ config' = config
           /\ EnterGrace(m, said \o Reapplied(mode, m, state), <<>>)
  <2>1. mode' = m
    BY <1>8 DEF EnterGrace
  <2> DEFINE r == Reapplied(mode, m, state)
  <2>2. r \in Seq(Orders) /\ Carries(r) /\ r \in Seq(Command)
    BY <1>5, <1>8, <2>1
  <2> HIDE DEF r
  <2>3. said \o r \in Seq(Orders) /\ Carries(said \o r)
    BY <1>3, <2>2, Concat, CarriesAfter
  <2> QED
    BY <1>1, <1>8, <2>3, DoesEnterGrace DEF r
<1>9. CASE /\ mode' = m /\ config' = config /\ suspendFrom' = suspendFrom
           /\ Become(state, interrupted, said \o Reapplied(mode, m, state))
  <2> DEFINE r == Reapplied(mode, m, state)
  <2>1. r \in Seq(Orders) /\ Carries(r) /\ r \in Seq(Command)
    BY <1>5, <1>9
  <2> HIDE DEF r
  <2>2. said \o r \in Seq(Orders) /\ Carries(said \o r)
    BY <1>3, <2>1, Concat, CarriesAfter
  <2>3. Become(state, interrupted, said \o r)
    BY <1>9 DEF r
  <2> QED
    BY <1>1, <1>9, <2>2, <2>3, DoesStayAlone
<1> QED
  BY <1>4, <1>6, <1>7, <1>8, <1>9 DEF OnAcChanged, said, m

LEMMA DoesOnBattery ==
  ASSUME Good, NEW percent, NEW old, state \in old, OnBattery(percent)
  PROVE  Does(<<>>, old)
<1> DEFINE m == SelectAuto(config, mode, ac, low')
           r == Reapplied(mode, mode', state)
<1>1. /\ Base /\ state \in States /\ config \in Configs /\ mode \in Mode
  BY GoodBase DEF Base
<1>2. /\ mode' = mode \/ mode' = m
      /\ config' = config /\ suspendFrom' = suspendFrom
      /\ Become(state, interrupted, r)
  BY DEF OnBattery, sleepVars
<1>3. /\ m \in Mode
      /\ m.name \in config.modes \/ m.name = mode.name \/ m.name = NONE
  BY <1>1, SelectAutoKeeps
<1>4. /\ mode' \in Mode
      /\ mode'.name \in config.modes \/ mode'.name = mode.name \/ mode'.name = NONE
  BY <1>1, <1>2, <1>3
<1>5. r \in Seq(Orders) /\ Carries(r)
  BY <1>1, <1>2, <1>4, ReappliedCarries
<1> QED
  BY <1>1, <1>2, <1>5, DoesStayAlone

LEMMA DoesOnSetMode ==
  ASSUME Good, NEW c \in Clients, NEW kind \in {"Auto", "Manual"}, NEW name,
         kind = "Manual" => name \in Modes, NEW old, state \in old,
         OnSetMode(c, kind, name)
  PROVE  Does(<<>>, old)
<1> DEFINE m == IF kind = "Auto"
                THEN [kind |-> "Auto", name |-> AutoModeName(config, mode, ac, low)]
                ELSE [kind |-> "Manual", name |-> name]
           reply == <<Reply(c, TRUE)>>
           changed == ModeChanged(config, m, state)
<1>1. /\ Base /\ state \in States /\ config \in Configs /\ mode \in Mode
  BY GoodBase DEF Base
<1>2. CASE Answer(<<Reply(c, FALSE)>>)
  BY <1>2, ReplyNeutral, DoesReply
<1>3. CASE /\ kind = "Auto" \/ name \in config.modes
           /\ mode' = m /\ config' = config /\ suspendFrom' = suspendFrom
           /\ Become(state, interrupted, changed \o reply)
  <2>1. m \in Mode
    BY <1>1, AutoModeNameRight DEF Mode
  <2>2. m.name \in config.modes \/ m.name = mode.name \/ m.name = NONE
    <3>1. CASE kind = "Auto"
      <4>1. m.name = AutoModeName(config, mode, ac, low)
        BY <3>1
      <4> QED
        BY <1>1, <4>1, ConfigValid DEF AutoModeName, Valid
    <3>2. CASE kind # "Auto"
      BY <1>3, <3>2
    <3> QED
      BY <3>1, <3>2
  <2>3. changed \in Seq(Orders) /\ Carries(changed)
    <3> HIDE DEF m
    <3> QED
      BY <1>1, <1>3, <2>1, <2>2, ModeChangedCarries
  <2>4. reply \in Seq(Unmoded) /\ reply \in Seq(Orders)
    BY ReplyNeutral, NeutralUnmoded, NeutralOrders
  <2> HIDE DEF changed, reply
  <2>5. changed \in Seq(Command)
    BY <2>3, More, KindsTyped
  <2>6. changed \o reply \in Seq(Orders) /\ Carries(changed \o reply)
    BY <2>3, <2>4, <2>5, Concat, CarriesBefore
  <2> QED
    BY <1>1, <1>3, <2>6, DoesStayAlone
<1> QED
  BY <1>2, <1>3 DEF OnSetMode, sleepVars

LEMMA DoesOnDim ==
  ASSUME Good, NEW c \in Clients, NEW old, state \in old, OnDim(c)
  PROVE  Does(<<>>, old)
<1>1. CASE state = "Active" /\ StepAside("Dimmed", <<Do("Dim"), Reply(c, TRUE)>>)
  BY <1>1, DimAt, DoesDim
<1>2. CASE Answer(<<Reply(c, TRUE)>>)
  BY <1>2, ReplyNeutral, DoesReply
<1> QED
  BY <1>1, <1>2 DEF OnDim

LEMMA DoesOnScreen ==
  ASSUME Good, NEW c \in Clients, NEW on, NEW old, state \in old, OnScreen(c, on)
  PROVE  Does(<<>>, old)
<1>1. CASE OnActivity(<<>>, <<Reply(c, TRUE)>>)
  BY <1>1, ReplyNeutral, EmptyTyped, DoesOnActivity
<1>2. CASE /\ state \in {"Active", "Dimmed"}
           /\ StepAside("ScreenOff", <<Screen(FALSE), Reply(c, TRUE)>>)
  BY <1>2, DimAt, DoesDarken
<1>3. CASE Answer(<<Reply(c, TRUE)>>)
  BY <1>3, ReplyNeutral, DoesReply
<1> QED
  BY <1>1, <1>2, <1>3 DEF OnScreen

LEMMA DoesOnSleep ==
  ASSUME Good, NEW c \in Clients, NEW force \in BOOLEAN, NEW old, state \in old,
         OnSleep(c, force)
  PROVE  Does(<<>>, old)
<1>1. CASE Answer(<<Reply(c, FALSE)>>)
  BY <1>1, ReplyNeutral, DoesReply
<1>2. CASE /\ ~SleepRefused(force) /\ mode' = mode /\ config' = config
           /\ GoToSleep(force, <<Reply(c, TRUE)>>, <<>>)
  BY <1>2, ReplyNeutral, GoodBase, DoesGoToSleep DEF SleepRefused
<1> QED
  BY <1>1, <1>2 DEF OnSleep

LEMMA DoesOnLongSleep ==
  ASSUME Good, NEW c \in Clients, NEW cancel, NEW old, state \in old,
         OnLongSleep(c, cancel)
  PROVE  Does(<<>>, old)
<1> DEFINE cancelTimer == IF state = "Grace" THEN <<CancelTimer(Grace)>>
                          ELSE IF state = "LongSleeping" THEN <<>>
                          ELSE <<CancelTimer(AwakeWindow)>>
<1>1. CASE Answer(<<Reply(c, FALSE)>>)
  BY <1>1, ReplyNeutral, DoesReply
<1>2. CASE config' = config /\ LeaveCycle(ac, FALSE, cancelTimer, <<Reply(c, TRUE)>>)
  <2>1. CancelTimer(Grace) \in Ahead /\ CancelTimer(AwakeWindow) \in Ahead
    BY DEF Ahead, Switches
  <2>2. /\ <<CancelTimer(Grace)>> \in Seq(Ahead) /\ <<>> \in Seq(Ahead)
        /\ <<CancelTimer(AwakeWindow)>> \in Seq(Ahead)
    BY <2>1, Single, EmptyTyped
  <2>3. cancelTimer \in Seq(Ahead)
    BY <2>2, Zenon
  <2> HIDE DEF cancelTimer
  <2>4. cancelTimer \in Seq(Command) /\ <<>> \in Seq(Command)
    BY <2>3, AheadKinds, More, EmptyTyped
  <2>5. cancelTimer = <<>> \o cancelTimer
    BY <2>4, EmptyConcat
  <2> QED
    BY <1>2, <2>3, <2>4, <2>5, ReplyNeutral, GoodBase, DoesLeave
<1>3. CASE state \in Awake /\ config' = config /\ EnterGrace(mode, <<>>, <<Reply(c, TRUE)>>)
  <2>1. mode' = mode
    BY <1>3 DEF EnterGrace
  <2>2. <<>> \in Seq(Orders) /\ <<>> \in Seq(Unmoded)
    BY EmptyTyped
  <2>3. Carries(<<>>)
    BY <1>3, <2>1, <2>2, CarriesNothing
  <2> QED
    BY <1>3, <2>2, <2>3, ReplyNeutral, GoodBase, DoesEnterGrace
<1> QED
  BY <1>1, <1>2, <1>3 DEF OnLongSleep

LEMMA DoesOnInhibit ==
  ASSUME Good, NEW c \in Clients, NEW what, NEW ttlZero, NEW old, state \in old,
         OnInhibit(c, what, ttlZero)
  PROVE  Does(<<>>, old)
<1>1. CASE Answer(<<Reply(c, FALSE)>>)
  BY <1>1, ReplyNeutral, DoesReply
<1>2. CASE /\ nextInhibitId <= MaxInhibits /\ mode' = mode /\ config' = config
           /\ suspendFrom' = suspendFrom
           /\ Become(state, interrupted,
                     <<StartTimer(InhibitExpiry(nextInhibitId)), Reply(c, TRUE)>>)
  <2>1. nextInhibitId \in 1..MaxInhibits
    BY <1>2, EngineAssumption DEF Good, OtherTypes
  <2>2. StartTimer(InhibitExpiry(nextInhibitId)) \in Neutral /\ Reply(c, TRUE) \in Neutral
    BY <2>1, ExpiryNeutral, ReplyNeutral
  <2>3. <<StartTimer(InhibitExpiry(nextInhibitId)), Reply(c, TRUE)>> \in Seq(Neutral)
    BY <2>2, Pair
  <2> QED
    BY <1>2, <2>3, GoodBase, DoesQuiet DEF Base
<1> QED
  BY <1>1, <1>2 DEF OnInhibit, sleepVars

LEMMA DoesOnUninhibit ==
  ASSUME Good, NEW c \in Clients, NEW n \in 1..MaxInhibits, NEW old, state \in old,
         OnUninhibit(c, n)
  PROVE  Does(<<>>, old)
<1>1. <<CancelTimer(InhibitExpiry(n)), Reply(c, TRUE)>> \in Seq(Neutral)
  BY ExpiryNeutral, ReplyNeutral, Pair
<1>2. CASE Answer(<<Reply(c, FALSE)>>)
  BY <1>2, ReplyNeutral, DoesReply
<1>3. CASE /\ mode' = mode /\ config' = config /\ suspendFrom' = suspendFrom
           /\ Become(state, interrupted,
                     <<CancelTimer(InhibitExpiry(n)), Reply(c, TRUE)>>)
  BY <1>1, <1>3, GoodBase, DoesQuiet DEF Base
<1> QED
  BY <1>2, <1>3 DEF OnUninhibit, sleepVars

\* A reload is asked for alone, and answered in its place.
AsksReload == \E c \in Clients \cup {NONE} : Answer(<<Reload(c)>>)

LEMMA DoesOnIpc ==
  ASSUME Good, NEW c \in Clients, NEW r \in Request, NEW old, state \in old, OnIpc(c, r)
  PROVE  Does(<<>>, old) \/ AsksReload
<1>1. /\ r.req = "Mode" => r.name \in Modes
      /\ r.req = "Sleep" => r.force \in BOOLEAN
      /\ r.req = "Uninhibit" => r.id \in 1..MaxInhibits
  BY DEF Request
<1>2. CASE Answer(<<Reply(c, TRUE)>>)
  BY <1>2, ReplyNeutral, DoesReply
<1>3. CASE Answer(<<Reload(c)>>)
  BY <1>3 DEF AsksReload
<1>4. CASE OnActivity(<<>>, <<Reply(c, TRUE)>>)
  BY <1>4, ReplyNeutral, EmptyTyped, DoesOnActivity
<1> QED
  BY <1>1, <1>2, <1>3, <1>4, DoesOnSetMode, DoesOnDim, DoesOnScreen, DoesOnSleep,
     DoesOnLongSleep, DoesOnInhibit, DoesOnUninhibit
  DEF OnIpc

LEMMA DoesOnShutdown ==
  ASSUME Good, NEW old, OnShutdown
  PROVE  Does(<<>>, old)
<1> DEFINE first == IF InCycle THEN <<Do("CancelWake")>> ELSE <<>>
           last == <<Do("Undim"), Screen(TRUE), Do("Shutdown")>>
           body == first \o last
<1>1. /\ Become("Active", interrupted, body) /\ state' = "Active"
      /\ mode' = mode /\ config' = config /\ state \in States /\ "Active" \in States
  BY BecomeState, GoodBase DEF OnShutdown, StepAside, Base, States, Awake
<1>2. /\ last \in Seq(Unmoded) /\ last \in Seq(Command)
      /\ Free(last, StateNews) /\ Free(last, Reloads) /\ Free(last, Alarms)
      /\ LastIn(last, Panels, {Screen(TRUE)}) /\ LastIn(last, Dims, {Do("Undim")})
  BY DoNeutral, LitTriple
<1>3. /\ first \in Seq(Unmoded) /\ first \in Seq(Command)
      /\ Free(first, StateNews) /\ Free(first, Reloads)
      /\ \/ LastIn(first, Alarms, {Do("CancelWake")})
         \/ Free(first, Alarms) /\ state \notin PastGrace
  <2>1. CASE InCycle
    <3>1. first = <<Do("CancelWake")>>
      BY <2>1
    <3> QED
      BY <3>1, CancelWakeAt
  <2>2. CASE ~InCycle
    <3>1. first = <<>> /\ state \notin PastGrace
      BY <2>2 DEF InCycle, PastGrace
    <3>2. <<>> \in Seq(Unmoded) /\ <<>> \in Seq(Command)
      BY EmptyTyped
    <3> QED
      BY <3>1, <3>2, FreeEmpty
  <2> QED
    BY <2>1, <2>2
<1> HIDE DEF first, last
<1>4. /\ body \in Seq(Unmoded) /\ body \in Seq(Command)
      /\ Free(body, StateNews) /\ Free(body, Reloads)
      /\ LastIn(body, Panels, {Screen(TRUE)}) /\ LastIn(body, Dims, {Do("Undim")})
      /\ \/ LastIn(body, Alarms, {Do("CancelWake")})
         \/ Free(body, Alarms) /\ state \notin PastGrace
  BY <1>2, <1>3, Concat, FreeConcat, LastAfter, LastBefore
<1> HIDE DEF body
<1>5. Carries(body)
  BY <1>1, <1>4, CarriesNothing
<1>6. Clears(body) /\ Times(body, old) /\ Lights(body)
  BY <1>1, <1>4 DEF Clears, Times, Lights
<1>7. Sound(body, old)
  BY <1>4, <1>5, <1>6 DEF Sound
<1> QED
  BY <1>1, <1>7, DoesAlone

\* The states in which an event may find what they wait for taken from them.
Spared(e) == IF e.event \in {"Suspending", "SleepBlocked", "SleepFailed"}
            THEN States \ {"Armed", "Suspending"} ELSE States

LEMMA DoesHandle ==
  ASSUME NEW e \in Event, e.event \notin {"Resumed", "Timer"}, Good, Handle(e)
  PROVE  \/ Acts(<<>>, Spared(e)) /\ (Wakeful \/ e.event = "Suspending")
         \/ AsksReload /\ e.event \in {"Ipc", "ReloadRequested"}
<1>1. /\ e.event = "AcChanged" => e.ac \in BOOLEAN
      /\ e.event = "Ipc" => e.client \in Clients /\ e.request \in Request
  BY DEF Event
<1>2. /\ Base /\ state \in States /\ <<>> \in Seq(Neutral) /\ <<>> \in Seq(Command)
  BY GoodBase, EmptyTyped DEF Base
<1>3. CASE e.event = "Suspending" /\ OnSuspending
  BY <1>3, ActsOnSuspending
<1>4. ASSUME e.event \in {"SleepBlocked", "SleepFailed"}
      PROVE  /\ Spared(e) = States \ {"Armed", "Suspending"}
             /\ state \in Spared(e) \/ state \in {"Suspending", "Armed"}
  BY <1>2, <1>4 DEF Spared
<1>5. CASE e.event = "SleepBlocked" /\ OnSleepBlocked(e.blocked)
  BY <1>4, <1>5, DoesOnSleepBlocked DEF Does
<1>6. CASE e.event = "SleepFailed" /\ OnSleepFailed(<<>>)
  BY <1>2, <1>4, <1>6, DoesOnSleepFailed DEF Does
<1>7. ASSUME e.event \notin {"Suspending", "SleepBlocked", "SleepFailed"}
      PROVE  state \in Spared(e)
  BY <1>2, <1>7 DEF Spared
<1>8. CASE e.event = "Idle" /\ OnIdle(e.stage)
  BY <1>7, <1>8, DoesOnIdle DEF Does
<1>9. CASE e.event = "Activity" /\ OnActivity(<<>>, <<>>)
  BY <1>2, <1>7, <1>9, DoesOnActivity DEF Does
<1>10. CASE e.event = "AcChanged" /\ OnAcChanged(e.ac)
  BY <1>1, <1>7, <1>10, DoesOnAcChanged DEF Does
<1>11. CASE e.event = "Battery" /\ OnBattery(e.percent)
  BY <1>7, <1>11, DoesOnBattery DEF Does
<1>12. CASE e.event = "Ipc" /\ OnIpc(e.client, e.request)
  BY <1>1, <1>7, <1>12, DoesOnIpc DEF Does
<1>13. CASE e.event = "Inhibitors" /\ OnInhibitors(e.blocked)
  <2>1. /\ Become(state, interrupted, <<>>) /\ mode' = mode /\ config' = config
        /\ suspendFrom' = suspendFrom
    BY <1>13 DEF OnInhibitors, sleepVars
  <2> QED
    BY <1>2, <1>7, <1>13, <2>1, DoesQuiet DEF Does
<1>14. CASE e.event = "ReloadRequested" /\ Answer(<<Reload(NONE)>>)
  BY <1>14 DEF AsksReload
<1>15. CASE e.event = "ShutdownRequested" /\ OnShutdown
  BY <1>15, DoesOnShutdown DEF Does
<1> QED
  BY <1>3, <1>5, <1>6, <1>8, <1>9, <1>10, <1>11, <1>12, <1>13, <1>14, <1>15 DEF Handle

LEMMA DoesSetConfig ==
  ASSUME Good, NEW c \in Configs, NEW client \in Clients \cup {NONE},
         NEW out \in Seq(Command), NEW old, state \in old, SetConfig(c, client, out)
  PROVE  Does(out, old)
<1> DEFINE m == SelectAuto(c, mode, ac, ComputeLow(c, battery, low))
           reply == IF client = NONE THEN <<>> ELSE <<Reply(client, TRUE)>>
           orders == ModeCommands(c, m, state)
           body == orders \o reply
<1>1. /\ Base /\ state \in States /\ mode \in Mode
  BY GoodBase DEF Base
<1>2. /\ mode' = m /\ config' = c /\ suspendFrom' = suspendFrom
      /\ Become(state, interrupted, (out \o orders) \o reply)
  BY DEF SetConfig, sleepVars
<1>3. reply \in Seq(Neutral)
  <2>1. <<>> \in Seq(Neutral)
    BY EmptyTyped
  <2>2. client # NONE => <<Reply(client, TRUE)>> \in Seq(Neutral)
    BY ReplyNeutral
  <2> QED
    BY <2>1, <2>2, Zenon
<1>4. /\ m \in Mode /\ m.kind = mode.kind
      /\ mode.kind = "Manual" => m.name = mode.name
      /\ m.name \in c.modes \/ m.name = mode.name \/ m.name = NONE
  BY <1>1, SelectAutoKeeps
<1> HIDE DEF m, reply
<1>5. orders \in Seq(Orders) /\ Carries(orders)
  BY <1>2, <1>4, ModeCommandsCarry
<1>6. /\ orders \in Seq(Command) /\ reply \in Seq(Command) /\ reply \in Seq(Orders)
      /\ reply \in Seq(Unmoded)
  BY <1>3, <1>5, More, KindsTyped, NeutralOrders, NeutralUnmoded
<1> HIDE DEF orders
<1>7. body \in Seq(Orders) /\ Carries(body)
  BY <1>5, <1>6, Concat, CarriesBefore
<1>8. Shifts(out, orders, reply)
  BY <1>6, ShiftsCommands
<1>9. (out \o orders) \o reply = out \o body
  BY <1>8 DEF Shifts
<1> HIDE DEF body
<1>10. state' = state
  BY <1>2, BecomeState
<1>11. Sound(body, old)
  BY <1>2, <1>7, <1>10, SoundStill
<1> QED
  BY <1>1, <1>2, <1>9, <1>11, DoesBecome
-----------------------------------------------------------------------------
(* What a step of the engine does to the queue.                            *)

\* A kind of commands a handler chooses, or a part of one.
Common(K) == \E L \in Kinds : L # StateNews /\ K \subseteq L

\* What is left of the queue is followed by what the handler adds.
Follows(out, body) ==
    /\ queue' \in Seq(Command)
    /\ \A K, G : Common(K) /\ LastIn(body, K, G) => LastIn(queue', K, G)
    /\ \A K, G : Common(K) /\ LastIn(out, K, G) /\ Free(body, K) => LastIn(queue', K, G)
    /\ \A K : Common(K) /\ Free(out, K) /\ Free(body, K) => Free(queue', K)
    /\ \A op : Has(out, op) \/ Has(body, op) => Has(queue', op)

\* A new state is announced, and nothing else is.
Announces(out) ==
    \/ LastIn(queue', StateNews, {BroadcastState(state, state')})
    \/ /\ state' = state
       /\ \A G : LastIn(out, StateNews, G) => LastIn(queue', StateNews, G)
       /\ Free(out, StateNews) => Free(queue', StateNews)

Goes(out, old) ==
    /\ \E body \in Seq(Command) :
          /\ Carries(body) /\ Clears(body) /\ Times(body, old) /\ Lights(body)
          /\ Follows(out, body)
    /\ Announces(out)
    /\ Free(out, Reloads) => Free(queue', Reloads) \/ Len(queue') = 1

LEMMA SubFree ==
  ASSUME NEW s, NEW K, NEW L, K \subseteq L, Free(s, L)
  PROVE  Free(s, K)
BY DEF Free

LEMMA CommonFree ==
  ASSUME NEW s \in Seq(Neutral), NEW K, Common(K)
  PROVE  Free(s, K)
<1>1. PICK L \in Kinds : K \subseteq L
  BY DEF Common
<1> QED
  BY <1>1, NeutralFree, SubFree

LEMMA AnnouncedSays ==
  ASSUME state \in States, state' \in States
  PROVE  /\ Announced \in Seq(Command)
         /\ \A K : Common(K) => Free(Announced, K)
         /\ Free(Announced, Reloads)
         /\ state' # state => LastIn(Announced, StateNews, {BroadcastState(state, state')})
         /\ state' = state => Announced = <<>>
<1> DEFINE news == BroadcastState(state, state')
<1>1. news \in StateNews /\ news \in Command
  BY DEF StateNews, BroadcastState, Command
<1>2. \A L \in Kinds : L # StateNews => news \notin L
  BY <1>1, KindsApart DEF Kinds
<1>3. <<news>> \in Seq(Command) /\ <<news>> \in Seq({news})
  BY <1>1, Single
<1>4. LastIn(<<news>>, StateNews, {news})
  BY LastSingle
<1> HIDE DEF news
<1>5. ASSUME NEW K, Common(K) PROVE Free(<<news>>, K)
  <2>1. {news} \cap K = {}
    BY <1>2, <1>5 DEF Common
  <2> QED
    BY <1>3, <2>1, FreeIn
<1>6. Common(Reloads)
  <2>1. Reloads # StateNews
    BY <1>1, KindsOps DEF news, BroadcastState
  <2> QED
    BY <2>1, KindsKnown DEF Common
<1>7. CASE state' = state
  <2>1. Announced = <<>>
    BY <1>7 DEF Announced
  <2> QED
    BY <1>7, <2>1, FreeEmpty, EmptyTyped
<1>8. CASE state' # state
  <2>1. Announced = <<news>>
    BY <1>8 DEF Announced, news
  <2> QED
    BY <1>3, <1>4, <1>5, <1>6, <1>8, <2>1 DEF news
<1> QED
  BY <1>7, <1>8

\* One after the other, two sequences of commands.
Joins(q, s, t) ==
    /\ q \in Seq(Command)
    /\ \A K, G : LastIn(t, K, G) => LastIn(q, K, G)
    /\ \A K, G : LastIn(s, K, G) /\ Free(t, K) => LastIn(q, K, G)
    /\ \A K : Free(s, K) /\ Free(t, K) => Free(q, K)
    /\ \A op : Has(s, op) \/ Has(t, op) => Has(q, op)

LEMMA JoinsConcat ==
  ASSUME NEW s \in Seq(Command), NEW t \in Seq(Command)
  PROVE  Joins(s \o t, s, t)
<1>1. s \o t \in Seq(Command)
  BY Concat
<1>2. ASSUME NEW K, NEW G, LastIn(t, K, G) PROVE LastIn(s \o t, K, G)
  BY <1>2, LastAfter
<1>3. ASSUME NEW K, NEW G, LastIn(s, K, G), Free(t, K) PROVE LastIn(s \o t, K, G)
  BY <1>3, LastBefore
<1>4. ASSUME NEW K, Free(s, K), Free(t, K) PROVE Free(s \o t, K)
  BY <1>4, FreeConcat
<1>5. ASSUME NEW op, Has(s, op) \/ Has(t, op) PROVE Has(s \o t, op)
  BY <1>5, HasConcat
<1> QED
  BY <1>1, <1>2, <1>3, <1>4, <1>5 DEF Joins

LEMMA ActsGoes ==
  ASSUME NEW out \in Seq(Command), NEW old, Acts(out, old), state \in States,
         state' \in States
  PROVE  Goes(out, old)
<1>1. PICK body \in Seq(Command), news \in Seq(Neutral) :
         Sound(body, old) /\ queue' = ((out \o body) \o Announced) \o news
  BY DEF Acts
<1> DEFINE s == out \o body
           t == s \o Announced
<1>2. /\ Announced \in Seq(Command)
      /\ \A K : Common(K) => Free(Announced, K)
      /\ Free(Announced, Reloads)
      /\ state' # state => LastIn(Announced, StateNews, {BroadcastState(state, state')})
      /\ state' = state => Announced = <<>>
  BY AnnouncedSays
<1>3. /\ news \in Seq(Command) /\ \A K : Common(K) => Free(news, K)
      /\ Free(news, StateNews) /\ Free(news, Reloads)
  BY CommonFree, NeutralFree, NeutralOrders, KindsKnown
<1>4. Joins(s, out, body)
  BY JoinsConcat
<1>5. s \in Seq(Command)
  BY <1>4 DEF Joins
<1> HIDE DEF s
<1>6. Joins(t, s, Announced)
  BY <1>2, <1>5, JoinsConcat
<1>7. t \in Seq(Command)
  BY <1>6 DEF Joins
<1> HIDE DEF t
<1>8. Joins(queue', t, news)
  <2>1. queue' = t \o news
    BY <1>1 DEF t, s
  <2> QED
    BY <1>3, <1>7, <2>1, JoinsConcat
<1>9. Free(body, StateNews) /\ Free(body, Reloads)
  BY <1>1 DEF Sound
<1>10. Follows(out, body)
  BY <1>2, <1>3, <1>4, <1>6, <1>8 DEF Joins, Follows
<1>11. Announces(out)
  <2>1. CASE state' # state
    BY <1>2, <1>3, <1>6, <1>8, <2>1 DEF Joins, Announces
  <2>2. CASE state' = state
    <3>1. t = s \o <<>> /\ t = s
      BY <1>2, <1>5, <2>2, EmptyConcat DEF t
    <3> QED
      BY <1>3, <1>4, <1>8, <1>9, <2>2, <3>1 DEF Joins, Announces
  <2> QED
    BY <2>1, <2>2
<1>12. Free(out, Reloads) => Free(queue', Reloads)
  BY <1>2, <1>3, <1>4, <1>6, <1>8, <1>9 DEF Joins
<1>13. Carries(body) /\ Clears(body) /\ Times(body, old) /\ Lights(body)
  BY <1>1 DEF Sound
<1> QED
  BY <1>10, <1>11, <1>12, <1>13 DEF Goes

\* A reload that is asked for is all there is to do.
LEMMA AsksReloadGoes ==
  ASSUME AsksReload, state \in States
  PROVE  Goes(<<>>, States) /\ UNCHANGED engineVars
<1>1. PICK c \in Clients \cup {NONE} : Answer(<<Reload(c)>>)
  BY DEF AsksReload
<1> DEFINE body == <<Reload(c)>>
<1>2. queue' = body /\ UNCHANGED engineVars
  BY <1>1 DEF Answer
<1>3. Reload(c) \in Reloads
  BY DEF Reloads, Reload
<1>4. /\ body \in Seq(Reloads) /\ body \in Seq(Command) /\ Len(body) = 1
  BY <1>3, Single, KindsTyped
<1> HIDE DEF body
<1>5. Reloads \subseteq Unmoded
  BY KindsApart, KindsTyped DEF Unmoded
<1>6. /\ Free(body, Alarms) /\ Free(body, Switches(Grace)) /\ Free(body, Panels)
      /\ Free(body, Switches(AwakeWindow)) /\ Free(body, Dims) /\ Free(body, StateNews)
  <2>1. /\ Reloads \cap Alarms = {} /\ Reloads \cap Switches(Grace) = {}
        /\ Reloads \cap Switches(AwakeWindow) = {} /\ Reloads \cap Panels = {}
        /\ Reloads \cap Dims = {} /\ Reloads \cap StateNews = {}
    BY KindsApart
  <2> QED
    BY <1>4, <2>1, FreeIn
<1>7. UNCHANGED <<config, state, mode, suspendFrom>>
  BY <1>2 DEF engineVars, sleepVars
<1>8. Carries(body)
  BY <1>4, <1>5, <1>7, More, CarriesNothing
<1>9. Clears(body) /\ Times(body, States)
  BY <1>6, <1>7 DEF Clears, Times
<1>10. Lights(body)
  BY <1>6, <1>7 DEF Lights, Back
<1>11. Follows(<<>>, body)
  <2>1. \A K, G : ~LastIn(<<>>, K, G)
    BY DEF LastIn
  <2>2. \A op : ~Has(<<>>, op)
    BY DEF Has
  <2> QED
    BY <1>2, <1>4, <2>1, <2>2 DEF Follows
<1>12. Announces(<<>>)
  <2>1. \A K, G : ~LastIn(<<>>, K, G)
    BY DEF LastIn
  <2> QED
    BY <1>2, <1>6, <1>7, <2>1 DEF Announces
<1> QED
  BY <1>2, <1>4, <1>8, <1>9, <1>10, <1>11, <1>12 DEF Goes
=============================================================================
