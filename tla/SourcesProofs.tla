--------------------------- MODULE SourcesProofs ---------------------------
(***************************************************************************)
(* Theorems about the sources of the events: the watcher of the power supply *)
(* (Supply), for any devices, intervals and capacities, the alarm (Rtc), for *)
(* any durations, the poll of IdleHint, for any timeouts, and the timers    *)
(* (Timers), for any number of them; then about what comes of them in a      *)
(* round of the server cycle (Round).  And about the list of what is         *)
(* degraded (Degraded), for files of any length.                            *)
(***************************************************************************)
EXTENDS Timers, Round, IdleHint, Degraded, Queues, SequenceTheorems, TLAPS

-----------------------------------------------------------------------------
(* The alarm.                                                              *)

\* The cut to a second that the attribute makes of a time.
LEMMA CutToSeconds ==
    ASSUME NEW at \in Nat, NEW now \in Nat, at >= now + MinHorizon
    PROVE  /\ EpochFor(at, now) \in Nat
           /\ Pending(EpochFor(at, now)) \in at - Grain + 1..at
<1>1. EpochFor(at, now) = at \div Grain
  BY RtcAssumption DEF EpochFor
<1>2. /\ at \div Grain \in Nat /\ Grain * (at \div Grain) <= at
      /\ at < Grain * (at \div Grain) + Grain
  BY RtcAssumption, Z3
<1>3. Pending(EpochFor(at, now)) = (at \div Grain) * Grain
  BY <1>1, <1>2, RtcAssumption DEF Pending
<1> QED BY <1>1, <1>2, <1>3, RtcAssumption, Z3

\* An alarm that set() says is armed is the one that was asked for, cut to a second.
THEOREM ArmedIsAsked ==
    ASSUME NEW file, NEW at \in Nat, NEW now \in Nat, NEW o \in SetOutcomes(file, at, now), o.ok
    PROVE  o.file = EpochFor(at, now) /\ at >= now + MinHorizon
<1>1. EpochFor(at, now) # INVALID
  BY DEF SetOutcomes
<1>2. at >= now + MinHorizon
  BY <1>1, RtcAssumption DEF EpochFor
<1>3. EpochFor(at, now) \in Nat
  BY <1>2, CutToSeconds
<1>4. o.file \in Written(UNSET, EpochFor(at, now)) \ {UNSET}
  BY <1>1 DEF SetOutcomes
<1> QED BY <1>2, <1>3, <1>4 DEF Written

\* A daemon that looks at the clock within the slack after its alarm went off takes
\* the wake for the alarm's, although the alarm was cut to a second; one that looks
\* earlier than the slack allows takes it for the user's.
THEOREM WakesAreTold ==
    ASSUME NEW at \in Nat, NEW set \in Nat, at >= set + MinHorizon,
           NEW slack \in Nat, NEW late \in 0..slack, Grain <= slack
    PROVE  /\ ClassifyWake(Pending(EpochFor(at, set)) + late, at, slack) = "Scheduled"
           /\ \A now \in Nat : now + slack < at => ClassifyWake(now, at, slack) = "User"
<1>1. at # UNSET
  BY RtcAssumption
<1>2. PICK armed \in at - Grain + 1..at : armed = Pending(EpochFor(at, set))
  BY CutToSeconds
<1>3. OffBy(armed + late, at) <= slack
  BY <1>2, RtcAssumption DEF OffBy
<1>4. \A now \in Nat : now + slack < at => ~(OffBy(now, at) <= slack)
  BY DEF OffBy
<1> QED BY <1>1, <1>2, <1>3, <1>4 DEF ClassifyWake

-----------------------------------------------------------------------------
(* What a sequence of events tells.                                        *)

LEMMA TellsNothing ==
    ASSUME NEW name, NEW value
    PROVE  Tells(<<>>, name, value, value)
  BY DEF Tells, LastOf

LEMMA TellsAppend ==
    ASSUME NEW S, NEW s \in Seq(S), NEW e \in S, NEW name, NEW value, NEW before
    PROVE  /\ e.event = name => Tells(Append(s, e), name, Value(e), before)
           /\ e.event # name /\ Tells(s, name, value, before) => Tells(Append(s, e), name, value, before)
<1> DEFINE t == Append(s, e)
<1>1. /\ Len(t) = Len(s) + 1 /\ Len(s) \in Nat /\ t[Len(s) + 1] = e
      /\ \A i \in 1..Len(s) : t[i] = s[i]
  OBVIOUS
<1> HIDE DEF t
<1>2. \A i \in 1..Len(t) : i \in 1..Len(s) \/ i = Len(s) + 1
  BY <1>1
<1>3. ASSUME e.event = name
      PROVE  Tells(t, name, Value(e), before)
  <2>1. \A i \in LastOf(t, name) : i = Len(s) + 1
    BY <1>1, <1>2, <1>3 DEF LastOf
  <2>2. Len(s) + 1 \in 1..Len(t) /\ t[Len(s) + 1].event = name
    BY <1>1, <1>3
  <2> QED BY <1>1, <2>1, <2>2 DEF Tells
<1>4. ASSUME e.event # name, Tells(s, name, value, before)
      PROVE  Tells(t, name, value, before)
  <2>1. ASSUME NEW i \in LastOf(t, name) PROVE i \in LastOf(s, name) /\ t[i] = s[i]
    <3>1. i \in 1..Len(s)
      BY <1>1, <1>2, <1>4, <2>1 DEF LastOf
    <3>2. \A j \in i + 1..Len(s) : s[j].event # name
      BY <1>1, <2>1, <3>1 DEF LastOf
    <3> QED BY <1>1, <2>1, <3>1, <3>2 DEF LastOf
  <2>2. (\A i \in 1..Len(t) : t[i].event # name) => before = value
    BY <1>1, <1>2, <1>4 DEF Tells
  <2> QED BY <1>4, <2>1, <2>2 DEF Tells
<1> QED BY <1>3, <1>4 DEF t

LEMMA TellsTail ==
    ASSUME NEW S, NEW s \in Seq(S), s # <<>>, NEW name, NEW value, NEW before,
           Tells(s, name, value, before)
    PROVE  /\ Head(s).event = name => Tells(Tail(s), name, value, Value(Head(s)))
           /\ Head(s).event # name => Tells(Tail(s), name, value, before)
<1> DEFINE t == Tail(s)
<1>1. /\ Len(s) \in Nat /\ Len(s) > 0 /\ Len(t) = Len(s) - 1 /\ Head(s) = s[1]
      /\ \A i \in 1..Len(t) : t[i] = s[i + 1]
  OBVIOUS
<1> HIDE DEF t
<1>2. \A i \in LastOf(t, name) : Value(t[i]) = value
  <2> SUFFICES ASSUME NEW i \in LastOf(t, name) PROVE i + 1 \in LastOf(s, name)
    BY <1>1 DEF Tells, LastOf
  <2>1. i \in 1..Len(t) /\ i + 1 \in 1..Len(s) /\ s[i + 1].event = name
    BY <1>1 DEF LastOf
  <2>2. ASSUME NEW j \in i + 2..Len(s) PROVE s[j].event # name
    <3>1. j - 1 \in i + 1..Len(t) /\ j - 1 \in 1..Len(t) /\ (j - 1) + 1 = j
      BY <1>1, <2>1, <2>2
    <3>2. t[j - 1].event # name /\ t[j - 1] = s[j]
      BY <1>1, <3>1 DEF LastOf
    <3> QED BY <3>2
  <2> QED BY <2>1, <2>2 DEF LastOf
<1>3. ASSUME \A i \in 1..Len(t) : t[i].event # name
      PROVE  \A j \in 2..Len(s) : s[j].event # name
  <2> SUFFICES ASSUME NEW j \in 2..Len(s) PROVE s[j].event # name
    OBVIOUS
  <2>1. j - 1 \in 1..Len(t) /\ (j - 1) + 1 = j
    BY <1>1
  <2>2. t[j - 1] = s[j]
    BY <1>1, <2>1
  <2> QED BY <1>3, <2>1, <2>2
<1>4. ASSUME Head(s).event = name, \A i \in 1..Len(t) : t[i].event # name
      PROVE  Value(Head(s)) = value
  <2>1. 1 \in LastOf(s, name)
    BY <1>1, <1>3, <1>4 DEF LastOf
  <2> QED BY <1>1, <2>1 DEF Tells
<1>5. ASSUME Head(s).event # name, \A i \in 1..Len(t) : t[i].event # name
      PROVE  before = value
  <2>1. \A i \in 1..Len(s) : i = 1 \/ i \in 2..Len(s)
    BY <1>1
  <2> QED BY <1>1, <1>3, <1>5, <2>1 DEF Tells
<1> QED BY <1>2, <1>4, <1>5 DEF Tells, t

-----------------------------------------------------------------------------
(* The types.                                                              *)

LEMMA Readings ==
    ASSUME NEW r \in Reading
    PROVE  /\ r.ac \in BOOLEAN /\ AcChanged(r.ac) \in PowerEvent
           /\ r.battery # NONE => BatteryAt(r.battery) \in PowerEvent
  BY DEF Reading, PowerEvent

LEMMA TwoInOrder ==
    ASSUME NEW x, NEW y
    PROVE  <<x>> \o <<y>> = <<x, y>>
<1>1. <<x>> \in Seq({x, y}) /\ y \in {x, y}
  OBVIOUS
<1>2. Append(<<x>>, y) = <<x>> \o <<y>>
  BY <1>1, AppendIsConcat
<1>3. Append(<<x>>, y) = <<x, y>>
  <2>1. Append(<<x>>, y) \in Seq({x, y}) /\ <<x, y>> \in Seq({x, y})
    BY <1>1
  <2>2. Len(Append(<<x>>, y)) = 2 /\ Len(<<x, y>>) = 2
    BY <1>1
  <2>3. Append(<<x>>, y)[1] = x /\ Append(<<x>>, y)[2] = y
    BY <1>1
  <2>4. \A i \in 1..Len(Append(<<x>>, y)) : Append(<<x>>, y)[i] = <<x, y>>[i]
    <3>1. \A i \in 1..Len(Append(<<x>>, y)) : i = 1 \/ i = 2
      BY <2>2
    <3>2. <<x, y>>[1] = x /\ <<x, y>>[2] = y
      OBVIOUS
    <3> QED BY <2>3, <3>1, <3>2
  <2> QED BY <2>1, <2>2, <2>4, SeqEqual, Zenon
<1> QED BY <1>2, <1>3

LEMMA Differences ==
    ASSUME NEW old \in Reading, NEW new \in Reading
    PROVE  \/ /\ Diff(old, new) = <<>> /\ new.ac = old.ac /\ new.battery \in {NONE, old.battery}
           \/ /\ Diff(old, new) = <<AcChanged(new.ac)>> /\ old.ac = ~new.ac
              /\ new.battery \in {NONE, old.battery}
           \/ /\ Diff(old, new) = <<AcChanged(new.ac), BatteryAt(new.battery)>> /\ old.ac = ~new.ac
              /\ new.battery # NONE
           \/ /\ Diff(old, new) = <<BatteryAt(new.battery)>> /\ new.ac = old.ac
              /\ new.battery # NONE
<1>1. old.ac \in BOOLEAN /\ new.ac \in BOOLEAN
  BY DEF Reading
<1>2. old.ac # new.ac => old.ac = ~new.ac
  BY <1>1
<1>3. CASE old.ac = new.ac /\ new.battery \in {NONE, old.battery}
  <2>1. Diff(old, new) = <<>> \o <<>>
    BY <1>3 DEF Diff
  <2> QED BY <1>3, <2>1
<1>4. CASE old.ac # new.ac /\ new.battery \in {NONE, old.battery}
  <2>1. Diff(old, new) = <<AcChanged(new.ac)>> \o <<>>
    BY <1>4 DEF Diff
  <2> QED BY <1>2, <1>4, <2>1
<1>5. CASE old.ac # new.ac /\ new.battery \notin {NONE, old.battery}
  <2>1. Diff(old, new) = <<AcChanged(new.ac)>> \o <<BatteryAt(new.battery)>>
    BY <1>5 DEF Diff
  <2> QED BY <1>2, <1>5, <2>1, TwoInOrder
<1>6. CASE old.ac = new.ac /\ new.battery \notin {NONE, old.battery}
  <2>1. Diff(old, new) = <<>> \o <<BatteryAt(new.battery)>>
    BY <1>6 DEF Diff
  <2> QED BY <1>6, <2>1
<1> QED BY <1>3, <1>4, <1>5, <1>6

LEMMA ReadTypes ==
    ASSUME SupplyTypeOK, Read
    PROVE  /\ monitor' \in {"open", "closed", "failed"} /\ poll' \in 0..Poll /\ readable' \in BOOLEAN
           /\ {previous', taken', latest'} \subseteq Reading
           /\ unsent' \in Seq(PowerEvent) /\ Len(unsent') <= 2
<1>1. CASE sysfs = BROKEN
  BY <1>1, SupplyAssumption DEF Read, SupplyTypeOK
<1>2. CASE sysfs # BROKEN
  <2>1. Snapshot(sysfs) \in Reading /\ previous \in Reading
    BY <1>2, SupplyAssumption DEF SupplyTypeOK
  <2>2. taken' = Snapshot(sysfs) /\ latest' = taken' /\ unsent' = Diff(previous, taken')
        /\ previous' \in {taken', previous}
    BY <1>2 DEF Read
  <2>3. unsent' \in Seq(PowerEvent) /\ Len(unsent') <= 2
    <3>1. taken' \in Reading
      BY <2>1, <2>2
    <3>2. /\ AcChanged(taken'.ac) \in PowerEvent
          /\ taken'.battery # NONE => BatteryAt(taken'.battery) \in PowerEvent
      BY <3>1, Readings
    <3>3. \A x, y \in PowerEvent : /\ <<>> \in Seq(PowerEvent) /\ <<x>> \in Seq(PowerEvent)
                                  /\ <<x, y>> \in Seq(PowerEvent)
                                  /\ Len(<<>>) <= 2 /\ Len(<<x>>) <= 2 /\ Len(<<x, y>>) <= 2
      OBVIOUS
    <3>4. \/ unsent' = <<>> \/ unsent' = <<AcChanged(taken'.ac)>>
          \/ /\ unsent' = <<AcChanged(taken'.ac), BatteryAt(taken'.battery)>> /\ taken'.battery # NONE
          \/ /\ unsent' = <<BatteryAt(taken'.battery)>> /\ taken'.battery # NONE
      BY <2>1, <2>2, <3>1, Differences
    <3> QED BY <3>2, <3>3, <3>4
  <2> QED BY <2>1, <2>2, <2>3, SupplyAssumption DEF Read, SupplyTypeOK
<1> QED BY <1>1, <1>2

LEMMA SupplyTypes ==
    ASSUME SupplyTypeOK, [SupplyNext]_supplyVars
    PROVE  SupplyTypeOK'
<1>1. CASE UNCHANGED supplyVars
  BY <1>1 DEF supplyVars, taskVars, reportVars, SupplyTypeOK
<1>2. ASSUME NEW dir \in Directories \cup {BROKEN}, Change(dir) PROVE SupplyTypeOK'
  BY <1>2 DEF Change, reportVars, SupplyTypeOK
<1>3. CASE NetlinkFails
  BY <1>3 DEF NetlinkFails, reportVars, SupplyTypeOK
<1>4. CASE PollDue
  BY <1>4, ReadTypes DEF PollDue, Read, SupplyTypeOK
<1>5. CASE UeventCame
  BY <1>5, ReadTypes DEF UeventCame, Read, SupplyTypeOK
<1>6. CASE RefreshAsked
  <2>1. refresh' \in 0..RefreshCap
    BY <1>6, SupplyAssumption DEF RefreshAsked, SupplyTypeOK
  <2> QED BY <1>6, <2>1, ReadTypes DEF RefreshAsked, Read, SupplyTypeOK
<1>7. CASE SendEvent
  <2>1. /\ unsent \in Seq(PowerEvent) /\ unsent # <<>> /\ Len(unsent) <= 2
        /\ events \in Seq(PowerEvent \cup Others) /\ Len(events) <= EventCap
    BY <1>7 DEF SendEvent, Waiting, SupplyTypeOK
  <2>2. Head(unsent) \in PowerEvent /\ Tail(unsent) \in Seq(PowerEvent) /\ Len(Tail(unsent)) <= 2
    BY <2>1
  <2>3. /\ Append(events, Head(unsent)) \in Seq(PowerEvent \cup Others)
        /\ Len(Append(events, Head(unsent))) = Len(events) + 1
    BY <2>1, <2>2
  <2>4. events' \in Seq(PowerEvent \cup Others) /\ Len(events') <= EventCap
    BY <1>7, <2>1, <2>3, SupplyAssumption DEF SendEvent
  <2>5. unsent' \in Seq(PowerEvent) /\ Len(unsent') <= 2 /\ previous' \in Reading
    BY <1>7, <2>2 DEF SendEvent, SupplyTypeOK
  <2> QED BY <1>7, <2>4, <2>5 DEF SendEvent, taskVars, SupplyTypeOK
<1>8. CASE Recheck
  <2>1. refresh' \in 0..RefreshCap /\ rechecks' \subseteq Nat
    BY <1>8, SupplyAssumption DEF Recheck, SupplyTypeOK
  <2> QED BY <1>8, <2>1 DEF Recheck, reportVars, SupplyTypeOK
<1>9. ASSUME TakePower \/ Resumed \/ TakeOther PROVE SupplyTypeOK'
  <2>1. /\ events \in Seq(PowerEvent \cup Others) /\ events # <<>> /\ events' = Tail(events)
        /\ Len(events) <= EventCap
    BY <1>9 DEF TakePower, Resumed, TakeOther, Taking, Takes, SupplyTypeOK
  <2>2. /\ events' \in Seq(PowerEvent \cup Others) /\ Len(events') <= EventCap
        /\ Head(events) \in PowerEvent \cup Others
    BY <2>1, SupplyAssumption
  <2>3. known' \in Reading
    <3>1. CASE TakePower
      <4>1. Head(events) \in PowerEvent
        BY <2>2, <3>1, SupplyAssumption DEF TakePower, Taking
      <4>2. known \in Reading
        BY DEF SupplyTypeOK
      <4>3. CASE Head(events).event = "AcChanged"
        <5>1. Head(events).ac \in BOOLEAN
          BY <4>1, <4>3 DEF PowerEvent, AcChanged, BatteryAt
        <5> QED BY <3>1, <4>2, <4>3, <5>1 DEF TakePower, Reading
      <4>4. CASE Head(events).event # "AcChanged"
        <5>1. Head(events).percent \in 0..100
          BY <4>1, <4>4 DEF PowerEvent, AcChanged, BatteryAt
        <5> QED BY <3>1, <4>2, <4>4, <5>1 DEF TakePower, Reading
      <4> QED BY <4>3, <4>4
    <3>2. CASE Resumed \/ TakeOther
      BY <3>2 DEF Resumed, TakeOther, SupplyTypeOK
    <3> QED BY <1>9, <3>1, <3>2
  <2>4. rechecks' \subseteq Nat
    BY <1>9, SupplyAssumption DEF TakePower, Resumed, TakeOther, taskVars, SupplyTypeOK
  <2>5. UNCHANGED <<sysfs, monitor, uevent, refresh, poll, reportVars>>
    BY <1>9 DEF TakePower, Resumed, TakeOther, taskVars
  <2> QED BY <2>2, <2>3, <2>4, <2>5 DEF reportVars, SupplyTypeOK
<1>10. ASSUME NEW e \in Others, SendOther(e) PROVE SupplyTypeOK'
  <2>1. events \in Seq(PowerEvent \cup Others) /\ Len(events) <= EventCap
    BY DEF SupplyTypeOK
  <2>2. Append(events, e) \in Seq(PowerEvent \cup Others) /\ Len(Append(events, e)) = Len(events) + 1
    BY <2>1
  <2>3. events' \in Seq(PowerEvent \cup Others) /\ Len(events') <= EventCap
    BY <1>10, <2>1, <2>2, SupplyAssumption DEF SendOther
  <2> QED BY <1>10, <2>3 DEF SendOther, taskVars, reportVars, SupplyTypeOK
<1>11. CASE SupplyTick
  <2>1. rechecks \subseteq Nat /\ 0 \notin rechecks
    BY <1>11 DEF SupplyTick, Quiet, SupplyTypeOK
  <2>2. rechecks' \subseteq Nat
    BY <1>11, <2>1 DEF SupplyTick
  <2>3. poll' \in 0..Poll
    BY <1>11, SupplyAssumption DEF SupplyTick, Quiet, SupplyTypeOK
  <2> QED BY <1>11, <2>2, <2>3 DEF SupplyTick, reportVars, SupplyTypeOK
<1> QED BY <1>1, <1>2, <1>3, <1>4, <1>5, <1>6, <1>7, <1>8, <1>9, <1>10, <1>11 DEF SupplyNext, WatchTask

LEMMA SupplyStarts == SupplyInit => SupplyTypeOK
<1> SUFFICES ASSUME SupplyInit PROVE SupplyTypeOK
  OBVIOUS
<1>1. latest \in Reading
  <2>1. Assumed \in Reading
    BY DEF Assumed, Reading
  <2> QED BY <2>1, SupplyAssumption DEF SupplyInit
<1>2. previous = latest /\ taken = latest /\ known = latest
  BY DEF SupplyInit
<1>3. unsent \in Seq(PowerEvent) /\ Len(unsent) <= 2
      /\ events \in Seq(PowerEvent \cup Others) /\ Len(events) <= EventCap
  BY SupplyAssumption DEF SupplyInit
<1>4. /\ sysfs \in Directories \cup {BROKEN}
      /\ monitor \in {"open", "closed", "failed"} /\ rechecks \subseteq Nat
  BY DEF SupplyInit
<1>6. refresh \in 0..RefreshCap /\ poll \in 0..Poll
  BY SupplyAssumption DEF SupplyInit
<1>5. readable \in BOOLEAN /\ uevent \in BOOLEAN
  BY Zenon DEF SupplyInit
<1> QED BY <1>1, <1>2, <1>3, <1>4, <1>5, <1>6 DEF SupplyTypeOK

-----------------------------------------------------------------------------
(* The reports.  While a reading is being reported, what is left of it and   *)
(* what is in the channel make up for it together.                          *)

AcTold(a) == Tells(events, "AcChanged", a, known.ac)
BatteryTold(n) == n # NONE => Tells(events, "Battery", n, known.battery)

Report ==
    \/ unsent = <<>> /\ AcTold(previous.ac) /\ BatteryTold(previous.battery)
    \/ unsent = <<AcChanged(taken.ac)>> /\ AcTold(~taken.ac) /\ BatteryTold(taken.battery)
    \/ /\ unsent = <<AcChanged(taken.ac), BatteryAt(taken.battery)>>
       /\ taken.battery # NONE /\ AcTold(~taken.ac)
    \/ /\ unsent = <<BatteryAt(taken.battery)>>
       /\ taken.battery # NONE /\ AcTold(taken.ac)

\* A step that leaves the task's reports alone keeps them true.
LEMMA FrameReport ==
    ASSUME Report, UNCHANGED <<unsent, previous, taken>>,
           \A a \in BOOLEAN : AcTold(a) => AcTold(a)',
           \A n : BatteryTold(n) => BatteryTold(n)',
           previous.ac \in BOOLEAN, taken.ac \in BOOLEAN
    PROVE  Report'
<1>1. AcTold(previous.ac) => AcTold(previous.ac)'
  OBVIOUS
<1> QED BY DEF Report, AcTold, BatteryTold

LEMMA StillReport ==
    ASSUME Report, UNCHANGED <<unsent, previous, taken, events, known>>
    PROVE  Report'
  BY DEF Report, AcTold, BatteryTold

LEMMA ReadReport ==
    ASSUME SupplyTypeOK, Report, Waiting, Read
    PROVE  Report'
<1>1. /\ unsent = <<>> /\ AcTold(previous.ac) /\ BatteryTold(previous.battery)
      /\ UNCHANGED <<events, known>>
  BY DEF Waiting, Report, Read
<1>2. CASE sysfs = BROKEN
  <2>1. UNCHANGED <<unsent, previous, taken>>
    BY <1>2 DEF Read
  <2> QED BY <1>1, <2>1, StillReport
<1>3. CASE sysfs # BROKEN
  <2>1. /\ taken' = Snapshot(sysfs) /\ unsent' = Diff(previous, taken')
        /\ previous' = IF unsent' = <<>> THEN taken' ELSE previous
    BY <1>3 DEF Read
  <2>2. taken' \in Reading /\ previous \in Reading
    BY <1>3, <2>1, SupplyAssumption DEF SupplyTypeOK
  <2>3. /\ Tells(events', "AcChanged", previous.ac, known'.ac)
        /\ previous.battery # NONE => Tells(events', "Battery", previous.battery, known'.battery)
    BY <1>1 DEF AcTold, BatteryTold
  <2>4. \/ /\ unsent' = <<>> /\ taken'.ac = previous.ac
           /\ taken'.battery \in {NONE, previous.battery} /\ previous' = taken'
        \/ /\ unsent' = <<AcChanged(taken'.ac)>> /\ previous.ac = ~taken'.ac
           /\ taken'.battery \in {NONE, previous.battery}
        \/ /\ unsent' = <<AcChanged(taken'.ac), BatteryAt(taken'.battery)>>
           /\ previous.ac = ~taken'.ac /\ taken'.battery # NONE
        \/ /\ unsent' = <<BatteryAt(taken'.battery)>> /\ taken'.ac = previous.ac
           /\ taken'.battery # NONE
    BY <2>1, <2>2, Differences
  <2> QED BY <2>3, <2>4 DEF Report, AcTold, BatteryTold
<1> QED BY <1>2, <1>3

LEMMA SendReport ==
    ASSUME SupplyTypeOK, Report, SendEvent
    PROVE  Report'
<1>1. /\ unsent # <<>> /\ unsent' = Tail(unsent) /\ events' = Append(events, Head(unsent))
      /\ UNCHANGED <<taken, known>>
      /\ previous' = IF unsent' = <<>> THEN taken ELSE previous
  BY DEF SendEvent, Waiting
<1>2. /\ events \in Seq(PowerEvent \cup Others) /\ taken \in Reading /\ taken.ac \in BOOLEAN
      /\ AcChanged(taken.ac) \in PowerEvent \cup Others
      /\ taken.battery # NONE => BatteryAt(taken.battery) \in PowerEvent \cup Others
  BY Readings DEF SupplyTypeOK
<1>3. /\ AcChanged(taken.ac).event = "AcChanged" /\ Value(AcChanged(taken.ac)) = taken.ac
      /\ BatteryAt(taken.battery).event = "Battery" /\ Value(BatteryAt(taken.battery)) = taken.battery
  BY DEF AcChanged, BatteryAt, Value
<1>4. ASSUME NEW rest, unsent = <<AcChanged(taken.ac)>> \/ unsent = <<AcChanged(taken.ac), rest>>
      PROVE  /\ AcTold(taken.ac)'
             /\ BatteryTold(taken.battery) => BatteryTold(taken.battery)'
  <2>1. events' = Append(events, AcChanged(taken.ac))
    BY <1>1, <1>4
  <2>2. Tells(events', "AcChanged", taken.ac, known.ac)
    BY <1>2, <1>3, <2>1, TellsAppend
  <2>3. Tells(events, "Battery", taken.battery, known.battery) =>
           Tells(events', "Battery", taken.battery, known.battery)
    BY <1>2, <1>3, <2>1, TellsAppend
  <2> QED BY <1>1, <2>2, <2>3 DEF AcTold, BatteryTold
<1>5. ASSUME unsent = <<BatteryAt(taken.battery)>>, taken.battery # NONE
      PROVE  /\ BatteryTold(taken.battery)'
             /\ AcTold(taken.ac) => AcTold(taken.ac)'
  <2>1. events' = Append(events, BatteryAt(taken.battery))
    BY <1>1, <1>5
  <2>2. Tells(events', "Battery", taken.battery, known.battery)
    BY <1>2, <1>3, <1>5, <2>1, TellsAppend
  <2>3. Tells(events, "AcChanged", taken.ac, known.ac) => Tells(events', "AcChanged", taken.ac, known.ac)
    BY <1>2, <1>3, <1>5, <2>1, TellsAppend
  <2> QED BY <1>1, <2>2, <2>3 DEF AcTold, BatteryTold
<1>6. CASE unsent = <<AcChanged(taken.ac)>> /\ BatteryTold(taken.battery)
  <2>1. unsent' = <<>> /\ previous' = taken
    BY <1>1, <1>6
  <2> QED BY <1>1, <1>4, <1>6, <2>1 DEF Report, AcTold, BatteryTold
<1>7. CASE unsent = <<AcChanged(taken.ac), BatteryAt(taken.battery)>> /\ taken.battery # NONE
  <2>1. unsent' = <<BatteryAt(taken.battery)>>
    BY <1>1, <1>7
  <2> QED BY <1>1, <1>4, <1>7, <2>1 DEF Report, AcTold
<1>8. CASE unsent = <<BatteryAt(taken.battery)>> /\ taken.battery # NONE /\ AcTold(taken.ac)
  <2>1. unsent' = <<>> /\ previous' = taken
    BY <1>1, <1>8
  <2> QED BY <1>1, <1>5, <1>8, <2>1 DEF Report, AcTold, BatteryTold
<1> QED BY <1>1, <1>6, <1>7, <1>8 DEF Report

LEMMA TakeReport ==
    ASSUME SupplyTypeOK, Report, TakePower \/ Resumed \/ TakeOther
    PROVE  Report'
<1>1. /\ events \in Seq(PowerEvent \cup Others) /\ events # <<>> /\ events' = Tail(events)
      /\ UNCHANGED <<unsent, previous, taken>>
      /\ previous.ac \in BOOLEAN /\ taken.ac \in BOOLEAN /\ known \in Reading
      /\ Head(events) \in PowerEvent \cup Others
  BY Readings DEF TakePower, Resumed, TakeOther, Taking, Takes, SupplyTypeOK, taskVars, reportVars
<1>2. known'.ac = IF Head(events).event = "AcChanged" THEN Value(Head(events)) ELSE known.ac
  <2>1. CASE TakePower
    BY <1>1, <2>1 DEF TakePower, Value, Reading
  <2>2. CASE Resumed \/ TakeOther
    BY <2>2 DEF Resumed, TakeOther, Taking
  <2> QED BY <2>1, <2>2
<1>3. known'.battery = IF Head(events).event = "Battery" THEN Value(Head(events)) ELSE known.battery
  <2>1. CASE TakePower
    BY <1>1, <2>1 DEF TakePower, Taking, Value, Reading
  <2>2. CASE Resumed \/ TakeOther
    BY <2>2 DEF Resumed, TakeOther, Taking
  <2> QED BY <2>1, <2>2
<1>4. ASSUME NEW a, AcTold(a) PROVE AcTold(a)'
  BY <1>1, <1>2, <1>4, TellsTail DEF AcTold
<1>5. ASSUME NEW n, BatteryTold(n) PROVE BatteryTold(n)'
  BY <1>1, <1>3, <1>5, TellsTail DEF BatteryTold
<1> QED BY <1>1, <1>4, <1>5, FrameReport

LEMMA OtherReport ==
    ASSUME SupplyTypeOK, Report, NEW e \in Others, SendOther(e)
    PROVE  Report'
<1>1. /\ events \in Seq(PowerEvent \cup Others) /\ events' = Append(events, e)
      /\ UNCHANGED <<unsent, previous, taken, known>>
      /\ previous.ac \in BOOLEAN /\ taken.ac \in BOOLEAN
      /\ e \in PowerEvent \cup Others /\ e.event # "AcChanged" /\ e.event # "Battery"
  BY Readings, SupplyAssumption DEF SendOther, SupplyTypeOK, taskVars, reportVars
<1>2. ASSUME NEW a, AcTold(a) PROVE AcTold(a)'
  BY <1>1, <1>2, TellsAppend DEF AcTold
<1>3. ASSUME NEW n, BatteryTold(n) PROVE BatteryTold(n)'
  BY <1>1, <1>3, TellsAppend DEF BatteryTold
<1> QED BY <1>1, <1>2, <1>3, FrameReport

SupplyInv == SupplyTypeOK /\ Report

LEMMA SupplyInductive == SupplyInv /\ [SupplyNext]_supplyVars => SupplyInv'
<1> SUFFICES ASSUME SupplyInv, [SupplyNext]_supplyVars PROVE Report'
  BY SupplyTypes DEF SupplyInv
<1> USE DEF SupplyInv
<1>1. CASE UNCHANGED supplyVars
  BY <1>1, StillReport DEF supplyVars, reportVars
<1>2. ASSUME NEW dir \in Directories \cup {BROKEN}, Change(dir) PROVE Report'
  BY <1>2, StillReport DEF Change, reportVars
<1>3. CASE NetlinkFails \/ Recheck \/ SupplyTick
  BY <1>3, StillReport DEF NetlinkFails, Recheck, SupplyTick, reportVars
<1>4. CASE PollDue \/ UeventCame \/ RefreshAsked
  BY <1>4, ReadReport DEF PollDue, UeventCame, RefreshAsked
<1> QED BY <1>1, <1>2, <1>3, <1>4, SendReport, TakeReport, OtherReport DEF SupplyNext, WatchTask

LEMMA SupplyInvStarts == SupplyInit => SupplyInv
<1> SUFFICES ASSUME SupplyInit PROVE Report
  BY SupplyStarts DEF SupplyInv
<1>1. unsent = <<>> /\ events = <<>> /\ previous = known
  BY DEF SupplyInit
<1> QED BY <1>1, TellsNothing DEF Report, AcTold, BatteryTold

\* The types of the watcher, for any devices, intervals and capacities.
THEOREM SupplyTypeCorrect == SupplySpec => []SupplyTypeOK
<1>1. SupplyInv => SupplyTypeOK
  BY DEF SupplyInv
<1> QED BY <1>1, SupplyInvStarts, SupplyInductive, PTL DEF SupplySpec

\* Whatever is full, lost or started again, between two reads the main loop knows,
\* or is about to learn, what the last one said.
THEOREM NothingUnsaidHolds == SupplySpec => []NothingUnsaid
<1>1. SupplyInv => NothingUnsaid
  BY DEF SupplyInv, SupplyTypeOK, Report, NothingUnsaid, Waiting, AcTold, BatteryTold
<1> QED BY <1>1, SupplyInvStarts, SupplyInductive, PTL DEF SupplySpec

LEMMA AppendedLast ==
    ASSUME NEW S, NEW s \in Seq(S), NEW e \in S, NEW f, Append(s, e) = Append(s, f)
    PROVE  e = f
<1>1. Append(s, e)[Len(s) + 1] = e /\ Append(s, f)[Len(s) + 1] = f
  OBVIOUS
<1> QED BY <1>1

LEMMA Appended ==
    ASSUME NEW S, NEW s \in Seq(S), NEW f
    PROVE  /\ Append(s, f) # s
           /\ s # <<>> => Append(s, f) # Tail(s)
<1>1. Len(Append(s, f)) = Len(s) + 1 /\ Len(s) \in Nat
  OBVIOUS
<1>2. s # <<>> => Len(Tail(s)) = Len(s) - 1
  OBVIOUS
<1> QED BY <1>1, <1>2

\* An AcChanged is only ever sent to somebody who knows, or is about to learn, the
\* opposite: what Daemon assumes of the power events that arrive.
THEOREM ReportsChangesHolds == SupplySpec => ReportsChanges
<1>1. ASSUME SupplyInv, [SupplyNext]_supplyVars, NEW a \in BOOLEAN,
             events' = Append(events, AcChanged(a))
      PROVE  Tells(events, "AcChanged", ~a, known.ac)
  <2>1. events \in Seq(PowerEvent \cup Others)
    BY <1>1 DEF SupplyInv, SupplyTypeOK
  <2>2. events' # events /\ (events # <<>> => events' # Tail(events))
    BY <1>1, <2>1, Appended
  <2>3. CASE SendEvent
    <3>1. AcChanged(a) = Head(unsent) /\ unsent # <<>>
      <4>1. unsent # <<>> /\ Head(unsent) \in PowerEvent
        BY <1>1, <2>3 DEF SendEvent, Waiting, SupplyInv, SupplyTypeOK
      <4>2. Append(events, Head(unsent)) = Append(events, AcChanged(a))
        BY <1>1, <2>3 DEF SendEvent
      <4> QED BY <2>1, <4>1, <4>2, AppendedLast
    <3>2. unsent = <<AcChanged(taken.ac)>> \/ unsent = <<AcChanged(taken.ac), BatteryAt(taken.battery)>>
      BY <1>1, <3>1 DEF SupplyInv, Report, AcChanged, BatteryAt
    <3>3. a = taken.ac /\ AcTold(~taken.ac)
      BY <1>1, <3>1, <3>2 DEF SupplyInv, Report, AcChanged, BatteryAt
    <3> QED BY <3>3 DEF AcTold
  <2>4. ASSUME NEW e \in Others, SendOther(e) PROVE FALSE
    <3>1. e = AcChanged(a)
      <4>1. Append(events, e) = Append(events, AcChanged(a))
        BY <1>1, <2>4 DEF SendOther
      <4> QED BY <2>1, <4>1, AppendedLast
    <3> QED BY <3>1, SupplyAssumption DEF AcChanged
  <2>5. CASE TakePower \/ Resumed \/ TakeOther
    BY <2>2, <2>5 DEF TakePower, Resumed, TakeOther, Taking, Takes
  <2>6. CASE UNCHANGED supplyVars
    BY <2>2, <2>6 DEF supplyVars
  <2>7. ASSUME NEW dir, Change(dir) PROVE FALSE
    BY <2>2, <2>7 DEF Change
  <2>8. CASE NetlinkFails \/ Recheck \/ SupplyTick
    BY <2>2, <2>8 DEF NetlinkFails, Recheck, SupplyTick
  <2>9. CASE PollDue \/ UeventCame \/ RefreshAsked
    BY <2>2, <2>9 DEF PollDue, UeventCame, RefreshAsked, Read
  <2> QED BY <1>1, <2>3, <2>4, <2>5, <2>6, <2>7, <2>8, <2>9 DEF SupplyNext, WatchTask
<1>2. SupplyInv /\ [SupplyNext]_supplyVars =>
         [\A a \in BOOLEAN : events' = Append(events, AcChanged(a)) =>
             Tells(events, "AcChanged", ~a, known.ac)]_supplyVars
  BY <1>1
<1> QED BY <1>2, SupplyInvStarts, SupplyInductive, PTL DEF SupplySpec, ReportsChanges

-----------------------------------------------------------------------------
(* The poll of IdleHint.                                                   *)

\* A stage that was delivered in this stretch is remembered, and the poller does
\* not hold an older answer that would make it forget.
HintInv ==
    /\ fallback \in Fallback /\ control \in Fallback
    /\ poller # "sending" => saying = "nothing"
    /\ delivered => /\ hint /\ Engaged(fallback) /\ hintFired
                    /\ poller = "asking since" => seen

LEMMA HintInductive == HintInv /\ [HintNext]_hintVars => HintInv'
<1> SUFFICES ASSUME HintInv, [HintNext]_hintVars PROVE HintInv'
  OBVIOUS
<1> USE DEF HintInv, Engaged, pollerVars, historyVars, worldVars
<1>1. CASE UNCHANGED hintVars
  BY <1>1 DEF hintVars
<1>2. CASE GoesIdle \/ ComesBack \/ StaysIdle \/ Hears
  <2>1. CASE GoesIdle
    BY <2>1 DEF GoesIdle
  <2>2. CASE ComesBack
    BY <2>2 DEF ComesBack
  <2>3. CASE StaysIdle
    BY <2>3 DEF StaysIdle
  <2>4. CASE Hears
    BY <2>4 DEF Hears
  <2> QED BY <1>2, <2>1, <2>2, <2>3, <2>4
<1>3. ASSUME NEW f \in Fallback, Adjust(f) PROVE HintInv'
  BY <1>3 DEF Adjust
<1>4. CASE Wakes \/ AsksHint \/ Sends \/ AskFails
  <2>1. CASE Wakes
    BY <2>1 DEF Wakes
  <2>2. CASE AsksHint
    BY <2>2 DEF AsksHint
  <2>3. CASE Sends
    BY <2>3 DEF Sends
  <2>4. CASE AskFails
    BY <2>4 DEF AskFails
  <2> QED BY <1>4, <2>1, <2>2, <2>3, <2>4
<1>5. CASE AsksSince
  <2>1. ASSUME MayFire PROVE hint
    <3>1. control.sleepAfter \in Nat \ {0}
      BY <2>1, IdleHintAssumption DEF MayFire, Fallback
    <3> QED BY <2>1, <3>1 DEF MayFire
  <2>2. ASSUME delivered' PROVE hint /\ hintFired'
    <3>1. CASE saying' = "Idle" /\ MayFire
      BY <1>5, <2>1, <3>1 DEF AsksSince, Decides
    <3>2. CASE delivered
      BY <1>5, <3>2 DEF AsksSince, Decides
    <3>3. saying' = "Idle" => MayFire \/ delivered
      BY <1>5 DEF AsksSince, Decides
    <3> QED BY <1>5, <2>2, <3>1, <3>2, <3>3 DEF AsksSince
  <2> QED BY <1>5, <2>2 DEF AsksSince
<1> QED BY <1>1, <1>2, <1>3, <1>4, <1>5 DEF HintNext, Adjusts, Polls

\* The stage goes out once per stretch of idleness, however modes and reloads move
\* its timeout meanwhile.
THEOREM OncePerStretchHolds == HintSpec => OncePerStretch
<1>1. HintInit => HintInv
  BY DEF HintInit, HintInv
<1>2. HintInv /\ [HintNext]_hintVars =>
         [(saying = "nothing") /\ saying' = "Idle" => ~delivered]_hintVars
  <2> SUFFICES ASSUME HintInv, HintNext, saying = "nothing", saying' = "Idle" PROVE ~delivered
    OBVIOUS
  <2>1. AsksSince
    BY DEF HintNext, Adjusts, Adjust, Polls, GoesIdle, ComesBack, StaysIdle, Hears, Wakes, AsksHint,
           Sends, AskFails, pollerVars
  <2> QED BY <2>1 DEF AsksSince, Decides, HintInv
<1> QED BY <1>1, <1>2, HintInductive, PTL DEF HintSpec, OncePerStretch

-----------------------------------------------------------------------------
(* Timers.  TypeOK and OneTaskPerTimer are inductive together once the      *)
(* generations that can still arrive are bounded by the last one given out; *)
(* from them every step is a step of TimerService or a stutter.             *)

\* No task is younger than the last start.
Bounded ==
    /\ \A task \in sleeping : task.generation <= nextGeneration
    /\ \A task \in sending : task.generation <= nextGeneration
    /\ \A i \in 1..Len(fired) : fired[i].generation <= nextGeneration

IInv == TypeOK /\ Bounded /\ OneTaskPerTimer

LEMMA RestrictFact ==
    ASSUME NEW f, NEW S
    PROVE  /\ DOMAIN Restrict(f, S) = S
           /\ \A x \in S : Restrict(f, S)[x] = f[x]
  BY DEF Restrict

LEMMA TailFact ==
    ASSUME NEW S, NEW s \in Seq(S), s # <<>>
    PROVE  /\ Head(s) \in S
           /\ Head(s) = s[1] /\ Len(s) >= 1
           /\ Tail(s) \in Seq(S)
           /\ Len(Tail(s)) = Len(s) - 1
           /\ \A i \in 1..Len(Tail(s)) : i + 1 \in 1..Len(s) /\ Tail(s)[i] = s[i + 1]
  OBVIOUS

LEMMA TaskFact ==
    ASSUME NEW task \in Tasks
    PROVE  task.id \in Ids /\ task.generation \in 1..MaxGeneration
           /\ task = Task(task.id, task.generation)
  BY DEF Tasks, Task

LEMMA InitIInv == ASSUME Init PROVE IInv
  BY TimersAssumption DEF Init, IInv, TypeOK, Bounded, OneTaskPerTimer

LEMMA StartIInv ==
    ASSUME IInv, NEW id \in Ids, Start(id)
    PROVE  IInv'
  <1> DEFINE new == Task(id, nextGeneration')
  <1>1. nextGeneration \in Nat /\ nextGeneration' = nextGeneration + 1
        /\ nextGeneration' \in 1..MaxGeneration /\ MaxGeneration \in Nat
    BY TimersAssumption DEF IInv, TypeOK, Start
  <1>2. new \in Tasks /\ new.id = id /\ new.generation = nextGeneration'
    BY <1>1 DEF Tasks, Task
  <1>3. sleeping' \subseteq sleeping \cup {new} /\ new \in sleeping'
    BY DEF Start, Aborted
  <1>4. /\ DOMAIN running' = DOMAIN running \cup {id}
        /\ running'[id] = nextGeneration'
        /\ \A i \in DOMAIN running : i # id => running'[i] = running[i]
    BY DEF Start
  <1>5. sending' = sending /\ fired' = fired /\ handed' = {}
    BY DEF Start
  <1>6. TypeOK'
    BY <1>1, <1>2, <1>3, <1>4, <1>5 DEF IInv, TypeOK
  <1>7. Bounded'
    <2>1. \A task \in sleeping' : task.generation <= nextGeneration'
      BY <1>1, <1>2, <1>3, TaskFact DEF IInv, Bounded, TypeOK
    <2>2. \A task \in sending' : task.generation <= nextGeneration'
      BY <1>1, <1>5, TaskFact DEF IInv, Bounded, TypeOK
    <2>3. \A i \in 1..Len(fired') : fired'[i].generation <= nextGeneration'
      BY <1>1, <1>5, TaskFact DEF IInv, Bounded, TypeOK
    <2> QED BY <2>1, <2>2, <2>3 DEF Bounded
  <1>8. ASSUME NEW task \in sleeping'
        PROVE  /\ Current(task)'
               /\ task \notin sending'
               /\ \A i \in 1..Len(fired') : fired'[i] # task
    <2>1. CASE task = new
      <3>1. Current(task)'
        BY <2>1, <1>2, <1>4 DEF Current
      <3>2. task \notin sending'
        BY <2>1, <1>1, <1>2, <1>5, TaskFact DEF IInv, Bounded, TypeOK
      <3>3. \A i \in 1..Len(fired') : fired'[i] # task
        BY <2>1, <1>1, <1>2, <1>5, TaskFact DEF IInv, Bounded, TypeOK
      <3> QED BY <3>1, <3>2, <3>3
    <2>2. CASE task # new
      <3>1. task \in Aborted(id) /\ task \in sleeping
        BY <2>2 DEF Start, Aborted
      <3>2. Current(task) /\ task \in Tasks
        BY <3>1 DEF IInv, OneTaskPerTimer, TypeOK
      <3>3. task.id # id
        BY <3>1, <3>2, TaskFact DEF Aborted, Current
      <3>4. Current(task)'
        BY <3>2, <3>3, <1>4 DEF Current
      <3> QED BY <3>1, <3>4, <1>5 DEF IInv, OneTaskPerTimer
    <2> QED BY <2>1, <2>2
  <1>9. OneTaskPerTimer'
    BY <1>8 DEF OneTaskPerTimer
  <1> QED BY <1>6, <1>7, <1>9 DEF IInv

LEMMA CancelIInv ==
    ASSUME IInv, NEW id \in Ids, Cancel(id)
    PROVE  IInv'
  <1>1. /\ sleeping' = sleeping \ {Task(id, running[id])}
        /\ sending' = sending /\ fired' = fired /\ handed' = {}
        /\ nextGeneration' = nextGeneration
    BY DEF Cancel, Aborted
  <1>2. /\ DOMAIN running' = DOMAIN running \ {id}
        /\ \A i \in DOMAIN running' : running'[i] = running[i]
    BY RestrictFact DEF Cancel
  <1>3. TypeOK' /\ Bounded'
    BY <1>1, <1>2 DEF IInv, TypeOK, Bounded
  <1>4. ASSUME NEW task \in sleeping' PROVE Current(task)'
    <2>1. Current(task) /\ task \in Tasks /\ task # Task(id, running[id])
      BY <1>1 DEF IInv, OneTaskPerTimer, TypeOK
    <2>2. task.id # id
      BY <2>1, TaskFact DEF Current
    <2> QED BY <2>1, <2>2, <1>2 DEF Current
  <1>5. OneTaskPerTimer'
    BY <1>1, <1>4 DEF IInv, OneTaskPerTimer
  <1> QED BY <1>3, <1>5 DEF IInv

LEMMA WakeIInv ==
    ASSUME IInv, NEW task \in sleeping, Wake(task)
    PROVE  IInv'
  BY DEF IInv, TypeOK, Bounded, OneTaskPerTimer, Wake, Current

LEMMA SendIInv ==
    ASSUME IInv, NEW task \in sending, Send(task)
    PROVE  IInv'
  <1>1. task \in Tasks /\ task.generation <= nextGeneration /\ task \notin sleeping
    BY DEF IInv, TypeOK, Bounded, OneTaskPerTimer
  <1>2. /\ fired \in Seq(Tasks) /\ fired' = Append(fired, task)
        /\ sending' \subseteq sending
        /\ UNCHANGED <<running, sleeping, nextGeneration, handed>>
    BY DEF IInv, TypeOK, Send
  <1>3. /\ Len(fired') = Len(fired) + 1
        /\ \A i \in 1..Len(fired') :
              \/ i \in 1..Len(fired) /\ fired'[i] = fired[i]
              \/ fired'[i] = task
    BY <1>1, <1>2
  <1>4. TypeOK'
    BY <1>1, <1>2 DEF IInv, TypeOK
  <1>5. Bounded'
    BY <1>1, <1>2, <1>3 DEF IInv, Bounded
  <1>6. OneTaskPerTimer'
    BY <1>1, <1>2, <1>3 DEF IInv, OneTaskPerTimer, Current
  <1> QED BY <1>4, <1>5, <1>6 DEF IInv

LEMMA ReceiveIInv ==
    ASSUME IInv, Receive
    PROVE  IInv'
  <1>1. fired \in Seq(Tasks) /\ fired # <<>> /\ fired' = Tail(fired)
        /\ UNCHANGED <<sleeping, sending, nextGeneration>>
    BY DEF IInv, TypeOK, Receive
  <1>2. /\ fired' \in Seq(Tasks)
        /\ \A i \in 1..Len(fired') : i + 1 \in 1..Len(fired) /\ fired'[i] = fired[i + 1]
        /\ Head(fired) \in Tasks /\ Head(fired) = fired[1] /\ 1 \in 1..Len(fired)
    BY <1>1, TailFact
  <1>3. Bounded'
    BY <1>1, <1>2 DEF IInv, Bounded
  <1>4. \A task \in sleeping : \A i \in 1..Len(fired') : fired'[i] # task
    BY <1>2 DEF IInv, OneTaskPerTimer
  <1>5. CASE ~Current(Head(fired)) /\ UNCHANGED <<running, handed>>
    BY <1>1, <1>2, <1>3, <1>4, <1>5 DEF IInv, TypeOK, OneTaskPerTimer, Current
  <1>6. CASE /\ Current(Head(fired))
             /\ running' = Restrict(running, DOMAIN running \ {Head(fired).id})
             /\ handed' = {Head(fired).id}
    <2>1. /\ DOMAIN running' = DOMAIN running \ {Head(fired).id}
          /\ \A i \in DOMAIN running' : running'[i] = running[i]
      BY <1>6, RestrictFact
    <2>2. TypeOK'
      BY <1>1, <1>2, <1>6, <2>1, TaskFact DEF IInv, TypeOK
    <2>3. ASSUME NEW task \in sleeping PROVE Current(task)'
      <3>1. Current(task) /\ task \in Tasks /\ task # Head(fired)
        BY <1>2 DEF IInv, OneTaskPerTimer, TypeOK
      <3>2. task.id # Head(fired).id
        BY <3>1, <1>2, <1>6, TaskFact DEF Current
      <3> QED BY <3>1, <3>2, <2>1 DEF Current
    <2>4. OneTaskPerTimer'
      BY <1>1, <1>4, <2>3 DEF IInv, OneTaskPerTimer
    <2> QED BY <2>2, <2>4, <1>3 DEF IInv
  <1> QED BY <1>5, <1>6 DEF Receive

LEMMA IInvStep == ASSUME IInv, [Next]_vars PROVE IInv'
  <1>1. CASE UNCHANGED vars
    BY <1>1 DEF vars, IInv, TypeOK, Bounded, OneTaskPerTimer, Current
  <1>2. CASE Next
    BY <1>2, StartIInv, CancelIInv, WakeIInv, SendIInv, ReceiveIInv DEF Next
  <1> QED BY <1>1, <1>2

\* A task that still sleeps is its timer's, and what fired is not what sleeps:
\* for any timers and any number of starts (Timers::start, cancel, fired).
THEOREM OneTaskPerTimerHolds == Spec => [](TypeOK /\ OneTaskPerTimer)
  <1>1. Init => IInv
    BY InitIInv
  <1>2. IInv /\ [Next]_vars => IInv'
    BY IInvStep
  <1>3. IInv => TypeOK /\ OneTaskPerTimer
    BY DEF IInv
  <1> QED BY <1>1, <1>2, <1>3, PTL DEF Spec

-----------------------------------------------------------------------------
(* The refinement.                                                         *)

Bar == [id \in DOMAIN running |-> Status(id)]

LEMMA SameRestrict ==
    ASSUME NEW f, NEW S PROVE Service!Restrict(f, S) = Restrict(f, S)
  BY DEF Service!Restrict, Restrict

LEMMA StartRefines ==
    ASSUME IInv, NEW id \in Ids, Start(id)
    PROVE  Service!Start(id)
  <1>1. nextGeneration \in Nat /\ nextGeneration' = nextGeneration + 1
    BY TimersAssumption DEF IInv, TypeOK, Start
  <1>2. /\ DOMAIN running' = DOMAIN running \cup {id}
        /\ running'[id] = nextGeneration'
        /\ \A i \in DOMAIN running : i # id => running'[i] = running[i]
        /\ Task(id, nextGeneration') \in sleeping'
    BY DEF Start
  <1>3. Bar'[id] = "counting"
    BY <1>2 DEF Bar, Status
  <1>4. ASSUME NEW i \in DOMAIN running, i # id PROVE Bar'[i] = Bar[i]
    <2>1. Task(i, running[i]) \in sleeping' <=> Task(i, running[i]) \in sleeping
      BY <1>4, <1>1 DEF Start, Aborted, Task
    <2> QED BY <1>2, <1>4, <2>1 DEF Bar, Status
  <1>5. Bar' = [i \in DOMAIN Bar \cup {id} |-> IF i = id THEN "counting" ELSE Bar[i]]
    BY <1>2, <1>3, <1>4 DEF Bar
  <1> QED BY <1>5 DEF Service!Start, Bar, Start

LEMMA RemoveRefines ==
    ASSUME NEW id \in DOMAIN running,
           running' = Restrict(running, DOMAIN running \ {id}),
           \A i \in DOMAIN running \ {id} :
              Task(i, running[i]) \in sleeping' <=> Task(i, running[i]) \in sleeping
    PROVE  Bar' = Restrict(Bar, DOMAIN Bar \ {id})
  <1>1. /\ DOMAIN running' = DOMAIN running \ {id}
        /\ \A i \in DOMAIN running' : running'[i] = running[i]
    BY RestrictFact
  <1>2. \A i \in DOMAIN running \ {id} : Bar'[i] = Bar[i]
    BY <1>1 DEF Bar, Status
  <1> QED BY <1>1, <1>2 DEF Bar, Restrict

LEMMA CancelRefines ==
    ASSUME IInv, NEW id \in Ids, Cancel(id)
    PROVE  Service!Cancel(id)
  <1>1. \A i \in DOMAIN running \ {id} :
            Task(i, running[i]) \in sleeping' <=> Task(i, running[i]) \in sleeping
    BY DEF Cancel, Aborted, Task
  <1>2. Bar' = Restrict(Bar, DOMAIN Bar \ {id})
    BY <1>1, RemoveRefines DEF Cancel
  <1> QED BY <1>2, SameRestrict DEF Service!Cancel, Service!Remove, Bar, Cancel

\* The time of a timer passes when its task wakes.
LEMMA WakeRefines ==
    ASSUME IInv, NEW task \in sleeping, Wake(task)
    PROVE  Service!Elapse(task.id)
  <1>1. /\ task \in Tasks /\ task.id \in DOMAIN running
        /\ task = Task(task.id, running[task.id])
    BY TaskFact DEF IInv, TypeOK, OneTaskPerTimer, Current
  <1>2. Bar[task.id] = "counting" /\ task.id \in DOMAIN Bar
    BY <1>1 DEF Bar, Status
  <1>3. Bar'[task.id] = "elapsed"
    BY <1>1 DEF Bar, Status, Wake
  <1>4. ASSUME NEW i \in DOMAIN running, i # task.id PROVE Bar'[i] = Bar[i]
    <2>1. Task(i, running[i]) # task
      BY <1>4 DEF Task
    <2> QED BY <2>1 DEF Bar, Status, Wake
  <1>5. Bar' = [Bar EXCEPT ![task.id] = "elapsed"]
    BY <1>1, <1>3, <1>4 DEF Bar, Wake
  <1> QED BY <1>2, <1>5 DEF Service!Elapse, Bar, Wake

LEMMA ReceiveRefines ==
    ASSUME IInv, Receive
    PROVE  (\E id \in Ids : Service!Fire(id)) \/ UNCHANGED Service!vars
  <1>1. CASE ~Current(Head(fired)) /\ UNCHANGED <<running, handed>>
    BY <1>1 DEF Receive, Service!vars, Status
  <1>2. CASE /\ Current(Head(fired))
             /\ running' = Restrict(running, DOMAIN running \ {Head(fired).id})
             /\ handed' = {Head(fired).id}
    <2> DEFINE id == Head(fired).id
    <2>1. Head(fired) \in Tasks /\ Head(fired) = fired[1] /\ 1 \in 1..Len(fired)
      BY TailFact DEF IInv, TypeOK, Receive
    <2>2. id \in Ids /\ id \in DOMAIN running /\ Head(fired) = Task(id, running[id])
      BY <1>2, <2>1, TaskFact DEF Current
    <2>3. Head(fired) \notin sleeping
      BY <2>1 DEF IInv, OneTaskPerTimer
    <2>4. Bar[id] = "elapsed" /\ id \in DOMAIN Bar
      BY <2>2, <2>3 DEF Bar, Status
    <2>5. Bar' = Restrict(Bar, DOMAIN Bar \ {id})
      BY <1>2, <2>2, RemoveRefines DEF Receive
    <2>6. Service!Fire(id)
      BY <1>2, <2>4, <2>5, SameRestrict DEF Service!Fire, Service!Remove, Bar
    <2> QED BY <2>2, <2>6
  <1> QED BY <1>1, <1>2 DEF Receive

\* Timers implements TimerService: what `fired` returns is the timer last
\* started under that id, past its time and not cancelled.
THEOREM TimersImplementService == Spec => ImplementsService
  <1>1. Init => Service!Init
    <2> SUFFICES ASSUME Init PROVE Service!Init
      OBVIOUS
    <2> QED BY DEF Init, Service!Init
  <1>2. IInv /\ [Next]_vars => [Service!Next]_(Service!vars)
    <2> SUFFICES ASSUME IInv, [Next]_vars
                 PROVE  Service!Next \/ UNCHANGED Service!vars
      OBVIOUS
    <2>1. CASE UNCHANGED vars
      BY <2>1 DEF vars, Service!vars, Status
    <2>2. CASE \E id \in Ids : Start(id) \/ Cancel(id)
      BY <2>2, StartRefines, CancelRefines DEF Service!Next
    <2>3. CASE \E task \in sleeping : Wake(task)
      <3>1. PICK task \in sleeping : Wake(task)
        BY <2>3
      <3>2. task.id \in Ids
        BY <3>1, TaskFact DEF IInv, TypeOK
      <3> QED BY <3>1, <3>2, WakeRefines DEF Service!Next
    <2>4. CASE \E task \in sending : Send(task)
      BY <2>4 DEF Send, Service!vars, Status
    <2>5. CASE Receive
      BY <2>5, ReceiveRefines DEF Service!Next
    <2> QED BY <2>1, <2>2, <2>3, <2>4, <2>5 DEF Next
  <1>3. Init => IInv
    BY InitIInv
  <1>4. IInv /\ [Next]_vars => IInv'
    BY IInvStep
  <1> QED BY <1>1, <1>2, <1>3, <1>4, PTL DEF Spec, ImplementsService, Service!Spec

-----------------------------------------------------------------------------
(* What waits for the main loop in a round: reports of power, and the two   *)
(* that the sleep listener sends.                                          *)

Asleep == [event |-> "Suspending"]
Awake == [event |-> "Resumed"]
Power == {"AcChanged", "Battery"}
Waits == PowerEvent \cup Others

\* Reports of power only; one of the others among them; a sleep and its end.
Plain(q) == \A i \in 1..Len(q) : q[i].event \in Power
Only(q, e) == \E i \in 1..Len(q) :
    q[i] = e /\ \A j \in 1..Len(q) : j # i => q[j].event \in Power
Both(q) == \E i, k \in 1..Len(q) :
    /\ i < k /\ q[i] = Asleep /\ q[k] = Awake
    /\ \A j \in 1..Len(q) : j \notin {i, k} => q[j].event \in Power

LEMMA NothingWaits == Plain(<<>>) /\ (\A e : ~Only(<<>>, e)) /\ ~Both(<<>>)
BY DEF Plain, Only, Both

LEMMA QueueAt ==
    ASSUME NEW q \in Seq(Waits), NEW e \in Waits
    PROVE  /\ Append(q, e) \in Seq(Waits) /\ Len(Append(q, e)) = Len(q) + 1
           /\ \A i \in 1..Len(q) : Append(q, e)[i] = q[i]
           /\ Append(q, e)[Len(q) + 1] = e
           /\ q # <<>> => /\ Tail(q) \in Seq(Waits) /\ Len(Tail(q)) = Len(q) - 1
                          /\ \A i \in 1..Len(q) - 1 : Tail(q)[i] = q[i + 1]
                          /\ Head(q) = q[1] /\ Len(q) >= 1
OBVIOUS

LEMMA PowerSent ==
    ASSUME NEW q \in Seq(Waits), NEW e \in Waits, e.event \in Power
    PROVE  /\ Plain(q) => Plain(Append(q, e))
           /\ \A f : Only(q, f) => Only(Append(q, e), f)
           /\ Both(q) => Both(Append(q, e))
<1> DEFINE p == Append(q, e)
<1>1. /\ Len(p) = Len(q) + 1 /\ Len(q) \in Nat /\ p[Len(q) + 1] = e
      /\ \A i \in 1..Len(q) : p[i] = q[i]
  BY QueueAt
<1> HIDE DEF p
<1>2. Plain(q) => Plain(p)
  BY <1>1 DEF Plain
<1>3. ASSUME NEW f, Only(q, f) PROVE Only(p, f)
  <2>1. PICK i \in 1..Len(q) : q[i] = f /\ \A j \in 1..Len(q) : j # i => q[j].event \in Power
    BY <1>3 DEF Only
  <2>2. i \in 1..Len(p) /\ p[i] = f /\ \A j \in 1..Len(p) : j # i => p[j].event \in Power
    BY <1>1, <2>1
  <2> QED BY <2>2 DEF Only
<1>4. ASSUME Both(q) PROVE Both(p)
  <2>1. PICK i, k \in 1..Len(q) :
          /\ i < k /\ q[i] = Asleep /\ q[k] = Awake
          /\ \A j \in 1..Len(q) : j \notin {i, k} => q[j].event \in Power
    BY <1>4 DEF Both
  <2>2. /\ i \in 1..Len(p) /\ k \in 1..Len(p) /\ p[i] = Asleep /\ p[k] = Awake
        /\ \A j \in 1..Len(p) : j \notin {i, k} => p[j].event \in Power
    BY <1>1, <2>1
  <2> QED BY <2>1, <2>2 DEF Both
<1> QED BY <1>2, <1>3, <1>4 DEF p

LEMMA OtherSent ==
    ASSUME NEW q \in Seq(Waits), NEW e \in {Asleep, Awake}
    PROVE  /\ Append(q, e) \in Seq(Waits)
           /\ Plain(q) => Only(Append(q, e), e)
           /\ Only(q, Asleep) /\ e = Awake => Both(Append(q, e))
<1> DEFINE p == Append(q, e)
<1>1. e \in Waits
  BY RoundAssumption DEF Waits, Asleep, Awake
<1>2. /\ p \in Seq(Waits) /\ Len(p) = Len(q) + 1 /\ Len(q) \in Nat /\ p[Len(q) + 1] = e
      /\ \A i \in 1..Len(q) : p[i] = q[i]
  BY <1>1, QueueAt
<1> HIDE DEF p
<1>3. ASSUME Plain(q) PROVE Only(p, e)
  <2>1. Len(q) + 1 \in 1..Len(p) /\ \A j \in 1..Len(p) : j # Len(q) + 1 => j \in 1..Len(q)
    BY <1>2
  <2>2. \A j \in 1..Len(p) : j # Len(q) + 1 => p[j].event \in Power
    BY <1>2, <1>3, <2>1 DEF Plain
  <2> QED BY <1>2, <2>1, <2>2 DEF Only
<1>4. ASSUME Only(q, Asleep), e = Awake PROVE Both(p)
  <2>1. PICK i \in 1..Len(q) : q[i] = Asleep /\ \A j \in 1..Len(q) : j # i => q[j].event \in Power
    BY <1>4 DEF Only
  <2> DEFINE k == Len(q) + 1
  <2>2. i \in 1..Len(p) /\ k \in 1..Len(p) /\ i < k /\ p[i] = Asleep /\ p[k] = Awake
    BY <1>2, <1>4, <2>1
  <2>3. \A j \in 1..Len(p) : j \notin {i, k} => p[j].event \in Power
    <3>1. \A j \in 1..Len(p) : j # k => j \in 1..Len(q)
      BY <1>2
    <3> QED BY <1>2, <2>1, <3>1
  <2> QED BY <2>2, <2>3 DEF Both
<1> QED BY <1>2, <1>3, <1>4 DEF p

LEMMA FirstTaken ==
    ASSUME NEW q \in Seq(Waits), q # <<>>
    PROVE  /\ Head(q).event \in Power =>
                /\ Plain(q) => Plain(Tail(q))
                /\ \A e \in {Asleep, Awake} : Only(q, e) => Only(Tail(q), e)
                /\ Both(q) => Both(Tail(q))
           /\ Head(q).event \notin Power =>
                /\ ~Plain(q)
                /\ \A e : Only(q, e) => Head(q) = e /\ Plain(Tail(q))
                /\ Both(q) => Head(q) = Asleep /\ Only(Tail(q), Awake)
<1> DEFINE p == Tail(q)
<1>1. /\ Len(p) = Len(q) - 1 /\ Len(q) \in Nat /\ Len(q) >= 1 /\ Head(q) = q[1]
      /\ \A i \in 1..Len(q) - 1 : p[i] = q[i + 1]
  OBVIOUS
<1>2. Asleep.event \notin Power /\ Awake.event \notin Power
  BY DEF Asleep, Awake, Power
<1> HIDE DEF p
<1>3. \A i \in 1..Len(p) : i + 1 \in 1..Len(q) /\ p[i] = q[i + 1]
  BY <1>1
<1>4. \A i \in 1..Len(q) : i # 1 => i - 1 \in 1..Len(p) /\ p[i - 1] = q[i]
  BY <1>1
<1>5. 1 \in 1..Len(q)
  BY <1>1
<1>6. Plain(q) => Plain(p) /\ Head(q).event \in Power
  BY <1>1, <1>3, <1>5 DEF Plain
<1>7. ASSUME NEW e, Only(q, e)
      PROVE  /\ Head(q).event \notin Power => Head(q) = e /\ Plain(p)
             /\ Head(q).event \in Power /\ e \in {Asleep, Awake} => Only(p, e)
  <2>1. PICK i \in 1..Len(q) : q[i] = e /\ \A j \in 1..Len(q) : j # i => q[j].event \in Power
    BY <1>7 DEF Only
  <2>2. ASSUME i = 1 PROVE Head(q) = e /\ Plain(p)
    <3>1. \A j \in 1..Len(p) : j + 1 # 1
      BY <1>1
    <3>2. \A j \in 1..Len(p) : p[j].event \in Power
      BY <1>3, <2>1, <2>2, <3>1
    <3> QED BY <1>1, <2>1, <2>2, <3>2 DEF Plain
  <2>3. ASSUME i # 1 PROVE Only(p, e)
    <3>1. i - 1 \in 1..Len(p) /\ p[i - 1] = e
      BY <1>4, <2>1, <2>3
    <3>2. \A j \in 1..Len(p) : j # i - 1 => j + 1 # i
      BY <1>1
    <3>3. \A j \in 1..Len(p) : j # i - 1 => p[j].event \in Power
      BY <1>3, <2>1, <3>2
    <3> QED BY <3>1, <3>3 DEF Only
  <2>4. i # 1 => Head(q).event \in Power
    BY <1>1, <1>5, <2>1
  <2> QED BY <1>2, <2>2, <2>3, <2>4
<1>8. ASSUME Both(q)
      PROVE  /\ Head(q).event \notin Power => Head(q) = Asleep /\ Only(p, Awake)
             /\ Head(q).event \in Power => Both(p)
  <2>1. PICK i, k \in 1..Len(q) :
          /\ i < k /\ q[i] = Asleep /\ q[k] = Awake
          /\ \A j \in 1..Len(q) : j \notin {i, k} => q[j].event \in Power
    BY <1>8 DEF Both
  <2>2. k - 1 \in 1..Len(p) /\ p[k - 1] = Awake
    BY <1>4, <2>1
  <2>3. ASSUME i = 1 PROVE Head(q) = Asleep /\ Only(p, Awake)
    <3>1. \A j \in 1..Len(p) : j # k - 1 => j + 1 \notin {i, k}
      BY <1>1, <2>3
    <3>2. \A j \in 1..Len(p) : j # k - 1 => p[j].event \in Power
      BY <1>3, <2>1, <3>1
    <3> QED BY <1>1, <2>1, <2>2, <2>3, <3>2 DEF Only
  <2>4. ASSUME i # 1 PROVE Both(p) /\ Head(q).event \in Power
    <3>1. i - 1 \in 1..Len(p) /\ p[i - 1] = Asleep /\ i - 1 < k - 1
      BY <1>4, <2>1, <2>4
    <3>2. \A j \in 1..Len(p) : j \notin {i - 1, k - 1} => j + 1 \notin {i, k}
      BY <1>1
    <3>3. \A j \in 1..Len(p) : j \notin {i - 1, k - 1} => p[j].event \in Power
      BY <1>3, <2>1, <3>2
    <3>4. Both(p)
      BY <2>2, <3>1, <3>3 DEF Both
    <3> QED BY <1>1, <1>5, <2>1, <2>4, <3>4
  <2> QED BY <1>1, <1>2, <2>1, <2>3, <2>4
<1> QED BY <1>6, <1>7, <1>8 DEF p

-----------------------------------------------------------------------------
(* A round: types, and where the machine is in its sleep.                  *)

RoundTypes ==
    /\ SupplyInv /\ sysfs \in Directories
    /\ unsent = <<>> => previous = taken
    /\ mains \in BOOLEAN /\ lag \in 0..Stale /\ steady \in Nat /\ delay \in Nat
    /\ alarm \in Int \cup {UNSET} /\ scheduled \in Int \cup {UNSET}
    /\ timer \in Nat \cup {NONE} /\ failures \in Nat

\* Up, with nothing of a sleep under way.
Resting ==
    /\ machine = "up" /\ Plain(events) /\ woke = NONE
    /\ phase \in {"Out", "Grace", "Armed", "Checking"}
    /\ timer # NONE => phase # "Out"
    /\ phase = "Checking" => ~known.ac

\* The engine has not heard of the sleep, or it has.
Heard ==
    \/ phase = "Armed" /\ Only(events, Asleep)
    \/ phase = "LongSleeping" /\ Plain(events)

\* On its way into sleep: the alarm is what was planned, cut to a second.
Going ==
    /\ \/ machine = "asked" /\ phase = "Armed" /\ Plain(events)
       \/ machine \in {"going", "asleep"} /\ Heard
    /\ timer = NONE /\ woke = NONE
    /\ alarm \in Nat /\ scheduled \in Int /\ scheduled - alarm \in 0..Grain - 1

\* On its way out, for no longer than Latency.
Returning ==
    /\ \/ machine = "waking" /\ Heard
       \/ /\ machine = "up" /\ delay = 0
          /\ \/ phase = "Armed" /\ Both(events)
             \/ phase = "LongSleeping" /\ Only(events, Awake)
    /\ timer = NONE /\ scheduled \in Int
    /\ woke \in [by : {"alarm", "user"}, left : Int]
    /\ woke.by = "alarm" => woke.left \in 0..Grain - 1
    /\ woke.left - scheduled \in Nat /\ woke.left - scheduled + delay <= Latency

Stages == Resting \/ Going \/ Returning

LEMMA EventsTyped ==
    ASSUME RoundTypes
    PROVE  /\ events \in Seq(Waits) /\ unsent \in Seq(PowerEvent)
           /\ {previous, taken, latest, known} \subseteq Reading /\ known.ac \in BOOLEAN
           /\ rechecks \subseteq Nat /\ refresh \in Nat /\ sysfs # BROKEN
           /\ Poll \in Nat /\ AwakeWindow \in Nat
BY SupplyAssumption, RoundAssumption
   DEF RoundTypes, SupplyInv, SupplyTypeOK, Waits, Reading

\* The events that tell of power.
LEMMA PowerNames ==
    /\ \A e \in PowerEvent : e.event \in Power
    /\ \A e \in Waits : e.event \in Power => e \in PowerEvent
    /\ \A a \in BOOLEAN : AcChanged(a).event = "AcChanged"
<1>1. \A e \in Others : e.event \notin Power
  BY SupplyAssumption DEF Power
<1> QED BY <1>1 DEF PowerEvent, AcChanged, BatteryAt, Power, Waits

\* Each step is one of the watcher's, or none of its business.
LEMMA RoundWatches ==
    ASSUME RoundTypes, [RoundNext]_roundVars
    PROVE  [SupplyNext]_supplyVars
<1>1. \A e : e \in {Asleep, Awake} => e \in Others
  BY RoundAssumption DEF Asleep, Awake
<1>2. \A on \in BOOLEAN : DirOf[on] \in Directories
  BY RoundAssumption
<1>3. CASE UNCHANGED roundVars
  BY <1>3 DEF roundVars
<1>4. CASE TakeAc \/ TakeSuspending \/ TakeResumed \/ Loses \/ Watches
  BY <1>4 DEF TakeAc, TakeSuspending, TakeResumed, Loses, Watches, SupplyNext
<1>5. CASE TimerFires \/ CancelsCycle \/ FallAsleep \/ Plug
  BY <1>5 DEF TimerFires, CancelsCycle, FallAsleep, Plug
<1>6. CASE ReportSleep \/ ReportWake
  BY <1>1, <1>6 DEF ReportSleep, ReportWake, Asleep, Awake, SupplyNext
<1>7. CASE AlarmWakes \/ UserWakes
  BY <1>7 DEF AlarmWakes, UserWakes, WakesBy
<1>8. CASE Shows
  BY <1>2, <1>8 DEF Shows, SupplyNext, RoundTypes
<1>9. CASE TickAwake \/ TickAsleep
  BY <1>9 DEF TickAwake, TickAsleep, SupplyNext
<1> QED BY <1>3, <1>4, <1>5, <1>6, <1>7, <1>8, <1>9 DEF RoundNext, Proceeds

LEMMA SmallerOf ==
    ASSUME NEW a \in Nat, NEW b \in Nat
    PROVE  Min({a, b}) \in Nat /\ Min({a, b}) <= a /\ Min({a, b}) <= b
<1>1. \E x \in {a, b} : \A y \in {a, b} : x <= y
  OBVIOUS
<1>2. Min({a, b}) \in {a, b} /\ \A y \in {a, b} : Min({a, b}) <= y
  BY <1>1 DEF Min
<1> QED BY <1>2

LEMMA LessOf ==
    /\ \A t \in Int : Less(t) = t - 1
    /\ Less(NONE) = NONE /\ Less(UNSET) = UNSET
    /\ \A n \in Nat : Floor(n) \in Nat /\ (n > 0 => Floor(n) = n - 1) /\ (n = 0 => Floor(n) = 0)
<1>1. \A t \in Int : t \notin {NONE, UNSET}
  BY RoundAssumption, RtcAssumption
<1> QED BY <1>1 DEF Less, Floor

\* What is armed is planned, less than a second early.
LEMMA SchedulesDoes ==
    ASSUME RoundTypes, NEW ok \in BOOLEAN, Schedules(ok)
    PROVE  /\ alarm' \in Int \cup {UNSET} /\ scheduled' \in Int \cup {UNSET}
           /\ ok => /\ alarm' \in Nat /\ scheduled' \in Int
                    /\ scheduled' - alarm' \in 0..Grain - 1
<1>1. PICK now \in Grain..2 * Grain - 1 :
      \E o \in SetOutcomes(alarm, now + CheckInterval, now) :
        /\ ok = o.ok
        /\ alarm' = IF ok THEN Pending(o.file) - now ELSE o.file
        /\ scheduled' = IF ok THEN CheckInterval ELSE UNSET
  BY DEF Schedules
<1> DEFINE time == now + CheckInterval
<1>2. PICK o \in SetOutcomes(alarm, time, now) :
        /\ ok = o.ok
        /\ alarm' = IF ok THEN Pending(o.file) - now ELSE o.file
        /\ scheduled' = IF ok THEN CheckInterval ELSE UNSET
  BY <1>1
<1>3. /\ now \in Nat /\ CheckInterval \in Nat /\ time \in Nat
      /\ Grain \in Nat \ {0} /\ Grain <= CheckInterval
  BY RoundAssumption, RtcAssumption
<1>4. CASE ok
  <2>1. o.file = EpochFor(time, now) /\ time >= now + MinHorizon
    BY <1>2, <1>3, <1>4, ArmedIsAsked
  <2>2. Pending(o.file) \in time - Grain + 1..time
    BY <1>3, <2>1, CutToSeconds
  <2>3. alarm' = Pending(o.file) - now /\ scheduled' = CheckInterval
    BY <1>2, <1>4
  <2> HIDE DEF time
  <2>4. time = now + CheckInterval
    BY DEF time
  <2> QED BY <1>3, <2>2, <2>3, <2>4
<1>5. CASE ~ok
  <2>1. o.file \in {alarm, UNSET}
    <3>1. o.ok = FALSE
      BY <1>2, <1>5
    <3>2. \A cleared \in Written(alarm, 0) : cleared \in {alarm, UNSET}
      BY DEF Written
    <3> QED BY <3>1, <3>2 DEF SetOutcomes
  <2> QED BY <1>2, <1>5, <2>1 DEF RoundTypes
<1> QED BY <1>4, <1>5

LEMMA DisarmDoes ==
    ASSUME RoundTypes, Disarm
    PROVE  alarm' \in Int \cup {UNSET} /\ scheduled' = UNSET
BY DEF Disarm, ClearOutcomes, RoundTypes

-----------------------------------------------------------------------------
(* What a step of the round does to the watcher and to the channel.         *)

LEMMA WatcherKept ==
    ASSUME RoundTypes, [RoundNext]_roundVars
    PROVE  /\ SupplyInv' /\ sysfs' \in Directories
           /\ unsent' = <<>> => previous' = taken'
<1>1. [SupplyNext]_supplyVars /\ SupplyInv
  BY RoundWatches DEF RoundTypes
<1>2. SupplyInv'
  BY <1>1, SupplyInductive
<1>3. sysfs' = sysfs \/ \E on \in BOOLEAN : sysfs' = DirOf[on]
  <2>1. CASE UNCHANGED roundVars \/ CancelsCycle \/ TimerFires \/ FallAsleep \/ Plug \/ AlarmWakes \/ UserWakes
             \/ TickAsleep
    BY <2>1 DEF roundVars, supplyVars, CancelsCycle, TimerFires, FallAsleep, Plug, AlarmWakes, UserWakes,
                WakesBy, TickAsleep
  <2>2. CASE TakeAc \/ TakeSuspending \/ TakeResumed
    BY <2>2 DEF TakeAc, TakeSuspending, TakeResumed, TakePower, TakeOther, Resumed
  <2>3. CASE ReportSleep \/ ReportWake
    BY <2>3 DEF ReportSleep, ReportWake, SendOther
  <2>4. CASE Shows
    <3>1. mains \in BOOLEAN /\ sysfs' = DirOf[mains]
      BY <2>4 DEF Shows, Change, RoundTypes
    <3> QED BY <3>1
  <2>6. CASE Loses \/ TickAwake
    BY <2>6 DEF Loses, TickAwake, NetlinkFails, SupplyTick
  <2>5. CASE Watches
    BY <2>5 DEF Watches, WatchTask, PollDue, UeventCame, RefreshAsked, Read, SendEvent, Recheck
  <2> QED BY <2>1, <2>2, <2>3, <2>4, <2>5, <2>6 DEF RoundNext, Proceeds
<1>4. sysfs' \in Directories
  BY <1>3, RoundAssumption DEF RoundTypes
<1>5. sysfs # BROKEN
  BY EventsTyped
<1>6. unsent' = <<>> => previous' = taken'
  <2>1. CASE UNCHANGED <<unsent, previous, taken>>
    BY <2>1 DEF RoundTypes
  <2>2. CASE PollDue \/ UeventCame \/ RefreshAsked
    BY <1>5, <2>2 DEF PollDue, UeventCame, RefreshAsked, Read
  <2>3. CASE SendEvent
    BY <2>3 DEF SendEvent
  <2>4. CASE UNCHANGED supplyVars
    BY <2>1, <2>4 DEF supplyVars, reportVars
  <2>5. ASSUME NEW dir \in Directories \cup {BROKEN}, Change(dir) PROVE unsent' = <<>> => previous' = taken'
    BY <2>1, <2>5 DEF Change, reportVars
  <2>6. ASSUME NEW e \in Others, SendOther(e) PROVE unsent' = <<>> => previous' = taken'
    BY <2>1, <2>6 DEF SendOther, reportVars
  <2>7. CASE NetlinkFails \/ Recheck \/ TakePower \/ Resumed \/ TakeOther \/ SupplyTick
    BY <2>1, <2>7 DEF NetlinkFails, Recheck, TakePower, Resumed, TakeOther, SupplyTick, reportVars
  <2> QED BY <1>1, <2>2, <2>3, <2>4, <2>5, <2>6, <2>7 DEF SupplyNext, WatchTask
<1> QED BY <1>2, <1>4, <1>6

\* Nothing of a sleep is sent or taken.
Calm ==
    /\ Plain(events) => Plain(events')
    /\ \A e \in {Asleep, Awake} : Only(events, e) => Only(events', e)
    /\ Both(events) => Both(events')

LEMMA SameIsCalm == UNCHANGED events => Calm
BY DEF Calm

LEMMA WatchingIsCalm ==
    ASSUME RoundTypes, WatchTask
    PROVE  Calm /\ UNCHANGED known
<1>1. CASE SendEvent
  <2>1. /\ unsent \in Seq(PowerEvent) /\ unsent # <<>> /\ events \in Seq(Waits)
        /\ events' = Append(events, Head(unsent)) /\ known' = known
    BY <1>1, EventsTyped DEF SendEvent, Waiting
  <2>2. Head(unsent) \in Waits /\ Head(unsent).event \in Power
    <3>1. Head(unsent) \in PowerEvent
      BY <2>1
    <3> QED BY <3>1, PowerNames DEF Waits
  <2> QED BY <2>1, <2>2, PowerSent DEF Calm
<1>2. CASE PollDue \/ UeventCame \/ RefreshAsked \/ Recheck
  BY <1>2, SameIsCalm DEF PollDue, UeventCame, RefreshAsked, Read, Recheck
<1> QED BY <1>1, <1>2 DEF WatchTask

LEMMA TakingIsCalm ==
    ASSUME RoundTypes, TakePower
    PROVE  Calm
<1>1. events \in Seq(Waits) /\ events # <<>> /\ events' = Tail(events) /\ Head(events).event \in Power
  BY EventsTyped DEF TakePower, Taking, Takes, Power
<1> QED BY <1>1, FirstTaken DEF Calm

LEMMA PlainApart ==
    ASSUME NEW q, Plain(q)
    PROVE  ~Both(q) /\ ~Only(q, Asleep) /\ ~Only(q, Awake)
<1>1. Asleep.event \notin Power /\ Awake.event \notin Power
  BY DEF Asleep, Awake, Power
<1> QED BY <1>1 DEF Plain, Only, Both

\* The rest of the types.
RestTypes ==
    /\ mains \in BOOLEAN /\ lag \in 0..Stale /\ steady \in Nat /\ delay \in Nat
    /\ alarm \in Int \cup {UNSET} /\ scheduled \in Int \cup {UNSET}
    /\ timer \in Nat \cup {NONE} /\ failures \in Nat

LEMMA RestOfTypes ==
    ASSUME RoundTypes, [RoundNext]_roundVars, RestTypes'
    PROVE  RoundTypes'
BY WatcherKept DEF RoundTypes, RestTypes

LEMMA StagesKept ==
    ASSUME RoundTypes, Stages, Calm, UNCHANGED <<engineSide, machineSide, alarms>>,
           phase = "Checking" /\ known'.ac => known.ac
    PROVE  Stages'
<1> USE DEF engineSide, machineSide, alarms
<1>1. CASE Resting
  BY <1>1 DEF Resting, Stages, Calm
<1>2. Heard => Heard'
  BY DEF Heard, Calm
<1>3. CASE Going
  BY <1>2, <1>3 DEF Going, Stages, Calm
<1>4. CASE Returning
  BY <1>2, <1>4 DEF Returning, Stages, Calm
<1> QED BY <1>1, <1>3, <1>4 DEF Stages

\* While a timer runs, or nothing of a sleep waits for an engine that is up and has
\* not been told of one, the machine rests.
LEMMA RestsIf ==
    ASSUME RoundTypes, Stages
    PROVE  /\ timer # NONE => Resting
           /\ phase \in {"Out", "Grace", "Checking"} => Resting
           /\ machine = "up" /\ Plain(events) => Resting
BY PlainApart DEF Stages, Going, Returning, Heard

-----------------------------------------------------------------------------
(* The steps.                                                              *)

LEMMA TakeAcKeeps ==
    ASSUME RoundTypes, Stages, TakeAc
    PROVE  RestTypes' /\ Stages' /\ [Cycle!Next]_Cycle!cycleVars
<1> USE DEF engineSide, machineSide, worldSide, alarms
<1>1. TakePower /\ Calm /\ UNCHANGED <<machineSide, worldSide>>
  BY TakingIsCalm DEF TakeAc
<1>2. GraceTime \in Nat
  BY RoundAssumption
<1>3. known'.ac \in BOOLEAN
  <2>1. [RoundNext]_roundVars
    BY DEF RoundNext, Proceeds
  <2> QED BY <2>1, WatcherKept, Readings DEF SupplyInv, SupplyTypeOK
<1>4. CASE known'.ac = known.ac /\ UNCHANGED <<engineSide, alarms>>
  BY <1>1, <1>4, StagesKept DEF RestTypes, RoundTypes, Cycle!cycleVars
<1>5. CASE /\ Cycle!PowerGoes /\ phase = "Out"
           /\ phase' = "Grace" /\ timer' = GraceTime /\ failures' = 0 /\ UNCHANGED alarms
  <2>1. Resting
    BY <1>5, RestsIf
  <2>2. Resting'
    BY <1>1, <1>5, <2>1 DEF Resting, Calm
  <2> QED BY <1>1, <1>2, <1>5, <2>2 DEF RestTypes, RoundTypes, Stages, Cycle!Next
<1>6. CASE Cycle!PowerGoes /\ phase # "Out" /\ UNCHANGED <<engineSide, alarms>>
  <2>1. ~known'.ac
    BY <1>6 DEF Cycle!PowerGoes
  <2> QED BY <1>1, <1>6, <2>1, StagesKept DEF RestTypes, RoundTypes, Cycle!Next
<1>7. CASE Cycle!PowerComes /\ phase \notin {"Grace", "Checking"} /\ UNCHANGED <<engineSide, alarms>>
  BY <1>1, <1>7, StagesKept DEF RestTypes, RoundTypes, Cycle!Next
<1>8. CASE /\ Cycle!PowerComes /\ phase \in {"Grace", "Checking"}
           /\ \/ phase = "Grace" /\ timer' = NONE /\ UNCHANGED <<failures, alarms>>
              \/ phase = "Checking" /\ Leave
  <2>1. Resting
    BY <1>8, RestsIf
  <2>2. phase' = "Out" /\ timer' = NONE /\ UNCHANGED failures
    BY <1>8 DEF Cycle!PowerComes, Leave
  <2>3. Resting'
    BY <1>1, <2>1, <2>2 DEF Resting, Calm
  <2>4. alarm' \in Int \cup {UNSET} /\ scheduled' \in Int \cup {UNSET}
    BY <1>8, DisarmDoes DEF Leave, RoundTypes
  <2> QED BY <1>1, <1>8, <2>2, <2>3, <2>4 DEF RestTypes, RoundTypes, Stages, Cycle!Next
<1> QED BY <1>4, <1>5, <1>6, <1>7, <1>8 DEF TakeAc

LEMMA CancelKeeps ==
    ASSUME RoundTypes, Stages, CancelsCycle
    PROVE  RestTypes' /\ Stages' /\ [Cycle!Next]_Cycle!cycleVars
<1> USE DEF machineSide, worldSide
<1>1. /\ UNCHANGED <<supplyVars, machineSide, worldSide>> /\ machine = "up"
      /\ Cycle!Leaves /\ phase' = "Out" /\ timer' = NONE /\ Disarm /\ UNCHANGED failures
  BY DEF CancelsCycle, Leave
<1>2. UNCHANGED <<events, known>>
  BY <1>1 DEF supplyVars
<1>3. Plain(events)
  <2> SUFFICES ASSUME NEW i \in 1..Len(events) PROVE events[i].event \in Power
    BY DEF Plain
  <2>1. events[i] \in Waits /\ events[i] \notin Others
    BY EventsTyped DEF CancelsCycle
  <2> QED BY <2>1, PowerNames DEF Waits
<1>4. Resting
  BY <1>1, <1>3, RestsIf
<1>5. Resting'
  BY <1>1, <1>2, <1>4 DEF Resting
<1> QED BY <1>1, <1>5, DisarmDoes DEF RestTypes, RoundTypes, Stages, Cycle!Next

\* A timer runs out.
LEMMA TimerKeeps ==
    ASSUME RoundTypes, Stages, TimerFires
    PROVE  RestTypes' /\ Stages' /\ [Cycle!Next]_Cycle!cycleVars
<1> USE DEF machineSide, worldSide
<1>1. /\ UNCHANGED <<supplyVars, worldSide>> /\ machine = "up" /\ timer = 0 /\ timer # NONE
      /\ AwakeWindow \in Nat /\ MaxFailures \in Nat
  BY RoundAssumption DEF TimerFires
<1>2. UNCHANGED <<events, known>>
  BY <1>1 DEF supplyVars
<1>3. Resting /\ phase \in {"Grace", "Armed", "Checking"}
  BY <1>1, RestsIf DEF Resting
<1>4. CASE Cycle!Leaves /\ Leave /\ UNCHANGED machineSide
  <2>1. Resting' /\ timer' = NONE /\ UNCHANGED failures
    BY <1>2, <1>3, <1>4 DEF Resting, Leave
  <2> QED BY <1>1, <1>4, <2>1, DisarmDoes DEF Leave, RestTypes, RoundTypes, Stages, Cycle!Next
<1>5. ASSUME phase = "Grace" \/ ~known.ac, Arm
      PROVE  RestTypes' /\ Stages' /\ [Cycle!Next]_Cycle!cycleVars
  <2>1. CASE Suspends
    <3>1. /\ alarm' \in Nat /\ scheduled' \in Int /\ scheduled' - alarm' \in 0..Grain - 1
      BY <2>1, SchedulesDoes DEF Suspends
    <3>2. Going'
      BY <1>2, <1>3, <2>1, <3>1 DEF Suspends, Resting, Going
    <3>3. Cycle!Arms
      BY <1>2, <1>3, <1>5, <2>1 DEF Suspends, Cycle!Arms
    <3> QED BY <1>1, <2>1, <3>1, <3>2, <3>3 DEF Suspends, RestTypes, RoundTypes, Stages, Cycle!Next
  <2>2. CASE GivesUp
    <3>1. alarm' \in Int \cup {UNSET} /\ scheduled' \in Int \cup {UNSET}
      BY <2>2, SchedulesDoes DEF GivesUp
    <3>2. Resting' /\ Cycle!Leaves
      BY <1>2, <1>3, <2>2 DEF GivesUp, Resting, Cycle!Leaves
    <3> QED BY <1>1, <2>2, <3>1, <3>2 DEF GivesUp, RestTypes, RoundTypes, Stages, Cycle!Next
  <2>3. CASE /\ Schedules(FALSE) /\ phase' = "Armed" /\ timer' = AwakeWindow /\ failures' = failures + 1
             /\ UNCHANGED machineSide
    <3>1. alarm' \in Int \cup {UNSET} /\ scheduled' \in Int \cup {UNSET}
      BY <2>3, SchedulesDoes
    <3>2. Resting' /\ Cycle!Arms
      BY <1>2, <1>3, <1>5, <2>3 DEF Resting, Cycle!Arms
    <3> QED BY <1>1, <2>3, <3>1, <3>2 DEF RestTypes, RoundTypes, Stages, Cycle!Next
  <2> QED BY <1>5, <2>1, <2>2, <2>3 DEF Arm
<1> QED BY <1>4, <1>5 DEF TimerFires

\* The engine hears of the sleep.
LEMMA SuspendingKeeps ==
    ASSUME RoundTypes, Stages, TakeSuspending
    PROVE  RestTypes' /\ Stages' /\ [Cycle!Next]_Cycle!cycleVars
<1> USE DEF machineSide, worldSide, alarms
<1>1. /\ UNCHANGED <<alarms, machineSide, worldSide>> /\ UNCHANGED known
      /\ machine # "asleep" /\ events \in Seq(Waits) /\ events # <<>> /\ events' = Tail(events)
      /\ Head(events).event = "Suspending"
      /\ phase # "Out" /\ phase' = "LongSleeping" /\ failures' = 0 /\ timer' = NONE
  BY EventsTyped DEF TakeSuspending, Running, Taking, TakeOther, Takes, Cycle!Sleeps
<1>2. Head(events).event \notin Power /\ Head(events) # Awake
  BY <1>1 DEF Power, Awake
<1>3. /\ ~Plain(events) /\ ~Only(events, Awake)
      /\ Only(events, Asleep) => Plain(events')
      /\ Both(events) => Only(events', Awake)
  BY <1>1, <1>2, FirstTaken
<1>4. ASSUME Going PROVE Stages'
  <2>1. machine = "going" /\ Plain(events')
    BY <1>1, <1>3, <1>4 DEF Going, Heard
  <2>2. Heard'
    BY <1>1, <2>1 DEF Heard
  <2>3. Going'
    BY <1>1, <1>4, <2>1, <2>2 DEF Going
  <2> QED BY <2>3 DEF Stages
<1>5. ASSUME Returning PROVE Stages'
  <2>1. \/ machine = "waking" /\ Plain(events')
        \/ machine = "up" /\ delay = 0 /\ Only(events', Awake)
    BY <1>3, <1>5 DEF Returning, Heard
  <2>2. Heard' \/ machine = "up"
    BY <1>1, <2>1 DEF Heard
  <2>3. Returning'
    BY <1>1, <1>5, <2>1, <2>2 DEF Returning
  <2> QED BY <2>3 DEF Stages
<1>6. Stages'
  BY <1>3, <1>4, <1>5 DEF Stages, Resting
<1>7. Cycle!Next
  BY DEF TakeSuspending, Cycle!Next
<1>8. RestTypes'
  BY <1>1 DEF RestTypes, RoundTypes
<1> QED BY <1>6, <1>7, <1>8

\* The engine hears of the wake.
LEMMA ResumedKeeps ==
    ASSUME RoundTypes, Stages, TakeResumed
    PROVE  /\ Resting' /\ phase = "LongSleeping" /\ phase' \in {"Out", "Checking"}
           /\ phase' = "Checking" => timer' = AwakeWindow
           /\ RestTypes' /\ Stages' /\ [Cycle!Next]_Cycle!cycleVars
<1> USE DEF worldSide
<1>1. /\ UNCHANGED <<machine, delay, worldSide>> /\ UNCHANGED known /\ woke' = NONE
      /\ machine # "asleep" /\ events \in Seq(Waits) /\ events # <<>> /\ events' = Tail(events)
      /\ Head(events).event = "Resumed"
  BY EventsTyped DEF TakeResumed, Running, Taking, Resumed, Takes
<1>2. Head(events).event \notin Power /\ Head(events) # Asleep
  BY <1>1 DEF Power, Asleep
<1>3. /\ ~Plain(events) /\ ~Only(events, Asleep) /\ ~Both(events)
      /\ Only(events, Awake) => Plain(events')
  BY <1>1, <1>2, FirstTaken
<1>4. machine = "up" /\ phase = "LongSleeping" /\ Plain(events')
  BY <1>1, <1>3 DEF Stages, Resting, Going, Returning, Heard
<1> DEFINE byUser == phase = "LongSleeping" /\ ClassifyWake(0, scheduled, Slack) = "User"
<1>5. /\ Cycle!Resumes(byUser)
      /\ phase' = "Out" => Leave
      /\ phase' # "Out" => /\ timer' = AwakeWindow /\ UNCHANGED <<alarm, failures>>
                           /\ scheduled' = IF phase = "LongSleeping" THEN UNSET ELSE scheduled
  BY <1>4 DEF TakeResumed
<1>6. byUser \in BOOLEAN
  OBVIOUS
<1> HIDE DEF byUser
<1>7. phase' \in {"Out", "Checking"} /\ (phase' = "Checking" => ~known.ac)
  BY <1>5 DEF Cycle!Resumes
<1>8. Cycle!Next
  BY <1>5, <1>6 DEF Cycle!Next
<1>9. timer' \in Nat \cup {NONE} /\ (phase' = "Out" => timer' = NONE) /\ failures' = failures
  BY <1>5, <1>7, RoundAssumption DEF Leave
<1>10. alarm' \in Int \cup {UNSET} /\ scheduled' \in Int \cup {UNSET}
  BY <1>5, <1>7, DisarmDoes DEF Leave, RoundTypes
<1>11. Resting'
  BY <1>1, <1>4, <1>7, <1>9 DEF Resting
<1> QED BY <1>1, <1>4, <1>5, <1>7, <1>8, <1>9, <1>10, <1>11 DEF RestTypes, RoundTypes, Stages

\* The listener reports the sleep, or the wake.
LEMMA ReportsKeep ==
    ASSUME RoundTypes, Stages, ReportSleep \/ ReportWake
    PROVE  RestTypes' /\ Stages' /\ [Cycle!Next]_Cycle!cycleVars
<1> USE DEF engineSide, worldSide, alarms
<1>1. /\ UNCHANGED <<delay, woke, engineSide, alarms, worldSide>> /\ UNCHANGED known
      /\ events \in Seq(Waits)
  BY EventsTyped DEF ReportSleep, ReportWake, SendOther
<1>2. CASE ReportSleep
  <2>1. machine = "asked" /\ machine' = "going" /\ events' = Append(events, Asleep)
    BY <1>2 DEF ReportSleep, SendOther, Asleep
  <2>2. Going
    BY <2>1 DEF Stages, Resting, Returning
  <2>3. Only(events', Asleep) /\ phase = "Armed"
    BY <1>1, <2>1, <2>2, OtherSent DEF Going
  <2>4. Going'
    BY <1>1, <2>1, <2>2, <2>3 DEF Going, Heard
  <2> QED BY <1>1, <2>4 DEF RestTypes, RoundTypes, Stages, Cycle!cycleVars
<1>3. CASE ReportWake
  <2>1. machine = "waking" /\ machine' = "up" /\ delay = 0 /\ events' = Append(events, Awake)
    BY <1>3 DEF ReportWake, SendOther, Awake
  <2>2. Returning /\ Heard
    BY <2>1 DEF Stages, Resting, Going, Returning
  <2>3. /\ Only(events, Asleep) => Both(events')
        /\ Plain(events) => Only(events', Awake)
    BY <1>1, <2>1, OtherSent
  <2>4. Returning'
    BY <1>1, <2>1, <2>2, <2>3 DEF Returning, Heard
  <2> QED BY <1>1, <2>4 DEF RestTypes, RoundTypes, Stages, Cycle!cycleVars
<1> QED BY <1>2, <1>3

\* The machine falls asleep, and wakes.
LEMMA MachineKeeps ==
    ASSUME RoundTypes, Stages, FallAsleep \/ AlarmWakes \/ UserWakes
    PROVE  RestTypes' /\ Stages' /\ [Cycle!Next]_Cycle!cycleVars
<1> USE DEF engineSide
<1>1. UNCHANGED <<supplyVars, engineSide, scheduled, mains, steady>> /\ UNCHANGED <<events, known>>
  BY DEF FallAsleep, AlarmWakes, UserWakes, WakesBy, supplyVars, alarms, worldSide
<1>2. Heard => Heard'
  BY <1>1 DEF Heard
<1>3. CASE FallAsleep
  <2>1. machine = "going" /\ machine' = "asleep" /\ UNCHANGED <<delay, woke, alarm, lag>>
    BY <1>3 DEF FallAsleep, alarms, worldSide
  <2>2. Going'
    BY <1>1, <1>2, <2>1 DEF Stages, Resting, Returning, Going
  <2> QED BY <1>1, <2>1, <2>2 DEF RestTypes, RoundTypes, Stages, Cycle!cycleVars
<1>4. ASSUME NEW by \in {"alarm", "user"}, WakesBy(by), by = "alarm" => alarm = 0, alarm' \in {alarm, UNSET}
      PROVE  RestTypes' /\ Stages' /\ [Cycle!Next]_Cycle!cycleVars
  <2>1. /\ machine = "asleep" /\ machine' = "waking" /\ woke' = [by |-> by, left |-> scheduled]
        /\ delay' \in 0..Latency /\ lag' \in 0..Stale
    BY <1>4 DEF WakesBy
  <2>2. Going /\ Heard
    BY <2>1 DEF Stages, Resting, Returning, Going
  <2>3. Latency \in Nat /\ Stale \in Nat /\ Grain \in Nat
    BY RoundAssumption, RtcAssumption
  <2>4. /\ timer = NONE /\ scheduled \in Int /\ (by = "alarm" => scheduled \in 0..Grain - 1)
    BY <1>4, <2>2, <2>3 DEF Going
  <2>5. /\ woke' \in [by : {"alarm", "user"}, left : Int]
        /\ woke'.by = "alarm" => woke'.left \in 0..Grain - 1
        /\ woke'.left - scheduled' \in Nat /\ woke'.left - scheduled' + delay' <= Latency
    <3>1. woke' \in [by : {"alarm", "user"}, left : Int] /\ woke'.by = by /\ woke'.left = scheduled
      BY <2>1, <2>4
    <3>2. scheduled' = scheduled /\ scheduled - scheduled = 0
      BY <1>1, <2>4
    <3>3. woke'.by = "alarm" => woke'.left \in 0..Grain - 1
      BY <2>4, <3>1
    <3>4. woke'.left - scheduled' = 0
      BY <3>1, <3>2
    <3>5. delay' \in Nat /\ delay' <= Latency
      BY <2>1, <2>3
    <3> QED BY <3>1, <3>3, <3>4, <3>5
  <2>6. Returning'
    BY <1>1, <1>2, <2>1, <2>2, <2>4, <2>5 DEF Returning
  <2>7. RestTypes'
    BY <1>1, <1>4, <2>1, <2>3 DEF RestTypes, RoundTypes
  <2> QED BY <1>1, <2>6, <2>7 DEF Stages, Cycle!cycleVars
<1>5. CASE AlarmWakes
  <2>1. machine = "asleep" /\ alarm # UNSET /\ alarm <= 0 /\ alarm' = UNSET /\ WakesBy("alarm")
    BY <1>5 DEF AlarmWakes, WakesBy
  <2>2. Going
    BY <2>1 DEF Stages, Resting, Returning
  <2>3. alarm = 0
    BY <2>1, <2>2 DEF Going
  <2> QED BY <1>4, <2>1, <2>3
<1>6. CASE UserWakes
  BY <1>4, <1>6 DEF UserWakes
<1> QED BY <1>3, <1>5, <1>6

\* The mains, the controller and the task of the watcher.
LEMMA WorldKeeps ==
    ASSUME RoundTypes, Stages, Plug \/ Shows \/ Loses \/ Watches
    PROVE  RestTypes' /\ Stages' /\ [Cycle!Next]_Cycle!cycleVars
<1> USE DEF worldSide, machineSide, engineSide, alarms
<1>1. UNCHANGED <<lag, machineSide, engineSide, alarms>> /\ mains' \in BOOLEAN /\ steady' \in Nat
  <2>1. CASE Plug
    <3>1. mains' = ~mains /\ mains \in BOOLEAN
      BY <2>1 DEF Plug, RoundTypes
    <3>2. mains' \in BOOLEAN
      BY <3>1
    <3> QED BY <2>1, <3>2 DEF Plug
  <2>2. CASE Shows \/ Loses \/ Watches
    BY <2>2 DEF Shows, Loses, Watches, RoundTypes
  <2> QED BY <2>1, <2>2
<1>2. Calm /\ UNCHANGED known
  <2>1. CASE Watches
    BY <2>1, WatchingIsCalm DEF Watches
  <2>2. CASE Plug \/ Shows \/ Loses
    BY <2>2, SameIsCalm DEF Plug, Shows, Loses, Change, NetlinkFails, supplyVars
  <2> QED BY <2>1, <2>2
<1>3. Stages'
  BY <1>1, <1>2, StagesKept
<1> QED BY <1>1, <1>2, <1>3 DEF RestTypes, RoundTypes, Cycle!cycleVars

LEMMA TimeKeeps ==
    ASSUME RoundTypes, Stages, TickAwake \/ TickAsleep
    PROVE  RestTypes' /\ Stages' /\ [Cycle!Next]_Cycle!cycleVars
<1> USE DEF worldSide, machineSide, engineSide
<1>1. UNCHANGED <<events, known, mains, machine, woke, phase, failures>>
  BY DEF TickAwake, TickAsleep, SupplyTick, supplyVars
<1>2. Heard => Heard'
  BY <1>1 DEF Heard
<1>3. \A t \in Int : t \notin {NONE, UNSET} /\ Less(t) \in Int
  BY LessOf, RoundAssumption, RtcAssumption
<1>4. Less(UNSET) = UNSET /\ Less(NONE) = NONE
  BY LessOf
<1>5. scheduled' = Less(scheduled) /\ scheduled' \in Int \cup {UNSET}
  BY <1>3, <1>4 DEF TickAwake, TickAsleep, RoundTypes
<1>6. alarm' \in Int \cup {UNSET}
  BY <1>3, <1>4 DEF TickAwake, TickAsleep, RoundTypes
<1>7. CASE TickAwake
  <2>1. /\ machine \in {"up", "waking"} /\ timer # 0 /\ (machine = "waking" => delay > 0) /\ events = <<>>
        /\ timer' = Less(timer) /\ delay' = Floor(delay) /\ lag' = Floor(lag)
        /\ steady' = Min({steady + 1, AwakeWindow})
    BY <1>7 DEF TickAwake, SupplyTick, Quiet
  <2>2. timer' \in Nat \cup {NONE} /\ (timer' # NONE => timer # NONE) /\ (timer = NONE => timer' = NONE)
    <3>1. timer \in Nat \cup {NONE}
      BY DEF RoundTypes
    <3>2. timer \in Nat => timer' = timer - 1 /\ timer - 1 \in Nat /\ timer # NONE
      BY <1>3, <2>1, LessOf
    <3> QED BY <1>4, <2>1, <3>1, <3>2
  <2>3. delay' \in Nat /\ steady' \in Nat
    <3>1. delay \in Nat /\ steady + 1 \in Nat /\ AwakeWindow \in Nat
      BY RoundAssumption DEF RoundTypes
    <3>2. Floor(delay) \in Nat
      BY <3>1, LessOf
    <3>3. Min({steady + 1, AwakeWindow}) \in Nat
      BY <3>1, SmallerOf
    <3> QED BY <2>1, <3>2, <3>3
  <2>4. lag' \in 0..Stale
    <3>1. lag \in Nat /\ Stale \in Nat /\ lag <= Stale
      BY RoundAssumption DEF RoundTypes
    <3>2. Floor(lag) \in Nat /\ Floor(lag) <= lag
      BY <3>1, LessOf
    <3> QED BY <2>1, <3>1, <3>2
  <2>5. RestTypes'
    BY <1>1, <1>5, <1>6, <2>2, <2>3, <2>4 DEF RestTypes, RoundTypes
  <2>6. CASE Resting
    <3>1. Resting'
      BY <1>1, <2>2, <2>6 DEF Resting
    <3> QED BY <1>1, <2>5, <3>1 DEF Stages, Cycle!cycleVars
  <2>7. CASE Returning
    <3>1. machine = "waking" /\ Heard /\ delay > 0
      BY <2>1, <2>7, NothingWaits DEF Returning
    <3>2. scheduled \in Int /\ scheduled' = scheduled - 1 /\ delay \in Nat /\ delay' = delay - 1
      BY <1>5, <2>1, <2>7, <3>1, LessOf DEF Returning, RoundTypes
    <3>3. woke.left \in Int /\ Latency \in Nat
      BY <2>7, RoundAssumption DEF Returning
    <3>4. woke.left - scheduled' \in Nat /\ woke.left - scheduled' + delay' <= Latency
      BY <2>7, <3>2, <3>3 DEF Returning
    <3>5. Returning'
      BY <1>1, <1>2, <2>2, <2>7, <3>1, <3>2, <3>4 DEF Returning
    <3> QED BY <1>1, <2>5, <3>5 DEF Stages, Cycle!cycleVars
  <2> QED BY <2>1, <2>6, <2>7 DEF Stages, Going
<1>8. CASE TickAsleep
  <2>1. /\ machine = "asleep" /\ alarm # UNSET /\ alarm > 0 /\ alarm' = Less(alarm)
        /\ UNCHANGED <<timer, delay, lag, steady>>
    BY <1>8 DEF TickAsleep
  <2>2. Going
    BY <2>1 DEF Stages, Resting, Returning
  <2>3. alarm \in Nat /\ scheduled \in Int /\ alarm' = alarm - 1 /\ scheduled' = scheduled - 1
    BY <1>5, <2>1, <2>2, LessOf DEF Going
  <2>4. Going'
    BY <1>1, <1>2, <2>1, <2>2, <2>3 DEF Going
  <2> QED BY <1>1, <1>5, <1>6, <2>1, <2>4 DEF RestTypes, RoundTypes, Stages, Cycle!cycleVars
<1> QED BY <1>7, <1>8

LEMMA RoundKeeps ==
    ASSUME RoundTypes, Stages, [RoundNext]_roundVars
    PROVE  RoundTypes' /\ Stages' /\ [Cycle!Next]_Cycle!cycleVars
<1>1. CASE UNCHANGED roundVars
  <2>1. /\ Calm /\ UNCHANGED known /\ UNCHANGED <<engineSide, machineSide, alarms>> /\ UNCHANGED worldSide
    BY <1>1, SameIsCalm DEF roundVars, supplyVars
  <2>2. Stages'
    BY <2>1, StagesKept
  <2>3. RestTypes'
    BY <2>1 DEF RestTypes, RoundTypes, engineSide, machineSide, alarms, worldSide
  <2> QED BY <2>1, <2>2, <2>3, RestOfTypes DEF Cycle!cycleVars, engineSide
<1>2. CASE RoundNext
  <2>1. RestTypes' /\ Stages' /\ [Cycle!Next]_Cycle!cycleVars
    BY <1>2, TakeAcKeeps, CancelKeeps, TimerKeeps, SuspendingKeeps, ResumedKeeps, ReportsKeep, MachineKeeps,
       WorldKeeps, TimeKeeps DEF RoundNext, Proceeds
  <2> QED BY <2>1, RestOfTypes
<1> QED BY <1>1, <1>2

LEMMA RoundStarts ==
    ASSUME RoundInit
    PROVE  RoundTypes /\ Stages /\ Cycle!Init
<1>1. SupplyInv
  BY SupplyInvStarts DEF RoundInit
<1>2. mains \in BOOLEAN /\ sysfs \in Directories
  BY RoundAssumption DEF RoundInit
<1>3. 0 \in 0..Stale
  BY RoundAssumption
<1>4. known.ac \in BOOLEAN
  BY <1>1, Readings DEF SupplyInv, SupplyTypeOK
<1>5. unsent = <<>> /\ events = <<>> /\ previous = taken
  BY DEF RoundInit, SupplyInit
<1>6. RoundTypes
  BY <1>1, <1>2, <1>3, <1>5 DEF RoundInit, RoundRests, RoundTypes
<1>7. Resting
  BY <1>5, NothingWaits DEF RoundInit, RoundRests, Resting
<1> QED BY <1>4, <1>6, <1>7 DEF Stages, Cycle!Init, RoundInit, RoundRests

-----------------------------------------------------------------------------
(* The window in which the machine waits awake: the last recheck comes after *)
(* the controller shows the truth, and whatever it reads reaches the engine   *)
(* before the timer runs out, unless the power came after it.                *)

\* Until the last recheck is due.
ToLast == timer - (AwakeWindow - LastRecheck)

Window ==
    phase = "Checking" =>
        /\ timer \in 0..AwakeWindow
        /\ lag = 0 \/ lag + (AwakeWindow - timer) <= Stale
        /\ ToLast > 0 => ToLast \in rechecks
        /\ ToLast = 0 /\ mains /\ steady > 0 =>
              /\ sysfs = DirOf[TRUE]
              /\ 0 \in rechecks \/ refresh > 0 \/ taken.ac
        /\ ToLast < 0 /\ mains => steady <= -ToLast

LEMMA Times ==
    /\ AwakeWindow \in Nat /\ LastRecheck \in Nat /\ Stale \in Nat
    /\ Stale < LastRecheck /\ LastRecheck < AwakeWindow
BY SupplyAssumption, RoundAssumption

LEMMA WindowOpens ==
    ASSUME RoundTypes, Stages, TakeResumed
    PROVE  Window'
<1> SUFFICES ASSUME phase' = "Checking"
             PROVE  Window'
  BY DEF Window
<1>1. timer' = AwakeWindow /\ RestTypes'
  BY ResumedKeeps
<1>2. rechecks' = rechecks \cup Rechecks /\ LastRecheck \in rechecks'
  BY RoundAssumption DEF TakeResumed, Resumed
<1>3. lag' = lag /\ lag \in Nat /\ lag <= Stale
  BY Times DEF TakeResumed, worldSide, RoundTypes
<1>4. ToLast' = LastRecheck
  BY <1>1, Times DEF ToLast
<1> HIDE DEF ToLast
<1>5. timer' \in 0..AwakeWindow /\ lag' + (AwakeWindow - timer') <= Stale
  BY <1>1, <1>3, Times
<1>6. ToLast' > 0 /\ ToLast' \in rechecks' /\ ~(ToLast' = 0) /\ ~(ToLast' < 0)
  BY <1>2, <1>4, Times
<1> QED BY <1>5, <1>6 DEF Window

\* What changes nothing about the window but what the channels hold.
LEMMA WindowKept ==
    ASSUME RoundTypes, Window, UNCHANGED <<phase, timer, mains, lag, steady>>,
           UNCHANGED sysfs,
           phase = "Checking" =>
              /\ \A r \in rechecks : r > 0 => r \in rechecks'
              /\ 0 \in rechecks => 0 \in rechecks' \/ refresh' > 0
              /\ sysfs = DirOf[TRUE] /\ refresh > 0 => refresh' > 0 \/ taken'.ac
              /\ sysfs = DirOf[TRUE] /\ taken.ac => taken'.ac
    PROVE  Window'
<1>1. ToLast' = ToLast
  BY DEF ToLast
<1> HIDE DEF ToLast
<1> QED BY <1>1 DEF Window

LEMMA ReadShows ==
    ASSUME RoundTypes, Read
    PROVE  sysfs = DirOf[TRUE] => taken'.ac
<1> SUFFICES ASSUME sysfs = DirOf[TRUE] PROVE taken'.ac
  OBVIOUS
<1>1. sysfs # BROKEN /\ taken' = Snapshot(sysfs)
  BY EventsTyped DEF Read
<1>2. Snapshot(DirOf[TRUE]) = [ac |-> TRUE, battery |-> NONE]
  BY RoundAssumption
<1>3. taken' = [ac |-> TRUE, battery |-> NONE]
  BY <1>1, <1>2
<1> QED BY <1>3

LEMMA WatchingWindow ==
    ASSUME RoundTypes, Window, Watches
    PROVE  Window'
<1>1. UNCHANGED <<phase, timer, mains, lag, steady>>
  BY DEF Watches, worldSide, engineSide
<1>2. refresh \in Nat
  BY EventsTyped
<1>3. CASE PollDue \/ UeventCame
  <2>1. Read /\ UNCHANGED <<refresh, rechecks, sysfs>>
    BY <1>3 DEF PollDue, UeventCame, Read
  <2> QED BY <1>1, <2>1, ReadShows, WindowKept
<1>4. CASE RefreshAsked
  <2>1. Read /\ UNCHANGED <<rechecks, sysfs>>
    BY <1>4 DEF RefreshAsked, Read
  <2> QED BY <1>1, <2>1, ReadShows, WindowKept
<1>5. CASE SendEvent
  <2>1. UNCHANGED <<refresh, rechecks, sysfs, taken>>
    BY <1>5 DEF SendEvent, taskVars
  <2> QED BY <1>1, <2>1, WindowKept
<1>6. CASE Recheck
  <2>1. rechecks' = rechecks \ {0} /\ refresh' = refresh + 1 /\ UNCHANGED <<sysfs, taken>>
    BY <1>6 DEF Recheck, reportVars
  <2>2. refresh' > 0 /\ \A r \in rechecks : r > 0 => r \in rechecks'
    BY <1>2, <2>1, EventsTyped
  <2> QED BY <1>1, <2>1, <2>2, WindowKept
<1> QED BY <1>3, <1>4, <1>5, <1>6 DEF Watches, WatchTask

\* With power for more than an instant when the last recheck was due, the engine
\* would have been told.
LEMMA WouldBeTold ==
    ASSUME RoundTypes, Stages, Quiet, phase = "Checking"
    PROVE  ~(0 \in rechecks \/ refresh > 0 \/ taken.ac)
<1>1. Resting
  BY RestsIf
<1>2. unsent = <<>> /\ events = <<>> /\ 0 \notin rechecks /\ refresh = 0
  BY DEF Quiet, Waiting
<1>3. Tells(events, "AcChanged", previous.ac, known.ac)
  BY <1>2, Zenon DEF RoundTypes, SupplyInv, Report, AcTold
<1>4. known.ac = previous.ac /\ previous = taken
  BY <1>2, <1>3 DEF Tells, RoundTypes
<1> QED BY <1>1, <1>2, <1>4 DEF Resting

LEMMA TimeWindow ==
    ASSUME RoundTypes, Stages, Window, TickAwake
    PROVE  Window'
<1> SUFFICES ASSUME phase' = "Checking"
             PROVE  Window'
  BY DEF Window
<1>1. phase = "Checking" /\ UNCHANGED <<mains, sysfs, refresh, taken>> /\ Quiet
      /\ timer # 0 /\ ~Late
      /\ rechecks' = {r - 1 : r \in rechecks} /\ timer' = Less(timer) /\ lag' = Floor(lag)
      /\ steady' = Min({steady + 1, AwakeWindow})
  BY DEF TickAwake, SupplyTick, reportVars
<1>2. Resting
  BY <1>1, RestsIf
<1>3. timer \in Nat /\ timer > 0 /\ timer <= AwakeWindow /\ timer' = timer - 1
  BY <1>1, LessOf, Times DEF Window
<1>4. ToLast \in Int /\ ToLast' = ToLast - 1
  BY <1>3, Times DEF ToLast
<1>5. mains \in BOOLEAN /\ lag \in Nat /\ steady \in Nat
  BY Times DEF RoundTypes
<1>6. steady' \in Nat /\ steady' <= steady + 1
  BY <1>1, <1>5, SmallerOf, Times
<1>7. lag' = 0 \/ lag' = lag - 1
  BY <1>1, <1>5, LessOf
<1>8. lag' = 0 \/ lag' + (AwakeWindow - timer') <= Stale
  BY <1>1, <1>3, <1>5, <1>7, Times, LessOf DEF Window
<1>9. ASSUME ToLast - 1 = 0, mains PROVE sysfs' = DirOf[TRUE] /\ 0 \in rechecks'
  <2>1. ToLast = 1 /\ AwakeWindow - timer = LastRecheck - 1
    BY <1>3, <1>9, Times DEF ToLast
  <2>2. lag = 0
    BY <1>1, <1>5, <2>1, Times DEF Window
  <2>3. Running
    BY <1>2 DEF Resting, Running
  <2>4. sysfs = DirOf[TRUE]
    BY <1>1, <1>5, <1>9, <2>2, <2>3 DEF Late
  <2>5. 1 \in rechecks
    BY <1>1, <2>1 DEF Window
  <2> QED BY <1>1, <2>4, <2>5
<1>10. ASSUME ToLast - 1 > 0 PROVE ToLast - 1 \in rechecks'
  BY <1>1, <1>4, <1>10 DEF Window
<1>11. ASSUME ToLast - 1 < 0, mains PROVE steady' <= -(ToLast - 1)
  <2>1. CASE ToLast = 0
    <3>1. steady = 0
      <4>1. ~(0 \in rechecks \/ refresh > 0 \/ taken.ac)
        BY <1>1, WouldBeTold
      <4>2. ~(steady > 0)
        BY <1>1, <1>11, <2>1, <4>1 DEF Window
      <4> QED BY <1>5, <4>2
    <3> QED BY <1>6, <2>1, <3>1
  <2>2. CASE ToLast < 0
    BY <1>1, <1>4, <1>5, <1>6, <1>11, <2>2 DEF Window
  <2> QED BY <1>4, <1>11, <2>1, <2>2
<1>12. timer' \in 0..AwakeWindow
  BY <1>3, Times
<1> HIDE DEF ToLast
<1> QED BY <1>1, <1>4, <1>8, <1>9, <1>10, <1>11, <1>12 DEF Window

LEMMA WindowKeeps ==
    ASSUME RoundTypes, Stages, Window, [RoundNext]_roundVars
    PROVE  Window'
<1> SUFFICES ASSUME phase' = "Checking" PROVE Window'
  BY DEF Window
<1>1. CASE UNCHANGED roundVars
  BY <1>1, WindowKept DEF roundVars, supplyVars, taskVars, reportVars, engineSide, worldSide
<1>2. CASE TakeAc
  <2>1. UNCHANGED <<phase, timer>>
    BY <1>2 DEF TakeAc, Leave, engineSide, Cycle!PowerGoes, Cycle!PowerComes
  <2>2. UNCHANGED <<sysfs, taskVars, reportVars>> /\ UNCHANGED worldSide
    BY <1>2 DEF TakeAc, TakePower
  <2> QED BY <2>1, <2>2, WindowKept DEF taskVars, reportVars, worldSide
<1>3. CASE CancelsCycle \/ TimerFires \/ TakeSuspending
  <2>1. phase' # "Checking"
    BY <1>3 DEF CancelsCycle, TimerFires, TakeSuspending, Leave, Arm, Suspends, GivesUp, Cycle!Sleeps
  <2> QED BY <2>1
<1>4. CASE TakeResumed
  BY <1>4, WindowOpens
<1>5. CASE ReportSleep \/ ReportWake \/ FallAsleep \/ Loses \/ TickAsleep
  <2>1. /\ UNCHANGED <<phase, timer, mains, lag, steady>>
        /\ UNCHANGED <<sysfs, rechecks, refresh, taken>>
    BY <1>5 DEF ReportSleep, ReportWake, FallAsleep, Loses, TickAsleep, SendOther, NetlinkFails,
                supplyVars, taskVars, reportVars, engineSide, worldSide
  <2> QED BY <2>1, WindowKept
<1>6. CASE AlarmWakes \/ UserWakes
  <2>1. machine = "asleep" /\ phase' = phase
    BY <1>6 DEF AlarmWakes, UserWakes, WakesBy, engineSide
  <2>2. ~Resting
    BY <2>1 DEF Resting
  <2> QED BY <2>1, <2>2, RestsIf
<1>7. CASE Watches
  BY <1>7, WatchingWindow
<1>8. CASE Shows
  <2>1. /\ Late /\ sysfs' = DirOf[mains]
        /\ UNCHANGED <<phase, timer, mains, lag, steady, rechecks, refresh, taken>>
    BY <1>8 DEF Shows, Change, reportVars, worldSide, engineSide
  <2>2. ToLast' = ToLast
    BY <2>1 DEF ToLast
  <2>3. mains => sysfs # DirOf[TRUE]
    BY <2>1 DEF Late, RoundTypes
  <2> HIDE DEF ToLast
  <2> QED BY <2>1, <2>2, <2>3 DEF Window
<1>9. CASE Plug
  <2>1. /\ steady' = 0 /\ UNCHANGED <<phase, timer, lag, rechecks>>
    BY <1>9 DEF Plug, engineSide, supplyVars, taskVars
  <2>2. ToLast' = ToLast
    BY <2>1 DEF ToLast
  <2>3. phase = "Checking" => ToLast \in Int
    BY Times DEF Window, ToLast
  <2> HIDE DEF ToLast
  <2> QED BY <2>1, <2>2, <2>3 DEF Window
<1>10. CASE TickAwake
  BY <1>10, TimeWindow
<1> QED BY <1>1, <1>2, <1>3, <1>4, <1>5, <1>6, <1>7, <1>8, <1>9, <1>10 DEF RoundNext, Proceeds

RoundInv == RoundTypes /\ Stages /\ Window

LEMMA RoundInvStarts == RoundInit => RoundInv
<1>1. RoundInit => Window
  BY DEF RoundInit, RoundRests, Window
<1> QED BY <1>1, RoundStarts DEF RoundInv

LEMMA RoundInductive == RoundInv /\ [RoundNext]_roundVars => RoundInv'
BY RoundKeeps, WindowKeeps DEF RoundInv

\* The cycle goes back to sleep only if the machine was without power at some time
\* since the last recheck: `timer` runs out in on_timer after the rechecks of
\* recheck_after_resume, and the last one is not told of the values of before the
\* wake.  For any intervals, if only the controller is faster than the last recheck.
THEOREM WindowSeesPowerHolds == RoundSpec => WindowSeesPower
<1>1. ASSUME RoundInv, RoundNext, phase = "Checking", phase' = "Armed", mains
      PROVE  steady <= AwakeWindow - LastRecheck
  <2>1. TimerFires
    <3>1. ~TakeAc
      BY <1>1 DEF TakeAc, Leave, engineSide, Cycle!PowerGoes, Cycle!PowerComes
    <3>2. ~(CancelsCycle \/ TakeSuspending)
      BY <1>1 DEF CancelsCycle, Leave, TakeSuspending, Cycle!Sleeps
    <3>3. ~TakeResumed
      BY <1>1, ResumedKeeps DEF RoundInv
    <3>4. ~(ReportSleep \/ ReportWake \/ FallAsleep \/ AlarmWakes \/ UserWakes)
      BY <1>1 DEF ReportSleep, ReportWake, FallAsleep, AlarmWakes, UserWakes, WakesBy, engineSide
    <3>5. ~(Plug \/ Shows \/ Loses \/ Watches \/ TickAwake \/ TickAsleep)
      BY <1>1 DEF Plug, Shows, Loses, Watches, TickAwake, TickAsleep, engineSide
    <3> QED BY <1>1, <3>1, <3>2, <3>3, <3>4, <3>5 DEF RoundNext, Proceeds
  <2>2. timer = 0
    BY <2>1 DEF TimerFires
  <2>3. ToLast = -(AwakeWindow - LastRecheck) /\ ToLast < 0
    BY <2>2, Times DEF ToLast
  <2>4. steady <= -ToLast
    BY <1>1, <2>3 DEF RoundInv, Window
  <2> QED BY <2>3, <2>4, Times
<1>2. RoundInv /\ [RoundNext]_roundVars =>
        [(phase = "Checking") /\ phase' = "Armed" /\ mains
            => steady <= AwakeWindow - LastRecheck]_roundVars
  BY <1>1
<1> QED BY <1>2, RoundInvStarts, RoundInductive, PTL DEF RoundSpec, WindowSeesPower

\* The alarm's own wake never ends the cycle where there is no power, and a wake by
\* somebody long before it always does, although the alarm is cut to a second and
\* the daemon looks at the clock when the listener has reported the resume.
THEOREM WakesAreKnownHolds == RoundSpec => WakesAreKnown
<1>1. ASSUME RoundInv, RoundNext, phase = "LongSleeping", woke # NONE, woke' = NONE, ~known.ac
      PROVE  /\ woke.by = "alarm" => phase' = "Checking"
             /\ woke.by = "user" /\ woke.left > Slack + Latency => phase' = "Out"
  <2>1. TakeResumed
    <3>1. ~(TakeAc \/ CancelsCycle \/ TakeSuspending)
      BY <1>1 DEF TakeAc, CancelsCycle, TakeSuspending, machineSide
    <3>2. ~TimerFires
      BY <1>1, RestsIf, RoundAssumption DEF RoundInv, TimerFires, Resting
    <3>3. ~(ReportSleep \/ ReportWake \/ FallAsleep)
      BY <1>1 DEF ReportSleep, ReportWake, FallAsleep
    <3>4. ~(AlarmWakes \/ UserWakes)
      <4>1. ASSUME NEW by, WakesBy(by) PROVE FALSE
        <5>1. Going
          BY <1>1, <4>1 DEF WakesBy, RoundInv, Stages, Resting, Returning
        <5> QED BY <1>1, <5>1 DEF Going
      <4> QED BY <4>1 DEF AlarmWakes, UserWakes
    <3>5. ~(Plug \/ Shows \/ Loses \/ Watches \/ TickAwake \/ TickAsleep)
      BY <1>1 DEF Plug, Shows, Loses, Watches, TickAwake, TickAsleep, machineSide
    <3> QED BY <1>1, <3>1, <3>2, <3>3, <3>4, <3>5 DEF RoundNext, Proceeds
  <2>2. Returning /\ delay \in Nat
    BY <1>1 DEF RoundInv, Stages, Resting, Going, RoundTypes
  <2>3. /\ scheduled \in Int /\ woke.left \in Int /\ woke.by \in {"alarm", "user"}
        /\ woke.by = "alarm" => woke.left \in 0..Grain - 1
        /\ woke.left - scheduled \in 0..Latency
    BY <2>2, RoundAssumption DEF Returning
  <2> DEFINE byUser == phase = "LongSleeping" /\ ClassifyWake(0, scheduled, Slack) = "User"
  <2>4. Cycle!Resumes(byUser)
    BY <1>1, <2>1 DEF TakeResumed
  <2>5. byUser <=> ~(OffBy(0, scheduled) <= Slack)
    BY <1>1, <2>3, RtcAssumption DEF ClassifyWake
  <2> HIDE DEF byUser
  <2>6. ASSUME woke.by = "alarm" PROVE phase' = "Checking"
    <3>1. OffBy(0, scheduled) <= Slack
      BY <2>3, <2>6, RoundAssumption, RtcAssumption DEF OffBy
    <3> QED BY <1>1, <2>4, <2>5, <3>1 DEF Cycle!Resumes
  <2>7. ASSUME woke.by = "user", woke.left > Slack + Latency PROVE phase' = "Out"
    <3>1. ~(OffBy(0, scheduled) <= Slack)
      BY <2>3, <2>7, RoundAssumption DEF OffBy
    <3> QED BY <2>4, <2>5, <3>1 DEF Cycle!Resumes
  <2> QED BY <2>6, <2>7
<1>2. RoundInv /\ [RoundNext]_roundVars =>
        [(phase = "LongSleeping") /\ woke # NONE /\ woke' = NONE /\ ~known.ac =>
          /\ woke.by = "alarm" => phase' = "Checking"
          /\ woke.by = "user" /\ woke.left > Slack + Latency => phase' = "Out"]_roundVars
  BY <1>1
<1> QED BY <1>2, RoundInvStarts, RoundInductive, PTL DEF RoundSpec, WakesAreKnown

\* The engine of Round is the cycle that Engine implements (ImplementsCycle): between the
\* watcher of the power supply, the alarm and the listener it takes no other step.
THEOREM RoundIsACycle == RoundSpec => Cycle!Spec
<1>1. RoundInit => Cycle!Init
  BY RoundStarts
<1>2. RoundInv /\ [RoundNext]_roundVars => [Cycle!Next]_Cycle!cycleVars
  BY RoundKeeps DEF RoundInv
<1> QED BY <1>1, <1>2, RoundInvStarts, RoundInductive, PTL DEF RoundSpec, Cycle!Spec

-----------------------------------------------------------------------------
(* The settings of logind, from their files.                                *)

Settings == [Keys -> KeyValues \cup {EMPTY}]
Login == [section |-> "Login"]

LEMMA LineIs ==
  ASSUME NEW line \in Line
  PROVE  /\ IsHead(line) => line.section \in {"Login", "Other"}
         /\ IsHead(line) /\ line.section = "Login" <=> line = Login
         /\ ~IsHead(line) => line.key \in Keys /\ line.value \in KeyValues \cup {EMPTY}
BY DEF Line, IsHead, Login

\* The section of a line is that of the last head above.
LEMMA SectionAtIs ==
  ASSUME NEW text \in Seq(Line)
  PROVE  /\ SectionAt(text)[0] = "Other"
         /\ \A i \in 1..Len(text) :
               SectionAt(text)[i] = IF IsHead(text[i]) THEN text[i].section
                                    ELSE SectionAt(text)[i - 1]
<1> DEFINE n == Len(text)
           V == {"Login", "Other"}
           F(g) == [i \in 0..n |-> IF i = 0 THEN "Other"
                                   ELSE IF IsHead(text[i]) THEN text[i].section ELSE g[i - 1]]
           step == [i \in 1..n |-> [v \in V |-> IF IsHead(text[i]) THEN text[i].section ELSE v]]
           section == SectionAt(text)
<1>1. n \in Nat /\ "Other" \in V /\ \A i \in 1..n : text[i] \in Line
  OBVIOUS
<1>2. \A i \in 1..n : i - 1 \in 0..n /\ i \in 0..n /\ i # 0
  BY <1>1
<1>3. section = CHOOSE g : g = F(g)
  BY Zenon DEF SectionAt
<1> HIDE DEF n, V, section
<1>4. step \in [1..n -> [V -> V]]
  BY <1>1, LineIs DEF V
<1>5. \A i \in 1..n, v \in V : step[i][v] = IF IsHead(text[i]) THEN text[i].section ELSE v
  OBVIOUS
<1> HIDE DEF step
<1>6. PICK g \in [0..n -> V] : Loops(g, n, "Other", step)
  BY <1>1, <1>4, Recursion
<1>7. ASSUME NEW i \in 0..n
      PROVE  g[i] = IF i = 0 THEN "Other" ELSE IF IsHead(text[i]) THEN text[i].section ELSE g[i - 1]
  BY <1>1, <1>2, <1>5, <1>6 DEF Loops
<1>8. g = F(g)
  BY <1>7, Zenon
<1>9. section = F(section)
  <2> HIDE DEF F
  <2> QED
    BY <1>3, <1>8
<1>10. 0 \in 0..n
  BY <1>1
<1> QED
  BY <1>2, <1>9, <1>10 DEF n, section

\* What counts is what stands below a [Login] and above the next section.
LEMMA LoginSectionIs ==
  ASSUME NEW text \in Seq(Line)
  PROVE  /\ LoginSection(text) \subseteq 1..Len(text)
         /\ \A key \in Keys :
               Assigned(text, key) = {i \in LoginSection(text) : text[i].key = key}
<1> DEFINE Below(i) == \E h \in 1..i : text[h] = Login /\ \A j \in h + 1..i : ~IsHead(text[j])
           S == {i \in 0..Len(text) : SectionAt(text)[i] = "Login" <=> Below(i)}
<1>1. Len(text) \in Nat /\ \A i \in 1..Len(text) : text[i] \in Line
  OBVIOUS
<1>2. 0 \in S
  BY <1>1, SectionAtIs
<1>3. ASSUME NEW i \in 1..Len(text), i - 1 \in S PROVE i \in S
  <2>1. CASE IsHead(text[i])
    <3>1. SectionAt(text)[i] = "Login" <=> text[i] = Login
      BY <1>1, <2>1, SectionAtIs, LineIs
    <3>2. text[i] = Login => Below(i)
      <4>1. i \in 1..i /\ i + 1..i = {}
        OBVIOUS
      <4> QED
        BY <4>1
    <3>3. Below(i) => text[i] = Login
      <4>1. \A h \in 1..i : h = i \/ i \in h + 1..i
        OBVIOUS
      <4> QED
        BY <2>1, <4>1
    <3> QED
      BY <1>1, <3>1, <3>2, <3>3
  <2>2. CASE ~IsHead(text[i])
    <3>1. SectionAt(text)[i] = "Login" <=> Below(i - 1)
      BY <1>3, <2>2, SectionAtIs
    <3>2. text[i] # Login
      BY <1>1, <2>2, LineIs
    <3>3. /\ \A h \in 1..i - 1 : h \in 1..i
          /\ \A h \in 1..i : h = i \/ h \in 1..i - 1
          /\ \A h \in 1..i - 1 : \A j \in h + 1..i : j = i \/ j \in h + 1..i - 1
          /\ \A h \in 1..i - 1 : \A j \in h + 1..i - 1 : j \in h + 1..i
      OBVIOUS
    <3>4. Below(i) <=> Below(i - 1)
      BY <2>2, <3>2, <3>3
    <3> QED
      BY <1>1, <3>1, <3>4
  <2> QED
    BY <2>1, <2>2
<1>4. 0..Len(text) \subseteq S
  <2> HIDE DEF S
  <2> QED
    BY <1>1, <1>2, <1>3, Induction
<1>5. ASSUME NEW i \in 1..Len(text), ~IsHead(text[i])
      PROVE  i \in LoginSection(text) <=> Below(i - 1)
  <2>1. i - 1 \in S
    BY <1>1, <1>4
  <2> QED
    BY <1>5, <2>1, SectionAtIs DEF LoginSection
<1>6. LoginSection(text) \subseteq {i \in 1..Len(text) : ~IsHead(text[i])}
  BY DEF LoginSection
<1> QED
  BY <1>5, <1>6 DEF Assigned, Login

\* What a line makes of the keys.
LEMMA KeysAtIs ==
  ASSUME NEW text \in Seq(Line), NEW before \in Settings
  PROVE  /\ KeysAt(before, text) \in [0..Len(text) -> Settings]
         /\ KeysAt(before, text)[0] = before
         /\ \A i \in 1..Len(text) :
               KeysAt(before, text)[i] =
                  IF i \in LoginSection(text)
                  THEN [KeysAt(before, text)[i - 1] EXCEPT ![text[i].key] = text[i].value]
                  ELSE KeysAt(before, text)[i - 1]
<1> DEFINE n == Len(text)
           F(g) == [i \in 0..n |->
                      IF i = 0 THEN before
                      ELSE IF i \in LoginSection(text)
                           THEN [g[i - 1] EXCEPT ![text[i].key] = text[i].value] ELSE g[i - 1]]
           step == [i \in 1..n |-> [v \in Settings |->
                      IF i \in LoginSection(text)
                      THEN [v EXCEPT ![text[i].key] = text[i].value] ELSE v]]
           keys == KeysAt(before, text)
<1>1. n \in Nat /\ \A i \in 1..n : text[i] \in Line
  OBVIOUS
<1>2. \A i \in 1..n : i - 1 \in 0..n /\ i \in 0..n /\ i # 0
  BY <1>1
<1>3. keys = CHOOSE g : g = F(g)
  BY Zenon DEF KeysAt
<1>4. \A i \in LoginSection(text) : text[i].value \in KeyValues \cup {EMPTY}
  BY LineIs DEF LoginSection
<1> HIDE DEF n, keys
<1>5. step \in [1..n -> [Settings -> Settings]]
  BY <1>4 DEF Settings
<1>6. \A i \in 1..n, v \in Settings :
         step[i][v] = IF i \in LoginSection(text)
                      THEN [v EXCEPT ![text[i].key] = text[i].value] ELSE v
  OBVIOUS
<1> HIDE DEF step
<1>7. PICK g \in [0..n -> Settings] : Loops(g, n, before, step)
  BY <1>1, <1>5, Recursion
<1>8. ASSUME NEW i \in 0..n
      PROVE  g[i] = IF i = 0 THEN before
                    ELSE IF i \in LoginSection(text)
                         THEN [g[i - 1] EXCEPT ![text[i].key] = text[i].value] ELSE g[i - 1]
  <2>1. CASE i = 0
    BY <1>7, <2>1 DEF Loops
  <2>2. CASE i # 0
    <3>1. i \in 1..n /\ g[i - 1] \in Settings
      BY <1>1, <1>2, <2>2
    <3> QED
      BY <1>6, <1>7, <2>2, <3>1 DEF Loops
  <2> QED
    BY <2>1, <2>2
<1>9. g = F(g)
  BY <1>8, Zenon
<1>10. keys = F(keys)
  <2> HIDE DEF F
  <2> QED
    BY <1>3, <1>9
<1>11. 0 \in 0..n
  BY <1>1
<1>12. /\ keys[0] = before
       /\ \A i \in 1..n :
             keys[i] = IF i \in LoginSection(text)
                       THEN [keys[i - 1] EXCEPT ![text[i].key] = text[i].value] ELSE keys[i - 1]
  BY <1>2, <1>10, <1>11
<1>13. keys \in [0..n -> Settings]
  <2> DEFINE S == {i \in 0..n : keys[i] \in Settings}
  <2>1. 0 \in S /\ \A i \in 1..n : i - 1 \in S => i \in S
    BY <1>2, <1>4, <1>11, <1>12 DEF Settings
  <2>2. 0..n \subseteq S
    <3> HIDE DEF S
    <3> QED
      BY <1>1, <2>1, Induction
  <2>3. keys = [i \in 0..n |-> keys[i]]
    BY <1>10
  <2> QED
    BY <2>2, <2>3
<1> QED
  BY <1>12, <1>13 DEF n, keys

\* What a file makes of a key: what its last line about it says, if there is one.
LEMMA KeysAtSay ==
  ASSUME NEW text \in Seq(Line), NEW before \in Settings, NEW key \in Keys
  PROVE  LET value == KeysAt(before, text)[Len(text)][key] IN
         \/ Assigned(text, key) = {} /\ value = before[key]
         \/ \E i \in Assigned(text, key) :
               value = text[i].value /\ \A j \in Assigned(text, key) : i >= j
<1> DEFINE keys == KeysAt(before, text)
           A == Assigned(text, key)
           Last(m) == \/ (\A j \in A : j > m) /\ keys[m][key] = before[key]
                      \/ \E i \in A : /\ i <= m /\ keys[m][key] = text[i].value
                                      /\ \A j \in A : j <= m => i >= j
           S == {m \in 0..Len(text) : Last(m)}
<1>1. /\ Len(text) \in Nat /\ A \subseteq 1..Len(text) /\ \A i \in A : text[i] \in Line
      /\ \A i \in 1..Len(text) : i \in A <=> i \in LoginSection(text) /\ text[i].key = key
      /\ LoginSection(text) \subseteq 1..Len(text)
  BY LoginSectionIs
<1>2. /\ keys \in [0..Len(text) -> Settings] /\ keys[0] = before
      /\ \A i \in 1..Len(text) :
            keys[i] = IF i \in LoginSection(text)
                      THEN [keys[i - 1] EXCEPT ![text[i].key] = text[i].value] ELSE keys[i - 1]
  BY KeysAtIs
<1> HIDE DEF keys, A
<1>3. 0 \in S
  BY <1>1, <1>2
<1>4. ASSUME NEW m \in 1..Len(text), m - 1 \in S PROVE m \in S
  <2>1. keys[m - 1] \in Settings /\ m \in 0..Len(text)
    BY <1>1, <1>2
  <2>2. \A j \in A : j <= m => j = m \/ j <= m - 1
    BY <1>1
  <2>3. CASE m \in A
    <3>1. keys[m][key] = text[m].value
      BY <1>1, <1>2, <2>1, <2>3 DEF Settings
    <3> QED
      BY <1>1, <2>1, <2>3, <3>1
  <2>4. CASE m \notin A
    <3>1. keys[m][key] = keys[m - 1][key]
      BY <1>1, <1>2, <2>1, <2>4 DEF Settings
    <3>2. \A j \in A : j > m - 1 => j > m
      BY <1>1, <2>4
    <3>3. \A j \in A : j <= m - 1 => j <= m
      BY <1>1
    <3>4. \A j \in A : j <= m => j <= m - 1
      BY <2>2, <2>4
    <3> QED
      BY <1>4, <2>1, <3>1, <3>2, <3>3, <3>4
  <2> QED
    BY <2>3, <2>4
<1>5. Len(text) \in S
  <2>1. Len(text) \in 0..Len(text)
    BY <1>1
  <2> HIDE DEF S
  <2> QED
    BY <1>1, <1>3, <1>4, <2>1, Induction
<1>6. \A j \in A : j <= Len(text) /\ ~(j > Len(text))
  BY <1>1
<1> QED
  BY <1>5, <1>6 DEF keys, A

\* The files are files.
FilesTyped == files \in [Paths -> Texts \cup {MISSING, UNREADABLE}]

LEMMA PathsAre ==
  ASSUME NEW p \in Paths
  PROVE  /\ p = <<p[1], p[2]>> /\ p[1] \in 1..NumDirs /\ p[2] \in Names
         /\ p[1] \in Nat /\ p[2] \in Nat
BY DegradedAssumption DEF Names

\* Of the files of a name, the one that counts.
LEMMA FoundIs ==
  ASSUME FilesTyped, NEW name \in Names
  PROVE  /\ \A p \in Paths : p[2] = name /\ InForce(p) => Found(name) = files[p]
         /\ Readable(Found(name)) =>
               /\ Found(name) \in Seq(Line)
               /\ \E p \in Paths : p[2] = name /\ InForce(p)
<1> DEFINE has == {dir \in 1..NumDirs : At(dir, name) # MISSING}
           first == CHOOSE dir \in has : \A other \in has : dir <= other
<1>1. has \in SUBSET Nat /\ has \subseteq 1..NumDirs
  BY DegradedAssumption
<1>2. Found(name) = IF has = {} THEN MISSING ELSE At(first, name)
  BY DEF Found
<1>3. \A dir \in 1..NumDirs : dir \in has <=> <<dir, name>> \in Paths /\ files[<<dir, name>>] # MISSING
  BY DEF At
<1>4. \A dir \in has : At(dir, name) = files[<<dir, name>>]
  BY DEF At
<1> HIDE DEF has
<1>5. has # {} => first \in has /\ \A other \in has : first <= other
  BY <1>1, FirstNumber
<1> HIDE DEF first
<1>6. ASSUME NEW p \in Paths, p[2] = name, InForce(p) PROVE Found(name) = files[p]
  <2>1. p[1] \in has /\ p = <<p[1], name>>
    BY <1>3, <1>6, PathsAre DEF InForce, Readable
  <2>2. first \in has /\ first <= p[1] /\ <<first, name>> \in Paths
    BY <1>1, <1>3, <1>5, <2>1
  <2>3. p[1] <= first
    <3>1. files[<<first, name>>] # MISSING /\ <<first, name>>[2] = name
      BY <1>1, <1>3, <2>2
    <3> QED
      BY <1>6, <2>2, <3>1 DEF InForce
  <2>4. p[1] = first
    BY <1>1, <2>1, <2>2, <2>3
  <2> QED
    BY <1>2, <1>4, <2>1, <2>2, <2>4
<1>7. ASSUME Readable(Found(name))
      PROVE  /\ Found(name) \in Seq(Line)
             /\ \E p \in Paths : p[2] = name /\ InForce(p)
  <2> DEFINE p == <<first, name>>
  <2>1. has # {} /\ first \in has /\ p \in Paths /\ Found(name) = files[p]
    BY <1>1, <1>2, <1>3, <1>4, <1>5, <1>7 DEF Readable
  <2>2. Found(name) \in Seq(Line)
    BY <1>7, <2>1, DegradedAssumption DEF Readable, FilesTyped
  <2>3. InForce(p)
    <3>1. ASSUME NEW q \in Paths, q[2] = p[2], files[q] # MISSING PROVE p[1] <= q[1]
      <4>1. q = <<q[1], name>> /\ q[1] \in 1..NumDirs
        BY <3>1, PathsAre
      <4>2. q[1] \in has
        BY <1>3, <3>1, <4>1
      <4> QED
        BY <1>5, <2>1, <4>2
    <3> QED
      BY <1>7, <2>1, <3>1 DEF InForce
  <2> QED
    BY <2>1, <2>2, <2>3
<1> QED
  BY <1>6, <1>7

\* The value assigned at a place.
ValueAt(x) == files[x[1]][x[2]].value

LEMMA PlacesAre ==
  ASSUME NEW key, NEW x \in Places(key)
  PROVE  /\ x[1] \in Paths /\ InForce(x[1]) /\ x[2] \in Assigned(files[x[1]], key)
         /\ x = <<x[1], x[2]>>
BY DEF Places

\* The file of a name, read after those before it.
LEMMA ReadFileSay ==
  ASSUME FilesTyped, NEW name \in Names, NEW before \in Settings, NEW key \in Keys
  PROVE  LET keys == ReadFile(before, Found(name)) IN
         /\ keys \in Settings
         /\ \/ keys[key] = before[key] /\ \A x \in Places(key) : x[1][2] # name
            \/ \E x \in Places(key) :
                  /\ x[1][2] = name /\ keys[key] = ValueAt(x)
                  /\ \A y \in Places(key) : y[1][2] = name => After(x, y)
<1> DEFINE text == Found(name)
<1>1. CASE ~Readable(text)
  <2>1. \A x \in Places(key) : x[1][2] # name
    BY <1>1, FoundIs, PlacesAre DEF InForce
  <2> QED
    BY <1>1, <2>1 DEF ReadFile
<1>2. CASE Readable(text)
  <2>1. text \in Seq(Line) /\ Len(text) \in Nat /\ Len(text) \in 0..Len(text)
    BY <1>2, FoundIs
  <2>2. PICK p \in Paths : p[2] = name /\ InForce(p)
    BY <1>2, FoundIs
  <2>3. text = files[p]
    BY <2>2, FoundIs
  <2>4. \A x \in Places(key) : x[1][2] = name => x[1] = p /\ x[2] \in Assigned(text, key)
    <3>1. ASSUME NEW x \in Places(key), x[1][2] = name PROVE x[1] = p
      <4>1. x[1] \in Paths /\ InForce(x[1])
        BY PlacesAre
      <4>2. files[x[1]] # MISSING /\ files[p] # MISSING
        BY <2>2, <4>1 DEF InForce, Readable
      <4>3. x[1][1] <= p[1] /\ p[1] <= x[1][1]
        BY <2>2, <3>1, <4>1, <4>2 DEF InForce
      <4> QED
        BY <2>2, <3>1, <4>1, <4>3, PathsAre
    <3> QED
      BY <2>3, <3>1, PlacesAre
  <2>5. \A i \in Assigned(text, key) : <<p, i>> \in Places(key)
    BY <2>2, <2>3 DEF Places
  <2> DEFINE keys == KeysAt(before, text)[Len(text)]
  <2>6. ReadFile(before, text) = keys /\ keys \in Settings
    BY <1>2, <2>1, KeysAtIs DEF ReadFile
  <2> HIDE DEF keys, text
  <2>7. CASE Assigned(text, key) = {} /\ keys[key] = before[key]
    BY <2>4, <2>6, <2>7 DEF text
  <2>8. ASSUME NEW i \in Assigned(text, key), keys[key] = text[i].value,
               \A j \in Assigned(text, key) : i >= j
        PROVE  \E x \in Places(key) :
                  /\ x[1][2] = name /\ keys[key] = ValueAt(x)
                  /\ \A y \in Places(key) : y[1][2] = name => After(x, y)
    <3> DEFINE x == <<p, i>>
    <3>1. x \in Places(key) /\ x[1] = p /\ x[2] = i
      BY <2>5, <2>8
    <3>2. \A y \in Places(key) : y[1][2] = name => After(x, y)
      BY <2>4, <2>8 DEF After
    <3> QED
      BY <2>2, <2>3, <2>8, <3>1, <3>2 DEF ValueAt
  <2>9. \/ Assigned(text, key) = {} /\ keys[key] = before[key]
        \/ \E i \in Assigned(text, key) :
              keys[key] = text[i].value /\ \A j \in Assigned(text, key) : i >= j
    BY <2>1, KeysAtSay DEF keys
  <2> QED
    BY <2>6, <2>7, <2>8, <2>9 DEF text
<1> QED
  BY <1>1, <1>2

Unset == [key \in Keys |-> EMPTY]

\* What the files make of the keys, one after the other.
LEMMA KeysAfterIs ==
  ASSUME FilesTyped
  PROVE  LET keys == KeysAfter(CollectFiles) IN
         /\ keys[0] = ReadFile(Unset, Found(0)) /\ keys[0] \in Settings
         /\ \A i \in 1..NumDropIns :
               keys[i - 1] \in Settings =>
                  keys[i] = ReadFile(keys[i - 1], Found(i)) /\ keys[i] \in Settings
<1> DEFINE n == NumDropIns
           F(g) == [i \in Names |-> ReadFile(IF i = MAIN THEN [key \in Keys |-> EMPTY] ELSE g[i - 1],
                                             CollectFiles[i])]
           c == ReadFile(Unset, Found(0))
           step == [i \in 1..n |-> [v \in Settings |-> ReadFile(v, Found(i))]]
           keys == KeysAfter(CollectFiles)
<1>1. n \in Nat /\ Names = 0..n /\ MAIN = 0 /\ Unset \in Settings /\ 0 \in Names
  BY DegradedAssumption DEF Names, MAIN, Unset, Settings
<1>2. \A i \in 1..n : i - 1 \in 0..n /\ i \in 0..n /\ i # 0
  BY <1>1
<1>3. keys = CHOOSE g : g = F(g)
  BY Zenon DEF KeysAfter
<1>4. \A i \in Names, v \in Settings : ReadFile(v, Found(i)) \in Settings
  <2>1. "IdleAction" \in Keys
    BY DEF Keys
  <2> QED
    BY <2>1, ReadFileSay
<1>5. \A i \in Names : CollectFiles[i] = Found(i)
  BY DEF CollectFiles
<1> HIDE DEF n, keys
<1>6. step \in [1..n -> [Settings -> Settings]] /\ c \in Settings
  BY <1>1, <1>2, <1>4
<1>7. \A i \in 1..n, v \in Settings : step[i][v] = ReadFile(v, Found(i))
  OBVIOUS
<1> HIDE DEF step
<1>8. PICK g \in [0..n -> Settings] : Loops(g, n, c, step)
  <2> HIDE DEF c
  <2> QED
    BY <1>1, <1>6, Recursion
<1>9. ASSUME NEW i \in Names
      PROVE  g[i] = ReadFile(IF i = MAIN THEN [key \in Keys |-> EMPTY] ELSE g[i - 1], CollectFiles[i])
  <2>1. CASE i = 0
    BY <1>1, <1>5, <1>8, <2>1 DEF Loops, Unset
  <2>2. CASE i # 0
    <3>1. i \in 1..n /\ g[i - 1] \in Settings
      BY <1>1, <1>2, <2>2
    <3> QED
      BY <1>1, <1>5, <1>7, <1>8, <2>2, <3>1 DEF Loops
  <2> QED
    BY <2>1, <2>2
<1>10. g = F(g)
  <2>1. g = [i \in Names |-> g[i]]
    BY <1>1
  <2> QED
    BY <1>9, <2>1, Zenon
<1>11. keys = F(keys)
  <2> HIDE DEF F
  <2> QED
    BY <1>3, <1>10
<1>12. keys[0] = c /\ \A i \in 1..n : keys[i] = ReadFile(keys[i - 1], Found(i))
  <2>1. \A i \in Names : keys[i] = ReadFile(IF i = MAIN THEN Unset ELSE keys[i - 1], Found(i))
    BY <1>5, <1>11 DEF Unset
  <2> QED
    BY <1>1, <1>2, <2>1
<1> QED
  BY <1>1, <1>2, <1>4, <1>6, <1>12 DEF n, keys

\* What a key is set to in the end is what the last place says, if there is one.
LEMMA EffectiveSay ==
  ASSUME FilesTyped, NEW key \in Keys
  PROVE  LET value == EffectiveKeys(CollectFiles)[key] IN
         /\ value \in KeyValues \cup {EMPTY}
         /\ \/ Places(key) = {} /\ value = EMPTY
            \/ \E x \in Places(key) :
                  value = ValueAt(x) /\ \A y \in Places(key) : After(x, y)
<1> DEFINE keys == KeysAfter(CollectFiles)
           Last(m) == \/ (\A x \in Places(key) : x[1][2] > m) /\ keys[m][key] = EMPTY
                      \/ \E x \in Places(key) :
                            /\ x[1][2] <= m /\ keys[m][key] = ValueAt(x)
                            /\ \A y \in Places(key) : y[1][2] <= m => After(x, y)
           S == {m \in Names : keys[m] \in Settings /\ Last(m)}
<1>1. NumDropIns \in Nat /\ Names = 0..NumDropIns /\ Names \subseteq Nat
  BY DegradedAssumption DEF Names
<1>2. \A x \in Places(key) : x[1][2] \in Names
  BY PlacesAre, PathsAre
<1>3. /\ keys[0] = ReadFile(Unset, Found(0)) /\ keys[0] \in Settings
      /\ \A i \in 1..NumDropIns :
            keys[i - 1] \in Settings =>
               keys[i] = ReadFile(keys[i - 1], Found(i)) /\ keys[i] \in Settings
  BY KeysAfterIs
<1> HIDE DEF keys
<1>4. 0 \in S
  <2>1. 0 \in Names /\ Unset \in Settings /\ Unset[key] = EMPTY
    BY <1>1 DEF Unset, Settings
  <2>2. \/ keys[0][key] = EMPTY /\ \A x \in Places(key) : x[1][2] # 0
        \/ \E x \in Places(key) :
              /\ x[1][2] = 0 /\ keys[0][key] = ValueAt(x)
              /\ \A y \in Places(key) : y[1][2] = 0 => After(x, y)
    BY <1>3, <2>1, ReadFileSay
  <2>3. \A x \in Places(key) : (x[1][2] = 0 <=> x[1][2] <= 0) /\ (x[1][2] # 0 <=> x[1][2] > 0)
    BY <1>1, <1>2
  <2> QED
    BY <1>3, <2>1, <2>2, <2>3
<1>5. ASSUME NEW m \in 1..NumDropIns, m - 1 \in S PROVE m \in S
  <2>1. /\ m \in Names /\ keys[m - 1] \in Settings /\ keys[m] \in Settings
        /\ keys[m] = ReadFile(keys[m - 1], Found(m))
    BY <1>1, <1>3, <1>5
  <2>2. \A x \in Places(key) :
           /\ x[1][2] <= m <=> x[1][2] <= m - 1 \/ x[1][2] = m
           /\ x[1][2] > m - 1 <=> x[1][2] > m \/ x[1][2] = m
           /\ x[1][2] = m => ~(x[1][2] <= m - 1)
    BY <1>1, <1>2
  <2>3. CASE keys[m][key] = keys[m - 1][key] /\ \A x \in Places(key) : x[1][2] # m
    <3>1. Last(m - 1) => Last(m)
      BY <2>2, <2>3
    <3> QED
      BY <1>5, <2>1, <3>1
  <2>4. ASSUME NEW x \in Places(key), x[1][2] = m, keys[m][key] = ValueAt(x),
               \A y \in Places(key) : y[1][2] = m => After(x, y)
        PROVE  m \in S
    <3>1. \A y \in Places(key) : y[1][2] <= m - 1 => After(x, y)
      BY <1>1, <1>2, <2>2, <2>4 DEF After
    <3> QED
      BY <2>1, <2>2, <2>4, <3>1
  <2> QED
    BY <2>1, <2>3, <2>4, ReadFileSay
<1>6. NumDropIns \in S
  <2> HIDE DEF S
  <2> QED
    BY <1>1, <1>4, <1>5, Induction
<1>7. \A x \in Places(key) : x[1][2] <= NumDropIns /\ ~(x[1][2] > NumDropIns)
  BY <1>1, <1>2
<1>8. EffectiveKeys(CollectFiles) = keys[NumDropIns]
  BY DEF EffectiveKeys, keys
<1>9. keys[NumDropIns] \in Settings => keys[NumDropIns][key] \in KeyValues \cup {EMPTY}
  BY DEF Settings
<1> QED
  BY <1>6, <1>7, <1>8, <1>9

LEMMA FinalIs ==
  ASSUME FilesTyped, NEW key \in Keys
  PROVE  LET value == EffectiveKeys(CollectFiles)[key] IN
         /\ IsUnset(key) <=> value = EMPTY
         /\ Acts(key) <=> value \notin {EMPTY, "ignore"}
<1> DEFINE value == EffectiveKeys(CollectFiles)[key]
           last == {x \in Places(key) : \A y \in Places(key) : After(x, y)}
<1>1. CASE Places(key) = {} /\ value = EMPTY
  BY <1>1 DEF IsUnset, Acts, Final
<1>2. ASSUME NEW x \in Places(key), value = ValueAt(x), \A y \in Places(key) : After(x, y)
      PROVE  Final(key) = {value}
  <2>1. ASSUME NEW y \in last PROVE y = x
    <3>1. /\ x[1] \in Paths /\ y[1] \in Paths /\ x[1][2] \in Nat /\ y[1][2] \in Nat
          /\ x = <<x[1], x[2]>> /\ y = <<y[1], y[2]>>
      BY <2>1, PlacesAre, PathsAre
    <3>2. x[2] \in Nat /\ y[2] \in Nat
      BY <2>1, PlacesAre DEF Assigned
    <3>3. After(x, y) /\ After(y, x)
      BY <1>2, <2>1
    <3> QED
      BY <3>1, <3>2, <3>3 DEF After
  <2>2. x \in last
    BY <1>2
  <2>3. last = {x}
    BY <2>1, <2>2
  <2> HIDE DEF last
  <2>4. Final(key) = {ValueAt(y) : y \in last}
    BY DEF Final, ValueAt, last
  <2> QED
    BY <1>2, <2>3, <2>4
<1>3. ASSUME Final(key) = {value}
      PROVE  /\ IsUnset(key) <=> value = EMPTY
             /\ Acts(key) <=> value \notin {EMPTY, "ignore"}
  <2> HIDE DEF value
  <2> QED
    BY <1>3 DEF IsUnset, Acts
<1> QED
  BY <1>1, <1>2, <1>3, EffectiveSay

\* What `check` says is what logind does by itself.
LEMMA CheckSays ==
  ASSUME FilesTyped, NEW server \in BOOLEAN
  PROVE  /\ "lid-switch" \in Check(server) <=> server /\ ActsOnLid
         /\ "idle-action" \in Check(server) <=> Acts("IdleAction")
         /\ Check(server) \subseteq {"lid-switch", "idle-action"}
<1> DEFINE keys == EffectiveKeys(CollectFiles)
           login == LoginSettings(keys)
<1>1. \A key \in Keys : /\ IsUnset(key) <=> keys[key] = EMPTY
                        /\ Acts(key) <=> keys[key] \notin {EMPTY, "ignore"}
  BY FinalIs
<1>2. {"HandleLidSwitch", "HandleLidSwitchExternalPower", "HandleLidSwitchDocked",
       "IdleAction"} = Keys
  BY DEF Keys
<1>3. EMPTY # "ignore"
  BY DegradedAssumption
<1> HIDE DEF keys
<1>4. LidActions(login) # {} <=> ActsOnLid
  BY <1>1, <1>2, <1>3 DEF LidActions, LoginSettings, ActsOnLid
<1>5. login.idle # "ignore" <=> Acts("IdleAction")
  BY <1>1, <1>2, <1>3 DEF LoginSettings
<1>6. Check(server) = {"lid-switch" : x \in IF server THEN LidActions(login) ELSE {}}
                      \cup {"idle-action" : x \in {login.idle} \ {"ignore"}}
  BY Zenon DEF Check, keys
<1> HIDE DEF login
<1> QED
  BY <1>4, <1>5, <1>6

\* What a configuration has to do with the server, and what is said of it.
Serves(c) == c.server
Devices == /\ "backlight" \in degraded <=> sink = {}
           /\ "rtc" \in degraded <=> Serves(config) /\ rtc = {}
Settled == /\ "lid-switch" \in degraded <=> Serves(config) /\ ActsOnLid
           /\ "idle-action" \in degraded <=> Acts("IdleAction")
HonestInv ==
    /\ FilesTyped /\ config \in Sections
    /\ up => Devices /\ (fresh => Settled)

LEMMA ServesIs ==
  ASSUME NEW c \in Sections
  PROVE  Serves(c) \in BOOLEAN /\ c.server = Serves(c)
<1>1. c \in [panel : {"panel0", "panel1"}, server : BOOLEAN, rtc : {"rtc0", "rtc1"},
            interval : Nat]
  BY DegradedAssumption DEF Section
<1>2. c.server \in BOOLEAN
  BY <1>1
<1> QED
  BY <1>2, Zenon DEF Serves

\* The same files say the same.
LEMMA FilesSay ==
  ASSUME files' = files
  PROVE  /\ ActsOnLid' <=> ActsOnLid
         /\ Acts("IdleAction")' <=> Acts("IdleAction")
BY DEF ActsOnLid, Acts, IsUnset, Final, Places, InForce

LEMMA HonestStarts ==
  ASSUME HonestInv, StartDaemon
  PROVE  HonestInv'
<1> DEFINE server == Serves(config)
<1>1. /\ UNCHANGED <<files, config>> /\ FilesTyped /\ config \in Sections
      /\ server \in BOOLEAN /\ config.server = server
  BY ServesIs DEF HonestInv, StartDaemon
<1>2. degraded' = Marked("backlight", sink' = {}) \cup Marked("rtc", server /\ rtc' = {})
                  \cup Check(server)
  BY <1>1, Zenon DEF StartDaemon
<1>3. Serves(config)' = server
  BY <1>1 DEF Serves
<1> HIDE DEF server
<1>4. Check(server) \cap {"backlight", "rtc"} = {}
  BY <1>1, CheckSays
<1>5. Devices'
  BY <1>2, <1>3, <1>4 DEF Devices, Marked
<1>6. Settled'
  BY <1>1, <1>2, <1>3, CheckSays, FilesSay DEF Settled, Marked
<1> QED
  BY <1>1, <1>5, <1>6 DEF HonestInv, FilesTyped

LEMMA HonestReloads ==
  ASSUME HonestInv, NEW c \in Sections, Reload(c)
  PROVE  HonestInv'
<1> DEFINE server == Serves(c)
           looks == Server(c) # Server(config)
           entries == IF c.panel # config.panel
                      THEN Remark(degraded, "backlight", sink' = {}) ELSE degraded
           marked == IF looks THEN Remark(entries, "rtc", server /\ rtc' = {}) ELSE entries
<1>1. /\ files' = files /\ config' = c /\ up /\ FilesTyped /\ config \in Sections
      /\ server \in BOOLEAN /\ c.server = server /\ Serves(config) \in BOOLEAN
      /\ c.panel = config.panel => sink' = sink
      /\ ~looks => rtc' = rtc
  BY ServesIs DEF HonestInv, Reload
<1>2. ~looks => server = Serves(config)
  <2>1. ~looks => Server(c)[1] = Server(config)[1]
    BY Zenon
  <2> QED
    BY <2>1, Zenon DEF Server, Serves
<1>3. degraded' = Remark(Remark(marked, "lid-switch", "lid-switch" \in Check(server)),
                         "idle-action", "idle-action" \in Check(server))
  BY <1>1, Zenon DEF Reload
<1>4. Serves(config') = server
  BY <1>1
<1> HIDE DEF server, looks
<1>5. "backlight" \in entries <=> sink' = {}
  BY <1>1 DEF HonestInv, Devices, Remark, Marked
<1>6. "rtc" \in entries <=> Serves(config) /\ rtc = {}
  BY <1>1 DEF HonestInv, Devices, Remark, Marked
<1> HIDE DEF entries
<1>7. /\ "backlight" \in marked <=> sink' = {}
      /\ "rtc" \in marked <=> server /\ rtc' = {}
  BY <1>1, <1>2, <1>5, <1>6 DEF Remark, Marked
<1> HIDE DEF marked
<1>8. Devices'
  BY <1>3, <1>4, <1>7 DEF Devices, Remark, Marked
<1>9. Settled'
  BY <1>1, <1>3, <1>4, CheckSays, FilesSay DEF Settled, Remark, Marked
<1> QED
  BY <1>1, <1>8, <1>9 DEF HonestInv, FilesTyped

LEMMA HonestStep ==
  ASSUME HonestInv, [DegradedNext]_degradedVars
  PROVE  HonestInv'
<1>1. CASE StartDaemon
  BY <1>1, HonestStarts
<1>2. CASE StopDaemon
  BY <1>2 DEF HonestInv, StopDaemon, FilesTyped
<1>3. ASSUME NEW c \in Sections, Reload(c) PROVE HonestInv'
  BY <1>3, HonestReloads
<1>4. ASSUME NEW path \in Paths, NEW text \in Texts \cup {MISSING, UNREADABLE}, Edits(path, text)
      PROVE  HonestInv'
  BY <1>4 DEF HonestInv, Edits, FilesTyped, Devices, Serves
<1>5. CASE UNCHANGED <<files, up, config, sink, rtc, degraded, fresh>>
  BY <1>5, FilesSay DEF HonestInv, FilesTyped, Devices, Settled, Serves
<1> QED
  BY <1>1, <1>2, <1>3, <1>4, <1>5 DEF DegradedNext, Changes, degradedVars

\* status.degraded tells the truth, whatever the files, in whatever directories
\* and drop-ins, whatever the daemon has found or has been reloaded with
\* (main.rs, run and reload; logind_conf.rs).
THEOREM StatusIsHonestHolds == DegradedSpec => []StatusIsHonest
<1>1. DegradedInit => HonestInv
  BY DEF DegradedInit, HonestInv, FilesTyped
<1>2. HonestInv /\ [DegradedNext]_degradedVars => HonestInv'
  BY HonestStep
<1>3. HonestInv => StatusIsHonest
  BY Zenon DEF HonestInv, Devices, Settled, Serves, StatusIsHonest
<1> QED
  BY <1>1, <1>2, <1>3, PTL DEF DegradedSpec

=============================================================================
