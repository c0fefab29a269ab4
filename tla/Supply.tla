------------------------------- MODULE Supply -------------------------------
(***************************************************************************)
(* The watcher of the power supply, src/power/supply.rs: a task that reads  *)
(* /sys/class/power_supply when a poll is due, when the kernel sends a      *)
(* uevent, or when it is asked to after a resume, and sends the difference  *)
(* to its last reading to the main loop.                                    *)
(*                                                                         *)
(* A directory is a set of devices, each with its name and its fields as    *)
(* the code reads them.  Messages of the kernel that wait are one flag, two *)
(* rechecks that are due at the same time are one: a second read finds      *)
(* nothing new.                                                             *)
(***************************************************************************)
EXTENDS Naturals, Sequences, FiniteSetsExt

CONSTANTS
    NONE,           \* a field that is missing, or not a number
    BROKEN,         \* the directory cannot be read
    Directories,    \* what it may hold
    Others,         \* events that other tasks send
    Poll,           \* POLL_INTERVAL, in ticks
    Rechecks,       \* RESUME_RECHECKS, in ticks
    EventCap,       \* bound: capacity of `events` (64 in the code)
    RefreshCap      \* bound: capacity of `refresh` (4 in the code)

-----------------------------------------------------------------------------
(* A reading.                                                              *)

Full(d) == Max({1, IF d.energyFull # NONE THEN d.energyFull
                   ELSE IF d.chargeFull # NONE THEN d.chargeFull ELSE 1})

\* Mice and headsets have a battery too, of scope Device.
Batteries(dir) == {d \in dir : /\ d.type = "Battery"
                               /\ d.scope # "Device" /\ d.capacity # NONE}

Capacity(d) == Min({d.capacity, 100})

\* By design capacity, rounded to the nearest percent.
WeightedCapacity(bats) ==
    LET total == MapThenSumSet(Full, bats)
        sum == MapThenSumSet(LAMBDA d : Capacity(d) * Full(d), bats)
    IN  IF bats = {} THEN NONE ELSE Min({(sum + total \div 2) \div total, 100})

Snapshot(dir) ==
    [ac |-> \E d \in dir : d.type \in {"Mains", "USB"} /\ d.online,
     battery |-> WeightedCapacity(Batteries(dir))]

Reading == [ac : BOOLEAN, battery : 0..100 \cup {NONE}]

ASSUME SupplyAssumption ==
    /\ NONE \notin Nat
    /\ BROKEN \notin Directories
    /\ \A dir \in Directories : Snapshot(dir) \in Reading
    /\ Poll \in Nat /\ Rechecks \subseteq Nat
    /\ EventCap \in Nat \ {0} /\ RefreshCap \in Nat \ {0}
    /\ \A e \in Others : e.event \notin {"AcChanged", "Battery"}

AcChanged(a) == [event |-> "AcChanged", ac |-> a]
BatteryAt(p) == [event |-> "Battery", percent |-> p]
Value(e) == IF e.event = "AcChanged" THEN e.ac ELSE e.percent
PowerEvent == {AcChanged(a) : a \in BOOLEAN} \cup {BatteryAt(p) : p \in 0..100}

\* Mutant: one event for one reading.
DiffOne(old, new) ==
    IF old.ac # new.ac THEN <<AcChanged(new.ac)>>
    ELSE IF new.battery \in {NONE, old.battery} THEN <<>> ELSE <<BatteryAt(new.battery)>>

\* diff: a battery that is gone is not reported.
Diff(old, new) ==
    (IF old.ac = new.ac THEN <<>> ELSE <<AcChanged(new.ac)>>)
    \o IF new.battery \in {NONE, old.battery} THEN <<>> ELSE <<BatteryAt(new.battery)>>

-----------------------------------------------------------------------------
VARIABLES
    sysfs,          \* a directory, or BROKEN
    monitor,        \* the netlink socket: open, closed (it could not be opened),
                    \* failed (not listened to before the next read)
    uevent,         \* do messages about power supplies wait in it
    rechecks,       \* the delays left of the tasks of recheck_after_resume
    refresh,        \* messages in the channel of requested reads
    poll,           \* ticks before the sleep of the loop ends
    previous,       \* the reading that was reported last
    taken, unsent,  \* the one that is being reported, and the events left of it
    latest, readable,   \* what SupplyHandle shows of the last read
    events,         \* the channel of the main loop
    known           \* power as the main loop knows it (the engine's `power`)

taskVars == <<monitor, uevent, rechecks, refresh, poll>>
reportVars == <<previous, taken, unsent, latest, readable>>
supplyVars == <<sysfs, taskVars, reportVars, events, known>>

\* main: a supply that cannot be read at the start is taken for AC.
Assumed == [ac |-> TRUE, battery |-> NONE]

SupplyInit ==
    /\ sysfs \in Directories \cup {BROKEN}
    /\ monitor \in {"open", "closed"} /\ uevent = FALSE
    /\ rechecks = {} /\ refresh = 0 /\ poll = Poll
    /\ latest = IF sysfs = BROKEN THEN Assumed ELSE Snapshot(sysfs)
    /\ readable = (sysfs # BROKEN)
    /\ previous = latest /\ taken = latest /\ known = latest
    /\ unsent = <<>> /\ events = <<>>

-----------------------------------------------------------------------------
(* The kernel.                                                             *)

\* Some controllers send no uevent.
Change(dir) ==
    /\ sysfs' = dir
    /\ uevent' \in {uevent, TRUE}
    /\ UNCHANGED <<monitor, rechecks, refresh, poll, reportVars, events, known>>

\* A receive fails, perhaps with messages lost (wait_for_uevent).
NetlinkFails ==
    /\ monitor = "open"
    /\ monitor' = "failed" /\ uevent' \in {uevent, FALSE}
    /\ UNCHANGED <<sysfs, rechecks, refresh, poll, reportVars, events, known>>

-----------------------------------------------------------------------------
(* The task.                                                               *)

Waiting == unsent = <<>>

\* The turn of the loop that follows: read and diff.  The sleep of the next turn
\* begins when everything is sent.
Read ==
    /\ poll' = Poll
    /\ monitor' = IF monitor = "failed" THEN "open" ELSE monitor
    /\ readable' = (sysfs # BROKEN)
    /\ IF sysfs = BROKEN THEN UNCHANGED <<previous, taken, unsent, latest>>
       ELSE /\ latest' = Snapshot(sysfs) /\ taken' = latest'
            /\ unsent' = Diff(previous, taken')
            /\ previous' = IF unsent' = <<>> THEN taken' ELSE previous
    /\ UNCHANGED <<sysfs, rechecks, events, known>>

PollDue == Waiting /\ poll = 0 /\ Read /\ UNCHANGED <<uevent, refresh>>

Listens == monitor = "open" /\ uevent
UeventCame == Waiting /\ Listens /\ uevent' = FALSE /\ Read /\ UNCHANGED refresh

RefreshAsked ==
    /\ Waiting /\ refresh > 0
    /\ refresh' = refresh - 1
    /\ Read /\ UNCHANGED uevent

SendEvent ==
    /\ ~Waiting /\ Len(events) < EventCap
    /\ events' = Append(events, Head(unsent))
    /\ unsent' = Tail(unsent)
    /\ previous' = IF unsent' = <<>> THEN taken ELSE previous
    /\ UNCHANGED <<sysfs, taskVars, taken, latest, readable, known>>

\* A task of recheck_after_resume, whose delay is over.
Recheck ==
    /\ 0 \in rechecks /\ refresh < RefreshCap
    /\ rechecks' = rechecks \ {0}
    /\ refresh' = refresh + 1
    /\ UNCHANGED <<sysfs, monitor, uevent, poll, reportVars, events, known>>

WatchTask == PollDue \/ UeventCame \/ RefreshAsked \/ SendEvent \/ Recheck

-----------------------------------------------------------------------------
(* The main loop, and time.                                                *)

Taking(names) == events # <<>> /\ Head(events).event \in names
Takes == events' = Tail(events)

TakePower ==
    /\ Taking({"AcChanged", "Battery"}) /\ Takes
    /\ LET e == Head(events) IN
       known' = IF e.event = "AcChanged" THEN [known EXCEPT !.ac = e.ac]
                ELSE [known EXCEPT !.battery = e.percent]
    /\ UNCHANGED <<sysfs, taskVars, reportVars>>

\* Mutant: one look is enough.
ResumedOnce ==
    /\ Taking({"Resumed"}) /\ Takes
    /\ rechecks' = rechecks \cup {Min(Rechecks)}
    /\ UNCHANGED <<sysfs, monitor, uevent, refresh, poll, reportVars, known>>

\* recheck_after_resume
Resumed ==
    /\ Taking({"Resumed"}) /\ Takes
    /\ rechecks' = rechecks \cup Rechecks
    /\ UNCHANGED <<sysfs, monitor, uevent, refresh, poll, reportVars, known>>

TakeOther ==
    /\ events # <<>> /\ ~Taking({"AcChanged", "Battery", "Resumed"}) /\ Takes
    /\ UNCHANGED <<sysfs, taskVars, reportVars, known>>

SendOther(e) ==
    /\ Len(events) < EventCap
    /\ events' = Append(events, e)
    /\ UNCHANGED <<sysfs, taskVars, reportVars, known>>

\* Tasks take milliseconds, ticks are seconds: no time passes while one can go on.
Quiet == Waiting /\ events = <<>> /\ refresh = 0 /\ 0 \notin rechecks /\ ~Listens /\ poll > 0

SupplyTick ==
    /\ Quiet
    /\ poll' = poll - 1
    /\ rechecks' = {r - 1 : r \in rechecks}
    /\ UNCHANGED <<sysfs, monitor, uevent, refresh, reportVars, events, known>>

SupplyNext ==
    \/ \E dir \in Directories \cup {BROKEN} : Change(dir)
    \/ NetlinkFails
    \/ WatchTask
    \/ TakePower \/ Resumed \/ TakeOther
    \/ \E e \in Others : SendOther(e)
    \/ SupplyTick

SupplySpec == SupplyInit /\ [][SupplyNext]_supplyVars

-----------------------------------------------------------------------------
(* Properties.                                                             *)

SupplyTypeOK ==
    /\ sysfs \in Directories \cup {BROKEN}
    /\ monitor \in {"open", "closed", "failed"} /\ uevent \in BOOLEAN
    /\ rechecks \subseteq Nat /\ refresh \in 0..RefreshCap /\ poll \in 0..Poll
    /\ {previous, taken, latest, known} \subseteq Reading
    /\ readable \in BOOLEAN
    /\ unsent \in Seq(PowerEvent) /\ Len(unsent) <= 2
    /\ events \in Seq(PowerEvent \cup Others) /\ Len(events) <= EventCap

\* Whoever takes the events of s, and took the value of this name for `before`,
\* ends up with `value`.
LastOf(s, name) == {i \in 1..Len(s) : s[i].event = name /\ \A j \in i+1..Len(s) : s[j].event # name}
Tells(s, name, value, before) ==
    /\ \A i \in LastOf(s, name) : Value(s[i]) = value
    /\ (\A i \in 1..Len(s) : s[i].event # name) => before = value

\* Between two reads the main loop knows, or is about to learn, what the last one
\* said: whatever was full, lost or restarted in between, no change of power is
\* left unsaid, and a battery that is gone leaves its last percentage behind.
NothingUnsaid ==
    Waiting => /\ Tells(events, "AcChanged", previous.ac, known.ac)
               /\ previous.battery # NONE =>
                     Tells(events, "Battery", previous.battery, known.battery)

\* An AcChanged that is sent is a change for whoever has taken the events before
\* it: what Daemon assumes of the power events that arrive (Arrives).
ReportsChanges ==
    [][\A a \in BOOLEAN : events' = Append(events, AcChanged(a)) =>
          Tells(events, "AcChanged", ~a, known.ac)]_supplyVars

=============================================================================
