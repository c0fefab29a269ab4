------------------------------ MODULE Backlight ------------------------------
(***************************************************************************)
(* The brightness of the panel, src/backlight.rs.                           *)
(*                                                                         *)
(* The main loop calls `dim_to`, `restore`, `reconfigure` and `settle`, one *)
(* at a time.  A fade is a task on another thread; a call that must stop it *)
(* sets `cancel` and awaits its end.  The panel is a file that anybody      *)
(* (brightness keys, brightnessctl, firmware) may write at any time, and    *)
(* each read and write of ours may fail.                                    *)
(*                                                                         *)
(* What the user is owed is kept in history variables: `user`, `kept` and   *)
(* `level`.  Nothing is owed any more, until the user sets the brightness   *)
(* again, once it is `upset`: somebody wrote while a fade or a call was     *)
(* under way, a read or write of ours failed, a restore was cut short by    *)
(* the next dim, or the dim was forgotten for a reload.                     *)
(***************************************************************************)
EXTENDS Integers

CONSTANTS
    NONE, AUTO,
    Devices,        \* names under /sys/class/backlight
    Rank,           \* of the type of a device: raw 0, firmware 1, others 2
    NameOrder,      \* of the names
    MaxRaw,         \* max_brightness
    Percents,       \* what a Dim may ask for
    Tunings         \* the rest of [backlight]: the floor, the steps of a transition

\* d comes before e in the sorted list of candidates, which has a first.
Before(d, e) == Rank[d] < Rank[e] \/ (Rank[d] = Rank[e] /\ NameOrder[d] <= NameOrder[e])

ASSUME BacklightAssumption ==
    /\ NONE \notin Devices /\ AUTO \notin Devices
    /\ Rank \in [Devices -> 0..2] /\ NameOrder \in [Devices -> Nat]
    /\ \A found \in SUBSET Devices : found # {} =>
          \E best \in found : \A other \in found : Before(best, other)
    /\ MaxRaw \in Nat \ {0} /\ NONE \notin 0..MaxRaw
    /\ Percents \subseteq 0..100
    /\ Tunings \subseteq [minPercent : 0..100, steps : Nat \ {0}]

VARIABLES
    panel,          \* the file `brightness` of the device in use
    device, sink,   \* the name in the configuration, the device found for it
    tuning,
    state, preDim, written,
    fade,           \* the fade task, NONE if there is none to wait for
    call,           \* what the main loop is in the middle of
    user,           \* history: the brightness the user has set
    kept,           \* history: set by somebody else while dimmed, or NONE
    level,          \* history: where the dim went, or NONE
    upset,          \* history: see above
    stale           \* history: somebody set, while dimmed, what was written before

config == <<device, sink, tuning>>
history == <<user, kept, level, upset, stale>>
vars == <<panel, config, state, preDim, written, fade, call, history>>

-----------------------------------------------------------------------------
(* Conversions.                                                            *)

RawFromPercent(percent) == (MaxRaw * percent) \div 100

Lower(a, b) == IF a <= b THEN a ELSE b
Higher(a, b) == IF a >= b THEN a ELSE b

\* Mutant: a dim may brighten.
TargetAsAsked(percent, current) ==
    Lower(Higher(RawFromPercent(percent), RawFromPercent(tuning.minPercent)), MaxRaw)

Target(percent, current) ==
    Lower(Lower(Higher(RawFromPercent(percent), RawFromPercent(tuning.minPercent)), MaxRaw),
          current)

\* The division of i64 rounds towards zero.
Interpolate(from, to, step, n) ==
    IF from <= to THEN from + ((to - from) * step) \div n
                  ELSE from - ((from - to) * step) \div n

Discover(usable, name) ==
    IF name # AUTO THEN IF name \in usable THEN name ELSE NONE
    ELSE IF usable = {} THEN NONE
    ELSE CHOOSE best \in usable : \A other \in usable : Before(best, other)

-----------------------------------------------------------------------------
(* The main loop and the fade.                                             *)

Call(op, arg) == [op |-> op, arg |-> arg]
Idle == Call("none", NONE)
Waits == {"dim", "restore", "switch"}   \* calls of stop_fade

\* A fade task: its loop is about to take a turn, to write, or is done.
Fades == [from : 0..MaxRaw, to : 0..MaxRaw, step : Nat, steps : Nat \ {0},
          at : {"turn", "write", "done"}, cancel : BOOLEAN]

ASSUME NoneAssumption == NONE \notin Fades

FadeEnded == fade # NONE => fade.at = "done"
CutShort == fade # NONE /\ fade.step < fade.steps
Still == FadeEnded /\ call.op \in {"none", "stopped"}

Init ==
    /\ panel \in 0..MaxRaw
    /\ device \in Devices \cup {AUTO}
    /\ \E usable \in SUBSET Devices : sink = Discover(usable, device)
    /\ tuning \in Tunings
    /\ state = "Active" /\ preDim = NONE /\ written = 0
    /\ fade = NONE /\ call = Idle
    /\ user = panel /\ kept = NONE /\ level = NONE /\ upset = FALSE /\ stale = FALSE

\* The first half of stop_fade; the caller goes on when FadeEnded.
StopFade == fade' = IF fade = NONE THEN NONE ELSE [fade EXCEPT !.cancel = TRUE]

FadeTo(from, to) ==
    \/ /\ from = to
       /\ fade' = NONE /\ call' = Idle /\ UNCHANGED written
    \/ /\ from # to /\ tuning.steps = 1
       /\ fade' = NONE /\ call' = Call("put", NONE) /\ written' = to
    \/ /\ from # to /\ tuning.steps # 1
       /\ fade' = [from |-> from, to |-> to, step |-> 0, steps |-> tuning.steps,
                   at |-> "turn", cancel |-> FALSE]
       /\ call' = Idle /\ written' = to

\* The single write of a transition without steps.
Put ==
    /\ call.op = "put"
    /\ call' = Idle
    /\ \/ panel' = written /\ UNCHANGED upset
       \/ upset' = TRUE /\ UNCHANGED panel
    /\ UNCHANGED <<config, state, preDim, written, fade, user, kept, level, stale>>

\* Mutant: the task holds its last value until it is cancelled.
FadeTurnHolding ==
    /\ fade # NONE /\ fade.at = "turn"
    /\ \/ /\ fade.cancel /\ fade' = [fade EXCEPT !.at = "done"]
          /\ UNCHANGED written
       \/ /\ ~fade.cancel /\ fade.step < fade.steps
          /\ fade' = [fade EXCEPT !.at = "write", !.step = fade.step + 1]
          /\ written' = Interpolate(fade.from, fade.to, fade.step + 1, fade.steps)
    /\ UNCHANGED <<panel, config, state, preDim, call, history>>

\* A turn of the loop in the task of a fade, up to the write.
FadeTurn ==
    /\ fade # NONE /\ fade.at = "turn"
    /\ \/ /\ fade.cancel \/ fade.step = fade.steps
          /\ fade' = [fade EXCEPT !.at = "done"]
          /\ UNCHANGED written
       \/ /\ ~fade.cancel /\ fade.step < fade.steps
          /\ fade' = [fade EXCEPT !.at = "write", !.step = fade.step + 1]
          /\ written' = Interpolate(fade.from, fade.to, fade.step + 1, fade.steps)
    /\ UNCHANGED <<panel, config, state, preDim, call, history>>

\* The write and the sleep after it; a write that fails ends the task.
FadeWrite ==
    /\ fade # NONE /\ fade.at = "write"
    /\ \/ /\ panel' = written /\ fade' = [fade EXCEPT !.at = "turn"]
          /\ UNCHANGED upset
       \/ /\ upset' = TRUE /\ fade' = [fade EXCEPT !.at = "done"]
          /\ UNCHANGED panel
    /\ UNCHANGED <<config, state, preDim, written, call, user, kept, level, stale>>

-----------------------------------------------------------------------------
(* dim_to, restore, settle, reconfigure.                                   *)

\* Without a device, or dimmed already, it returns at once.
DimTo(percent) ==
    /\ call = Idle /\ sink # NONE /\ state = "Active"
    /\ call' = Call("dim", percent) /\ StopFade
    /\ UNCHANGED <<panel, config, state, preDim, written, history>>

DimRead ==
    /\ call.op = "dim" /\ FadeEnded
    /\ upset' = (upset \/ CutShort)
    /\ \/ fade' = NONE /\ call' = Idle          \* the read fails
          /\ UNCHANGED <<state, preDim, written, level>>
       \/ LET target == Target(call.arg, panel) IN
          /\ preDim' = panel /\ state' = "Dimmed" /\ level' = target
          /\ FadeTo(panel, target)
    /\ UNCHANGED <<panel, config, user, kept, stale>>

Restore ==
    /\ call = Idle /\ sink # NONE /\ state = "Dimmed"
    /\ call' = Call("restore", NONE) /\ StopFade
    /\ UNCHANGED <<panel, config, state, preDim, written, history>>

\* Mutant: the brightness is restored whatever it is now.
RestoreReadAlways ==
    /\ call.op = "restore" /\ FadeEnded
    /\ preDim' = NONE /\ state' = "Active"
    /\ user' = (IF kept = NONE THEN user ELSE kept) /\ kept' = NONE /\ level' = NONE
    /\ FadeTo(panel, preDim) /\ UNCHANGED <<panel, config, upset, stale>>

RestoreRead ==
    /\ call.op = "restore" /\ FadeEnded
    /\ preDim' = NONE /\ state' = "Active"
    /\ user' = (IF kept = NONE THEN user ELSE kept) /\ kept' = NONE /\ level' = NONE
    /\ \/ /\ fade' = NONE /\ call' = Idle       \* the read fails
          /\ upset' = (upset \/ panel # user')
          /\ UNCHANGED written
       \/ /\ panel # written                    \* changed externally
          /\ fade' = NONE /\ call' = Idle
          /\ UNCHANGED <<written, upset>>
       \/ /\ panel = written /\ preDim # NONE
          /\ FadeTo(panel, preDim) /\ UNCHANGED upset
    /\ UNCHANGED <<panel, config, stale>>

\* Waits for the fade without stopping it; then the process ends.
Settle ==
    /\ call = Idle
    /\ call' = Call("settle", NONE)
    /\ UNCHANGED <<panel, config, state, preDim, written, fade, history>>

Settled ==
    /\ call.op = "settle" /\ FadeEnded
    /\ call' = Call("stopped", NONE) /\ fade' = NONE
    /\ UNCHANGED <<panel, config, state, preDim, written, history>>

Reconfigure(name, new) ==
    /\ call = Idle
    /\ tuning' = new
    /\ \/ /\ name = device /\ UNCHANGED <<fade, call>>
       \/ /\ name # device /\ call' = Call("switch", name) /\ StopFade
    /\ UNCHANGED <<panel, device, sink, state, preDim, written, history>>

\* The rest of reconfigure.  Another device has a brightness of its own.
SwitchDevice ==
    /\ call.op = "switch" /\ FadeEnded
    /\ device' = call.arg
    /\ \E usable \in SUBSET Devices : sink' = Discover(usable, call.arg)
    /\ preDim' = NONE /\ state' = "Active" /\ fade' = NONE /\ call' = Idle
    /\ kept' = NONE /\ level' = NONE
    /\ \/ /\ sink' = sink /\ UNCHANGED <<panel, user>>
          /\ upset' = (upset \/ state = "Dimmed" \/ CutShort) /\ UNCHANGED stale
       \/ /\ sink' # sink /\ panel' \in 0..MaxRaw
          /\ user' = panel' /\ upset' = FALSE /\ stale' = FALSE
    /\ UNCHANGED <<tuning, written>>

\* Somebody else sets the brightness.  While dimmed, the value of the dim
\* counts as no change (ADR-9).
External(value) ==
    /\ sink # NONE /\ value # panel
    /\ panel' = value
    /\ \/ /\ ~Still
          /\ upset' = TRUE /\ UNCHANGED <<user, kept, stale>>
       \/ /\ Still /\ state = "Active"
          /\ user' = value /\ upset' = FALSE /\ stale' = FALSE /\ UNCHANGED kept
       \/ /\ Still /\ state = "Dimmed"
          /\ kept' = IF value = level THEN NONE ELSE value
          /\ stale' = (stale \/ (value = written /\ value # level))
          /\ UNCHANGED <<user, upset>>
    /\ UNCHANGED <<config, state, preDim, written, fade, call, level>>

Next ==
    \/ \E percent \in Percents : DimTo(percent)
    \/ \E name \in Devices \cup {AUTO}, new \in Tunings : Reconfigure(name, new)
    \/ \E value \in 0..MaxRaw : External(value)
    \/ DimRead \/ Restore \/ RestoreRead \/ Settle \/ Settled \/ SwitchDevice
    \/ Put \/ FadeTurn \/ FadeWrite

\* The runtime runs the task and the main loop when they can go on.
Fairness ==
    /\ WF_vars(FadeTurn) /\ WF_vars(FadeWrite) /\ WF_vars(Put)
    /\ WF_vars(DimRead) /\ WF_vars(RestoreRead)
    /\ WF_vars(Settled) /\ WF_vars(SwitchDevice)

Spec == Init /\ [][Next]_vars
FairSpec == Spec /\ Fairness

-----------------------------------------------------------------------------
(* Properties.                                                             *)

Calls == [op : {"none", "put", "restore", "settle", "stopped"}, arg : {NONE}]
         \cup [op : {"dim"}, arg : Percents]
         \cup [op : {"switch"}, arg : Devices \cup {AUTO}]

TypeOK ==
    /\ panel \in 0..MaxRaw /\ written \in 0..MaxRaw
    /\ device \in Devices \cup {AUTO} /\ sink \in Devices \cup {NONE}
    /\ tuning \in Tunings
    /\ state \in {"Active", "Dimmed"} /\ preDim \in 0..MaxRaw \cup {NONE}
    /\ fade \in Fades \cup {NONE} /\ (fade # NONE => fade.step <= fade.steps)
    /\ call \in Calls
    /\ user \in 0..MaxRaw /\ kept \in 0..MaxRaw \cup {NONE} /\ level \in 0..MaxRaw \cup {NONE}
    /\ upset \in BOOLEAN /\ stale \in BOOLEAN

\* Once everything has come to rest undimmed, the panel is as bright as the
\* user had it before the dim, or as somebody else has left it since: after
\* any number of dims, restores cutting dims short, and reloads.
BrightnessComesBack ==
    Still /\ state = "Active" /\ sink # NONE /\ ~upset /\ ~stale => panel = user

\* On its way down and at the bottom a dim stays between its target and the
\* user's brightness, which is what a restore will go back to.
DimsWithinBounds ==
    state = "Dimmed" /\ kept = NONE /\ ~upset /\ ~stale =>
        preDim = user /\ level <= panel /\ panel <= preDim

\* The main loop is never held up for good by a fade it waits for, and the
\* process comes to its end.
CallsReturn == call # Idle ~> call.op \in {"none", "stopped"}
=============================================================================
