----------------------------- MODULE SysfsProofs -----------------------------
(***************************************************************************)
(* Theorems about what the daemon writes to sysfs.  Backlight, for any      *)
(* panel, any settings and any devices: what the main loop leaves behind is *)
(* what the user is owed.  The invariant follows a fade through its steps,   *)
(* on its way down and on its way up, cut short or not; the arithmetic is    *)
(* that of `interpolate`.  PowerModes, for any modes, files and processors:  *)
(* what a mode names takes hold.                                           *)
(***************************************************************************)
EXTENDS Backlight, PowerModes, Queues, FiniteSetTheorems

-----------------------------------------------------------------------------
(* The inductive invariant.                                                *)

\* Which of the optional values are there, and what a call is allowed to meet.
Shape ==
    /\ state = "Active" => preDim = NONE /\ level = NONE /\ kept = NONE
    /\ state = "Dimmed" => preDim # NONE /\ level # NONE
    /\ call.op = "dim" => state = "Active"
    /\ call.op = "restore" => state = "Dimmed"
    /\ kept # NONE => FadeEnded /\ call.op # "put"
    /\ fade # NONE => /\ call.op # "put"
                      /\ fade.cancel => call.op \in Waits
                      /\ fade.at = "write" => fade.step # 0

\* The value a fade is at.
Reached == Interpolate(fade.from, fade.to, fade.step, fade.steps)

\* Undimmed: the panel is as the user had it, or something is on its way there.
OnItsWayUp ==
    /\ fade = NONE /\ call.op # "put" => panel = user
    /\ call.op = "put" => written = user
    /\ fade # NONE =>
        /\ fade.at # "done" => fade.to = user
        /\ fade.at = "turn" => panel = Reached
        /\ fade.at = "write" => written = Reached
        /\ fade.at = "done" => panel = user \/ (fade.cancel /\ fade.step < fade.steps)

\* Dimmed: what was written is where the panel is, or the panel has not moved.
OnItsWayDown ==
    /\ preDim = user /\ level <= preDim
    /\ kept # NONE => panel = kept /\ kept # written
    /\ kept = NONE => level <= panel /\ panel <= preDim
    /\ call.op = "put" => written = level
    /\ fade = NONE /\ call.op # "put" =>
        /\ written = level \/ level = preDim
        /\ kept = NONE => panel = level
    /\ fade # NONE =>
        /\ fade.from = preDim /\ fade.to = level
        /\ fade.at # "write" /\ kept = NONE => panel = Reached
        /\ IF fade.step = 0 THEN written = level ELSE written = Reached
        /\ fade.at = "done" => fade.step = fade.steps \/ fade.cancel
        /\ kept # NONE => fade.step = fade.steps

Owed ==
    ~upset /\ ~stale =>
        /\ state = "Active" => OnItsWayUp
        /\ state = "Dimmed" => OnItsWayDown

IInv == TypeOK /\ Shape /\ Owed

-----------------------------------------------------------------------------
(* Arithmetic.                                                             *)

\* d * k / n for k of n steps lies between 0 and d, and ends on d.
LEMMA Share ==
    ASSUME NEW d \in Nat, NEW n \in Nat \ {0}, NEW k \in 0..n
    PROVE  /\ (d * k) \div n \in 0..d
           /\ k = 0 => (d * k) \div n = 0
           /\ k = n => (d * k) \div n = d
<1> DEFINE q == (d * k) \div n
<1>1. d * k \in Nat /\ d * k <= d * n
  OBVIOUS
<1>2. q \in Int /\ n * q <= d * k /\ d * k < n * (q + 1)
  BY <1>1
<1>3. q <= d
  <2>1. SUFFICES ASSUME q >= d + 1 PROVE FALSE
    BY <1>2
  <2>2. n * q >= n * (d + 1)
    BY <1>2, <2>1
  <2> QED BY <1>1, <1>2, <2>2
<1>4. q >= 0
  <2>1. SUFFICES ASSUME q + 1 <= 0 PROVE FALSE
    BY <1>2
  <2>2. n * (q + 1) <= 0
    BY <1>2, <2>1
  <2> QED BY <1>1, <1>2, <2>2
<1>5. k = n => q >= d
  <2>1. SUFFICES ASSUME k = n, q + 1 <= d PROVE FALSE
    BY <1>2
  <2>2. n * (q + 1) <= n * d
    BY <1>2, <2>1
  <2> QED BY <1>1, <1>2, <2>1, <2>2
<1>6. k = 0 => q = 0
  <2>1. SUFFICES ASSUME k = 0, q >= 1 PROVE FALSE
    BY <1>2, <1>4
  <2>2. n * q >= n
    BY <1>2, <2>1
  <2> QED BY <1>2, <2>1, <2>2
<1> QED BY <1>2, <1>3, <1>4, <1>5, <1>6

LEMMA InterpolateFact ==
    ASSUME NEW from \in 0..MaxRaw, NEW to \in 0..MaxRaw, NEW n \in Nat \ {0}, NEW k \in 0..n
    PROVE  /\ Interpolate(from, to, k, n) \in 0..MaxRaw
           /\ from <= to => Interpolate(from, to, k, n) \in from..to
           /\ to <= from => Interpolate(from, to, k, n) \in to..from
           /\ Interpolate(from, to, 0, n) = from
           /\ Interpolate(from, to, n, n) = to
<1> USE BacklightAssumption
<1>1. CASE from <= to
  <2>1. to - from \in Nat
    BY <1>1
  <2> HIDE BacklightAssumption
  <2>2. /\ ((to - from) * k) \div n \in 0..(to - from)
        /\ ((to - from) * 0) \div n = 0
        /\ ((to - from) * n) \div n = to - from
    <3>1. 0 \in 0..n /\ n \in 0..n
      OBVIOUS
    <3> QED BY <2>1, <3>1, Share
  <2> DEFINE share(i) == ((to - from) * i) \div n
  <2>3. \A i : Interpolate(from, to, i, n) = from + share(i)
    BY <1>1 DEF Interpolate
  <2> HIDE DEF share
  <2>4. share(k) \in 0..(to - from) /\ share(0) = 0 /\ share(n) = to - from
    BY <2>2 DEF share
  <2>5. MaxRaw \in Nat
    BY BacklightAssumption
  <2> QED BY <1>1, <2>1, <2>3, <2>4, <2>5
<1>2. CASE ~(from <= to)
  <2>1. from - to \in Nat
    BY <1>2
  <2> HIDE BacklightAssumption
  <2>2. /\ ((from - to) * k) \div n \in 0..(from - to)
        /\ ((from - to) * 0) \div n = 0
        /\ ((from - to) * n) \div n = from - to
    <3>1. 0 \in 0..n /\ n \in 0..n
      OBVIOUS
    <3> QED BY <2>1, <3>1, Share
  <2> DEFINE share(i) == ((from - to) * i) \div n
  <2>3. \A i : Interpolate(from, to, i, n) = from - share(i)
    BY <1>2 DEF Interpolate
  <2> HIDE DEF share
  <2>4. share(k) \in 0..(from - to) /\ share(0) = 0 /\ share(n) = from - to
    BY <2>2 DEF share
  <2>5. MaxRaw \in Nat
    BY BacklightAssumption
  <2> QED BY <1>2, <2>1, <2>3, <2>4, <2>5
<1> QED BY <1>1, <1>2

LEMMA RawFact ==
    ASSUME NEW percent \in 0..100
    PROVE  RawFromPercent(percent) \in Nat
<1>1. MaxRaw \in Nat /\ MaxRaw * percent \in Nat
  BY BacklightAssumption
<1> QED BY <1>1 DEF RawFromPercent

\* A dim never brightens.
LEMMA TargetFact ==
    ASSUME tuning \in Tunings, NEW percent \in Percents, NEW current \in 0..MaxRaw
    PROVE  Target(percent, current) \in 0..MaxRaw /\ Target(percent, current) <= current
<1>1. percent \in 0..100 /\ tuning.minPercent \in 0..100 /\ MaxRaw \in Nat
  BY BacklightAssumption
<1>2. RawFromPercent(percent) \in Nat /\ RawFromPercent(tuning.minPercent) \in Nat
  BY <1>1, RawFact
<1> QED BY <1>1, <1>2 DEF Target, Lower, Higher

\* What is found is there.
LEMMA DiscoverFact ==
    ASSUME NEW usable \in SUBSET Devices, NEW name
    PROVE  Discover(usable, name) \in Devices \cup {NONE}
<1> USE DEF Discover
<1>1. CASE name # AUTO
  BY <1>1
<1>2. CASE name = AUTO /\ usable = {}
  BY <1>2
<1>3. CASE name = AUTO /\ usable # {}
  <2>1. PICK best \in usable : \A other \in usable : Before(best, other)
    BY <1>3, BacklightAssumption
  <2> QED BY <1>3, <2>1
<1> QED BY <1>1, <1>2, <1>3

-----------------------------------------------------------------------------
(* The steps.                                                              *)

LEMMA CallFact ==
    /\ Idle \in Calls /\ Idle.op = "none"
    /\ \A op \in {"put", "restore", "settle", "stopped"} :
          Call(op, NONE) \in Calls /\ Call(op, NONE).op = op
    /\ \A percent \in Percents :
          Call("dim", percent) \in Calls /\ Call("dim", percent).op = "dim"
    /\ \A name \in Devices \cup {AUTO} :
          Call("switch", name) \in Calls /\ Call("switch", name).op = "switch"
    /\ \A c \in Calls :
          /\ c.op = "dim" => c.arg \in Percents
          /\ c.op = "switch" => c.arg \in Devices \cup {AUTO}
  BY DEF Calls, Call, Idle

LEMMA InitIInv == ASSUME Init PROVE IInv
<1> USE BacklightAssumption DEF Init
<1>1. TypeOK
  <2>1. sink \in Devices \cup {NONE}
    BY DiscoverFact
  <2>2. call \in Calls
    BY CallFact
  <2>3. upset \in BOOLEAN /\ stale \in BOOLEAN
    OBVIOUS
  <2>4. /\ panel \in 0..MaxRaw /\ written \in 0..MaxRaw /\ preDim \in 0..MaxRaw \cup {NONE}
        /\ user \in 0..MaxRaw /\ kept \in 0..MaxRaw \cup {NONE}
        /\ level \in 0..MaxRaw \cup {NONE}
    OBVIOUS
  <2> QED BY <2>1, <2>2, <2>3, <2>4 DEF TypeOK
<1>2. Shape
  BY CallFact DEF Shape
<1>3. Owed
  BY CallFact DEF Owed, OnItsWayUp
<1> QED BY <1>1, <1>2, <1>3 DEF IInv

\* The outcomes of fade_to: nothing to do, one write, or a task that starts.
LEMMA FadeToFact ==
    ASSUME TypeOK, NEW from \in 0..MaxRaw, NEW to \in 0..MaxRaw, FadeTo(from, to)
    PROVE  /\ fade' \in Fades \cup {NONE} /\ call' \in Calls /\ written' \in 0..MaxRaw
           /\ \/ /\ from = to
                 /\ fade' = NONE /\ call'.op = "none" /\ written' = written
              \/ /\ fade' = NONE /\ call'.op = "put" /\ written' = to
              \/ /\ fade' # NONE /\ call'.op = "none" /\ written' = to
                 /\ fade'.from = from /\ fade'.to = to
                 /\ fade'.step = 0 /\ fade'.steps \in Nat \ {0}
                 /\ fade'.at = "turn" /\ ~fade'.cancel
<1>1. CASE from = to
  BY <1>1, CallFact DEF TypeOK, FadeTo
<1>2. CASE from # to /\ tuning.steps = 1
  BY <1>2, CallFact DEF FadeTo
<1>3. CASE from # to /\ tuning.steps # 1
  <2>1. tuning.steps \in Nat \ {0}
    BY BacklightAssumption DEF TypeOK
  <2>2. fade' = [from |-> from, to |-> to, step |-> 0, steps |-> tuning.steps,
                 at |-> "turn", cancel |-> FALSE]
    BY <1>3 DEF FadeTo
  <2>3. fade' \in Fades
    BY <2>1, <2>2 DEF Fades
  <2>4. call' \in Calls /\ call'.op = "none" /\ written' = to
    BY <1>3, CallFact DEF FadeTo
  <2>5. /\ fade'.from = from /\ fade'.to = to /\ fade'.step = 0
        /\ fade'.steps \in Nat \ {0} /\ fade'.at = "turn" /\ ~fade'.cancel
    BY <2>1, <2>2
  <2> QED BY <2>3, <2>4, <2>5, NoneAssumption
<1> QED BY <1>1, <1>2, <1>3

\* stop_fade only sets the flag.
LEMMA StopFadeFact ==
    ASSUME fade \in Fades \cup {NONE}, StopFade
    PROVE  /\ fade' \in Fades \cup {NONE}
           /\ fade = NONE <=> fade' = NONE
           /\ fade # NONE =>
                /\ fade'.from = fade.from /\ fade'.to = fade.to
                /\ fade'.step = fade.step /\ fade'.steps = fade.steps
                /\ fade'.at = fade.at /\ fade'.cancel
<1>1. CASE fade = NONE
  BY <1>1 DEF StopFade
<1>2. CASE fade # NONE
  <2>1. fade \in Fades /\ fade' = [fade EXCEPT !.cancel = TRUE]
    BY <1>2 DEF StopFade
  <2>2. fade' \in Fades
    BY <2>1 DEF Fades
  <2>3. /\ fade'.from = fade.from /\ fade'.to = fade.to
        /\ fade'.step = fade.step /\ fade'.steps = fade.steps
        /\ fade'.at = fade.at
    BY <2>1 DEF Fades
  <2>4. fade'.cancel
    BY <2>1 DEF Fades
  <2> QED BY <1>2, <2>2, <2>3, <2>4, NoneAssumption
<1> QED BY <1>1, <1>2

LEMMA FadeFact ==
    ASSUME NEW f \in Fades
    PROVE  /\ f.from \in 0..MaxRaw /\ f.to \in 0..MaxRaw
           /\ f.step \in Nat /\ f.steps \in Nat \ {0}
           /\ f.at \in {"turn", "write", "done"}
           /\ f.cancel \in BOOLEAN
  BY DEF Fades

\* Beginning a call that stops the fade changes nothing but the flag.
LEMMA BeginCall ==
    ASSUME IInv, call.op = "none", StopFade,
           call' \in Calls, call'.op \in Waits,
           call'.op = "dim" => state = "Active",
           call'.op = "restore" => state = "Dimmed",
           tuning' \in Tunings,
           UNCHANGED <<panel, device, sink, state, preDim, written, history>>
    PROVE  IInv'
<1>1. /\ fade' \in Fades \cup {NONE}
      /\ fade = NONE <=> fade' = NONE
      /\ fade # NONE =>
           /\ fade'.from = fade.from /\ fade'.to = fade.to
           /\ fade'.step = fade.step /\ fade'.steps = fade.steps
           /\ fade'.at = fade.at /\ fade'.cancel
  BY StopFadeFact DEF IInv, TypeOK
<1>2. TypeOK'
  BY <1>1 DEF IInv, TypeOK, history
<1>3. FadeEnded' <=> FadeEnded
  BY <1>1 DEF FadeEnded
<1>4. Shape'
  BY <1>1, <1>3 DEF IInv, Shape, Waits, history
<1>5. Reached' = Reached \/ fade = NONE
  BY <1>1 DEF Reached
<1>6. Owed'
  <2>1. SUFFICES ASSUME ~upset, ~stale PROVE Owed'
    BY DEF Owed, history
  <2>2. ASSUME state = "Active" PROVE OnItsWayUp'
    BY <1>1, <1>5, <2>1, <2>2 DEF IInv, Owed, OnItsWayUp, history, Waits
  <2>3. ASSUME state = "Dimmed" PROVE OnItsWayDown'
    BY <1>1, <1>5, <2>1, <2>3 DEF IInv, Owed, OnItsWayDown, history, Waits
  <2> QED BY <2>2, <2>3 DEF Owed
<1> QED BY <1>2, <1>4, <1>6 DEF IInv

LEMMA DimToStep ==
    ASSUME IInv, NEW percent \in Percents, DimTo(percent) PROVE IInv'
<1>1. call.op = "none" /\ call' \in Calls /\ call'.op = "dim" /\ state = "Active"
  BY CallFact DEF DimTo
<1> QED BY <1>1, BeginCall DEF DimTo, config, Waits, IInv, TypeOK

LEMMA RestoreStep ==
    ASSUME IInv, Restore PROVE IInv'
<1>1. call.op = "none" /\ call' \in Calls /\ call'.op = "restore" /\ state = "Dimmed"
  BY CallFact DEF Restore
<1> QED BY <1>1, BeginCall DEF Restore, config, Waits, IInv, TypeOK

LEMMA SettleStep ==
    ASSUME IInv, Settle PROVE IInv'
<1>1. call.op = "none" /\ call' \in Calls /\ call'.op = "settle"
  BY CallFact DEF Settle
<1>2. TypeOK'
  BY <1>1 DEF Settle, IInv, TypeOK, config, history
<1>3. Shape'
  BY <1>1 DEF Settle, IInv, Shape, config, history, FadeEnded, Waits
<1>4. Owed'
  BY <1>1 DEF Settle, IInv, Owed, OnItsWayUp, OnItsWayDown, Reached, config, history
<1> QED BY <1>2, <1>3, <1>4 DEF IInv

LEMMA ReconfigureStep ==
    ASSUME IInv, NEW name \in Devices \cup {AUTO}, NEW new \in Tunings,
           Reconfigure(name, new)
    PROVE  IInv'
<1>1. CASE name = device /\ UNCHANGED <<fade, call>>
  <2>1. TypeOK'
    BY <1>1 DEF Reconfigure, IInv, TypeOK, history
  <2>2. Shape'
    BY <1>1 DEF Reconfigure, IInv, Shape, history, FadeEnded, Waits
  <2>3. Owed'
    BY <1>1 DEF Reconfigure, IInv, Owed, OnItsWayUp, OnItsWayDown, Reached, history
  <2> QED BY <2>1, <2>2, <2>3 DEF IInv
<1>2. CASE name # device /\ call' = Call("switch", name) /\ StopFade
  <2>1. call.op = "none" /\ call' \in Calls /\ call'.op = "switch"
    BY <1>2, CallFact DEF Reconfigure
  <2> QED BY <1>2, <2>1, BeginCall DEF Reconfigure, Waits
<1> QED BY <1>1, <1>2 DEF Reconfigure

\* What a fade reaches, at any step that it may be at.
LEMMA ReachedFact ==
    ASSUME TypeOK, fade # NONE
    PROVE  /\ fade \in Fades /\ fade.step \in 0..fade.steps
           /\ fade.from \in 0..MaxRaw /\ fade.to \in 0..MaxRaw
           /\ \A step \in 0..fade.steps :
                LET value == Interpolate(fade.from, fade.to, step, fade.steps) IN
                /\ value \in 0..MaxRaw
                /\ fade.to <= fade.from => value \in fade.to..fade.from
           /\ fade.step = 0 => Reached = fade.from
           /\ fade.step = fade.steps => Reached = fade.to
<1>1. fade \in Fades /\ fade.step <= fade.steps
  BY DEF TypeOK
<1>2. fade.step \in 0..fade.steps
  BY <1>1, FadeFact
<1> QED BY <1>1, <1>2, FadeFact, InterpolateFact DEF Reached

LEMMA SettledStep ==
    ASSUME IInv, Settled PROVE IInv'
<1>1. call.op = "settle" /\ call' \in Calls /\ call'.op = "stopped" /\ fade' = NONE
  BY CallFact DEF Settled
<1>2. TypeOK'
  BY <1>1 DEF Settled, IInv, TypeOK, config, history
<1>3. Shape'
  BY <1>1 DEF Settled, IInv, Shape, config, history, FadeEnded, Waits
<1>4. Owed'
  <2>1. SUFFICES ASSUME ~upset, ~stale PROVE Owed'
    BY DEF Owed, Settled, history
  <2>2. ASSUME state = "Active" PROVE OnItsWayUp'
    BY <1>1, <2>1, <2>2
       DEF Settled, IInv, Owed, Shape, OnItsWayUp, history, FadeEnded, Waits
  <2>3. ASSUME state = "Dimmed" PROVE OnItsWayDown'
    BY <1>1, <2>1, <2>3, ReachedFact
       DEF Settled, IInv, Owed, Shape, OnItsWayDown, history, FadeEnded, Waits
  <2> QED BY <2>2, <2>3 DEF Owed, Settled
<1> QED BY <1>2, <1>3, <1>4 DEF IInv

LEMMA PutStep ==
    ASSUME IInv, Put PROVE IInv'
<1>1. call.op = "put" /\ call' \in Calls /\ call'.op = "none" /\ fade = NONE
  BY CallFact DEF Put, IInv, Shape
<1>2. TypeOK'
  BY <1>1 DEF Put, IInv, TypeOK, config
<1>3. Shape'
  BY <1>1 DEF Put, IInv, Shape, config
<1>4. Owed'
  <2>1. SUFFICES ASSUME ~upset', ~stale' PROVE Owed'
    BY DEF Owed
  <2>2. panel' = written /\ ~upset /\ ~stale
    BY <2>1 DEF Put
  <2>3. ASSUME state = "Active" PROVE OnItsWayUp'
    BY <1>1, <2>2, <2>3 DEF Put, IInv, Owed, OnItsWayUp
  <2>4. ASSUME state = "Dimmed" PROVE OnItsWayDown'
    BY <1>1, <2>2, <2>4, BacklightAssumption
       DEF Put, IInv, TypeOK, Owed, Shape, OnItsWayDown
  <2> QED BY <2>3, <2>4 DEF Owed, Put
<1> QED BY <1>2, <1>3, <1>4 DEF IInv

LEMMA FadeTurnStep ==
    ASSUME IInv, FadeTurn PROVE IInv'
<1>1. fade # NONE /\ fade \in Fades /\ fade.at = "turn" /\ kept = NONE
      /\ UNCHANGED <<panel, device, sink, tuning, state, preDim, call, history>>
  BY DEF FadeTurn, IInv, TypeOK, Shape, FadeEnded, config
<1>2. CASE /\ fade.cancel \/ fade.step = fade.steps
           /\ fade' = [fade EXCEPT !.at = "done"] /\ UNCHANGED written
  <2>1. fade' \in Fades /\ fade'.at = "done"
        /\ fade'.from = fade.from /\ fade'.to = fade.to
        /\ fade'.step = fade.step /\ fade'.steps = fade.steps
    BY <1>1, <1>2 DEF Fades
  <2>2. fade'.cancel <=> fade.cancel
    BY <1>1, <1>2 DEF Fades
  <2>3. TypeOK'
    BY <1>1, <1>2, <2>1, NoneAssumption DEF IInv, TypeOK, history
  <2>4. Shape'
    BY <1>1, <1>2, <2>1, <2>2 DEF IInv, Shape, history, FadeEnded
  <2>5. Reached' = Reached
    BY <2>1 DEF Reached
  <2>6. Owed'
    <3>1. SUFFICES ASSUME ~upset, ~stale PROVE Owed'
      BY <1>1 DEF Owed, history
    <3>2. ASSUME state = "Active" PROVE OnItsWayUp'
      <4>1. OnItsWayUp
        BY <3>1, <3>2 DEF IInv, Owed
      <4>2. panel = user \/ (fade.cancel /\ fade.step < fade.steps)
        <5>1. fade.step <= fade.steps /\ (fade.step = fade.steps => Reached = fade.to)
          BY <1>1, ReachedFact DEF IInv, TypeOK
        <5>2. fade.step < fade.steps \/ fade.step = fade.steps
          BY <1>1, <5>1, FadeFact
        <5> QED BY <1>1, <1>2, <4>1, <5>1, <5>2 DEF OnItsWayUp
      <4>3. call.op # "put"
        BY <1>1 DEF IInv, Shape
      <4> QED BY <1>1, <2>1, <2>2, <4>2, <4>3, NoneAssumption DEF OnItsWayUp, history
    <3>3. ASSUME state = "Dimmed" PROVE OnItsWayDown'
      BY <1>1, <1>2, <2>1, <2>2, <2>5, <3>1, <3>3, NoneAssumption
         DEF IInv, Owed, OnItsWayDown, history
    <3> QED BY <1>1, <3>2, <3>3 DEF Owed, history
  <2> QED BY <2>3, <2>4, <2>6 DEF IInv
<1>3. CASE /\ ~fade.cancel /\ fade.step < fade.steps
           /\ fade' = [fade EXCEPT !.at = "write", !.step = fade.step + 1]
           /\ written' = Interpolate(fade.from, fade.to, fade.step + 1, fade.steps)
  <2>1. /\ fade.step \in Nat /\ fade.steps \in Nat
        /\ fade.step + 1 \in 0..fade.steps /\ fade.step + 1 # 0
    BY <1>1, <1>3, FadeFact
  <2>2. fade' \in Fades /\ fade'.at = "write"
        /\ fade'.from = fade.from /\ fade'.to = fade.to
        /\ fade'.step = fade.step + 1 /\ fade'.steps = fade.steps
    <3>1. fade.step + 1 \in Nat
      BY <2>1
    <3> DEFINE next == fade.step + 1
    <3>2. fade' = [fade EXCEPT !.at = "write", !.step = next] /\ next \in Nat
      BY <1>3, <3>1
    <3> HIDE DEF next
    <3>3. fade' \in Fades /\ fade'.at = "write"
          /\ fade'.from = fade.from /\ fade'.to = fade.to
          /\ fade'.step = next /\ fade'.steps = fade.steps
      BY <1>1, <3>2 DEF Fades
    <3> QED BY <3>3 DEF next
  <2>3. fade'.cancel <=> fade.cancel
    BY <1>1, <1>3 DEF Fades
  <2>4. written' = Reached' /\ written' \in 0..MaxRaw
    BY <1>1, <1>3, <2>1, <2>2, ReachedFact DEF Reached, IInv
  <2>5. TypeOK'
    BY <1>1, <2>1, <2>2, <2>4, NoneAssumption DEF IInv, TypeOK, history
  <2>6. Shape'
    BY <1>1, <2>1, <2>2, <2>3 DEF IInv, Shape, history, FadeEnded
  <2>7. Owed'
    <3>1. SUFFICES ASSUME ~upset, ~stale PROVE Owed'
      BY <1>1 DEF Owed, history
    <3>2. ASSUME state = "Active" PROVE OnItsWayUp'
      <4>1. OnItsWayUp
        BY <3>1, <3>2 DEF IInv, Owed
      <4>2. call.op # "put"
        BY <1>1 DEF IInv, Shape
      <4> QED BY <1>1, <2>2, <2>4, <4>1, <4>2, NoneAssumption DEF OnItsWayUp, history
    <3>3. ASSUME state = "Dimmed" PROVE OnItsWayDown'
      <4>1. OnItsWayDown
        BY <3>1, <3>3 DEF IInv, Owed
      <4>2. call.op # "put"
        BY <1>1 DEF IInv, Shape
      <4> QED BY <1>1, <2>1, <2>2, <2>4, <4>1, <4>2, NoneAssumption
              DEF OnItsWayDown, history
    <3> QED BY <1>1, <3>2, <3>3 DEF Owed, history
  <2> QED BY <2>5, <2>6, <2>7 DEF IInv
<1> QED BY <1>2, <1>3 DEF FadeTurn

LEMMA FadeWriteStep ==
    ASSUME IInv, FadeWrite PROVE IInv'
<1>1. fade # NONE /\ fade \in Fades /\ fade.at = "write" /\ kept = NONE
      /\ fade.step # 0 /\ call.op # "put"
      /\ UNCHANGED <<device, sink, tuning, state, preDim, written, call,
                     user, kept, level, stale>>
  BY DEF FadeWrite, IInv, TypeOK, Shape, FadeEnded, config
<1>2. PICK at \in {"turn", "done"} : fade' = [fade EXCEPT !.at = at]
  BY DEF FadeWrite
<1>3. fade' \in Fades /\ fade'.at = at
      /\ fade'.from = fade.from /\ fade'.to = fade.to
      /\ fade'.step = fade.step /\ fade'.steps = fade.steps
  BY <1>1, <1>2 DEF Fades
<1>4. fade'.cancel <=> fade.cancel
  BY <1>1, <1>2 DEF Fades
<1>5. TypeOK'
  <2>1. upset' \in BOOLEAN /\ panel' \in 0..MaxRaw
    BY DEF FadeWrite, IInv, TypeOK
  <2> QED BY <1>1, <1>3, <2>1, NoneAssumption DEF IInv, TypeOK
<1>6. Shape'
  BY <1>1, <1>3, <1>4 DEF IInv, Shape, FadeEnded
<1>7. Owed'
  <2>1. SUFFICES ASSUME ~upset', ~stale' PROVE Owed'
    BY DEF Owed
  <2>2. panel' = written /\ ~upset /\ ~stale /\ fade' = [fade EXCEPT !.at = "turn"]
    BY <1>1, <2>1 DEF FadeWrite
  <2>3. fade'.at = "turn"
    BY <1>1, <2>2 DEF Fades
  <2>4. Reached' = Reached
    BY <1>3 DEF Reached
  <2>5. ASSUME state = "Active" PROVE OnItsWayUp'
    BY <1>1, <1>3, <2>2, <2>3, <2>4, <2>5, NoneAssumption DEF IInv, Owed, OnItsWayUp
  <2>6. ASSUME state = "Dimmed" PROVE OnItsWayDown'
    <3>1. OnItsWayDown
      BY <2>2, <2>6 DEF IInv, Owed
    <3>2. level <= written /\ written <= preDim
      BY <1>1, <3>1, ReachedFact DEF IInv, OnItsWayDown, Reached
    <3> QED BY <1>1, <1>3, <2>2, <2>3, <2>4, <3>1, <3>2, NoneAssumption DEF OnItsWayDown
  <2> QED BY <1>1, <2>5, <2>6 DEF Owed
<1> QED BY <1>5, <1>6, <1>7 DEF IInv

\* With nothing under way, an undimmed panel whose last fade was not cut short
\* is the user's.
LEMMA RestsAtUsers ==
    ASSUME IInv, ~upset, ~stale, state = "Active", FadeEnded, call.op # "put", ~CutShort
    PROVE  panel = user
<1>1. OnItsWayUp
  BY DEF IInv, Owed
<1>2. CASE fade = NONE
  BY <1>1, <1>2 DEF OnItsWayUp
<1>3. CASE fade # NONE
  BY <1>1, <1>3 DEF OnItsWayUp, FadeEnded, CutShort
<1> QED BY <1>2, <1>3

\* A fade that begins is where it begins, and one that is not needed is there.
LEMMA FadeBegins ==
    ASSUME TypeOK, NEW to \in 0..MaxRaw, FadeTo(panel, to), UNCHANGED panel
    PROVE  /\ fade' \in Fades \cup {NONE} /\ call' \in Calls /\ written' \in 0..MaxRaw
           /\ \/ panel = to /\ fade' = NONE /\ call'.op = "none" /\ written' = written
              \/ fade' = NONE /\ call'.op = "put" /\ written' = to
              \/ /\ fade' # NONE /\ call'.op = "none" /\ written' = to
                 /\ fade'.from = panel /\ fade'.to = to
                 /\ fade'.step = 0 /\ fade'.steps \in Nat \ {0}
                 /\ fade'.at = "turn" /\ ~fade'.cancel
                 /\ panel' = Reached'
<1>1. panel \in 0..MaxRaw
  BY DEF TypeOK
<1>2. ASSUME fade' \in Fades, fade'.from = panel, fade'.to = to, fade'.step = 0
      PROVE  panel' = Reached'
  <2>1. fade'.steps \in Nat \ {0} /\ 0 \in 0..fade'.steps
    BY <1>2, FadeFact
  <2> QED BY <1>1, <1>2, <2>1, InterpolateFact DEF Reached
<1> QED BY <1>1, <1>2, FadeToFact

LEMMA DimReadStep ==
    ASSUME IInv, DimRead PROVE IInv'
<1>1. /\ call.op = "dim" /\ FadeEnded /\ state = "Active" /\ call.arg \in Percents
      /\ preDim = NONE /\ level = NONE /\ kept = NONE
      /\ UNCHANGED <<panel, device, sink, tuning, user, kept, stale>>
  BY CallFact DEF DimRead, IInv, TypeOK, Shape, config
<1>2. upset' \in BOOLEAN
  BY DEF DimRead
<1>3. ASSUME ~upset', ~stale' PROVE panel = user /\ ~upset /\ ~stale
  <2>1. ~upset /\ ~stale /\ ~CutShort
    BY <1>3 DEF DimRead
  <2> QED BY <1>1, <2>1, RestsAtUsers
<1>4. CASE fade' = NONE /\ call' = Idle /\ UNCHANGED <<state, preDim, written, level>>
  <2>1. call' \in Calls /\ call'.op = "none"
    BY <1>4, CallFact
  <2>2. TypeOK'
    BY <1>1, <1>2, <1>4, <2>1 DEF IInv, TypeOK
  <2>3. Shape'
    BY <1>1, <1>4, <2>1 DEF IInv, Shape
  <2>4. Owed'
    BY <1>1, <1>3, <1>4, <2>1 DEF Owed, OnItsWayUp
  <2> QED BY <2>2, <2>3, <2>4 DEF IInv
<1>5. ASSUME NEW target, target = Target(call.arg, panel),
             preDim' = panel, state' = "Dimmed", level' = target, FadeTo(panel, target)
      PROVE  IInv'
  <2>1. panel \in 0..MaxRaw /\ panel # NONE
    BY BacklightAssumption DEF IInv, TypeOK
  <2>2. target \in 0..MaxRaw /\ target <= panel /\ target # NONE
    <3>1. tuning \in Tunings
      BY DEF IInv, TypeOK
    <3>2. Target(call.arg, panel) \in 0..MaxRaw /\ Target(call.arg, panel) <= panel
      BY <1>1, <2>1, <3>1, TargetFact
    <3> QED BY <1>5, <3>2, BacklightAssumption
  <2>3. /\ fade' \in Fades \cup {NONE} /\ call' \in Calls /\ written' \in 0..MaxRaw
        /\ \/ panel = target /\ fade' = NONE /\ call'.op = "none" /\ written' = written
           \/ fade' = NONE /\ call'.op = "put" /\ written' = target
           \/ /\ fade' # NONE /\ call'.op = "none" /\ written' = target
              /\ fade'.from = panel /\ fade'.to = target
              /\ fade'.step = 0 /\ fade'.steps \in Nat \ {0}
              /\ fade'.at = "turn" /\ ~fade'.cancel
              /\ panel' = Reached'
    BY <1>1, <1>5, <2>2, FadeBegins DEF IInv
  <2>4. TypeOK'
    BY <1>1, <1>2, <1>5, <2>1, <2>2, <2>3 DEF IInv, TypeOK
  <2>5. Shape'
    BY <1>1, <1>5, <2>1, <2>2, <2>3 DEF IInv, Shape
  <2>6. ASSUME ~upset', ~stale' PROVE OnItsWayDown'
    <3>1. preDim' = user'
      BY <1>1, <1>3, <1>5, <2>6
    <3> QED BY <1>1, <1>5, <2>1, <2>2, <2>3, <3>1 DEF OnItsWayDown
  <2> QED BY <1>5, <2>4, <2>5, <2>6 DEF IInv, Owed
<1> QED BY <1>4, <1>5 DEF DimRead

LEMMA RestoreReadStep ==
    ASSUME IInv, RestoreRead PROVE IInv'
<1>1. /\ call.op = "restore" /\ FadeEnded /\ state = "Dimmed"
      /\ preDim' = NONE /\ state' = "Active" /\ kept' = NONE /\ level' = NONE
      /\ UNCHANGED <<panel, device, sink, tuning, stale>>
      /\ user' = IF kept = NONE THEN user ELSE kept
  BY DEF RestoreRead, IInv, Shape, config
<1>2. user' \in 0..MaxRaw /\ preDim \in 0..MaxRaw
  BY <1>1 DEF IInv, TypeOK, Shape
<1>3. upset' \in BOOLEAN
  BY DEF RestoreRead, IInv, TypeOK
<1>4. ASSUME ~upset', ~stale' PROVE ~upset /\ ~stale /\ OnItsWayDown
  <2>1. ~upset /\ ~stale
    <3>1. stale' = stale
      BY <1>1
    <3>2. ~upset
      <4>1. CASE upset' = (upset \/ panel # user')
        BY <1>4, <4>1
      <4>2. CASE UNCHANGED upset
        BY <1>4, <4>2
      <4> QED BY <4>1, <4>2 DEF RestoreRead
    <3> QED BY <1>4, <3>1, <3>2
  <2> QED BY <1>1, <2>1 DEF IInv, Owed
<1>5. ASSUME fade' = NONE, call' = Idle, UNCHANGED written,
             ~upset' /\ ~stale' => panel = user'
      PROVE  IInv'
  <2>1. call' \in Calls /\ call'.op = "none"
    BY <1>5, CallFact
  <2>2. TypeOK'
    BY <1>1, <1>2, <1>3, <1>5, <2>1 DEF IInv, TypeOK
  <2>3. Shape'
    BY <1>1, <1>5, <2>1 DEF IInv, Shape
  <2>4. Owed'
    BY <1>1, <1>5, <2>1 DEF Owed, OnItsWayUp
  <2> QED BY <2>2, <2>3, <2>4 DEF IInv
<1>6. CASE fade' = NONE /\ call' = Idle /\ upset' = (upset \/ panel # user')
           /\ UNCHANGED written
  BY <1>5, <1>6
<1>7. CASE panel # written /\ fade' = NONE /\ call' = Idle /\ UNCHANGED <<written, upset>>
  <2>1. ASSUME ~upset', ~stale' PROVE panel = user'
    <3>1. OnItsWayDown
      BY <1>4, <2>1
    <3>2. CASE kept # NONE
      BY <1>1, <3>1, <3>2 DEF OnItsWayDown
    <3>3. CASE kept = NONE /\ fade = NONE
      BY <1>1, <1>7, <3>1, <3>3 DEF OnItsWayDown
    <3>4. CASE kept = NONE /\ fade # NONE
      <4>1. fade.step = 0
        BY <1>1, <1>7, <3>1, <3>4 DEF OnItsWayDown, FadeEnded
      <4>2. panel = fade.from
        BY <1>1, <3>1, <3>4, <4>1, ReachedFact DEF OnItsWayDown, FadeEnded, IInv
      <4> QED BY <1>1, <3>1, <3>4, <4>2 DEF OnItsWayDown
    <3> QED BY <3>2, <3>3, <3>4
  <2> QED BY <1>5, <1>7, <2>1
<1>8. CASE panel = written /\ preDim # NONE /\ FadeTo(panel, preDim) /\ UNCHANGED upset
  <2>1. ASSUME ~upset', ~stale' PROVE preDim = user'
    BY <1>1, <1>4, <1>8, <2>1 DEF OnItsWayDown
  <2>2. /\ fade' \in Fades \cup {NONE} /\ call' \in Calls /\ written' \in 0..MaxRaw
        /\ \/ panel = preDim /\ fade' = NONE /\ call'.op = "none" /\ written' = written
           \/ fade' = NONE /\ call'.op = "put" /\ written' = preDim
           \/ /\ fade' # NONE /\ call'.op = "none" /\ written' = preDim
              /\ fade'.from = panel /\ fade'.to = preDim
              /\ fade'.step = 0 /\ fade'.steps \in Nat \ {0}
              /\ fade'.at = "turn" /\ ~fade'.cancel
              /\ panel' = Reached'
    BY <1>1, <1>2, <1>8, FadeBegins DEF IInv
  <2>3. TypeOK'
    BY <1>1, <1>2, <1>3, <2>2 DEF IInv, TypeOK
  <2>4. Shape'
    BY <1>1, <2>2 DEF IInv, Shape
  <2>5. ASSUME ~upset', ~stale' PROVE OnItsWayUp'
    BY <1>1, <2>1, <2>2, <2>5 DEF OnItsWayUp
  <2> QED BY <1>1, <2>3, <2>4, <2>5 DEF IInv, Owed
<1> QED BY <1>6, <1>7, <1>8 DEF RestoreRead

LEMMA SwitchDeviceStep ==
    ASSUME IInv, SwitchDevice PROVE IInv'
<1>1. /\ call.op = "switch" /\ FadeEnded /\ call' = Idle /\ fade' = NONE
      /\ preDim' = NONE /\ state' = "Active" /\ kept' = NONE /\ level' = NONE
      /\ device' = call.arg /\ UNCHANGED <<tuning, written>>
  BY DEF SwitchDevice
<1>2. call' \in Calls /\ call'.op = "none" /\ device' \in Devices \cup {AUTO}
  BY <1>1, CallFact DEF IInv, TypeOK
<1>3. sink' \in Devices \cup {NONE}
  <2>1. PICK usable \in SUBSET Devices : sink' = Discover(usable, call.arg)
    BY DEF SwitchDevice
  <2> QED BY <2>1, DiscoverFact
<1>4. upset' \in BOOLEAN /\ stale' \in BOOLEAN
  BY DEF SwitchDevice, IInv, TypeOK
<1>5. TypeOK'
  <2>1. panel' \in 0..MaxRaw /\ user' \in 0..MaxRaw
    BY DEF SwitchDevice, IInv, TypeOK
  <2> QED BY <1>1, <1>2, <1>3, <1>4, <2>1 DEF IInv, TypeOK
<1>6. Shape'
  BY <1>1, <1>2 DEF Shape
<1>7. ASSUME ~upset', ~stale' PROVE panel' = user'
  <2>1. CASE UNCHANGED <<panel, user>> /\ UNCHANGED stale
             /\ upset' = (upset \/ state = "Dimmed" \/ CutShort)
    <3>1. ~upset /\ ~stale /\ state # "Dimmed" /\ ~CutShort
      BY <1>7, <2>1
    <3>2. state = "Active" /\ call.op # "put"
      BY <1>1, <3>1 DEF IInv, TypeOK
    <3> QED BY <1>1, <2>1, <3>1, <3>2, RestsAtUsers
  <2>2. CASE user' = panel'
    BY <2>2
  <2> QED BY <2>1, <2>2 DEF SwitchDevice
<1>8. Owed'
  BY <1>1, <1>2, <1>7 DEF Owed, OnItsWayUp
<1> QED BY <1>5, <1>6, <1>8 DEF IInv

LEMMA ExternalStep ==
    ASSUME IInv, NEW value \in 0..MaxRaw, External(value) PROVE IInv'
<1>1. /\ panel' = value /\ value # NONE
      /\ UNCHANGED <<device, sink, tuning, state, preDim, written, fade, call, level>>
  BY BacklightAssumption DEF External, config
<1>2. upset' \in BOOLEAN /\ stale' \in BOOLEAN
  BY DEF External, IInv, TypeOK
<1>3. TypeOK'
  <2>1. user' \in 0..MaxRaw /\ kept' \in 0..MaxRaw \cup {NONE}
    BY DEF External, IInv, TypeOK
  <2> QED BY <1>1, <1>2, <2>1 DEF IInv, TypeOK
<1>4. CASE ~Still /\ upset' = TRUE /\ UNCHANGED <<user, kept, stale>>
  <2>1. Shape'
    BY <1>1, <1>4 DEF IInv, Shape, FadeEnded
  <2>2. Owed'
    BY <1>4 DEF Owed
  <2> QED BY <1>3, <2>1, <2>2 DEF IInv
<1>5. CASE Still /\ state = "Active" /\ user' = value /\ UNCHANGED kept
  <2>1. Shape'
    BY <1>1, <1>5 DEF IInv, Shape, FadeEnded
  <2>2. OnItsWayUp'
    BY <1>1, <1>5 DEF Still, FadeEnded, OnItsWayUp
  <2>3. Owed'
    BY <1>1, <1>5, <2>2 DEF Owed
  <2> QED BY <1>3, <2>1, <2>3 DEF IInv
<1>6. CASE /\ Still /\ state = "Dimmed"
           /\ kept' = IF value = level THEN NONE ELSE value
           /\ stale' = (stale \/ (value = written /\ value # level))
           /\ UNCHANGED <<user, upset>>
  <2>1. FadeEnded /\ call.op # "put" /\ call.op \notin Waits
    BY <1>6 DEF Still, Waits
  <2>2. Shape'
    BY <1>1, <1>6, <2>1 DEF IInv, Shape, FadeEnded
  <2>3. ASSUME ~upset', ~stale' PROVE OnItsWayDown'
    <3>1. ~upset /\ ~stale /\ ~(value = written /\ value # level)
      BY <1>6, <2>3
    <3>2. OnItsWayDown
      BY <1>6, <3>1 DEF IInv, Owed
    <3>3. fade # NONE => fade.at = "done" /\ ~fade.cancel
      BY <2>1 DEF FadeEnded, IInv, Shape
    <3>4. fade # NONE => fade.step = fade.steps /\ Reached = level /\ written = level
      BY <3>2, <3>3, ReachedFact, FadeFact DEF OnItsWayDown, IInv
    <3>5. Reached' = Reached
      BY <1>1 DEF Reached
    <3> QED BY <1>1, <1>6, <2>1, <3>1, <3>2, <3>3, <3>4, <3>5
            DEF OnItsWayDown, IInv, TypeOK
  <2>4. Owed'
    BY <1>1, <1>6, <2>3 DEF Owed
  <2> QED BY <1>3, <2>2, <2>4 DEF IInv
<1> QED BY <1>4, <1>5, <1>6 DEF External

LEMMA NextIInv == ASSUME IInv, [Next]_vars PROVE IInv'
<1>1. CASE UNCHANGED vars
  <2>1. UNCHANGED <<panel, device, sink, tuning, state, preDim, written, fade, call,
                    user, kept, level, upset, stale>>
    BY <1>1 DEF vars, config, history
  <2> QED BY <2>1 DEF IInv, TypeOK, Shape, Owed, OnItsWayUp, OnItsWayDown,
                      FadeEnded, Reached
<1>2. CASE Next
  BY <1>2, DimToStep, ReconfigureStep, ExternalStep, DimReadStep, RestoreStep,
     RestoreReadStep, SettleStep, SettledStep, SwitchDeviceStep, PutStep,
     FadeTurnStep, FadeWriteStep DEF Next
<1> QED BY <1>1, <1>2

-----------------------------------------------------------------------------
(* The theorems.                                                           *)

\* After any dims, restores, reloads and changes from outside, brightness comes
\* back to what the user had, or stays as somebody else has set it; it never
\* leaves the range between the two on its way.
THEOREM BrightnessComesBackHolds ==
    Spec => [](TypeOK /\ BrightnessComesBack /\ DimsWithinBounds)
<1>1. Init => IInv
  BY InitIInv
<1>2. IInv /\ [Next]_vars => IInv'
  BY NextIInv
<1>3. IInv => TypeOK /\ BrightnessComesBack /\ DimsWithinBounds
  <2>1. SUFFICES ASSUME IInv PROVE BrightnessComesBack /\ DimsWithinBounds
    BY DEF IInv
  <2>2. ASSUME Still, state = "Active", ~upset, ~stale PROVE panel = user
    <3>1. OnItsWayUp /\ FadeEnded /\ call.op # "put" /\ call.op \notin Waits
      BY <2>1, <2>2 DEF IInv, Owed, Still, Waits
    <3>2. fade # NONE => ~fade.cancel
      BY <2>1, <3>1 DEF IInv, Shape
    <3> QED BY <3>1, <3>2 DEF OnItsWayUp, FadeEnded
  <2>3. ASSUME state = "Dimmed", kept = NONE, ~upset, ~stale
        PROVE  preDim = user /\ level <= panel /\ panel <= preDim
    BY <2>1, <2>3 DEF IInv, Owed, OnItsWayDown
  <2> QED BY <2>2, <2>3 DEF BrightnessComesBack, DimsWithinBounds
<1> QED BY <1>1, <1>2, <1>3, PTL DEF Spec

\* A fade never leaves the values between the target of its dim and the user's
\* brightness, whichever call cuts it short.
THEOREM DimsWithinBoundsHolds == Spec => []DimsWithinBounds
  BY BrightnessComesBackHolds, PTL

-----------------------------------------------------------------------------
(* Modes: what a section has left to write.                                *)

\* The writes to a file.
Entries == [path : Files, value : Values]
To(path) == {w \in Entries : w.path = path}

Sections == {"sysfs", "profile", "governor", "epp", "done"}
Turn == [sysfs |-> 0, profile |-> 1, governor |-> 2, epp |-> 3, done |-> 4]

\* The section of a knob.
SectionOf(path) ==
    IF path = PROFILE THEN "profile"
    ELSE IF path[2] = "scaling_governor" THEN "governor" ELSE "epp"

GovernorOf(path) == <<path[1], "scaling_governor">>

LEMMA Listed ==
    ASSUME NEW S, IsFiniteSet(S)
    PROVE  /\ SetToSeq(S) \in Seq(S)
           /\ \A x \in S : \E i \in 1..Len(SetToSeq(S)) : SetToSeq(S)[i] = x
           /\ \A i, j \in 1..Len(SetToSeq(S)) : SetToSeq(S)[i] = SetToSeq(S)[j] => i = j
<1> DEFINE n == Cardinality(S)
           f == SetToSeq(S)
<1>1. n \in Nat /\ ExistsBijection(1..n, S)
  BY FS_CardinalityType
<1>2. \E g \in [1..n -> S] : IsInjective(g)
  BY <1>1 DEF ExistsBijection, Bijection, Injection
<1>3. f \in [1..n -> S] /\ IsInjective(f)
  BY <1>2 DEF SetToSeq
<1>4. IsFiniteSet(1..n) /\ Cardinality(1..n) = n
  BY <1>1, FS_Interval
<1>5. f \in Injection(1..n, S)
  BY <1>3 DEF Injection
<1>6. f \in Surjection(1..n, S)
  BY <1>4, <1>5, FS_Injection
<1> HIDE DEF n, f
<1>7. f \in Seq(S) /\ Len(f) = n /\ DOMAIN f = 1..n
  BY <1>1, <1>3
<1>8. \A x \in S : \E i \in 1..n : f[i] = x
  BY <1>6 DEF Surjection
<1>9. \A i, j \in 1..n : f[i] = f[j] => i = j
  BY <1>3, <1>7 DEF IsInjective
<1> QED BY <1>7, <1>8, <1>9 DEF f

LEMMA FileNames ==
    /\ PROFILE \in Files /\ PROFILE \notin CpuFiles
    /\ \A path \in CpuFiles :
          /\ path \in Files /\ path[1] \in Cpus /\ path[2] \in Leaves
          /\ path = <<path[1], path[2]>> /\ GovernorOf(path) \in CpuFiles
          /\ GovernorOf(path)[1] = path[1] /\ GovernorOf(path)[2] = "scaling_governor"
    /\ \A cpu \in Cpus, leaf \in Leaves : <<cpu, leaf>> \in CpuFiles
BY DEF PROFILE, Files, CpuFiles, Leaves, GovernorOf

LEMMA ModesAre ==
    ASSUME NEW m \in Modes
    PROVE  /\ ModeOf[m].sysfs \in Seq(Entries)
           /\ ModeOf[m].profile \in Values \cup {UNNAMED}
           /\ ModeOf[m].governor \in Values \cup {UNNAMED}
           /\ ModeOf[m].epp \in Values \cup {UNNAMED}
           /\ m # UNNAMED /\ UNNAMED \notin Values
BY PowerModesAssumption DEF Knobs, Entries

ModesTypes ==
    /\ file \in [Files -> Values] /\ online \subseteq Cpus
    /\ section \in Sections /\ applying \in Modes \cup {UNNAMED}
    /\ writes \in Seq(Entries)
    /\ applying = UNNAMED => section = "done"
    /\ section = "done" => writes = <<>>
    /\ \A path \in Files : Exists(path) \/ path \in spoilt

\* What is written for the knobs is what they ask for.
InTurn(s, q) ==
    s # "sysfs" => \A i \in 1..Len(q) :
        /\ q[i].path \in {PROFILE} \cup CpuFiles /\ SectionOf(q[i].path) = s
        /\ q[i].value = KnobOf(applying, q[i].path)

\* A section writes each of its files, if it is there, and no other.
LEMMA SectionDoes ==
    ASSUME ModesTypes, NEW m \in Modes, NEW s \in {"profile", "governor", "epp"}
    PROVE  /\ SectionWrites(m, s) \in Seq(Entries)
           /\ \A i \in 1..Len(SectionWrites(m, s)) :
                 /\ SectionWrites(m, s)[i].path \in {PROFILE} \cup CpuFiles
                 /\ SectionOf(SectionWrites(m, s)[i].path) = s
                 /\ SectionWrites(m, s)[i].value = KnobOf(m, SectionWrites(m, s)[i].path)
           /\ \A path \in Files, value \in Values :
                 KnobOf(m, path) = value /\ SectionOf(path) = s /\ Exists(path) =>
                    LastIn(SectionWrites(m, s), To(path), {[path |-> path, value |-> value]})
<1> DEFINE q == SectionWrites(m, s)
<1>1. CASE s = "profile"
  <2> DEFINE v == ModeOf[m].profile
  <2>1. q = PlatformProfile(v)
    BY <1>1 DEF SectionWrites
  <2>2. KnobOf(m, PROFILE) = IF v \in ProfileChoices THEN v ELSE UNNAMED
    BY FileNames DEF KnobOf
  <2>3. SectionOf(PROFILE) = "profile" /\ \A path : SectionOf(path) = "profile" => path = PROFILE
    BY DEF SectionOf
  <2> HIDE DEF v
  <2>4. CASE v \in ProfileChoices
    <3> DEFINE e == [path |-> PROFILE, value |-> v]
    <3>1. q = <<e>> /\ e \in Entries /\ e.path = PROFILE /\ e.value = v
      BY <2>1, <2>4, FileNames, PowerModesAssumption DEF PlatformProfile, Entries
    <3> HIDE DEF e, q
    <3>2. q \in Seq(Entries) /\ Len(q) = 1 /\ q[1] = e
      BY <3>1
    <3>3. \A i \in 1..Len(q) : q[i] = e
      BY <3>2
    <3>4. \A path \in Files, value \in Values :
            KnobOf(m, path) = value /\ SectionOf(path) = s => e = [path |-> path, value |-> value]
      BY <1>1, <2>2, <2>3, <2>4 DEF e
    <3>5. \A K : LastIn(q, K, {e})
      BY <3>1, LastSingle
    <3> QED BY <1>1, <2>2, <2>3, <2>4, <3>1, <3>2, <3>3, <3>4, <3>5 DEF q
  <2>5. CASE v \notin ProfileChoices
    <3>1. q = <<>>
      BY <2>1, <2>5 DEF PlatformProfile
    <3> HIDE DEF q
    <3>2. q \in Seq(Entries) /\ Len(q) = 0
      BY <3>1
    <3>3. KnobOf(m, PROFILE) \notin Values
      BY <2>2, <2>5, PowerModesAssumption
    <3>4. \A path \in Files : SectionOf(path) = s => KnobOf(m, path) \notin Values
      BY <1>1, <2>3, <3>3
    <3> QED BY <3>2, <3>4 DEF q
  <2> QED BY <2>4, <2>5
<1>2. ASSUME NEW leaf \in Leaves, NEW v \in Values \cup {UNNAMED}, q = Cpufreq(leaf, v),
             \A path \in Files : SectionOf(path) = s /\ KnobOf(m, path) \in Values =>
                path \in CpuFiles /\ path[2] = leaf,
             \A path \in CpuFiles : path[2] = leaf => SectionOf(path) = s /\ KnobOf(m, path) = v
      PROVE  /\ q \in Seq(Entries)
             /\ \A i \in 1..Len(q) :
                   /\ q[i].path \in {PROFILE} \cup CpuFiles /\ SectionOf(q[i].path) = s
                   /\ q[i].value = KnobOf(m, q[i].path)
             /\ \A path \in Files, value \in Values :
                   KnobOf(m, path) = value /\ SectionOf(path) = s /\ Exists(path) =>
                      LastIn(q, To(path), {[path |-> path, value |-> value]})
  <2> HIDE DEF q
  <2>1. CASE v = UNNAMED
    <3>1. q = <<>>
      BY <1>2, <2>1 DEF Cpufreq
    <3>2. \A path \in Files : SectionOf(path) = s => KnobOf(m, path) \notin Values
      BY <1>2, <2>1, PowerModesAssumption
    <3> QED BY <3>1, <3>2
  <2>2. CASE v \in Values
    <3> DEFINE cpus == SetToSeq(online)
    <3>1. IsFiniteSet(online) /\ online \subseteq Cpus
      BY PowerModesAssumption, FS_Subset DEF ModesTypes
    <3>2. /\ cpus \in Seq(online)
          /\ \A x \in online : \E i \in 1..Len(cpus) : cpus[i] = x
          /\ \A i, j \in 1..Len(cpus) : cpus[i] = cpus[j] => i = j
      BY <3>1, Listed
    <3>3. q = [i \in 1..Len(cpus) |-> [path |-> <<cpus[i], leaf>>, value |-> v]]
      BY <1>2, <2>2, PowerModesAssumption DEF Cpufreq
    <3> HIDE DEF cpus
    <3>4. \A i \in 1..Len(cpus) :
            /\ <<cpus[i], leaf>> \in CpuFiles /\ <<cpus[i], leaf>>[2] = leaf /\ <<cpus[i], leaf>> \in Files
            /\ q[i] = [path |-> <<cpus[i], leaf>>, value |-> v] /\ q[i] \in Entries
      <4> SUFFICES ASSUME NEW i \in 1..Len(cpus)
                   PROVE  /\ <<cpus[i], leaf>> \in CpuFiles /\ <<cpus[i], leaf>>[2] = leaf
                          /\ <<cpus[i], leaf>> \in Files
                          /\ q[i] = [path |-> <<cpus[i], leaf>>, value |-> v] /\ q[i] \in Entries
        OBVIOUS
      <4>1. cpus[i] \in Cpus
        BY <3>1, <3>2
      <4>2. <<cpus[i], leaf>> \in CpuFiles /\ <<cpus[i], leaf>> \in Files
        BY <4>1, FileNames
      <4> QED BY <2>2, <3>3, <4>2 DEF Entries
    <3>5. q \in Seq(Entries) /\ Len(q) = Len(cpus)
      BY <3>2, <3>3, <3>4
    <3>6. ASSUME NEW i \in 1..Len(q)
          PROVE  /\ q[i].path \in {PROFILE} \cup CpuFiles /\ SectionOf(q[i].path) = s
                 /\ q[i].value = KnobOf(m, q[i].path)
      <4>1. q[i].path = <<cpus[i], leaf>> /\ q[i].value = v /\ q[i].path \in CpuFiles /\ q[i].path[2] = leaf
        <5>1. i \in 1..Len(cpus)
          BY <3>5
        <5>2. /\ q[i] = [path |-> <<cpus[i], leaf>>, value |-> v]
              /\ <<cpus[i], leaf>> \in CpuFiles /\ <<cpus[i], leaf>>[2] = leaf
          BY <3>4, <5>1
        <5> QED BY <5>2
      <4> QED BY <1>2, <4>1
    <3>7. ASSUME NEW path \in Files, NEW value \in Values,
                 KnobOf(m, path) = value, SectionOf(path) = s, Exists(path)
          PROVE  LastIn(q, To(path), {[path |-> path, value |-> value]})
      <4>1. path \in CpuFiles /\ path[2] = leaf /\ path[1] \in online /\ value = v
        BY <1>2, <3>7 DEF Exists
      <4>2. path = <<path[1], leaf>>
        BY <4>1, FileNames
      <4>3. PICK i \in 1..Len(q) : cpus[i] = path[1]
        BY <3>2, <3>5, <4>1
      <4>4. q[i] = [path |-> path, value |-> value]
        BY <3>4, <3>5, <4>1, <4>2, <4>3
      <4>5. ASSUME NEW j \in 1..Len(q), j > i, q[j] \in To(path) PROVE FALSE
        <5>1. q[j].path = path /\ q[j].path = <<cpus[j], leaf>>
          <6>1. j \in 1..Len(cpus) /\ q[j].path = path
            BY <3>5, <4>5 DEF To
          <6>2. q[j] = [path |-> <<cpus[j], leaf>>, value |-> v]
            BY <3>4, <6>1
          <6> QED BY <6>1, <6>2
        <5>2. cpus[j] = path[1]
          BY <4>2, <5>1
        <5> QED BY <3>2, <3>5, <4>3, <4>5, <5>2
      <4> QED BY <4>4, <4>5 DEF LastIn
    <3> QED BY <3>5, <3>6, <3>7
  <2> QED BY <2>1, <2>2
<1>3. CASE s = "governor"
  <2> DEFINE v == ModeOf[m].governor
  <2>1. q = Cpufreq("scaling_governor", v) /\ "scaling_governor" \in Leaves
    BY <1>3 DEF SectionWrites, Leaves
  <2>2. v \in Values \cup {UNNAMED} /\ UNNAMED \notin Values
    BY ModesAre
  <2>3. \A path \in Files : SectionOf(path) = s /\ KnobOf(m, path) \in Values =>
            path \in CpuFiles /\ path[2] = "scaling_governor"
    BY <1>3, <2>2 DEF SectionOf, KnobOf
  <2>4. \A path \in CpuFiles : path[2] = "scaling_governor" => SectionOf(path) = s /\ KnobOf(m, path) = v
    BY <1>3, FileNames DEF SectionOf, KnobOf
  <2> HIDE DEF v
  <2> QED BY <1>2, <2>1, <2>2, <2>3, <2>4
<1>4. CASE s = "epp"
  <2> DEFINE v == ModeOf[m].epp
  <2>1. q = Cpufreq("energy_performance_preference", v) /\ "energy_performance_preference" \in Leaves
    BY <1>4 DEF SectionWrites, Leaves
  <2>2. v \in Values \cup {UNNAMED} /\ UNNAMED \notin Values
    BY ModesAre
  <2>3. \A path \in Files : SectionOf(path) = s /\ KnobOf(m, path) \in Values =>
            path \in CpuFiles /\ path[2] = "energy_performance_preference"
    BY <1>4, <2>2, FileNames DEF SectionOf, KnobOf, Leaves
  <2>4. \A path \in CpuFiles : path[2] = "energy_performance_preference" =>
            SectionOf(path) = s /\ KnobOf(m, path) = v
    BY <1>4, FileNames DEF SectionOf, KnobOf
  <2> HIDE DEF v
  <2> QED BY <1>2, <2>1, <2>2, <2>3, <2>4
<1> QED BY <1>1, <1>3, <1>4

\* What is not there is not listed.
LEMMA NotListed ==
    ASSUME ModesTypes, NEW m \in Modes, NEW s \in {"profile", "governor", "epp"},
           NEW path \in Files, ~Exists(path), NEW i \in 1..Len(SectionWrites(m, s)),
           SectionWrites(m, s)[i] \in To(path)
    PROVE  FALSE
<1>1. path \in CpuFiles /\ path[1] \notin online /\ path # PROFILE
  BY FileNames DEF Exists
<1> DEFINE q == SectionWrites(m, s)
<1>2. q[i].path = path
  BY DEF To
<1>3. CASE s = "profile"
  <2>1. q = PlatformProfile(ModeOf[m].profile)
    BY <1>3 DEF SectionWrites
  <2> HIDE DEF q
  <2>2. q = <<>> \/ q = <<[path |-> PROFILE, value |-> ModeOf[m].profile]>>
    BY <2>1 DEF PlatformProfile
  <2>3. i \in 1..Len(q)
    BY DEF q
  <2> QED BY <1>1, <1>2, <2>2, <2>3 DEF q
<1>4. ASSUME NEW leaf, NEW v, q = Cpufreq(leaf, v) PROVE FALSE
  <2> DEFINE cpus == SetToSeq(online)
  <2>1. IsFiniteSet(online)
    BY PowerModesAssumption, FS_Subset DEF ModesTypes
  <2>2. cpus \in Seq(online)
    BY <2>1, Listed
  <2>3. q = <<>> \/ q = [k \in 1..Len(cpus) |-> [path |-> <<cpus[k], leaf>>, value |-> v]]
    BY <1>4 DEF Cpufreq
  <2>4. i \in 1..Len(q)
    OBVIOUS
  <2> HIDE DEF q, cpus
  <2>5. q # <<>>
    BY <2>4
  <2>6. Len(cpus) \in Nat /\ Len(q) = Len(cpus)
    BY <2>2, <2>3, <2>5
  <2>7. q[i] = [path |-> <<cpus[i], leaf>>, value |-> v] /\ cpus[i] \in online
    BY <2>2, <2>3, <2>4, <2>5, <2>6
  <2> QED BY <1>1, <1>2, <2>7 DEF q
<1>5. CASE s = "governor" \/ s = "epp"
  BY <1>4, <1>5 DEF SectionWrites
<1> QED BY <1>3, <1>5

-----------------------------------------------------------------------------
(* Modes: what becomes of a file that a mode wants to hold a value.         *)

\* Its section is still to come.
Later(path) ==
    KnobOf(applying, path) # UNNAMED /\ Turn[section] < Turn[SectionOf(path)]

\* Nothing is claimed of it.
Excused(path, value) == path \in spoilt \/ RightlyRefused(applying, path, value)

\* The last write that is left to it is of the value, or it holds it.
InHand(path, value) ==
    Settles(writes, To(path), {[path |-> path, value |-> value]},
            Excused(path, value) \/ file[path] = value)

KnobInv ==
    /\ ModesTypes /\ InTurn(section, writes)
    /\ applying # UNNAMED =>
          \A path \in Files, value \in Values :
             Wants(applying, path, value) => Later(path) \/ InHand(path, value)

LEMMA Turns ==
    /\ \A s \in Sections : Turn[s] \in 0..4
    /\ \A s \in Sections \ {"done"} : /\ NextSection[s] \in Sections
                                      /\ Turn[NextSection[s]] = Turn[s] + 1
    /\ \A path \in Files : SectionOf(path) \in {"profile", "governor", "epp"}
    /\ \A s, t \in Sections : Turn[s] = Turn[t] => s = t
BY DEF Sections, Turn, NextSection, SectionOf

LEMMA KnobsWanted ==
    ASSUME NEW m \in Modes, NEW path \in Files, NEW value \in Values, Wants(m, path, value)
    PROVE  \/ KnobOf(m, path) = value /\ KnobOf(m, path) # UNNAMED
           \/ /\ KnobOf(m, path) = UNNAMED
              /\ LastIn(ModeOf[m].sysfs, To(path), {[path |-> path, value |-> value]})
<1>1. CASE KnobOf(m, path) = value /\ value # UNNAMED
  BY <1>1
<1>2. CASE KnobOf(m, path) = UNNAMED
  <2> DEFINE q == ModeOf[m].sysfs
  <2>1. PICK i \in 1..Len(q) : /\ q[i] = [path |-> path, value |-> value]
                               /\ \A j \in i + 1..Len(q) : q[j].path # path
    BY <1>2, ModesAre DEF Wants
  <2>2. q \in Seq(Entries)
    BY ModesAre
  <2> HIDE DEF q
  <2>3. \A j \in 1..Len(q) : j > i => q[j] \notin To(path)
    <3>1. Len(q) \in Nat
      BY <2>2
    <3>2. \A j \in 1..Len(q) : j > i => j \in i + 1..Len(q)
      BY <3>1
    <3> QED BY <2>1, <3>2 DEF To
  <2>4. LastIn(q, To(path), {[path |-> path, value |-> value]})
    BY <2>1, <2>3 DEF LastIn
  <2> QED BY <1>2, <2>4 DEF q
<1> QED BY <1>1, <1>2 DEF Wants

\* The next section.
LEMMA ProceedKeeps ==
    ASSUME KnobInv, Proceed
    PROVE  KnobInv'
<1> DEFINE s == NextSection[section]
<1>1. /\ section # "done" /\ writes = <<>> /\ section' = s /\ writes' = SectionWrites(applying, s)
      /\ UNCHANGED <<file, online, applying, spoilt>>
  BY DEF Proceed
<1>2. section \in Sections /\ applying \in Modes /\ applying # UNNAMED
  BY <1>1 DEF KnobInv, ModesTypes
<1>3. s \in {"profile", "governor", "epp", "done"} /\ Turn[s] = Turn[section] + 1
  BY <1>1, <1>2 DEF Sections, NextSection, Turn
<1> HIDE DEF s
<1>4. ModesTypes /\ ModesTypes' /\ InTurn(s, writes')
  <2>1. CASE s = "done"
    <3>1. writes' = <<>>
      BY <1>1, <2>1 DEF SectionWrites
    <3>2. writes' \in Seq(Entries) /\ Len(writes') = 0
      BY <3>1
    <3>3. InTurn(s, writes')
      BY <3>2 DEF InTurn
    <3>4. ModesTypes'
      BY <1>1, <1>2, <2>1, <3>1, <3>2 DEF KnobInv, ModesTypes, Sections, Exists
    <3> QED BY <3>3, <3>4 DEF KnobInv
  <2>2. CASE s # "done"
    <3>1. /\ writes' \in Seq(Entries)
          /\ \A i \in 1..Len(writes') :
                /\ writes'[i].path \in {PROFILE} \cup CpuFiles /\ SectionOf(writes'[i].path) = s
                /\ writes'[i].value = KnobOf(applying, writes'[i].path)
      BY <1>1, <1>2, <1>3, <2>2, SectionDoes DEF KnobInv
    <3> QED BY <1>1, <1>2, <1>3, <2>2, <3>1 DEF KnobInv, ModesTypes, Sections, Exists, InTurn
  <2> QED BY <2>1, <2>2
<1>5. ASSUME NEW path \in Files, NEW value \in Values, Wants(applying, path, value)
      PROVE  Later(path)' \/ InHand(path, value)'
  <2> DEFINE last == LastIn(writes', To(path), {[path |-> path, value |-> value]})
  <2>1. Turn[section] \in Nat /\ Turn[SectionOf(path)] \in Nat /\ SectionOf(path) \in Sections
    BY <1>2, Turns DEF Sections
  <2>2. ASSUME Later(path), ~(Later(path)')
        PROVE  last \/ (path \in spoilt /\ Free(writes', To(path)))
    <3>1. SectionOf(path) = s /\ s # "done"
      <4>1. Turn[s] = Turn[SectionOf(path)]
        BY <1>1, <1>3, <2>1, <2>2 DEF Later
      <4> QED BY <1>3, <2>1, <4>1, Turns DEF Sections
    <3>2. KnobOf(applying, path) = value
      BY <1>2, <1>5, <2>2, KnobsWanted DEF Later
    <3>3. CASE Exists(path)
      BY <1>1, <1>2, <1>3, <1>4, <3>1, <3>2, <3>3, SectionDoes
    <3>4. CASE ~Exists(path)
      <4>1. path \in spoilt
        BY <1>4, <3>4 DEF ModesTypes
      <4>2. CASE Free(writes', To(path))
        BY <4>1, <4>2
      <4>3. CASE ~Free(writes', To(path))
        <5>1. PICK i \in 1..Len(writes') : writes'[i] \in To(path)
          BY <4>3 DEF Free
        <5> QED BY <1>1, <1>2, <1>3, <1>4, <3>1, <3>4, <5>1, NotListed
      <4> QED BY <4>2, <4>3
    <3> QED BY <3>3, <3>4
  <2>3. ASSUME ~Later(path) PROVE Free(writes', To(path)) /\ (Excused(path, value) \/ file[path] = value)
    <3>1. InHand(path, value)
      BY <1>2, <1>5, <2>3 DEF KnobInv
    <3>2. Excused(path, value) \/ file[path] = value
      BY <1>1, <3>1 DEF InHand, Settles, LastIn
    <3>3. ASSUME NEW i \in 1..Len(writes'), writes'[i] \in To(path) PROVE FALSE
      <4>1. writes'[i].path = path /\ writes'[i].value \in Values
        BY <3>3 DEF To, Entries
      <4>2. s # "sysfs"
        BY <1>3
      <4>3. SectionOf(path) = s /\ KnobOf(applying, path) \in Values
        BY <1>4, <3>3, <4>1, <4>2 DEF InTurn
      <4> QED BY <1>2, <1>3, <2>1, <2>3, <4>3, ModesAre DEF Later
    <3> QED BY <3>2, <3>3 DEF Free
  <2>4. Excused(path, value)' = Excused(path, value) /\ file'[path] = file[path]
    BY <1>1 DEF Excused, RightlyRefused
  <2> QED BY <2>2, <2>3, <2>4 DEF InHand, Settles, Excused
<1>6. InTurn(section, writes)'
  BY <1>1, <1>4 DEF InTurn
<1> QED BY <1>1, <1>4, <1>5, <1>6 DEF KnobInv

\* `apply` begins.
LEMMA ApplyKeeps ==
    ASSUME KnobInv, NEW m \in Modes, Apply(m)
    PROVE  KnobInv'
<1>1. /\ applying' = m /\ section' = "sysfs" /\ writes' = ModeOf[m].sysfs
      /\ spoilt' = {path \in Files : ~Exists(path)} /\ UNCHANGED <<file, online>>
  BY DEF Apply, SectionWrites
<1>2. ModesTypes'
  BY <1>1, ModesAre DEF KnobInv, ModesTypes, Exists, Sections
<1>3. InTurn(section, writes)'
  BY <1>1 DEF InTurn
<1>4. ASSUME NEW path \in Files, NEW value \in Values, Wants(m, path, value)
      PROVE  Later(path)' \/ InHand(path, value)'
  <2>1. Turn["sysfs"] < Turn[SectionOf(path)]
    BY Turns DEF Turn
  <2> QED BY <1>1, <1>4, <2>1, KnobsWanted DEF Later, InHand, Settles
<1> QED BY <1>1, <1>2, <1>3, <1>4 DEF KnobInv

\* A write that works, or that the kernel refuses.
LEMMA WriteKeeps ==
    ASSUME KnobInv, Write
    PROVE  KnobInv'
<1> DEFINE w == Head(writes)
<1>1. /\ writes # <<>> /\ Exists(w.path) /\ writes' = Tail(writes) /\ spoilt' = spoilt \ {w.path}
      /\ file' = IF Accepts(w.path, w.value) THEN [file EXCEPT ![w.path] = w.value] ELSE file
      /\ UNCHANGED <<online, applying, section>>
  BY DEF Write
<1>2. /\ writes \in Seq(Entries) /\ w \in Entries /\ w = writes[1] /\ 1 \in 1..Len(writes)
      /\ w.path \in Files /\ w.value \in Values /\ file \in [Files -> Values]
      /\ writes' \in Seq(Entries)
      /\ \A i \in 1..Len(writes') : writes'[i] = writes[i + 1] /\ i + 1 \in 1..Len(writes)
  <2>1. writes \in Seq(Entries) /\ file \in [Files -> Values]
    BY DEF KnobInv, ModesTypes
  <2>2. /\ w \in Entries /\ w = writes[1] /\ 1 \in 1..Len(writes)
        /\ writes' \in Seq(Entries)
        /\ \A i \in 1..Len(writes') : writes'[i] = writes[i + 1] /\ i + 1 \in 1..Len(writes)
    BY <1>1, <2>1, TailAt
  <2>3. \A x \in Entries : x.path \in Files /\ x.value \in Values
    BY DEF Entries
  <2> QED BY <2>1, <2>2, <2>3
<1>3. section # "done" /\ applying \in Modes /\ applying # UNNAMED /\ section \in Sections
  BY <1>1 DEF KnobInv, ModesTypes
<1> HIDE DEF w
<1>4. file' \in [Files -> Values] /\ \A path \in Files : path # w.path => file'[path] = file[path]
  BY <1>1, <1>2
<1>5. ModesTypes'
  BY <1>1, <1>2, <1>3, <1>4 DEF KnobInv, ModesTypes, Exists
<1>6. InTurn(section, writes)'
  BY <1>1, <1>2 DEF KnobInv, InTurn
<1>7. ASSUME NEW path \in CpuFiles, path[2] = "energy_performance_preference",
             ~Later(path), KnobOf(applying, path) # UNNAMED, NEW v \in Values, ModeOf[applying].governor = v
      PROVE  /\ Free(writes, To(GovernorOf(path))) /\ w.path # GovernorOf(path)
             /\ GovernorOf(path) \in spoilt \/ file[GovernorOf(path)] = v
  <2> DEFINE gov == GovernorOf(path)
  <2>1. gov \in CpuFiles /\ gov \in Files /\ gov # PROFILE /\ path # PROFILE /\ path \in Files
        /\ gov[2] = "scaling_governor"
    BY FileNames
  <2>2. SectionOf(gov) = "governor" /\ SectionOf(path) = "epp"
    BY <1>7, <2>1 DEF SectionOf
  <2>3. section = "epp"
    BY <1>3, <1>7, <2>2 DEF Later, Turn, Sections
  <2> HIDE DEF gov
  <2>4. Free(writes, To(gov))
    BY <2>2, <2>3 DEF KnobInv, InTurn, Free, To
  <2>5. w \notin To(gov) /\ w.path # gov
    BY <1>2, <2>4 DEF Free, To
  <2>6. KnobOf(applying, gov) = v /\ v # UNNAMED
    BY <1>3, <1>7, <2>1, ModesAre DEF KnobOf
  <2>7. InHand(gov, v)
    <3>1. ~Later(gov)
      BY <2>2, <2>3 DEF Later, Turn
    <3>2. Wants(applying, gov, v)
      BY <2>6 DEF Wants
    <3> QED BY <1>3, <2>1, <3>1, <3>2 DEF KnobInv
  <2>8. ~LastIn(writes, To(gov), {[path |-> gov, value |-> v]})
    <3>1. [path |-> gov, value |-> v] \in To(gov)
      BY <2>1 DEF To, Entries
    <3> QED BY <2>4, <3>1 DEF LastIn, Free
  <2>9. gov \in spoilt \/ file[gov] = v
    BY <2>1, <2>7, <2>8 DEF InHand, Settles, Excused, RightlyRefused
  <2> QED BY <2>4, <2>5, <2>9 DEF gov
<1>8. ASSUME NEW path \in Files, NEW value \in Values, Wants(applying, path, value)
      PROVE  Later(path)' \/ InHand(path, value)'
  <2> DEFINE e == [path |-> path, value |-> value]
  <2>1. CASE Later(path)
    BY <1>1, <2>1 DEF Later
  <2>2. CASE ~Later(path)
    <3>1. InHand(path, value)
      BY <1>3, <1>8, <2>2 DEF KnobInv
    <3>2. RightlyRefused(applying, path, value) => RightlyRefused(applying, path, value)'
      <4> SUFFICES ASSUME RightlyRefused(applying, path, value)
                   PROVE  RightlyRefused(applying, path, value)'
        OBVIOUS
      <4>1. /\ path \in CpuFiles /\ path[2] = "energy_performance_preference" /\ value # "performance"
            /\ \/ ModeOf[applying].governor \in {"performance", UNNAMED} \/ ModeOf[applying].epp = UNNAMED
               \/ GovernorOf(path) \in spoilt
        BY DEF RightlyRefused, GovernorOf
      <4>2. CASE ModeOf[applying].governor \in {"performance", UNNAMED} \/ ModeOf[applying].epp = UNNAMED
        BY <1>1, <4>1, <4>2 DEF RightlyRefused
      <4>3. CASE ModeOf[applying].governor \in Values /\ ModeOf[applying].epp # UNNAMED
        <5>1. KnobOf(applying, path) # UNNAMED
          BY <4>1, <4>3, FileNames DEF KnobOf
        <5>2. w.path # GovernorOf(path)
          BY <1>7, <2>2, <4>1, <4>3, <5>1
        <5> QED BY <1>1, <4>1, <5>2 DEF RightlyRefused, GovernorOf
      <4> QED BY <1>3, <4>2, <4>3, ModesAre
    <3>3. CASE Free(writes, To(path)) /\ (Excused(path, value) \/ file[path] = value)
      <4>1. w \notin To(path) /\ Free(writes', To(path))
        BY <1>1, <1>2, <3>3, FreeTail DEF w
      <4>2. w.path # path
        BY <1>2, <4>1 DEF To
      <4>3. file'[path] = file[path] /\ (path \in spoilt => path \in spoilt')
        BY <1>1, <1>4, <4>2
      <4> QED BY <3>2, <3>3, <4>1, <4>3 DEF InHand, Settles, Excused
    <3>4. CASE LastIn(writes, To(path), {e})
      <4>1. LastIn(writes', To(path), {e}) \/ (w \in {e} /\ Free(writes', To(path)))
        BY <1>1, <1>2, <3>4, LastTail DEF w
      <4>2. ASSUME w = e PROVE RightlyRefused(applying, path, value)' \/ file'[path] = value
        <5>1. w.path = path /\ w.value = value
          BY <4>2
        <5>2. CASE Accepts(path, value)
          BY <1>1, <1>2, <5>1, <5>2
        <5>3. CASE ~Accepts(path, value)
          <6>1. /\ path \in CpuFiles /\ path[2] = "energy_performance_preference" /\ value # "performance"
                /\ file[GovernorOf(path)] = "performance"
            BY <5>3 DEF Accepts, GovernorOf
          <6>2. CASE ModeOf[applying].governor \in {"performance", UNNAMED} \/ ModeOf[applying].epp = UNNAMED
            BY <1>1, <6>1, <6>2 DEF RightlyRefused
          <6>3. CASE /\ ModeOf[applying].governor \in Values \ {"performance"}
                     /\ ModeOf[applying].epp # UNNAMED
            <7>1. KnobOf(applying, path) # UNNAMED
              BY <6>1, <6>3, FileNames DEF KnobOf
            <7>2. GovernorOf(path) \in spoilt /\ w.path # GovernorOf(path)
              BY <1>7, <2>2, <6>1, <6>3, <7>1
            <7> QED BY <1>1, <6>1, <7>2 DEF RightlyRefused, GovernorOf
          <6> QED BY <1>3, <6>2, <6>3, ModesAre
        <5> QED BY <5>2, <5>3
      <4> QED BY <4>1, <4>2 DEF InHand, Settles, Excused
    <3> QED BY <3>1, <3>3, <3>4 DEF InHand, Settles
  <2> QED BY <2>1, <2>2
<1> QED BY <1>1, <1>5, <1>6, <1>8 DEF KnobInv

\* A write that fails.
LEMMA WriteFailsKeeps ==
    ASSUME KnobInv, WriteFails
    PROVE  KnobInv'
<1> DEFINE w == Head(writes)
<1>1. /\ writes # <<>> /\ writes' = Tail(writes) /\ spoilt' = spoilt \cup {w.path}
      /\ UNCHANGED <<file, online, applying, section>>
  BY DEF WriteFails
<1>2. /\ writes \in Seq(Entries) /\ w \in Entries /\ writes' \in Seq(Entries)
      /\ \A i \in 1..Len(writes') : writes'[i] = writes[i + 1] /\ i + 1 \in 1..Len(writes)
      /\ section # "done"
  BY <1>1, TailAt DEF KnobInv, ModesTypes
<1>3. ModesTypes'
  BY <1>1, <1>2 DEF KnobInv, ModesTypes, Exists
<1>4. InTurn(section, writes)'
  BY <1>1, <1>2 DEF KnobInv, InTurn
<1>5. ASSUME NEW path \in Files, NEW value \in Values, Wants(applying, path, value), applying # UNNAMED
      PROVE  Later(path)' \/ InHand(path, value)'
  <2> DEFINE e == [path |-> path, value |-> value]
  <2>1. CASE Later(path)
    BY <1>1, <2>1 DEF Later
  <2>2. CASE InHand(path, value)
    <3>1. CASE Free(writes, To(path)) /\ (Excused(path, value) \/ file[path] = value)
      <4>1. Free(writes', To(path))
        BY <1>1, <1>2, <3>1, FreeTail
      <4>2. (Excused(path, value) => Excused(path, value)') /\ file'[path] = file[path]
        BY <1>1 DEF Excused, RightlyRefused
      <4> QED BY <3>1, <4>1, <4>2 DEF InHand, Settles
    <3>2. CASE LastIn(writes, To(path), {e})
      <4>1. LastIn(writes', To(path), {e}) \/ (w \in {e} /\ Free(writes', To(path)))
        BY <1>1, <1>2, <3>2, LastTail
      <4>2. w = e => path \in spoilt'
        BY <1>1
      <4> QED BY <4>1, <4>2 DEF InHand, Settles, Excused
    <3> QED BY <2>2, <3>1, <3>2 DEF InHand, Settles
  <2> QED BY <1>1, <1>5, <2>1, <2>2 DEF KnobInv
<1> QED BY <1>1, <1>3, <1>4, <1>5 DEF KnobInv

\* Somebody else writes, and processors come and go.
LEMMA BesideKeeps ==
    ASSUME KnobInv,
           \/ \E path \in CpuFiles, value \in {"powersave", "performance"} : Meddles(path, value)
           \/ \E cpu \in Cpus : Hotplug(cpu)
    PROVE  KnobInv'
<1>1. UNCHANGED <<applying, section, writes>> /\ spoilt \subseteq spoilt'
  BY DEF Meddles, Hotplug
<1>2. ModesTypes' /\ \A path \in Files : path \in spoilt' \/ file'[path] = file[path]
  <2>1. ASSUME NEW path \in CpuFiles, NEW value \in {"powersave", "performance"}, Meddles(path, value)
        PROVE  ModesTypes' /\ \A p \in Files : p \in spoilt' \/ file'[p] = file[p]
    <3>1. /\ file' = [file EXCEPT ![path] = value] /\ spoilt' = spoilt \cup {path} /\ UNCHANGED online
          /\ value \in Values /\ file \in [Files -> Values]
      BY <2>1 DEF Meddles, Values, KnobInv, ModesTypes
    <3> QED BY <1>1, <3>1 DEF KnobInv, ModesTypes, Exists
  <2>2. ASSUME NEW cpu \in Cpus, Hotplug(cpu)
        PROVE  ModesTypes' /\ \A p \in Files : p \in spoilt' \/ file'[p] = file[p]
    <3>1. /\ online' = (online \ {cpu}) \cup ({cpu} \ online) /\ file' = file
          /\ spoilt' = spoilt \cup ({cpu} \X Leaves)
      BY <2>2 DEF Hotplug
    <3>2. online' \subseteq Cpus /\ \A c \in Cpus : c # cpu => (c \in online <=> c \in online')
      BY <3>1 DEF KnobInv, ModesTypes
    <3>3. ASSUME NEW p \in Files, ~(Exists(p)') PROVE p \in spoilt'
      <4>1. p \in CpuFiles /\ p[1] \notin online'
        BY <3>3 DEF Exists
      <4>2. p[1] \in Cpus /\ p[2] \in Leaves /\ p = <<p[1], p[2]>>
        BY <4>1, FileNames
      <4>3. CASE p[1] = cpu
        BY <3>1, <4>2, <4>3
      <4>4. CASE p[1] # cpu
        <5>1. ~Exists(p)
          BY <3>2, <4>1, <4>2, <4>4 DEF Exists
        <5> QED BY <1>1, <5>1 DEF KnobInv, ModesTypes
      <4> QED BY <4>3, <4>4
    <3> QED BY <1>1, <3>1, <3>2, <3>3 DEF KnobInv, ModesTypes
  <2> QED BY <2>1, <2>2
<1>3. InTurn(section, writes)'
  BY <1>1 DEF KnobInv, InTurn
<1>4. ASSUME NEW path \in Files, NEW value \in Values, Wants(applying, path, value), applying # UNNAMED
      PROVE  Later(path)' \/ InHand(path, value)'
  <2>1. Later(path) => Later(path)'
    BY <1>1 DEF Later
  <2>2. Excused(path, value) \/ file[path] = value => Excused(path, value)' \/ file'[path] = value
    BY <1>1, <1>2 DEF Excused, RightlyRefused
  <2>3. InHand(path, value) => InHand(path, value)'
    BY <1>1, <2>2 DEF InHand, Settles
  <2> QED BY <1>4, <2>1, <2>3 DEF KnobInv
<1> QED BY <1>1, <1>2, <1>3, <1>4 DEF KnobInv

LEMMA ModesStart == ModesInit => KnobInv
<1> SUFFICES ASSUME ModesInit PROVE KnobInv
  OBVIOUS
<1>1. /\ file \in [Files -> {"powersave", "performance"}] /\ online = Cpus
      /\ applying = UNNAMED /\ section = "done" /\ writes = <<>>
  BY DEF ModesInit
<1>2. file \in [Files -> Values]
  BY <1>1 DEF Values
<1>3. \A path \in Files : Exists(path)
  BY <1>1, FileNames DEF Exists
<1>4. InTurn(section, writes)
  BY <1>1 DEF InTurn
<1> QED BY <1>1, <1>2, <1>3, <1>4 DEF KnobInv, ModesTypes, Sections

LEMMA ModesInductive == KnobInv /\ [ModesNext]_modesVars => KnobInv'
<1> SUFFICES ASSUME KnobInv, [ModesNext]_modesVars PROVE KnobInv'
  OBVIOUS
<1>1. CASE UNCHANGED modesVars
  BY <1>1 DEF modesVars, KnobInv, ModesTypes, InTurn, Later, InHand, Settles, Excused, RightlyRefused, Exists
<1> QED BY <1>1, ApplyKeeps, ProceedKeeps, WriteKeeps, WriteFailsKeeps, BesideKeeps DEF ModesNext

\* Whatever held before and whichever of the other writes fail, each file that a mode
\* names holds its value in the end, but for a preference that the kernel refuses
\* because of the governor: for any modes, files and processors, and any that come
\* and go while apply is writing.
THEOREM KnobsTakeHoldHolds == ModesSpec => []KnobsTakeHold
<1>1. KnobInv => KnobsTakeHold
  <2> SUFFICES ASSUME KnobInv, section = "done", applying # UNNAMED,
                      NEW path \in Files \ spoilt, NEW value \in Values,
                      Wants(applying, path, value), ~RightlyRefused(applying, path, value)
               PROVE  file[path] = value
    BY DEF KnobsTakeHold
  <2>1. writes = <<>>
    BY DEF KnobInv, ModesTypes
  <2>2. ~Later(path)
    BY Turns DEF Later, Sections, Turn
  <2>3. InHand(path, value)
    BY <2>2 DEF KnobInv
  <2> QED BY <2>1, <2>3 DEF InHand, Settles, LastIn, Excused
<1> QED BY <1>1, ModesStart, ModesInductive, PTL DEF ModesSpec

=============================================================================
