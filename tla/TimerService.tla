---------------------------- MODULE TimerService ----------------------------
(***************************************************************************)
(* What the engine expects of its timers (Command::StartTimer, CancelTimer  *)
(* and Event::Timer): at most one deadline per id; starting a timer again   *)
(* replaces its deadline; a timer fires once, after its deadline, and never *)
(* once it has been cancelled.                                              *)
(***************************************************************************)
EXTENDS Functions

CONSTANT Ids
VARIABLES
    timers,     \* running timers: id -> "counting" or "elapsed"
    handed      \* the timer that has just fired, as a set of at most one

vars == <<timers, handed>>

Init == timers = [id \in {} |-> "counting"] /\ handed = {}

Remove(id) == timers' = Restrict(timers, DOMAIN timers \ {id})

Start(id) ==
    /\ timers' = [i \in DOMAIN timers \cup {id} |->
                     IF i = id THEN "counting" ELSE timers[i]]
    /\ handed' = {}

Cancel(id) == id \in DOMAIN timers /\ Remove(id) /\ handed' = {}

Elapse(id) ==
    /\ id \in DOMAIN timers /\ timers[id] = "counting"
    /\ timers' = [timers EXCEPT ![id] = "elapsed"]
    /\ UNCHANGED handed

Fire(id) ==
    /\ id \in DOMAIN timers /\ timers[id] = "elapsed"
    /\ Remove(id)
    /\ handed' = {id}

Next == \E id \in Ids : Start(id) \/ Cancel(id) \/ Elapse(id) \/ Fire(id)

Spec == Init /\ [][Next]_vars
=============================================================================
