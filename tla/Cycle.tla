------------------------------- MODULE Cycle -------------------------------
(***************************************************************************)
(* What the engine promises of the server cycle, whatever else it does:     *)
(* the phases, and the power as the engine knows it.  Engine implements it; *)
(* Round puts it between the watcher of the power supply and the clock.     *)
(***************************************************************************)

VARIABLES
    phase,          \* a phase of the cycle, or Out
    ac              \* has the engine been told of mains power

cycleVars == <<phase, ac>>

CyclePhases == {"Grace", "Armed", "LongSleeping", "Checking"}

\* A daemon that is started again goes on where it looks at the power.
Init ==
    /\ phase \in {"Out", "Checking"} /\ ac \in BOOLEAN
    /\ phase = "Checking" => ~ac

PowerGoes ==
    /\ ac /\ ac' = FALSE
    /\ phase' \in IF phase = "Out" THEN {"Out", "Grace"} ELSE {phase}

\* Where the machine waits awake, power ends the cycle at once.
PowerComes ==
    /\ ~ac /\ ac' = TRUE
    /\ phase' = IF phase \in {"Grace", "Checking"} THEN "Out" ELSE phase

\* amperedctl long-sleep
Begins == phase = "Out" /\ phase' = "Grace" /\ UNCHANGED ac

\* A timer has run out; past Grace only without power.
Arms ==
    /\ phase = "Grace" \/ (phase \in {"Armed", "Checking"} /\ ~ac)
    /\ phase' = "Armed" /\ UNCHANGED ac

Sleeps == phase # "Out" /\ phase' = "LongSleeping" /\ UNCHANGED ac

\* Somebody who opens the machine ends the cycle, and so does power.
Resumes(byUser) ==
    /\ phase # "Out"
    /\ phase' = IF ac \/ byUser THEN "Out" ELSE "Checking"
    /\ UNCHANGED ac

\* Input, a cancel, a shutdown, three attempts that failed, power seen late.
Leaves == phase # "Out" /\ phase' = "Out" /\ UNCHANGED ac

Next ==
    \/ PowerGoes \/ PowerComes
    \/ Begins \/ Arms \/ Sleeps \/ Leaves
    \/ \E byUser \in BOOLEAN : Resumes(byUser)

Spec == Init /\ [][Next]_cycleVars
=============================================================================
