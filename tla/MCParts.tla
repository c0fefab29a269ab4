------------------------------ MODULE MCParts ------------------------------
(* Instances of the small parts for TLC, side by side: which of them runs is *)
(* chosen at the start.  Two timers and four starts: each can be restarted   *)
(* and cancelled while the fires of two earlier starts are still queued.     *)
EXTENDS Timers, IdleHint, Degraded, PowerModes

VARIABLES part

MCIds == {"Grace", "AwakeWindow"}

\* Two of the four directories, and two names: one drop-in that shadows another,
\* one that comes after it.
MCPaths == {<<1, MAIN>>, <<2, MAIN>>, <<1, 1>>, <<2, 1>>, <<2, 2>>}
Login == [section |-> "Login"]
Assign(key, value) == [key |-> key, value |-> value]
MCTexts ==
    {<<Login, Assign("HandleLidSwitch", "ignore"), Assign("IdleAction", "suspend")>>,
     <<Login, Assign("HandleLidSwitch", EMPTY),
       [section |-> "Other"], Assign("HandleLidSwitch", "ignore")>>,
     <<Assign("HandleLidSwitch", "ignore"), Login,
       Assign("HandleLidSwitchDocked", "suspend"), Assign("IdleAction", "ignore")>>}
MCSections == {[panel |-> "panel0", server |-> FALSE, rtc |-> "rtc0", interval |-> 1],
               [panel |-> "panel0", server |-> TRUE, rtc |-> "rtc0", interval |-> 1],
               [panel |-> "panel0", server |-> TRUE, rtc |-> "rtc0", interval |-> 2],
               [panel |-> "panel1", server |-> TRUE, rtc |-> "rtc1", interval |-> 1]}

\* A mode at full speed, one whose table names the file of a knob, one that leaves
\* the governor alone and asks for a profile the firmware does not have, and one
\* whose table names the preference, which is then written before the governor.
\* Processors do not touch one another's files: one, which comes and goes.
MCCpus == {"cpu1"}
MCCustom == {<<"intel_pstate", "no_turbo">>}
MCPreference == <<"cpu1", "energy_performance_preference">>
MCModeOf ==
    [fast |-> [sysfs |-> <<>>, profile |-> "performance", governor |-> "performance",
               epp |-> "performance"],
     saving |-> [sysfs |-> <<[path |-> <<"intel_pstate", "no_turbo">>, value |-> "power"],
                             [path |-> PROFILE, value |-> "power"]>>,
                 profile |-> "balanced", governor |-> "powersave", epp |-> "power"],
     quiet |-> [sysfs |-> <<>>, profile |-> "powersave", governor |-> UNNAMED, epp |-> "power"],
     tabled |-> [sysfs |-> <<[path |-> MCPreference, value |-> "power"]>>,
                 profile |-> UNNAMED, governor |-> "powersave", epp |-> UNNAMED]]

PartInit ==
    /\ part \in {"timers", "hint", "degraded", "modes"}
    /\ Init /\ HintInit /\ DegradedInit /\ ModesInit
    /\ part # "hint" => ~hint /\ ~fallback.enabled
    /\ part # "degraded" => present = {} /\ config.panel = "panel1"
    /\ \A path \in Files : file[path] = "performance"

PartNext ==
    /\ UNCHANGED part
    /\ \/ part = "timers" /\ Next /\ UNCHANGED <<hintVars, degradedVars, modesVars>>
       \/ part = "hint" /\ HintNext /\ UNCHANGED <<vars, degradedVars, modesVars>>
       \/ part = "degraded" /\ DegradedNext /\ UNCHANGED <<vars, hintVars, modesVars>>
       \/ part = "modes" /\ ModesNext /\ UNCHANGED <<vars, hintVars, degradedVars>>

PartVars == <<part, vars, hintVars, degradedVars, modesVars>>
Hinted(A) == part = "hint" /\ A /\ UNCHANGED <<part, vars, degradedVars, modesVars>>

\* Where IdleHint runs, no timer is started that would have to fire; the other
\* parts promise nothing that fairness is needed for.
PartSpec ==
    /\ PartInit /\ [][PartNext]_PartVars /\ Fairness
    /\ WF_PartVars(Hinted(Hears)) /\ WF_PartVars(Hinted(Polls))
    /\ SF_PartVars(Hinted(AsksHint)) /\ SF_PartVars(Hinted(AsksSince))
=============================================================================
