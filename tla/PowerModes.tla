----------------------------- MODULE PowerModes -----------------------------
(***************************************************************************)
(* Applying a mode to sysfs (src/power/modes.rs).  The daemon writes one    *)
(* file after the other; the kernel may refuse a value, a processor may come *)
(* or go, and other daemons write to the same files.                        *)
(***************************************************************************)
EXTENDS Naturals, Sequences, FiniteSets, SequencesExt

CONSTANTS
    UNNAMED,        \* what a mode says of a knob it does not name; no mode
    ModeOf,         \* mode -> what it asks for, see Knobs
    Custom,         \* the files only `sysfs` tables name
    Cpus,           \* the directories cpu<n>
    ProfileChoices  \* platform_profile_choices, {} if there is no such file

\* Files, as <<directory, leaf>>, and values.
PROFILE == <<"acpi", "platform_profile">>
Leaves == {"scaling_governor", "energy_performance_preference"}
CpuFiles == Cpus \X Leaves
Files == Custom \cup {PROFILE} \cup CpuFiles
Values == {"power", "powersave", "balanced", "performance"}
Modes == DOMAIN ModeOf
Knobs == [sysfs : Seq([path : Files, value : Values]),
          profile : Values \cup {UNNAMED}, governor : Values \cup {UNNAMED},
          epp : Values \cup {UNNAMED}]

ASSUME PowerModesAssumption ==
    /\ \A m \in Modes : ModeOf[m] \in Knobs
    /\ UNNAMED \notin Modes \cup Values /\ IsFiniteSet(Cpus) /\ ProfileChoices \subseteq Values

VARIABLES
    file,           \* path -> value
    online,         \* the processors that have a cpufreq directory
    applying,       \* the mode applied last
    section,        \* of `apply`: sysfs, profile, governor, epp; done
    writes,         \* what the section has left to write
    spoilt          \* history: the files whose write failed, that are not there, or
                    \* that somebody else has written since

modesVars == <<file, online, applying, section, writes, spoilt>>

Exists(path) == path \in CpuFiles => path[1] \in online

\* External: while its governor is `performance`, a processor takes no other
\* preference.
Accepts(path, value) ==
    path \in CpuFiles /\ path[2] = "energy_performance_preference" /\ value # "performance"
    => file[<<path[1], "scaling_governor">>] # "performance"

-----------------------------------------------------------------------------
(* ModeApplier.                                                            *)

\* cpufreq: the processors that are there when the section is reached.  The code
\* sorts them; each write is to a file of its own, so any order will do.
Cpufreq(leaf, value) ==
    LET cpus == SetToSeq(online)
    IN IF value = UNNAMED THEN <<>>
       ELSE [i \in 1..Len(cpus) |-> [path |-> <<cpus[i], leaf>>, value |-> value]]

\* platform_profile: only what the firmware advertises.
PlatformProfile(value) ==
    IF value \in ProfileChoices THEN <<[path |-> PROFILE, value |-> value]>> ELSE <<>>

SectionWrites(m, name) ==
    CASE name = "sysfs" -> ModeOf[m].sysfs
      [] name = "profile" -> PlatformProfile(ModeOf[m].profile)
      [] name = "governor" -> Cpufreq("scaling_governor", ModeOf[m].governor)
      [] name = "epp" -> Cpufreq("energy_performance_preference", ModeOf[m].epp)
      [] name = "done" -> <<>>

\* Mutant: the preference before the governor.
EppBeforeGovernor ==
    [sysfs |-> "profile", profile |-> "epp", epp |-> "governor", governor |-> "done"]

NextSection ==
    [sysfs |-> "profile", profile |-> "governor", governor |-> "epp", epp |-> "done"]

Apply(m) ==
    /\ section = "done"
    /\ applying' = m /\ section' = "sysfs" /\ writes' = SectionWrites(m, "sysfs")
    /\ spoilt' = {path \in Files : ~Exists(path)}
    /\ UNCHANGED <<file, online>>

Proceed ==
    /\ section # "done" /\ writes = <<>>
    /\ section' = NextSection[section]
    /\ writes' = SectionWrites(applying, section')
    /\ UNCHANGED <<file, online, applying, spoilt>>

\* The kernel takes the value or refuses it.
Write ==
    /\ writes # <<>>
    /\ LET w == Head(writes) IN
       /\ Exists(w.path)
       /\ file' = IF Accepts(w.path, w.value) THEN [file EXCEPT ![w.path] = w.value] ELSE file
       /\ spoilt' = spoilt \ {w.path}
    /\ writes' = Tail(writes)
    /\ UNCHANGED <<online, applying, section>>

\* Mutant: the first error ends it all.
WriteErrorEnds ==
    /\ writes # <<>>
    /\ spoilt' = spoilt \cup {Head(writes).path}
    /\ writes' = <<>> /\ section' = "done"
    /\ UNCHANGED <<file, online, applying>>

\* A warning, and on with the next file.
WriteFails ==
    /\ writes # <<>>
    /\ spoilt' = spoilt \cup {Head(writes).path}
    /\ writes' = Tail(writes)
    /\ UNCHANGED <<file, online, applying, section>>

-----------------------------------------------------------------------------
(* Beside it.                                                              *)

Meddles(path, value) ==
    /\ Exists(path) /\ Accepts(path, value)
    /\ file' = [file EXCEPT ![path] = value] /\ spoilt' = spoilt \cup {path}
    /\ UNCHANGED <<online, applying, section, writes>>

Hotplug(cpu) ==
    /\ online' = (online \ {cpu}) \cup ({cpu} \ online)
    /\ spoilt' = spoilt \cup ({cpu} \X Leaves)
    /\ UNCHANGED <<file, applying, section, writes>>

ModesInit ==
    /\ file \in [Files -> {"powersave", "performance"}]
    /\ online = Cpus
    /\ applying = UNNAMED /\ section = "done" /\ writes = <<>> /\ spoilt = {}

ModesNext ==
    \/ \E m \in Modes : Apply(m)
    \/ Proceed \/ Write \/ WriteFails
    \/ \E path \in CpuFiles, value \in {"powersave", "performance"} : Meddles(path, value)
    \/ \E cpu \in Cpus : Hotplug(cpu)

ModesSpec == ModesInit /\ [][ModesNext]_modesVars

-----------------------------------------------------------------------------
(* Properties.                                                             *)

\* What a mode wants a file to hold: where `sysfs` names the file of a knob, the
\* knob comes after it.
KnobOf(m, path) ==
    CASE path = PROFILE -> IF ModeOf[m].profile \in ProfileChoices THEN ModeOf[m].profile ELSE UNNAMED
      [] path \in CpuFiles -> IF path[2] = "scaling_governor" THEN ModeOf[m].governor
                              ELSE ModeOf[m].epp
      [] OTHER -> UNNAMED
Wants(m, path, value) ==
    \/ value # UNNAMED /\ KnobOf(m, path) = value
    \/ /\ KnobOf(m, path) = UNNAMED
       /\ \E i \in 1..Len(ModeOf[m].sysfs) :
             /\ ModeOf[m].sysfs[i] = [path |-> path, value |-> value]
             /\ \A j \in i + 1..Len(ModeOf[m].sysfs) : ModeOf[m].sysfs[j].path # path

\* Is the preference refused for good reason: the mode itself has the processor
\* run at full speed, or does not say, or could not change it; or only `sysfs` names
\* the preference, so that it is written before the governor.
RightlyRefused(m, path, value) ==
    /\ path \in CpuFiles /\ path[2] = "energy_performance_preference"
    /\ value # "performance"
    /\ \/ ModeOf[m].governor \in {"performance", UNNAMED} \/ ModeOf[m].epp = UNNAMED
       \/ <<path[1], "scaling_governor">> \in spoilt

\* Whatever held before, and whichever of the other writes fail, each knob a mode
\* names has its value in the end: the governor leaves the way of the preference,
\* and an error of one file keeps nothing from the rest.
KnobsTakeHold ==
    section = "done" /\ applying # UNNAMED =>
        \A path \in Files \ spoilt, value \in Values :
            Wants(applying, path, value) /\ ~RightlyRefused(applying, path, value)
            => file[path] = value
=============================================================================
