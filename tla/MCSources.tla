----------------------------- MODULE MCSources -----------------------------
(* Instances of Supply and of Round for TLC, side by side: which of the two *)
(* runs is chosen at the start.                                             *)
EXTENDS Round

VARIABLES part

Device(name, t, s, on, percent, energy, charge) ==
    [name |-> name, type |-> t, scope |-> s, online |-> on, capacity |-> percent,
     energyFull |-> energy, chargeFull |-> charge]
Mains(on) == Device("AC", "Mains", NONE, on, NONE, NONE, NONE)
Main(percent) == Device("BAT0", "Battery", NONE, FALSE, percent, 50, 60)
Small(name, percent) == Device(name, "Battery", "System", FALSE, percent, NONE, 20)
Mouse == Device("mouse", "Battery", "Device", FALSE, 5, NONE, NONE)

MCDirOf == [on \in BOOLEAN |-> {Mains(on)}]
MCDirectories ==
    {MCDirOf[on] : on \in BOOLEAN}
    \cup {{Mains(FALSE), Main(40), Small("BAT1", 101), Mouse},
          {Mains(TRUE), Main(39), Small("BAT1", 0), Small("BAT2", 0)}}
MCOthers == [event : {"Suspending", "Resumed"}]

\* Supply by itself rests where a round begins.
PartInit ==
    /\ part \in {"supply", "round"}
    /\ mains \in BOOLEAN /\ SupplyInit /\ RoundRests
    /\ IF part = "round" THEN sysfs = DirOf[mains] ELSE mains

PartNext ==
    /\ UNCHANGED part
    /\ \/ part = "round" /\ RoundNext
       \/ part = "supply" /\ SupplyNext
          /\ UNCHANGED <<engineSide, machineSide, alarms, worldSide>>

PartSpec ==
    /\ PartInit /\ [][PartNext]_<<part, roundVars>>
    /\ WF_<<part, roundVars>>(part = "round" /\ Proceeds /\ UNCHANGED part)
=============================================================================
