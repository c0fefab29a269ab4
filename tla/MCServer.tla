------------------------------ MODULE MCServer ------------------------------
(* Instances of Ipc and of Socket for TLC, side by side: which of the two    *)
(* runs is chosen at the start.                                              *)
EXTENDS Ipc, Socket

VARIABLES part

PartInit == part \in {"ipc", "socket"} /\ Init /\ SocketInit /\ (part = "ipc" => path = NOTHING)

PartNext ==
    /\ UNCHANGED part
    /\ \/ part = "ipc" /\ Next /\ UNCHANGED socketVars
       \/ part = "socket" /\ SocketNext /\ UNCHANGED vars

PartVars == <<part, vars, socketVars>>
PartSpec ==
    /\ PartInit /\ [][PartNext]_PartVars
    /\ WF_PartVars(part = "ipc" /\ Proceeds /\ UNCHANGED <<part, socketVars>>)

\* A second daemon that is started when the first one has gone deaf.
TwiceSpec == part = "socket" /\ PartInit /\ [][PartNext]_PartVars
=============================================================================
