----------------------------- MODULE MCSession -----------------------------
(* Instances of Session for TLC.                                           *)
EXTENDS Session

\* A desktop mode, and the server mode that has no stages.
MCStageSets == {{}, {"Dim", "ScreenOff"}}

\* Both protocols are there.
Sway == [idle |-> TRUE, power |-> TRUE]
MCKinds == {Sway}
=============================================================================
