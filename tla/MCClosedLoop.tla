---------------------------- MODULE MCClosedLoop ----------------------------
(***************************************************************************)
(* Constants of the TLC runs of ClosedLoop.                                *)
(***************************************************************************)
EXTENDS ClosedLoop

MCNumberValues == [n \in NumberIds |-> {}]
MCInitialValue == [n \in NumberIds |-> 0]
MCRestoreMode == [w \in SwitchIds |-> "ALWAYS_OFF"]
=============================================================================
