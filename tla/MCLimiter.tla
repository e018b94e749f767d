------------------------------ MODULE MCLimiter ------------------------------
(***************************************************************************)
(* Constants of the TLC runs of Limiter.                                   *)
(***************************************************************************)
EXTENDS Limiter

Frame(status, ac) ==
  [size |-> 10, operation_status |-> status, battery_voltage |-> 475,
   battery_current |-> 161, ac_voltage |-> ac, ac_frequency |-> 100,
   temperature |-> 714]

MCStatusFrames == {Frame(0, 221), Frame(2, 221), Frame(0, 65000)}
MCOperationStatusIds == {-1, 0, 2}
MCNumberValues == [n \in NumberIds |-> IF n = "manual_power_demand" THEN {5}
                                       ELSE {}]
MCInitialValue == [n \in NumberIds |-> 5]
MCRestoreMode == [w \in SwitchIds |-> "ALWAYS_OFF"]
MCReadings == {31}
=============================================================================
