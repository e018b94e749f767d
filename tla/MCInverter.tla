----------------------------- MODULE MCInverter -----------------------------
(***************************************************************************)
(* Constants of the TLC runs of Inverter.                                  *)
(***************************************************************************)
EXTENDS Inverter

CONSTANT StatusCodes

Frame(status, ac, temperature) ==
  [size |-> 10, operation_status |-> status, battery_voltage |-> 475,
   battery_current |-> 161, ac_voltage |-> ac, ac_frequency |-> 100,
   temperature |-> temperature]

\* A cool and a hot inverter for every status, and a frame whose AC voltage
\* is out of range.
MCStatusFrames ==
  {Frame(s, 221, 714) : s \in StatusCodes} \cup
  {Frame(s, 239, 751) : s \in StatusCodes} \cup {Frame(0, 65000, 714)}
=============================================================================
