--------------------------- MODULE MCVirtualMeter ---------------------------
(***************************************************************************)
(* Constants of the TLC runs of VirtualMeter.  Watts, ticks and the period *)
(* of the clock are scaled down; every branch of the calculation and of    *)
(* update() stays reachable.                                               *)
(***************************************************************************)
EXTENDS VirtualMeter

CONSTANTS MaxValues, BufferValues, DividerValues, ManualValues,
          SwitchRestoreMode

MCNumberValues == [max_power_demand     |-> MaxValues,
                   buffer               |-> BufferValues,
                   power_demand_divider |-> DividerValues,
                   manual_power_demand  |-> ManualValues]

\* An entity without initial_value starts at min_value (number/__init__.py).
MCInitialValue ==
  [n \in NumberIds |-> IF MCNumberValues[n] = {} THEN 0
                       ELSE CHOOSE v \in MCNumberValues[n] :
                              \A x \in MCNumberValues[n] : v <= x]

MCRestoreMode == [w \in SwitchIds |-> SwitchRestoreMode]

\* Readings that export, import and saturate; a sensor may also publish NaN.
\* On top of 4 W commanded before, the largest overflows an int16_t.
MCReadings == {NaN, -40, 327650}

\* 31 lies between the two thresholds of the OEM rules for a maximum of 1 and a
\* buffer of 3, which takes the demand above that maximum.
MCOemReadings == {-40, 31, 95}
MCNegativeBuffer == -2
MCBufferValues == {-2, 3}
=============================================================================
