---------------------------- MODULE PowerDemand ----------------------------
(***************************************************************************)
(* The arithmetic of soyosource_virtual_meter: how a reading of the smart  *)
(* meter and the output commanded last become the next power demand, and   *)
(* how the demand is split over several inverters.  Everything here is a   *)
(* pure operator; the C++ integer widths are kept because the code stores  *)
(* its intermediate results in int16_t and uint16_t fields.                *)
(*                                                                         *)
(* A settings argument s is a record                                       *)
(*   [min, max, buffer : Int16, zero : BOOLEAN]                            *)
(* of min_power_demand_, max_power_demand_, buffer_ and                    *)
(* zero_output_on_min_power_demand_.                                       *)
(***************************************************************************)
EXTENDS Integers

(***************************************************************************)
(* The ranges are written as comprehensions: the SMT encoding expands an   *)
(* interval between two numerals element by element.                       *)
(***************************************************************************)
Int16Range  == {x \in Int : -32768 <= x /\ x <= 32767}
UInt16Range == {x \in Int : 0 <= x /\ x <= 65535}
UInt8Range  == {x \in Int : 0 <= x /\ x <= 255}

Int16(x)  == ((x + 32768) % 65536) - 32768
UInt16(x) == x % 65536
UInt8(x)  == x % 256

Abs(x) == IF x < 0 THEN -x ELSE x

Calculations == {"DUMB_OEM_BEHAVIOR",
                 "NEGATIVE_MEASUREMENTS_REQUIRED",
                 "RESTART_ON_CROSSING_ZERO"}

Settings == [min : Int16Range, max : Int16Range, buffer : Int16Range,
             zero : BOOLEAN]

(***************************************************************************)
(* (int16_t) ceilf(state): the reading is given in tenths of a watt and    *)
(* rounded up to whole watts.  C++ leaves the cast of a larger reading     *)
(* undefined; the conversion through a 32-bit integer wraps around, and    *)
(* what is proved here holds for every int16_t it could give.              *)
(***************************************************************************)
Consumption(deciwatts) == Int16(-((-deciwatts) \div 10))

(***************************************************************************)
(* Three mutants of the calculations: the lower bound forgotten, the       *)
(* buffer added instead of subtracted, and OEM rules that fall back to the *)
(* minimum or never saturate.                                              *)
(***************************************************************************)
NegativeMeasurementsNoMinimum(consumption, last_power_demand, s) ==
  LET power_demand == Int16(Int16(consumption - s.buffer) + last_power_demand)
  IN  IF power_demand >= s.max THEN s.max ELSE power_demand

NegativeMeasurementsBufferAdded(consumption, last_power_demand, s) ==
  LET power_demand == Int16(Int16(consumption + s.buffer) + last_power_demand)
  IN  IF power_demand >= s.max THEN s.max
      ELSE IF power_demand < s.min THEN (IF s.zero THEN 0 ELSE s.min)
      ELSE power_demand

OemFallsBackToMinimum(consumption, s) ==
  IF consumption > s.max + s.buffer THEN s.max
  ELSE IF consumption > s.max THEN Int16(Abs(s.buffer - s.max))
  ELSE IF consumption >= s.min
       THEN Int16((Abs(consumption - s.buffer) + (consumption - s.buffer)) \div 2)
  ELSE s.min

OemNeverSaturates(consumption, s) ==
  IF consumption > s.max THEN Int16(Abs(s.buffer - s.max))
  ELSE IF consumption >= s.min
       THEN Int16((Abs(consumption - s.buffer) + (consumption - s.buffer)) \div 2)
  ELSE 0

(***************************************************************************)
(* The two assignments to int16_t variables wrap around.                   *)
(***************************************************************************)
NegativeMeasurements(consumption, last_power_demand, s) ==
  LET importing_now == Int16(consumption - s.buffer)
      power_demand  == Int16(importing_now + last_power_demand)
  IN  IF power_demand >= s.max THEN s.max
      ELSE IF power_demand < s.min THEN (IF s.zero THEN 0 ELSE s.min)
      ELSE power_demand

RestartOnCrossingZero(consumption, last_power_demand, s) ==
  IF consumption <= 0 THEN 0
  ELSE NegativeMeasurements(consumption, last_power_demand, s)

(***************************************************************************)
(* max + buffer is computed in int and does not wrap; C++ division of the  *)
(* non-negative sum agrees with \div.                                      *)
(***************************************************************************)
Oem(consumption, s) ==
  IF consumption > s.max + s.buffer THEN s.max
  ELSE IF consumption > s.max THEN Int16(Abs(s.buffer - s.max))
  ELSE IF consumption >= s.min
       THEN Int16((Abs(consumption - s.buffer) + (consumption - s.buffer)) \div 2)
  ELSE 0

CalculatePowerDemand(calculation, consumption, last_power_demand, s) ==
  CASE calculation = "NEGATIVE_MEASUREMENTS_REQUIRED" ->
         NegativeMeasurements(consumption, last_power_demand, s)
    [] calculation = "RESTART_ON_CROSSING_ZERO" ->
         RestartOnCrossingZero(consumption, last_power_demand, s)
    [] OTHER -> Oem(consumption, s)

(***************************************************************************)
(* ceilf(power_demand / float(divider)).  The float quotient is within     *)
(* 2^-11 of the exact one for demands up to 5400 W (the schema's limit)    *)
(* and dividers up to 6, so its ceiling is the exact ceiling.              *)
(***************************************************************************)
PerDevice(power_demand, divider) == (power_demand + divider - 1) \div divider

(***************************************************************************)
(* What the configuration schema asks of min and max.  The number entity   *)
(* of max_power_demand may take it below min at run time.                  *)
(***************************************************************************)
SoundSettings(s) == 0 <= s.min /\ s.min <= s.max

(***************************************************************************)
(* The buffers the OEM calculation tolerates: a larger one, which the      *)
(* schema and the number entity accept, takes its second rule above max.   *)
(***************************************************************************)
OemBuffer(s) == s.buffer <= 2 * s.max

(***************************************************************************)
(* How a calculation can demand more than max: the OEM rules through a     *)
(* buffer of more than twice max, the others through a max that was        *)
(* lowered below min, which they still fall back to.                       *)
(***************************************************************************)
AboveMaximum(calculation, demand, s) ==
  IF calculation = "DUMB_OEM_BEHAVIOR"
  THEN ~OemBuffer(s) /\ demand = s.buffer - s.max
  ELSE ~SoundSettings(s) /\ ~s.zero /\ demand = s.min
=============================================================================
