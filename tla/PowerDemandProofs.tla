------------------------- MODULE PowerDemandProofs -------------------------
EXTENDS PowerDemand, TLAPS

(***************************************************************************)
(* A cast to int16_t gives an int16_t, and is the identity on one.         *)
(***************************************************************************)
LEMMA Int16Cast ==
  ASSUME NEW x \in Int
  PROVE  /\ Int16(x) \in Int16Range
         /\ x \in Int16Range => Int16(x) = x
  BY DEF Int16, Int16Range

(***************************************************************************)
(* The split over n inverters covers the demand and exceeds it by less     *)
(* than n watts.                                                           *)
(***************************************************************************)
LEMMA PerDeviceCovers ==
  ASSUME NEW d \in Nat, NEW n \in Nat \ {0}
  PROVE  /\ PerDevice(d, n) \in Nat
         /\ PerDevice(d, n) <= d
         /\ d <= PerDevice(d, n) * n
         /\ PerDevice(d, n) * n < d + n
  BY DEF PerDevice

(***************************************************************************)
(* No setting without a negative minimum or maximum makes a calculation    *)
(* return a negative demand, and it returns more than the maximum only as  *)
(* AboveMaximum says.                                                      *)
(***************************************************************************)
Bounded(calculation, demand, s) ==
  /\ demand \in Int /\ 0 <= demand
  /\ demand <= s.max \/ AboveMaximum(calculation, demand, s)

LEMMA NegativeMeasurementsBounds ==
  ASSUME NEW s \in Settings, 0 <= s.min, 0 <= s.max,
         NEW c \in Int16Range, NEW last \in UInt16Range,
         NEW calculation, calculation # "DUMB_OEM_BEHAVIOR"
  PROVE  Bounded(calculation, NegativeMeasurements(c, last, s), s)
<1> DEFINE importing_now == Int16(c - s.buffer)
           power_demand  == Int16(importing_now + last)
<1>0. s.min \in Int /\ s.max \in Int /\ s.buffer \in Int
  BY DEF Settings, Int16Range
<1>1. importing_now \in Int16Range
  BY <1>0, Int16Cast DEF Int16Range
<1>2. power_demand \in Int16Range
  BY <1>1, Int16Cast DEF Int16Range, UInt16Range
<1> HIDE DEF importing_now, power_demand
<1>3. NegativeMeasurements(c, last, s)
        = IF power_demand >= s.max THEN s.max
          ELSE IF power_demand < s.min THEN (IF s.zero THEN 0 ELSE s.min)
          ELSE power_demand
  BY DEF NegativeMeasurements, importing_now, power_demand
<1> QED
  BY <1>0, <1>2, <1>3
  DEF Bounded, AboveMaximum, SoundSettings, Settings, Int16Range

LEMMA OemBounds ==
  ASSUME NEW s \in Settings, 0 <= s.min, 0 <= s.max, NEW c \in Int16Range
  PROVE  Bounded("DUMB_OEM_BEHAVIOR", Oem(c, s), s)
<1>0. /\ s.min \in Int /\ s.max \in Int /\ s.buffer \in Int
      /\ s.max <= 32767 /\ s.buffer <= 32767
      /\ c \in Int /\ -32768 <= c /\ c <= 32767
  BY DEF Settings, Int16Range
<1>1. CASE c > s.max + s.buffer
  BY <1>0, <1>1 DEF Oem, Bounded
<1>2. CASE ~(c > s.max + s.buffer) /\ c > s.max
  <2>1. 0 < s.buffer
    BY <1>0, <1>2
  <2>2. /\ Abs(s.buffer - s.max) \in Int16Range
        /\ Abs(s.buffer - s.max) \in Int
        /\ 0 <= Abs(s.buffer - s.max)
        /\ \/ Abs(s.buffer - s.max) <= s.max
           \/ s.buffer > 2 * s.max /\ Abs(s.buffer - s.max) = s.buffer - s.max
    BY <1>0, <2>1 DEF Abs, Int16Range
  <2>3. Oem(c, s) = Abs(s.buffer - s.max)
    BY <1>2, <2>2, Int16Cast DEF Oem
  <2> QED
    BY <1>0, <2>2, <2>3 DEF Bounded, AboveMaximum, OemBuffer
<1>3. CASE ~(c > s.max + s.buffer) /\ ~(c > s.max)
  <2> DEFINE half == (Abs(c - s.buffer) + (c - s.buffer)) \div 2
  <2>1. half = IF c > s.buffer THEN c - s.buffer ELSE 0
    BY <1>0 DEF Abs
  <2> HIDE DEF half
  <2>2. half \in Int /\ half \in Int16Range /\ 0 <= half /\ half <= s.max
    BY <1>0, <1>3, <2>1 DEF Int16Range
  <2>3. Oem(c, s) = half \/ Oem(c, s) = 0
    BY <1>3, <2>2, Int16Cast DEF Oem, half
  <2> QED
    BY <1>0, <2>2, <2>3 DEF Bounded
<1> QED
  BY <1>1, <1>2, <1>3

(***************************************************************************)
(* Whatever the reading and the previous demand, also where the int16_t    *)
(* overflow, no calculation returns a negative demand: the result is cast  *)
(* to uint16_t, so a negative one would ask for about 65 kW.  It returns   *)
(* one above the maximum only as AboveMaximum says: through a maximum      *)
(* below the minimum, or, by the OEM rules, a buffer of more than twice    *)
(* the maximum.                                                            *)
(***************************************************************************)
THEOREM CalculatedDemandBounds ==
  ASSUME NEW calculation \in Calculations,
         NEW s \in Settings, 0 <= s.min, 0 <= s.max,
         NEW c \in Int16Range, NEW last \in UInt16Range
  PROVE  Bounded(calculation, CalculatePowerDemand(calculation, c, last, s), s)
<1>1. CASE calculation = "NEGATIVE_MEASUREMENTS_REQUIRED"
  <2>1. CalculatePowerDemand(calculation, c, last, s)
          = NegativeMeasurements(c, last, s)
    BY <1>1 DEF CalculatePowerDemand
  <2> QED
    BY <1>1, <2>1, NegativeMeasurementsBounds
<1>2. CASE calculation = "RESTART_ON_CROSSING_ZERO"
  <2>1. CalculatePowerDemand(calculation, c, last, s)
          = RestartOnCrossingZero(c, last, s)
    BY <1>2 DEF CalculatePowerDemand
  <2>2. Bounded(calculation, NegativeMeasurements(c, last, s), s)
    BY <1>2, NegativeMeasurementsBounds
  <2>3. Bounded(calculation, 0, s)
    BY DEF Bounded
  <2> QED
    BY <2>1, <2>2, <2>3 DEF RestartOnCrossingZero
<1>3. CASE calculation = "DUMB_OEM_BEHAVIOR"
  <2>1. CalculatePowerDemand(calculation, c, last, s) = Oem(c, s)
    BY <1>3 DEF CalculatePowerDemand
  <2> QED
    BY <1>3, <2>1, OemBounds
<1> QED
  BY <1>1, <1>2, <1>3 DEF Calculations
=============================================================================
