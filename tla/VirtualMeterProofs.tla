------------------------- MODULE VirtualMeterProofs -------------------------
(***************************************************************************)
(* Theorems about VirtualMeter for every value of its constants.           *)
(***************************************************************************)
EXTENDS VirtualMeter, PowerDemandProofs

(***************************************************************************)
(* Casts.                                                                  *)
(***************************************************************************)
LEMMA UInt16Cast ==
  ASSUME NEW x \in Int
  PROVE  /\ UInt16(x) \in UInt16Range
         /\ x \in UInt16Range => UInt16(x) = x
  BY DEF UInt16, UInt16Range

LEMMA UInt8Cast ==
  ASSUME NEW x \in UInt8Range
  PROVE  UInt8(x) = x
  BY DEF UInt8, UInt8Range

LEMMA ConsumptionType ==
  ASSUME NEW r \in Int
  PROVE  Consumption(r) \in Int16Range
<1>1. -((-r) \div 10) \in Int
  OBVIOUS
<1> QED
  BY <1>1, Int16Cast DEF Consumption

(***************************************************************************)
(* Every calculation returns an int16_t, sound settings or not.            *)
(***************************************************************************)
LEMMA CalculationType ==
  ASSUME NEW s \in Settings, NEW c \in Int16Range, NEW last \in UInt16Range
  PROVE  CalculatePowerDemand(PowerDemandCalculation, c, last, s) \in Int16Range
<1>1. s.min \in Int16Range /\ s.max \in Int16Range /\ s.buffer \in Int16Range
  BY DEF Settings
<1>2. NegativeMeasurements(c, last, s) \in Int16Range
  <2>1. Int16(c - s.buffer) \in Int16Range
    BY <1>1, Int16Cast DEF Int16Range
  <2>2. Int16(Int16(c - s.buffer) + last) \in Int16Range
    BY <2>1, Int16Cast DEF Int16Range, UInt16Range
  <2>3. 0 \in Int16Range
    BY DEF Int16Range
  <2> QED
    BY <1>1, <2>2, <2>3 DEF NegativeMeasurements
<1>3. RestartOnCrossingZero(c, last, s) \in Int16Range
  BY <1>2 DEF RestartOnCrossingZero, Int16Range
<1>4. Oem(c, s) \in Int16Range
  <2>1. Abs(s.buffer - s.max) \in Int
    BY <1>1 DEF Abs, Int16Range
  <2>2. (Abs(c - s.buffer) + (c - s.buffer)) \div 2 \in Int
    BY <1>1 DEF Abs, Int16Range
  <2>3. /\ Int16(Abs(s.buffer - s.max)) \in Int16Range
        /\ Int16((Abs(c - s.buffer) + (c - s.buffer)) \div 2) \in Int16Range
        /\ 0 \in Int16Range
    BY <2>1, <2>2, Int16Cast DEF Int16Range
  <2> QED
    BY <1>1, <2>3 DEF Oem
<1> QED
  BY <1>2, <1>3, <1>4 DEF CalculatePowerDemand

-----------------------------------------------------------------------------
(***************************************************************************)
(* Settings: whatever the entities hold is a possible value, and possible  *)
(* values survive the casts of the setters.                                *)
(***************************************************************************)
LEMMA PossibleRanges ==
  /\ PossibleValues("max_power_demand") \subseteq Int16Range
  /\ PossibleValues("buffer") \subseteq Int16Range
  /\ PossibleValues("power_demand_divider") \subseteq UInt8Range \ {0}
  /\ PossibleValues("manual_power_demand") \subseteq UInt16Range
<1>1. /\ Configured["max_power_demand"] = MaxPowerDemand
      /\ Configured["buffer"] = Buffer
      /\ Configured["power_demand_divider"] = PowerDemandDivider
      /\ Configured["manual_power_demand"] = 0
  BY DEF Configured, NumberIds
<1>2. /\ MaxPowerDemand \in Int16Range /\ Buffer \in Int16Range
      /\ PowerDemandDivider \in UInt8Range \ {0} /\ 0 \in UInt16Range
  BY ConfigAssumption DEF Int16Range, UInt8Range, UInt16Range
<1> QED
  BY <1>1, <1>2, EntityAssumption DEF PossibleValues

LEMMA PossibleValuesInt ==
  ASSUME NEW n \in NumberIds
  PROVE  PossibleValues(n) \subseteq Int
  BY PossibleRanges DEF NumberIds, Int16Range, UInt8Range, UInt16Range

LEMMA AppliedPossible ==
  ASSUME NEW n \in NumberIds, NEW v \in PossibleValues(n)
  PROVE  Applied(n, v) = v
<1>1. CASE n = "max_power_demand"
  <2>1. v \in Int16Range
    BY <1>1, PossibleRanges
  <2> QED
    BY <1>1, <2>1, Int16Cast DEF Applied, Int16Range
<1>2. CASE n = "buffer"
  <2>1. v \in Int16Range
    BY <1>2, PossibleRanges
  <2> QED
    BY <1>2, <2>1, Int16Cast DEF Applied, Int16Range
<1>3. CASE n = "power_demand_divider"
  <2>1. v \in UInt8Range
    BY <1>3, PossibleRanges
  <2> QED
    BY <1>3, <2>1, UInt8Cast DEF Applied
<1>4. CASE n = "manual_power_demand"
  BY <1>4 DEF Applied
<1> QED
  BY <1>1, <1>2, <1>3, <1>4 DEF NumberIds

LEMMA NumberSetupType ==
  ASSUME NEW pref,
         \A n \in NumberIds : pref[n] \in PossibleValues(n) \cup {Unset}
  PROVE  /\ NumberSetup(pref) \in [NumberIds -> Int]
         /\ \A n \in NumberIds : NumberSetup(pref)[n] \in PossibleValues(n)
<1>1. ASSUME NEW n \in NumberIds
      PROVE  NumberSetup(pref)[n] \in PossibleValues(n)
  <2>1. CASE n \notin Entities
    BY <2>1 DEF NumberSetup, PossibleValues
  <2>2. CASE n \in Entities /\ n \in RestoreValue /\ pref[n] # Unset
    <3>1. pref[n] \in PossibleValues(n)
      BY <2>2
    <3>2. Applied(n, pref[n]) = pref[n]
      BY <3>1, AppliedPossible
    <3> QED
      BY <2>2, <3>1, <3>2 DEF NumberSetup
  <2>3. CASE n \in Entities /\ ~(n \in RestoreValue /\ pref[n] # Unset)
    <3>1. InitialValue[n] \in PossibleValues(n)
      BY <2>3, EntityAssumption DEF PossibleValues
    <3>2. Applied(n, InitialValue[n]) = InitialValue[n]
      BY <3>1, AppliedPossible
    <3> QED
      BY <2>3, <3>1, <3>2 DEF NumberSetup
  <2> QED
    BY <2>1, <2>2, <2>3
<1>2. ASSUME NEW n \in NumberIds
      PROVE  NumberSetup(pref)[n] \in Int
  BY <1>1, PossibleValuesInt
<1>3. NumberSetup(pref) = [n \in NumberIds |-> NumberSetup(pref)[n]]
  BY DEF NumberSetup
<1> QED
  BY <1>1, <1>2, <1>3

LEMMA SwitchSetupType ==
  ASSUME NEW pref
  PROVE  SwitchSetup(pref) \in [SwitchIds -> BOOLEAN]
  BY EntityAssumption DEF SwitchSetup, RestoreModes

-----------------------------------------------------------------------------
(***************************************************************************)
(* Type correctness, one step per action.                                  *)
(***************************************************************************)
LEMMA CurrentSettingsType ==
  ASSUME TypeOK
  PROVE  CurrentSettings \in Settings
<1>1. /\ settings["max_power_demand"] \in Int16Range
      /\ settings["buffer"] \in Int16Range
  BY PossibleRanges DEF TypeOK, NumberIds
<1>2. MinPowerDemand \in Int16Range /\ ZeroOutputOnMinPowerDemand \in BOOLEAN
  BY ConfigAssumption DEF Int16Range
<1> QED
  BY <1>1, <1>2 DEF CurrentSettings, Settings

LEMMA SelectedDemandType ==
  ASSUME TypeOK
  PROVE  SelectedDemand \in UInt16Range
<1>1. UInt16(power_demand) \in UInt16Range
  BY UInt16Cast DEF TypeOK, Int16Range
<1>2. UInt16(settings["manual_power_demand"]) \in UInt16Range
  BY UInt16Cast DEF TypeOK, NumberIds
<1>3. 0 \in UInt16Range
  BY DEF UInt16Range
<1> QED
  BY <1>1, <1>2, <1>3 DEF SelectedDemand

(***************************************************************************)
(* The frame of an update: the share of one inverter fits in the two bytes *)
(* it is sent in, so the cast to uint16_t does not change it.              *)
(***************************************************************************)
LEMMA FrameOfUpdate ==
  ASSUME TypeOK
  PROVE  LET share == PerDevice(SelectedDemand, settings["power_demand_divider"])
         IN  /\ UInt16(share) = share
             /\ share \in UInt16Range
             /\ share <= SelectedDemand
             /\ share = 0 <=> SelectedDemand = 0
             /\ share * settings["power_demand_divider"]
                  \in SelectedDemand
                      .. SelectedDemand + settings["power_demand_divider"] - 1
<1> DEFINE d == SelectedDemand
           n == settings["power_demand_divider"]
<1>1. d \in Nat /\ d \in UInt16Range
  BY SelectedDemandType DEF UInt16Range
<1>2. n \in Nat \ {0}
  BY PossibleRanges DEF TypeOK, NumberIds, UInt8Range
<1> HIDE DEF d, n
<1>3. /\ PerDevice(d, n) \in Nat
      /\ PerDevice(d, n) <= d
      /\ d <= PerDevice(d, n) * n
      /\ PerDevice(d, n) * n < d + n
  BY <1>1, <1>2, PerDeviceCovers
<1>4. PerDevice(d, n) \in UInt16Range
  BY <1>1, <1>3 DEF UInt16Range
<1>5. UInt16(PerDevice(d, n)) = PerDevice(d, n)
  BY <1>3, <1>4, UInt16Cast
<1>6. PerDevice(d, n) = 0 <=> d = 0
  BY <1>1, <1>2, <1>3
<1>7. PerDevice(d, n) * n \in d .. d + n - 1
  <2> DEFINE total == PerDevice(d, n) * n
  <2>1. total \in Int /\ d <= total /\ total < d + n
    BY <1>2, <1>3
  <2> HIDE DEF total
  <2>2. total \in d .. d + n - 1
    BY <1>1, <1>2, <2>1
  <2> QED
    BY <2>2 DEF total
<1> QED
  BY <1>3, <1>4, <1>5, <1>6, <1>7 DEF d, n

LEMMA StartRanges ==
  /\ 0 .. UpdateInterval \subseteq 0 .. UpdateInterval + LoopSlack
  /\ 0 \in 0 .. ClockMod - 1 /\ 0 \in 0 .. ClockMod
  /\ 0 \in 0 .. MaxRestarts
  BY EnvironmentAssumption

LEMMA TypeInit == Init => TypeOK
<1> SUFFICES ASSUME Init PROVE TypeOK
  OBVIOUS
<1>1. /\ NumberSetup(number_pref) \in [NumberIds -> Int]
      /\ \A n \in NumberIds : NumberSetup(number_pref)[n] \in PossibleValues(n)
  BY NumberSetupType DEF Init
<1>2. SwitchSetup(switch_pref) \in [SwitchIds -> BOOLEAN]
  BY SwitchSetupType
<1>3. /\ number_pref \in [NumberIds -> Int \cup {Unset}]
      /\ \A n \in NumberIds : number_pref[n] \in PossibleValues(n) \cup {Unset}
      /\ switch_pref \in [SwitchIds -> BOOLEAN \cup {Unset}]
  BY DEF Init
<1>4. /\ since_update \in 0 .. UpdateInterval + LoopSlack
      /\ 0 \in 0 .. ClockMod - 1 /\ 0 \in 0 .. ClockMod
      /\ 0 \in 0 .. MaxRestarts
  BY StartRanges DEF Init
<1>5. 0 \in Int16Range /\ 0 \in UInt16Range
  BY DEF Int16Range, UInt16Range
<1> QED
  BY <1>1, <1>2, <1>3, <1>4, <1>5 DEF Init, TypeOK, OperationModes

\* A reading of any size, not only one of Readings.
LEMMA PowerReadingType ==
  ASSUME TypeOK, NEW r \in Int, PowerReading(r)
  PROVE  TypeOK'
<1>1. power_demand' \in Int16Range
  BY ConsumptionType, CurrentSettingsType, CalculationType
  DEF PowerReading, TypeOK
<1>2. limit' \in Int16Range
  BY PossibleRanges DEF PowerReading, TypeOK, NumberIds
<1> QED
  BY <1>1, <1>2, EnvironmentAssumption
  DEF PowerReading, TypeOK, output_vars, pref_vars, clock_vars

LEMMA TypeNext == TypeOK /\ [Next]_vars => TypeOK'
<1> SUFFICES ASSUME TypeOK, [Next]_vars PROVE TypeOK'
  OBVIOUS
<1>1. CASE UNCHANGED vars
  BY <1>1 DEF TypeOK, vars, demand_vars, output_vars, pref_vars, clock_vars
<1>2. ASSUME NEW r \in Readings \ {NaN}, PowerReading(r)
      PROVE  TypeOK'
  BY <1>2, PowerReadingType, EnvironmentAssumption
<1>3. CASE Update
  <2>1. frame' \in UInt16Range /\ last_power_demand' \in UInt16Range
    BY <1>3, FrameOfUpdate, SelectedDemandType DEF Update
  <2>2. operation_mode' \in OperationModes
    BY <1>3 DEF Update, OperationMode, OperationModes
  <2> QED
    BY <1>3, <2>1, <2>2, EnvironmentAssumption
    DEF Update, TypeOK, demand_vars, pref_vars
<1>4. ASSUME NEW n \in NumberIds, NEW v \in NumberValues[n],
             NumberControl(n, v)
      PROVE  TypeOK'
  <2>1. v \in PossibleValues(n)
    BY <1>4 DEF NumberControl, PossibleValues
  <2>2. Applied(n, v) \in PossibleValues(n) /\ Applied(n, v) \in Int
    BY <2>1, AppliedPossible, PossibleValuesInt
  <2> QED
    BY <1>4, <2>2
    DEF NumberControl, TypeOK, demand_vars, output_vars, pref_vars, clock_vars
<1>5. ASSUME NEW w \in SwitchIds, NEW state \in BOOLEAN, WriteState(w, state)
      PROVE  TypeOK'
  BY <1>5
  DEF WriteState, TypeOK, demand_vars, output_vars, pref_vars, clock_vars
<1>6. CASE SyncPreferences
  BY <1>6
  DEF SyncPreferences, TypeOK, demand_vars, output_vars, clock_vars
<1>7. ASSUME NEW id \in OperationStatusIds, OperationStatus(id)
      PROVE  TypeOK'
  BY <1>7
  DEF OperationStatus, TypeOK, demand_vars, output_vars, pref_vars, clock_vars
<1>8. CASE Restart
  <2>1. /\ settings' \in [NumberIds -> Int]
        /\ \A n \in NumberIds : settings'[n] \in PossibleValues(n)
    BY <1>8, NumberSetupType DEF Restart, TypeOK
  <2>2. switches' \in [SwitchIds -> BOOLEAN]
    BY <1>8, SwitchSetupType DEF Restart
  <2>3. /\ since_update' \in 0 .. UpdateInterval + LoopSlack
        /\ 0 \in 0 .. ClockMod - 1 /\ 0 \in 0 .. ClockMod
    BY <1>8, StartRanges DEF Restart
  <2>4. 0 \in Int16Range /\ 0 \in UInt16Range
    BY DEF Int16Range, UInt16Range
  <2>5. restarts' \in 0 .. MaxRestarts
    BY <1>8, EnvironmentAssumption DEF Restart, TypeOK
  <2> QED
    BY <1>8, <2>1, <2>2, <2>3, <2>4, <2>5
    DEF Restart, TypeOK, pref_vars, OperationModes
<1>9. CASE Tick
  <2>1. (millis + 1) % ClockMod \in 0 .. ClockMod - 1
    BY EnvironmentAssumption DEF TypeOK
  <2> QED
    BY <1>9, <2>1, EnvironmentAssumption
    DEF Tick, TypeOK, output_vars, pref_vars
<1> QED
  BY <1>1, <1>2, <1>3, <1>4, <1>5, <1>6, <1>7, <1>8, <1>9
  DEF Next, Operate, NaNReading

(***************************************************************************)
(* All values keep the types of their C++ fields; settings and flash hold  *)
(* values their entities accept.                                           *)
(***************************************************************************)
THEOREM TypeCorrect == Spec => []TypeOK
  BY TypeInit, TypeNext, PTL DEF Spec

-----------------------------------------------------------------------------
(***************************************************************************)
(* No reading, setting, restart or override ever makes the demand          *)
(* negative, and it is above the maximum in force when the reading arrived *)
(* only in the cases of AboveMaximum, provided the entity cannot make the  *)
(* maximum negative.                                                       *)
(***************************************************************************)
LEMMA LimitOfSettings ==
  ASSUME NoNegativeMaximum, TypeOK
  PROVE  /\ CurrentSettings \in Settings
         /\ 0 <= CurrentSettings.min /\ 0 <= CurrentSettings.max
  BY CurrentSettingsType, ConfigAssumption
  DEF NoNegativeMaximum, TypeOK, NumberIds, CurrentSettings

THEOREM DemandLimited ==
  ASSUME NoNegativeMaximum
  PROVE  Spec => []DemandWithinLimit
<1>1. Init => DemandWithinLimit
  BY DEF Init, DemandWithinLimit
<1>2. TypeOK /\ DemandWithinLimit /\ [Next]_vars => DemandWithinLimit'
  <2> SUFFICES ASSUME TypeOK, DemandWithinLimit, [Next]_vars
               PROVE  DemandWithinLimit'
    OBVIOUS
  <2>1. ASSUME NEW r \in Readings \ {NaN}, PowerReading(r)
        PROVE  DemandWithinLimit'
    <3>1. Consumption(r) \in Int16Range
      BY ConsumptionType, EnvironmentAssumption
    <3>2. Bounded(PowerDemandCalculation, power_demand', CurrentSettings)
      BY <2>1, <3>1, LimitOfSettings, CalculatedDemandBounds, ConfigAssumption
      DEF PowerReading, TypeOK
    <3>3. /\ limit' = CurrentSettings.max
          /\ settings["buffer"] \in PossibleValues("buffer")
          /\ CurrentSettings = [min |-> MinPowerDemand, max |-> limit',
                                buffer |-> settings["buffer"],
                                zero |-> ZeroOutputOnMinPowerDemand]
      BY <2>1 DEF PowerReading, CurrentSettings, TypeOK, NumberIds
    <3> QED
      BY <3>2, <3>3 DEF DemandWithinLimit, Bounded
  <2>2. CASE Restart
    BY <2>2 DEF Restart, DemandWithinLimit
  <2>3. CASE UNCHANGED <<power_demand, limit>>
    BY <2>3 DEF DemandWithinLimit
  <2> QED
    BY <2>1, <2>2, <2>3
    DEF Next, Operate, NaNReading, vars, demand_vars, Update, NumberControl,
        WriteState, OperationStatus, SyncPreferences, Tick
<1> QED
  BY <1>1, <1>2, TypeCorrect, PTL DEF Spec

-----------------------------------------------------------------------------
(***************************************************************************)
(* The inactivity timeout.  While the outage is shorter than the period of *)
(* the clock, the difference of the two time stamps is the age of the last *)
(* reading.  The inductive step of the time-out is about the age the       *)
(* reading had at the last update, silence - since_update: if that was     *)
(* above the timeout, that update has already sent 0 W.                    *)
(***************************************************************************)
ClockInv ==
  silence < ClockMod =>
    (millis - last_power_demand_received) % ClockMod = silence

TimedOutAtLastUpdate ==
  /\ UInt16(PowerSensorInactivityTimeout) # 0
  /\ silence > TimeoutTicks + since_update

SilenceInv ==
  /\ ClockInv
  /\ silence < ClockMod /\ TimedOutAtLastUpdate => ShutDown

LEMMA TimeoutTicksNat == TimeoutTicks \in Nat
<1>1. UInt16(PowerSensorInactivityTimeout) \in Nat
  BY UInt16Cast, ConfigAssumption DEF UInt16Range
<1> QED
  BY <1>1, EnvironmentAssumption DEF TimeoutTicks

LEMMA ModOfDifference ==
  ASSUME NEW M \in Nat \ {0}, NEW a \in 0 .. M - 1, NEW b \in 0 .. M - 1
  PROVE  (a - b) % M = IF b <= a THEN a - b ELSE a - b + M
<1> DEFINE x == a - b
<1>1. x \in Int /\ -M < x /\ x < M /\ (b <= a <=> 0 <= x)
  OBVIOUS
<1> HIDE DEF x
<1>2. x % M = IF 0 <= x THEN x ELSE x + M
  BY <1>1
<1> QED
  BY <1>1, <1>2 DEF x

LEMMA ClockStep ==
  ASSUME NEW m \in 0 .. ClockMod - 1, NEW l \in 0 .. ClockMod - 1,
         ((m - l) % ClockMod) + 1 < ClockMod
  PROVE  (((m + 1) % ClockMod) - l) % ClockMod = ((m - l) % ClockMod) + 1
<1>1. ClockMod \in Nat \ {0}
  BY EnvironmentAssumption
<1>2. (m - l) % ClockMod = IF l <= m THEN m - l ELSE m - l + ClockMod
  BY <1>1, ModOfDifference
<1> DEFINE n == (m + 1) % ClockMod
<1>3. n = IF m + 1 < ClockMod THEN m + 1 ELSE 0
  BY <1>1
<1>4. n \in 0 .. ClockMod - 1
  BY <1>1, <1>3
<1> HIDE DEF n
<1>5. (n - l) % ClockMod = IF l <= n THEN n - l ELSE n - l + ClockMod
  BY <1>1, <1>4, ModOfDifference
<1>6. (n - l) % ClockMod = ((m - l) % ClockMod) + 1
  BY <1>1, <1>2, <1>3, <1>5
<1> QED
  BY <1>6 DEF n

THEOREM SilenceShutsDown == Spec => []SilentSensorShutsDownBeforeWrap
<1>1. Init => SilenceInv
  <2> SUFFICES ASSUME Init PROVE SilenceInv
    OBVIOUS
  <2>1. (millis - last_power_demand_received) % ClockMod = 0
    BY EnvironmentAssumption DEF Init
  <2>2. ~(silence > TimeoutTicks + since_update)
    BY TimeoutTicksNat, EnvironmentAssumption DEF Init
  <2> QED
    BY <2>1, <2>2 DEF Init, SilenceInv, ClockInv, TimedOutAtLastUpdate
<1>2. TypeOK /\ SilenceInv /\ [Next]_vars => SilenceInv'
  <2> SUFFICES ASSUME TypeOK, SilenceInv, [Next]_vars PROVE SilenceInv'
    OBVIOUS
  <2> USE DEF SilenceInv
  <2>1. ASSUME NEW r \in Readings \ {NaN}, PowerReading(r)
        PROVE  SilenceInv'
    <3>1. (millis' - last_power_demand_received') % ClockMod = 0
      BY <2>1, EnvironmentAssumption DEF PowerReading, clock_vars, TypeOK
    <3>2. ~(silence' > TimeoutTicks + since_update')
      BY <2>1, TimeoutTicksNat, EnvironmentAssumption
      DEF PowerReading, clock_vars, TypeOK
    <3> QED
      BY <2>1, <3>1, <3>2 DEF PowerReading, ClockInv, TimedOutAtLastUpdate
  <2>2. CASE Update
    <3>1. ClockInv'
      BY <2>2 DEF Update, ClockInv, demand_vars
    <3>2. ASSUME silence' < ClockMod, TimedOutAtLastUpdate'
          PROVE  ShutDown'
      <4>0. /\ silence < ClockMod /\ silence > TimeoutTicks + 0
            /\ UInt16(PowerSensorInactivityTimeout) # 0
        BY <2>2, <3>2, Zenon DEF Update, demand_vars, TimedOutAtLastUpdate
      <4>1. silence < ClockMod /\ silence > TimeoutTicks
        BY <4>0, TimeoutTicksNat DEF TypeOK
      <4>2. InactivityTimeout
        BY <4>0, <4>1 DEF InactivityTimeout, ClockInv
      <4>3. OperationMode # "Auto"
        BY <4>2 DEF OperationMode
      <4>4. OperationMode = "Manual" \/ SelectedDemand = 0
        BY <4>3 DEF SelectedDemand
      <4> QED
        BY <2>2, <4>4, FrameOfUpdate DEF Update, ShutDown
    <3> QED
      BY <3>1, <3>2
  <2>3. CASE Restart
    <3>1. (millis' - last_power_demand_received') % ClockMod = 0
      BY <2>3, EnvironmentAssumption DEF Restart
    <3>2. \A ticks \in 0 .. UpdateInterval : ~(0 > TimeoutTicks + ticks)
      BY TimeoutTicksNat, EnvironmentAssumption
    <3>3. ~(silence' > TimeoutTicks + since_update')
      BY <2>3, <3>2, Zenon DEF Restart
    <3>4. silence' = 0
      BY <2>3 DEF Restart
    <3> QED
      BY <3>1, <3>3, <3>4 DEF ClockInv, TimedOutAtLastUpdate
  <2>4. CASE Tick
    <3>1. ClockInv'
      <4> SUFFICES ASSUME silence' < ClockMod
                   PROVE  (millis' - last_power_demand_received') % ClockMod
                            = silence'
        BY DEF ClockInv
      <4>1. silence < ClockMod /\ silence' = silence + 1
        BY <2>4, EnvironmentAssumption DEF Tick, TypeOK
      <4>2. (millis - last_power_demand_received) % ClockMod = silence
        BY <4>1 DEF ClockInv
      <4> QED
        BY <2>4, <4>1, <4>2, ClockStep DEF Tick, TypeOK
    <3>2. ASSUME silence' < ClockMod, TimedOutAtLastUpdate'
          PROVE  ShutDown'
      <4>1. silence < ClockMod /\ TimedOutAtLastUpdate
        BY <2>4, <3>2, TimeoutTicksNat, EnvironmentAssumption
        DEF Tick, TimedOutAtLastUpdate, TypeOK
      <4> QED
        BY <2>4, <4>1 DEF Tick, ShutDown, output_vars
    <3> QED
      BY <3>1, <3>2
  <2>5. CASE UNCHANGED <<demand_vars, output_vars, clock_vars>>
    BY <2>5
    DEF demand_vars, output_vars, clock_vars, ClockInv, TimedOutAtLastUpdate,
        ShutDown
  <2> QED
    BY <2>1, <2>2, <2>3, <2>4, <2>5
    DEF Next, Operate, NaNReading, vars, NumberControl, WriteState,
        OperationStatus, SyncPreferences
<1>3. TypeOK /\ SilenceInv => SilentSensorShutsDownBeforeWrap
  BY TimeoutTicksNat, EnvironmentAssumption
  DEF TypeOK, SilenceInv, TimedOutAtLastUpdate, SilentSensorShutsDownBeforeWrap,
      SilentSensorShutsDown, SilentFor
<1> QED
  BY <1>1, <1>2, <1>3, TypeCorrect, PTL DEF Spec

-----------------------------------------------------------------------------
(***************************************************************************)
(* What the next reading is added to is what the inverters were told.      *)
(***************************************************************************)
THEOREM FeedbackCorrect == Spec => []FeedbackMatchesFrame
<1>1. Init => FeedbackMatchesFrame
  BY DEF Init, FeedbackMatchesFrame
<1>2. TypeOK /\ FeedbackMatchesFrame /\ [Next]_vars => FeedbackMatchesFrame'
  <2> SUFFICES ASSUME TypeOK, FeedbackMatchesFrame, [Next]_vars
               PROVE  FeedbackMatchesFrame'
    OBVIOUS
  <2>1. CASE Update
    <3> DEFINE n == settings["power_demand_divider"]
    <3>1. n \in PossibleValues("power_demand_divider")
      BY DEF TypeOK, NumberIds
    <3>2. frame' * n \in last_power_demand' .. last_power_demand' + n - 1
      BY <2>1, FrameOfUpdate DEF Update
    <3> HIDE DEF n
    <3>3. PossibleValues("power_demand_divider")'
            = PossibleValues("power_demand_divider")
      BY DEF PossibleValues, Configured
    <3> QED
      BY <3>1, <3>2, <3>3 DEF FeedbackMatchesFrame
  <2>2. CASE Restart
    BY <2>2 DEF Restart, FeedbackMatchesFrame
  <2>3. CASE UNCHANGED output_vars
    BY <2>3 DEF output_vars, FeedbackMatchesFrame
  <2> QED
    BY <2>1, <2>2, <2>3
    DEF Next, Operate, NaNReading, vars, PowerReading, NumberControl,
        WriteState, OperationStatus, SyncPreferences, Tick
<1> QED
  BY <1>1, <1>2, TypeCorrect, PTL DEF Spec

-----------------------------------------------------------------------------
(***************************************************************************)
(* The emergency power off, once in flash, is obeyed across restarts.      *)
(***************************************************************************)
LatchInv ==
  latched =>
    /\ "emergency_power_off" \in Entities
    /\ Persistent("emergency_power_off")
    /\ switches["emergency_power_off"] = TRUE
    /\ switch_pref["emergency_power_off"] = TRUE

LEMMA LatchInductive ==
  /\ Init => LatchInv
  /\ TypeOK /\ LatchInv /\ [Next]_vars => LatchInv'
<1>1. Init => LatchInv
  BY DEF Init, LatchInv
<1>2. ASSUME TypeOK, LatchInv, [Next]_vars PROVE LatchInv'
  <2>1. ASSUME NEW w \in SwitchIds, NEW state \in BOOLEAN, WriteState(w, state)
        PROVE  LatchInv'
    BY <1>2, <2>1 DEF WriteState, LatchInv, TypeOK, pref_vars
  <2>2. CASE SyncPreferences
    BY <1>2, <2>2, EnvironmentAssumption
    DEF SyncPreferences, LatchInv, TypeOK, SwitchIds
  <2>3. CASE Restart
    BY <1>2, <2>3
    DEF Restart, LatchInv, pref_vars, SwitchSetup, SwitchIds, Persistent
  <2>4. CASE UNCHANGED <<switches, switch_pref, latched>>
    BY <1>2, <2>4 DEF LatchInv
  <2> QED
    BY <1>2, <2>1, <2>2, <2>3, <2>4
    DEF Next, Operate, NaNReading, vars, PowerReading, NumberControl, Update,
        OperationStatus, Tick, pref_vars
<1> QED
  BY <1>1, <1>2

THEOREM EmergencyHolds == Spec => EmergencySurvivesRestart
<1>1. ASSUME TypeOK, LatchInv, [Next]_vars
      PROVE  [latched /\ frame' # frame => frame' = 0]_vars
  <2>1. CASE Update
    <3>1. latched => SelectedDemand = 0
      BY <1>1 DEF LatchInv, SelectedDemand, OperationMode
    <3> QED
      BY <1>1, <2>1, <3>1, FrameOfUpdate DEF Update
  <2>2. CASE UNCHANGED frame
    BY <2>2
  <2> QED
    BY <1>1, <2>1, <2>2
    DEF Next, Operate, NaNReading, vars, PowerReading, NumberControl,
        WriteState, OperationStatus, SyncPreferences, Restart, Tick, output_vars
<1> QED
  BY <1>1, LatchInductive, TypeCorrect, PTL DEF Spec, EmergencySurvivesRestart
=============================================================================
