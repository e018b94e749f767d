-------------------------- MODULE ClosedLoopProofs --------------------------
(***************************************************************************)
(* Theorems about ClosedLoop, for every house, every number of inverters,  *)
(* every buffer and every minimum and maximum the schema accepts.          *)
(***************************************************************************)
EXTENDS ClosedLoop, VirtualMeterProofs

(***************************************************************************)
(* The demand the calculation returns when nothing overflows.              *)
(***************************************************************************)
Clamped(x) ==
  IF x >= MaxPowerDemand THEN MaxPowerDemand
  ELSE IF x < MinPowerDemand
       THEN (IF ZeroOutputOnMinPowerDemand THEN 0 ELSE MinPowerDemand)
  ELSE x

Slack == PowerDemandDivider - 1

(***************************************************************************)
(* The inductive invariant.  The inverters deliver up to Slack watts more  *)
(* than they were asked for, so a reading tells the load only up to that   *)
(* excess: while the reading is fresh, the pending demand is the target    *)
(* less some excess, within the limits.  It does not matter which output   *)
(* was measured, only that it has not changed since.                       *)
(***************************************************************************)
SettingsFixed == settings = Configured

DemandBounded ==
  /\ 0 <= power_demand /\ power_demand <= MaxPowerDemand
  /\ 0 <= last_power_demand /\ last_power_demand <= MaxPowerDemand

OutputBounded == 0 <= Output /\ Output <= MaxPowerDemand + Slack

\* The split is exact: the output exceeds the demand by Slack at the most.
OutputFollows ==
  operation_mode # "none" =>
    last_power_demand <= Output /\ Output <= last_power_demand + Slack

FreshDemand ==
  fresh => \E excess \in 0 .. Slack : power_demand = Clamped(Target - excess)

LoopInv ==
  /\ LoopTypeOK
  /\ SettingsFixed
  /\ DemandBounded
  /\ OutputBounded
  /\ OutputFollows
  /\ FreshDemand
  /\ SettledOnTarget

-----------------------------------------------------------------------------
(***************************************************************************)
(* Arithmetic.                                                             *)
(***************************************************************************)
LEMMA LoopConstants ==
  /\ MinPowerDemand \in Int /\ 0 <= MinPowerDemand
  /\ MaxPowerDemand \in Int /\ MinPowerDemand <= MaxPowerDemand
  /\ 1 <= MaxPowerDemand /\ MaxPowerDemand <= 5400
  /\ Buffer \in Int /\ -200 <= Buffer /\ Buffer <= 200
  /\ PowerDemandDivider \in Nat \ {0}
  /\ Slack \in Int /\ 0 <= Slack /\ Slack <= 5
  /\ Slack = PowerDemandDivider - 1
  /\ Loads \subseteq Nat /\ \A watts \in Loads : watts <= 27000
  BY ConfigAssumption, LoopAssumption DEF Slack

LEMMA ClampedBounds ==
  ASSUME NEW x \in Int
  PROVE  Clamped(x) \in Int /\ 0 <= Clamped(x) /\ Clamped(x) <= MaxPowerDemand
  BY LoopConstants DEF Clamped

\* A reading of whole watts is not rounded.
LEMMA WholeWatts ==
  ASSUME NEW watts \in Int16Range
  PROVE  Consumption(10 * watts) = watts
<1>1. watts \in Int
  BY DEF Int16Range
<1>2. -((-(10 * watts)) \div 10) = watts
  BY <1>1
<1> QED
  BY <1>1, <1>2, Int16Cast DEF Consumption

LEMMA SplitSlack ==
  ASSUME NEW d \in Nat
  PROVE  LET share == PerDevice(d, PowerDemandDivider)
         IN  /\ share \in Nat
             /\ d <= PowerDemandDivider * share
             /\ PowerDemandDivider * share <= d + Slack
<1> DEFINE n == PowerDemandDivider
           share == PerDevice(d, n)
<1>1. n \in Nat \ {0} /\ Slack = n - 1
  BY LoopConstants
<1>2. share \in Nat /\ d <= share * n /\ share * n < d + n
  BY <1>1, PerDeviceCovers
<1> HIDE DEF n, share
<1>3. share * n = n * share /\ share * n \in Nat
  BY <1>1, <1>2
<1>4. d <= n * share /\ n * share <= d + Slack
  BY <1>1, <1>2, <1>3
<1> QED
  BY <1>2, <1>4 DEF n, share

(***************************************************************************)
(* The settings stay those of the configuration.                           *)
(***************************************************************************)
LEMMA SetupIsConfigured ==
  ASSUME NEW pref
  PROVE  NumberSetup(pref) = Configured
<1>1. \A n \in NumberIds : n \notin Entities
  BY LoopAssumption
<1>2. NumberSetup(pref) = [n \in NumberIds |-> Configured[n]]
  BY <1>1 DEF NumberSetup
<1>3. Configured \in [NumberIds -> Int]
  BY LoopConstants DEF Configured, NumberIds
<1>4. Configured = [n \in NumberIds |-> Configured[n]]
  BY <1>3
<1> QED
  BY <1>2, <1>4

LEMMA FixedSettings ==
  ASSUME SettingsFixed
  PROVE  /\ settings["max_power_demand"] = MaxPowerDemand
         /\ settings["buffer"] = Buffer
         /\ settings["power_demand_divider"] = PowerDemandDivider
         /\ settings["manual_power_demand"] = 0
         /\ CurrentSettings = [min |-> MinPowerDemand, max |-> MaxPowerDemand,
                               buffer |-> Buffer,
                               zero |-> ZeroOutputOnMinPowerDemand]
<1>1. /\ settings["max_power_demand"] = MaxPowerDemand
      /\ settings["buffer"] = Buffer
      /\ settings["power_demand_divider"] = PowerDemandDivider
      /\ settings["manual_power_demand"] = 0
  BY DEF SettingsFixed, Configured, NumberIds
<1> QED
  BY <1>1 DEF CurrentSettings

(***************************************************************************)
(* Whatever a reading says, the pending demand is within the limits, and   *)
(* unless it overflows it is what is imported now, less the buffer, on top *)
(* of the demand in force.                                                 *)
(***************************************************************************)
LEMMA PendingDemand ==
  ASSUME SettingsFixed, NEW c \in Int16Range, NEW last \in UInt16Range
  PROVE  LET pending == CalculatePowerDemand(PowerDemandCalculation, c, last,
                                             CurrentSettings)
         IN  /\ pending \in Int /\ 0 <= pending /\ pending <= MaxPowerDemand
             /\ c - Buffer \in Int16Range /\ c - Buffer + last \in Int16Range =>
                  pending = Clamped(c - Buffer + last)
<1> DEFINE pending == CalculatePowerDemand(PowerDemandCalculation, c, last,
                                           CurrentSettings)
           now == Int16(c - Buffer)
           sum == Int16(now + last)
<1>1. c \in Int /\ last \in Int
  BY DEF Int16Range, UInt16Range
<1>2. now \in Int /\ (c - Buffer \in Int16Range => now = c - Buffer)
  BY <1>1, LoopConstants, Int16Cast DEF Int16Range
<1>3. sum \in Int /\ (now + last \in Int16Range => sum = now + last)
  BY <1>1, <1>2, Int16Cast DEF Int16Range
<1>4. pending = NegativeMeasurements(c, last, CurrentSettings)
  BY LoopAssumption DEF CalculatePowerDemand
<1> HIDE DEF pending
<1>5. pending = Clamped(sum)
  BY <1>4, FixedSettings DEF NegativeMeasurements, Clamped, now, sum
<1> HIDE DEF now, sum
<1>6. pending \in Int /\ 0 <= pending /\ pending <= MaxPowerDemand
  BY <1>3, <1>5, ClampedBounds
<1>7. c - Buffer \in Int16Range /\ c - Buffer + last \in Int16Range =>
        pending = Clamped(c - Buffer + last)
  BY <1>2, <1>3, <1>5
<1> QED
  BY <1>6, <1>7 DEF pending

(***************************************************************************)
(* Inverters that deliver the clamped target, up to the watts that the     *)
(* reading did not know of and those the split adds, are on target.        *)
(***************************************************************************)
LEMMA TargetMet ==
  ASSUME NEW l \in Nat, NEW out \in Int, NEW excess \in 0 .. Slack,
         Clamped(l - Buffer - excess) <= out,
         out <= Clamped(l - Buffer - excess) + Slack,
         Clamped(l - Buffer - excess) = 0 => out = 0
  PROVE  \/ l - out \in Buffer - Slack .. Buffer + Slack
         \/ l - Buffer >= MaxPowerDemand /\ out >= MaxPowerDemand
         \/ /\ l - Buffer < MinPowerDemand + Slack
            /\ out <= IF ZeroOutputOnMinPowerDemand THEN 0
                      ELSE MinPowerDemand + Slack
<1>1. excess \in Int /\ 0 <= excess /\ excess <= Slack
  BY LoopConstants
<1> DEFINE x == l - Buffer - excess
<1>2. x \in Int
  BY <1>1, LoopConstants
<1>3. CASE x >= MaxPowerDemand
  <2>1. Clamped(x) = MaxPowerDemand
    BY <1>3 DEF Clamped
  <2> QED
    BY <1>1, <1>3, <2>1, LoopConstants
<1>4. CASE ~(x >= MaxPowerDemand) /\ x < MinPowerDemand
  <2>1. l - Buffer < MinPowerDemand + Slack
    BY <1>1, <1>4, LoopConstants
  <2>2. CASE ZeroOutputOnMinPowerDemand
    <3>1. Clamped(x) = 0
      BY <1>4, <2>2, Zenon DEF Clamped
    <3>2. out = 0
      BY <3>1
    <3> QED
      BY <2>1, <2>2, <3>2
  <2>3. CASE ~ZeroOutputOnMinPowerDemand
    <3>1. Clamped(x) = MinPowerDemand
      BY <1>4, <2>3, Zenon DEF Clamped
    <3>2. out <= MinPowerDemand + Slack
      BY <3>1
    <3> QED
      BY <2>1, <2>3, <3>2
  <2> QED
    BY <2>2, <2>3
<1>5. CASE ~(x >= MaxPowerDemand) /\ ~(x < MinPowerDemand)
  <2>1. Clamped(x) = x
    BY <1>5 DEF Clamped
  <2> QED
    BY <1>1, <2>1, LoopConstants
<1> QED
  BY <1>3, <1>4, <1>5

-----------------------------------------------------------------------------
(***************************************************************************)
(* Which variables a step changes.                                         *)
(***************************************************************************)
LEMMA OutputType ==
  ASSUME TypeOK
  PROVE  Output \in Int
<1>1. frame \in Int \/ frame = Unset
  BY DEF TypeOK, UInt16Range
<1> QED
  BY <1>1, LoopConstants DEF Output

LEMMA LoopTypeInit == LoopInit => LoopTypeOK
<1> SUFFICES ASSUME LoopInit PROVE LoopTypeOK
  OBVIOUS
<1>1. TypeOK
  BY TypeInit DEF LoopInit
<1>2. load \in Loads /\ measured = Unset
  BY DEF LoopInit
<1>3. fresh \in BOOLEAN /\ settled \in BOOLEAN
  BY DEF LoopInit
<1> QED
  BY <1>1, <1>2, <1>3, Zenon DEF LoopTypeOK

LEMMA LoopTypeNext == LoopTypeOK /\ [LoopNext]_loop_vars => LoopTypeOK'
<1> SUFFICES ASSUME LoopTypeOK, [LoopNext]_loop_vars PROVE LoopTypeOK'
  OBVIOUS
<1>0. TypeOK /\ load \in Loads /\ fresh \in BOOLEAN /\ settled \in BOOLEAN
      /\ (measured # Unset => measured \in Int)
  BY DEF LoopTypeOK
<1>1. CASE LoadChange
  <2>1. TypeOK'
    BY <1>0, <1>1, TypeNext DEF LoadChange
  <2> QED
    BY <1>0, <1>1, <2>1 DEF LoadChange, LoopTypeOK
<1>2. CASE Measure
  <2>1. TypeOK'
    BY <1>0, <1>2, TypeNext DEF Measure
  <2>2. 10 * Grid \in Int
    BY <1>0, OutputType, LoopConstants DEF Grid
  <2> QED
    BY <1>0, <1>2, <2>1, <2>2 DEF Measure, LoopTypeOK
<1>3. CASE MeterReading
  <2>1. TypeOK'
    BY <1>0, <1>3, PowerReadingType DEF MeterReading
  <2>2. fresh' \in BOOLEAN
    BY <1>3 DEF MeterReading
  <2> QED
    BY <1>0, <1>3, <2>1, <2>2 DEF MeterReading, LoopTypeOK
<1>4. CASE LoopUpdate
  <2>1. TypeOK'
    BY <1>0, <1>4, TypeNext DEF LoopUpdate, Next, Operate
  <2>2. fresh' \in BOOLEAN /\ settled' \in BOOLEAN
    BY <1>4 DEF LoopUpdate
  <2> QED
    BY <1>0, <1>4, <2>1, <2>2 DEF LoopUpdate, LoopTypeOK
<1>5. CASE LoopSwitch
  <2>1. TypeOK'
    BY <1>0, <1>5, TypeNext DEF LoopSwitch, Next, Operate
  <2> QED
    BY <1>0, <1>5, <2>1 DEF LoopSwitch, LoopTypeOK
<1>6. CASE LoopRestart
  <2>1. TypeOK'
    BY <1>0, <1>6, TypeNext DEF LoopRestart, Next
  <2> QED
    BY <1>0, <1>6, <2>1 DEF LoopRestart, LoopTypeOK
<1>7. CASE LoopTick
  <2>1. TypeOK'
    BY <1>0, <1>7, TypeNext DEF LoopTick, Next
  <2> QED
    BY <1>0, <1>7, <2>1 DEF LoopTick, LoopTypeOK
<1>8. CASE UNCHANGED loop_vars
  <2>1. TypeOK'
    BY <1>0, <1>8, TypeNext DEF loop_vars
  <2> QED
    BY <1>0, <1>8, <2>1 DEF loop_vars, LoopTypeOK
<1> QED
  BY <1>1, <1>2, <1>3, <1>4, <1>5, <1>6, <1>7, <1>8 DEF LoopNext

(***************************************************************************)
(* All values keep their types in the house too, where the readings are    *)
(* what the meter measures and not members of a small set.                 *)
(***************************************************************************)
THEOREM LoopTypeCorrect == LoopSpec => []LoopTypeOK
  BY LoopTypeInit, LoopTypeNext, PTL DEF LoopSpec

(***************************************************************************)
(* A switch, a tick or a stutter changes nothing the invariant is about.   *)
(***************************************************************************)
LEMMA NothingElseMatters ==
  ASSUME LoopInv, LoopTypeOK',
         UNCHANGED <<settings, power_demand, last_power_demand, operation_mode,
                     frame, load, fresh, settled>>
  PROVE  LoopInv'
<1>1. Output' = Output
  BY DEF Output
<1>2. SettingsFixed' /\ DemandBounded' /\ OutputBounded' /\ OutputFollows'
  BY <1>1 DEF LoopInv, SettingsFixed, DemandBounded, OutputBounded, OutputFollows
<1>3. FreshDemand'
  BY DEF LoopInv, FreshDemand, Target
<1>4. SettledOnTarget'
  BY <1>1 DEF LoopInv, SettledOnTarget, OnTarget, Grid, Target
<1> QED
  BY <1>2, <1>3, <1>4 DEF LoopInv

LEMMA ReadingStep ==
  ASSUME LoopInv, LoopTypeOK', MeterReading
  PROVE  LoopInv'
<1>0. /\ TypeOK /\ SettingsFixed /\ load \in Nat /\ load <= 27000
      /\ measured \in Int /\ last_power_demand \in UInt16Range
  BY LoopConstants DEF LoopInv, LoopTypeOK, TypeOK, MeterReading
<1>1. /\ power_demand' = CalculatePowerDemand(PowerDemandCalculation,
                           Consumption(measured), last_power_demand,
                           CurrentSettings)
      /\ UNCHANGED <<settings, last_power_demand, operation_mode, frame, load,
                     settled>>
      /\ fresh' = (operation_mode # "none" /\ measured = 10 * Grid)
  BY DEF MeterReading, PowerReading, output_vars
<1>2. Consumption(measured) \in Int16Range
  BY <1>0, ConsumptionType
<1>3. Output' = Output
  BY <1>1 DEF Output
<1>4. SettingsFixed' /\ OutputBounded' /\ OutputFollows'
  BY <1>1, <1>3
  DEF LoopInv, SettingsFixed, OutputBounded, OutputFollows
<1>5. DemandBounded'
  BY <1>0, <1>1, <1>2, PendingDemand DEF LoopInv, DemandBounded
<1>6. FreshDemand'
  <2> SUFFICES ASSUME operation_mode # "none", measured = 10 * Grid
               PROVE  \E excess \in 0 .. Slack :
                        power_demand' = Clamped(Target - excess)
    BY <1>1 DEF FreshDemand, Target
  <2>1. /\ Output \in Int /\ 0 <= Output /\ Output <= MaxPowerDemand + Slack
        /\ last_power_demand <= Output /\ Output <= last_power_demand + Slack
        /\ 0 <= last_power_demand
    BY <1>0, OutputType
    DEF LoopInv, OutputBounded, OutputFollows, DemandBounded
  <2>2. last_power_demand \in Int
    BY <1>0 DEF UInt16Range
  <2>3. Grid \in Int16Range
    BY <1>0, <2>1, LoopConstants DEF Grid, Int16Range
  <2>4. Consumption(measured) = Grid
    BY <2>3, WholeWatts
  <2>5. Grid - Buffer \in Int16Range /\ Grid - Buffer + last_power_demand \in Int16Range
    BY <1>0, <2>1, <2>2, LoopConstants DEF Grid, Int16Range
  <2>6. power_demand' = Clamped(Grid - Buffer + last_power_demand)
    BY <1>0, <1>1, <2>3, <2>4, <2>5, PendingDemand
  <2>7. Output - last_power_demand \in 0 .. Slack
    BY <2>1, <2>2, LoopConstants
  <2>8. Grid - Buffer + last_power_demand = Target - (Output - last_power_demand)
    BY <1>0, <2>1, <2>2, LoopConstants DEF Grid, Target
  <2> QED
    BY <2>6, <2>7, <2>8
<1>7. SettledOnTarget'
  BY <1>1, <1>3 DEF LoopInv, SettledOnTarget, OnTarget, Grid, Target
<1> QED
  BY <1>4, <1>5, <1>6, <1>7 DEF LoopInv

(***************************************************************************)
(* An update splits the demand it selects: what the inverters deliver      *)
(* covers that demand and exceeds it by Slack at the most.                 *)
(***************************************************************************)
LEMMA UpdateOutput ==
  ASSUME LoopInv, Update
  PROVE  /\ last_power_demand' \in Int /\ Output' \in Int
         /\ 0 <= last_power_demand' /\ last_power_demand' <= MaxPowerDemand
         /\ last_power_demand' <= Output'
         /\ Output' <= last_power_demand' + Slack
         /\ last_power_demand' = 0 => Output' = 0
         /\ operation_mode' = "Auto" => last_power_demand' = power_demand
<1>0. TypeOK /\ SettingsFixed
  BY DEF LoopInv, LoopTypeOK
<1>1. power_demand \in Int /\ 0 <= power_demand /\ power_demand <= MaxPowerDemand
  BY <1>0 DEF LoopInv, DemandBounded, TypeOK, Int16Range
<1>2. UInt16(power_demand) = power_demand
  BY <1>1, LoopConstants, UInt16Cast DEF UInt16Range
<1>3. UInt16(settings["manual_power_demand"]) = 0
  BY <1>0, FixedSettings, UInt16Cast DEF UInt16Range
<1> DEFINE d == SelectedDemand
           share == PerDevice(SelectedDemand, PowerDemandDivider)
<1>4. /\ d \in Nat /\ d <= MaxPowerDemand
      /\ operation_mode' = "Auto" => d = power_demand
  BY <1>1, <1>2, <1>3, LoopConstants DEF SelectedDemand, Update
<1>5. frame' = share /\ last_power_demand' = d /\ share \in UInt16Range
      /\ (share = 0 <=> d = 0)
  BY <1>0, FixedSettings, FrameOfUpdate DEF Update
<1>6. /\ share \in Nat
      /\ d <= PowerDemandDivider * share
      /\ PowerDemandDivider * share <= d + Slack
  BY <1>4, SplitSlack
<1>7. frame' # Unset
  BY <1>5, <1>6, EnvironmentAssumption
<1>8. Output' = PowerDemandDivider * share
  BY <1>5, <1>7 DEF Output
<1> HIDE DEF d, share
<1>9. Output' \in Int /\ (share = 0 => Output' = 0)
  BY <1>6, <1>8, LoopConstants
<1> QED
  BY <1>4, <1>5, <1>6, <1>8, <1>9

LEMMA UpdateStep ==
  ASSUME LoopInv, LoopTypeOK', LoopUpdate
  PROVE  LoopInv'
<1>0. /\ Update /\ SettingsFixed /\ load \in Nat
      /\ UNCHANGED <<settings, power_demand, load>>
  BY LoopConstants
  DEF LoopInv, LoopTypeOK, LoopUpdate, Update, demand_vars
<1>1. /\ settled' = (/\ operation_mode' = "Auto"
                     /\ fresh \/ (settled /\ frame' = frame))
      /\ fresh' = (fresh /\ frame' = frame)
  BY DEF LoopUpdate
<1>2. SettingsFixed'
  BY <1>0 DEF SettingsFixed
<1>3. DemandBounded'
  BY <1>0, UpdateOutput DEF LoopInv, DemandBounded
<1>4. OutputBounded'
  BY <1>0, UpdateOutput, LoopConstants DEF OutputBounded
<1>5. OutputFollows'
  BY <1>0, UpdateOutput DEF OutputFollows
<1>6. FreshDemand'
  <2>1. fresh' => fresh
    BY <1>1
  <2>2. Target' = Target
    BY <1>0 DEF Target
  <2> QED
    BY <1>0, <2>1, <2>2 DEF LoopInv, FreshDemand
<1>7. SettledOnTarget'
  <2> SUFFICES ASSUME settled' PROVE OnTarget'
    BY DEF SettledOnTarget
  <2>1. operation_mode' = "Auto"
    BY <1>1
  <2>2. CASE fresh
    <3>1. PICK excess \in 0 .. Slack : power_demand = Clamped(Target - excess)
      BY <2>2 DEF LoopInv, FreshDemand
    <3>2. last_power_demand' = Clamped(load - Buffer - excess)
      BY <1>0, <2>1, <3>1, UpdateOutput DEF Target
    <3>3. /\ Output' \in Int
          /\ Clamped(load - Buffer - excess) <= Output'
          /\ Output' <= Clamped(load - Buffer - excess) + Slack
          /\ Clamped(load - Buffer - excess) = 0 => Output' = 0
      BY <1>0, <3>2, UpdateOutput
    <3>4. \/ load - Output' \in Buffer - Slack .. Buffer + Slack
          \/ load - Buffer >= MaxPowerDemand /\ Output' >= MaxPowerDemand
          \/ /\ load - Buffer < MinPowerDemand + Slack
             /\ Output' <= IF ZeroOutputOnMinPowerDemand THEN 0
                           ELSE MinPowerDemand + Slack
      BY <1>0, <3>3, TargetMet
    <3> QED
      BY <1>0, <3>4 DEF OnTarget, Grid, Target, Slack
  <2>3. CASE ~fresh
    <3>1. settled /\ frame' = frame
      BY <1>1, <2>3
    <3>2. Output' = Output
      BY <3>1 DEF Output
    <3> QED
      BY <1>0, <3>1, <3>2 DEF LoopInv, SettledOnTarget, OnTarget, Grid, Target
  <2> QED
    BY <2>2, <2>3
<1> QED
  BY <1>2, <1>3, <1>4, <1>5, <1>6, <1>7 DEF LoopInv

LEMMA LoadStep ==
  ASSUME LoopInv, LoopTypeOK', LoadChange
  PROVE  LoopInv'
<1>1. /\ UNCHANGED <<settings, power_demand, last_power_demand, operation_mode,
                     frame>>
      /\ ~fresh' /\ ~settled'
  BY DEF LoadChange, vars, demand_vars, output_vars
<1>2. Output' = Output
  BY <1>1 DEF Output
<1>3. SettingsFixed' /\ DemandBounded' /\ OutputBounded' /\ OutputFollows'
  BY <1>1, <1>2 DEF LoopInv, SettingsFixed, DemandBounded, OutputBounded, OutputFollows
<1>4. FreshDemand' /\ SettledOnTarget'
  BY <1>1 DEF FreshDemand, SettledOnTarget
<1> QED
  BY <1>3, <1>4 DEF LoopInv

(***************************************************************************)
(* After a restart the demand in force is no longer known: the inverters   *)
(* still deliver what they were told before.                               *)
(***************************************************************************)
LEMMA RestartStep ==
  ASSUME LoopInv, LoopTypeOK', LoopRestart
  PROVE  LoopInv'
<1>1. /\ power_demand' = 0 /\ last_power_demand' = 0 /\ operation_mode' = "none"
      /\ settings' = NumberSetup(number_pref) /\ frame' = frame
      /\ ~fresh' /\ ~settled'
  BY DEF LoopRestart, Restart
<1>2. SettingsFixed'
  <2>1. Configured' = Configured
    BY DEF Configured
  <2> QED
    BY <1>1, <2>1, SetupIsConfigured DEF SettingsFixed
<1>3. DemandBounded'
  BY <1>1, LoopConstants DEF DemandBounded
<1>4. OutputBounded'
  <2>1. Output' = Output
    BY <1>1 DEF Output
  <2> QED
    BY <2>1 DEF LoopInv, OutputBounded
<1>5. OutputFollows' /\ FreshDemand' /\ SettledOnTarget'
  BY <1>1 DEF OutputFollows, FreshDemand, SettledOnTarget
<1> QED
  BY <1>2, <1>3, <1>4, <1>5 DEF LoopInv

LEMMA LoopInvInit == LoopInit => LoopInv
<1> SUFFICES ASSUME LoopInit PROVE LoopInv
  OBVIOUS
<1>1. /\ power_demand = 0 /\ last_power_demand = 0 /\ operation_mode = "none"
      /\ frame = Unset /\ settings = NumberSetup(number_pref)
      /\ ~fresh /\ ~settled
  BY DEF LoopInit, Init
<1>2. SettingsFixed
  BY <1>1, SetupIsConfigured DEF SettingsFixed
<1>3. DemandBounded /\ OutputBounded
  BY <1>1, LoopConstants DEF DemandBounded, OutputBounded, Output
<1>4. OutputFollows /\ FreshDemand /\ SettledOnTarget
  BY <1>1 DEF OutputFollows, FreshDemand, SettledOnTarget
<1> QED
  BY <1>2, <1>3, <1>4, LoopTypeInit DEF LoopInv

LEMMA LoopInvNext == LoopInv /\ [LoopNext]_loop_vars => LoopInv'
<1> SUFFICES ASSUME LoopInv, [LoopNext]_loop_vars PROVE LoopInv'
  OBVIOUS
<1>0. LoopTypeOK'
  BY LoopTypeNext DEF LoopInv
<1>1. CASE LoadChange
  BY <1>0, <1>1, LoadStep
<1>2. CASE Measure
  <2>1. UNCHANGED <<settings, power_demand, last_power_demand, operation_mode,
                    frame, load, fresh, settled>>
    BY <1>2 DEF Measure, vars, demand_vars, output_vars
  <2> QED
    BY <1>0, <2>1, NothingElseMatters
<1>3. CASE MeterReading
  BY <1>0, <1>3, ReadingStep
<1>4. CASE LoopUpdate
  BY <1>0, <1>4, UpdateStep
<1>5. CASE LoopSwitch
  <2>1. UNCHANGED <<settings, power_demand, last_power_demand, operation_mode,
                    frame, load, fresh, settled>>
    BY <1>5 DEF LoopSwitch, WriteState, demand_vars, output_vars
  <2> QED
    BY <1>0, <2>1, NothingElseMatters
<1>6. CASE LoopRestart
  BY <1>0, <1>6, RestartStep
<1>7. CASE LoopTick
  <2>1. UNCHANGED <<settings, power_demand, last_power_demand, operation_mode,
                    frame, load, fresh, settled>>
    BY <1>7 DEF LoopTick, Tick, output_vars
  <2> QED
    BY <1>0, <2>1, NothingElseMatters
<1>8. CASE UNCHANGED loop_vars
  <2>1. UNCHANGED <<settings, power_demand, last_power_demand, operation_mode,
                    frame, load, fresh, settled>>
    BY <1>8 DEF loop_vars, vars, demand_vars, output_vars
  <2> QED
    BY <1>0, <2>1, NothingElseMatters
<1> QED
  BY <1>1, <1>2, <1>3, <1>4, <1>5, <1>6, <1>7, <1>8 DEF LoopNext

-----------------------------------------------------------------------------
(***************************************************************************)
(* update() and the callback of the power sensor: an output computed from  *)
(* one true reading is right at once, whatever output the demand was       *)
(* computed against, whatever outdated readings, overrides and restarts    *)
(* came before; there is no transient to wait for.                         *)
(***************************************************************************)
THEOREM SettledLoopIsOnTarget == LoopSpec => []SettledOnTarget
<1>1. LoopInv => SettledOnTarget
  BY DEF LoopInv
<1> QED
  BY <1>1, LoopInvInit, LoopInvNext, PTL DEF LoopSpec

(***************************************************************************)
(* calculate_power_demand_ with the buffer of the README: a settled loop   *)
(* with a watt of buffer per further inverter does not export, the watts   *)
(* that the split of the demand adds notwithstanding.                      *)
(***************************************************************************)
THEOREM SettledLoopNeverExports == LoopSpec => []SettledNeverExports
<1>1. LoopInv => SettledNeverExports
  <2> SUFFICES ASSUME LoopInv, settled, Buffer >= Slack,
                      ZeroOutputOnMinPowerDemand
               PROVE  Grid >= 0
    BY DEF SettledNeverExports, Slack
  <2>1. load \in Nat /\ Output \in Int /\ Output <= MaxPowerDemand + Slack
    BY LoopConstants, OutputType DEF LoopInv, LoopTypeOK, OutputBounded
  <2>2. OnTarget
    BY DEF LoopInv, SettledOnTarget
  <2>3. CASE Grid \in Buffer - Slack .. Buffer + Slack
    BY <2>3, LoopConstants
  <2>4. CASE Target >= MaxPowerDemand
    BY <2>1, <2>4, LoopConstants DEF Grid, Target
  <2>5. CASE Output <= 0
    BY <2>1, <2>5, LoopConstants DEF Grid
  <2> QED
    BY <2>2, <2>3, <2>4, <2>5 DEF OnTarget, Slack
<1> QED
  BY <1>1, LoopInvInit, LoopInvNext, PTL DEF LoopSpec
=============================================================================
