---------------------------- MODULE VirtualMeter ----------------------------
(***************************************************************************)
(* The soyosource_virtual_meter component: it reads a power sensor,        *)
(* computes a power demand and commands it, every update interval, to the  *)
(* inverters on the RS485 bus.  The number and switch entities change its  *)
(* settings at run time; a restart forgets everything except what the      *)
(* preferences hold.  All handlers run to completion on the main loop of   *)
(* ESPHome, so each is one action.                                         *)
(***************************************************************************)
EXTENDS PowerDemand

CONSTANTS
  PowerDemandCalculation,        \* one of Calculations
  MinPowerDemand, MaxPowerDemand, Buffer, PowerDemandDivider,
  ZeroOutputOnMinPowerDemand,
  PowerSensorInactivityTimeout,  \* seconds, 0 switches the timeout off
  UpdateInterval,                \* clock ticks between two updates
  HasOperationStatus,            \* operation_status_id is configured
  Entities,                      \* the number and switch entities configured
  NumberValues,                  \* number -> the values its entity accepts
  InitialValue,                  \* number -> its initial_value
  RestoreValue,                  \* the numbers with restore_value: true
  RestoreMode,                   \* switch -> its restore_mode
  Readings,                      \* power sensor states, in tenths of a watt
  OperationStatusIds,            \* operation status states, -1 when offline
  NaN, Unset,                    \* a float NaN; an absent preference or frame
  Second,                        \* clock ticks in a second (1000 ms)
  ClockMod,                      \* where millis() wraps around (2^32 ms)
  LoopSlack,                     \* how late, in ticks, the loop may call update
  MaxRestarts                    \* bound on the restarts of a behaviour

NumberIds == {"max_power_demand", "buffer", "power_demand_divider",
              "manual_power_demand"}
SwitchIds == {"manual_mode", "emergency_power_off"}
RestoreModes == {"RESTORE_DEFAULT_OFF", "RESTORE_DEFAULT_ON",
                 "ALWAYS_OFF", "ALWAYS_ON"}
OperationModes == {"none", "Manual", "Auto", "Inactivity timeout", "Standby",
                   "Off"}

(***************************************************************************)
(* What the configuration schema accepts.                                  *)
(***************************************************************************)
ASSUME ConfigAssumption ==
  /\ PowerDemandCalculation \in Calculations
  /\ MinPowerDemand \in Int /\ 0 <= MinPowerDemand
  /\ MaxPowerDemand \in Int /\ 1 <= MaxPowerDemand /\ MaxPowerDemand <= 5400
  /\ MinPowerDemand <= MaxPowerDemand
  /\ Buffer \in Int /\ -200 <= Buffer /\ Buffer <= 200
  /\ PowerDemandDivider \in Int /\ 1 <= PowerDemandDivider
  /\ PowerDemandDivider <= 6
  /\ ZeroOutputOnMinPowerDemand \in BOOLEAN
  /\ PowerSensorInactivityTimeout \in Nat
  /\ HasOperationStatus \in BOOLEAN

(***************************************************************************)
(* The number entities accept values their setters' casts can represent.   *)
(***************************************************************************)
ASSUME EntityAssumption ==
  /\ Entities \subseteq NumberIds \cup SwitchIds
  /\ DOMAIN NumberValues = NumberIds
  /\ NumberValues["max_power_demand"] \subseteq Int16Range
  /\ NumberValues["buffer"] \subseteq Int16Range
  /\ NumberValues["power_demand_divider"] \subseteq UInt8Range \ {0}
  /\ NumberValues["manual_power_demand"] \subseteq UInt16Range
  /\ DOMAIN InitialValue = NumberIds
  /\ \A n \in NumberIds \cap Entities : InitialValue[n] \in NumberValues[n]
  /\ RestoreValue \subseteq NumberIds
  /\ RestoreMode \in [SwitchIds -> RestoreModes]

ASSUME EnvironmentAssumption ==
  /\ Readings \ {NaN} \subseteq Int
  /\ NaN \notin Int
  /\ Unset \notin Int /\ Unset \notin BOOLEAN
  /\ UpdateInterval \in Nat \ {0}
  /\ Second \in Nat \ {0}
  /\ ClockMod \in Nat \ {0}
  /\ LoopSlack \in Nat
  /\ MaxRestarts \in Nat

VARIABLES
  power_demand,                \* power_demand_
  last_power_demand,           \* last_power_demand_
  last_power_demand_received,  \* last_power_demand_received_
  settings,          \* the fields the number entities set, and the manual one
  switches,          \* state of the two switches
  operation_status,  \* operation_status_sensor_->state
  operation_mode,    \* operation_mode_text_sensor_
  frame,             \* watts in the last limiter frame on the bus
  number_pref, switch_pref,  \* the preferences in flash
  millis,            \* millis()
  since_update,      \* ticks since the last update, or since the poller's start
  restarts,
  silence,           \* history: age of the last reading, exact below ClockMod
  limit,             \* history: maximum in force at the last reading, else 0
  latched            \* history: the emergency power off is on and in flash

demand_vars == <<power_demand, last_power_demand_received, silence, limit>>
output_vars == <<last_power_demand, operation_mode, frame>>
pref_vars   == <<number_pref, switch_pref>>
clock_vars  == <<millis, since_update>>
vars == <<demand_vars, settings, switches, operation_status, output_vars,
          pref_vars, clock_vars, restarts, latched>>

-----------------------------------------------------------------------------
(***************************************************************************)
(* Setup: the generated main() configures the component, then the entities *)
(* restore their state and overwrite those values.                         *)
(***************************************************************************)
Configured ==
  [n \in NumberIds |->
     CASE n = "max_power_demand"     -> MaxPowerDemand
       [] n = "buffer"               -> Buffer
       [] n = "power_demand_divider" -> PowerDemandDivider
       [] n = "manual_power_demand"  -> 0]

PossibleValues(n) == IF n \in Entities THEN NumberValues[n] ELSE {Configured[n]}

(***************************************************************************)
(* The cast of each setter.  The manual number keeps its own state.        *)
(***************************************************************************)
Applied(n, value) ==
  CASE n = "max_power_demand"     -> Int16(value)
    [] n = "buffer"               -> Int16(value)
    [] n = "power_demand_divider" -> UInt8(value)
    [] n = "manual_power_demand"  -> value

NumberSetup(pref) ==
  [n \in NumberIds |->
     IF n \notin Entities THEN Configured[n]
     ELSE IF n \in RestoreValue /\ pref[n] # Unset THEN Applied(n, pref[n])
     ELSE Applied(n, InitialValue[n])]

\* Mutant: the stored state is not looked at.
SwitchSetupForgets(pref) ==
  [w \in SwitchIds |->
     w \in Entities /\ RestoreMode[w] \in {"RESTORE_DEFAULT_ON", "ALWAYS_ON"}]

SwitchSetup(pref) ==
  [w \in SwitchIds |->
     /\ w \in Entities
     /\ CASE RestoreMode[w] = "RESTORE_DEFAULT_OFF" -> pref[w] = TRUE
          [] RestoreMode[w] = "RESTORE_DEFAULT_ON"  -> pref[w] # FALSE
          [] RestoreMode[w] = "ALWAYS_OFF"          -> FALSE
          [] RestoreMode[w] = "ALWAYS_ON"           -> TRUE]

(***************************************************************************)
(* The state of a switch with a restoring mode is kept in flash.           *)
(***************************************************************************)
Persistent(w) == RestoreMode[w] \in {"RESTORE_DEFAULT_OFF", "RESTORE_DEFAULT_ON"}

(***************************************************************************)
(* power_demand_ has no initializer; the generated main() creates the      *)
(* component with new T(), which zeroes it.                                *)
(***************************************************************************)
Init ==
  /\ power_demand = 0 /\ last_power_demand = 0
  /\ last_power_demand_received = 0
  /\ operation_status = NaN
  /\ operation_mode = "none"
  /\ frame = Unset
  /\ number_pref = [n \in NumberIds |-> Unset]
  /\ switch_pref = [w \in SwitchIds |-> Unset]
  /\ settings = NumberSetup(number_pref)
  /\ switches = SwitchSetup(switch_pref)
  /\ millis = 0
  /\ since_update \in 0 .. UpdateInterval
  /\ restarts = 0
  /\ silence = 0 /\ limit = 0 /\ latched = FALSE

-----------------------------------------------------------------------------
(***************************************************************************)
(* The state callback of the power sensor.                                 *)
(***************************************************************************)
CurrentSettings == [min    |-> MinPowerDemand,
                    max    |-> settings["max_power_demand"],
                    buffer |-> settings["buffer"],
                    zero   |-> ZeroOutputOnMinPowerDemand]

\* Mutant: the time stamp is taken before the NaN is noticed.
NaNReadingRefreshes ==
  /\ NaN \in Readings
  /\ last_power_demand_received' = millis
  /\ UNCHANGED <<power_demand, silence, limit, settings, switches,
                 operation_status, output_vars, pref_vars, clock_vars, restarts,
                 latched>>

NaNReading == NaN \in Readings /\ UNCHANGED vars

\* Mutant: the reading is added to the pending demand, not the commanded one.
PowerReadingWindsUp(r) ==
  /\ power_demand' = CalculatePowerDemand(PowerDemandCalculation,
                       Consumption(r), UInt16(power_demand), CurrentSettings)
  /\ last_power_demand_received' = millis
  /\ silence' = 0
  /\ limit' = settings["max_power_demand"]
  /\ UNCHANGED <<settings, switches, operation_status, output_vars, pref_vars,
                 clock_vars, restarts, latched>>

PowerReading(r) ==
  /\ power_demand' = CalculatePowerDemand(PowerDemandCalculation,
                       Consumption(r), last_power_demand, CurrentSettings)
  /\ last_power_demand_received' = millis
  /\ silence' = 0
  /\ limit' = settings["max_power_demand"]
  /\ UNCHANGED <<settings, switches, operation_status, output_vars, pref_vars,
                 clock_vars, restarts, latched>>

-----------------------------------------------------------------------------
(***************************************************************************)
(* update(): the mode selects a demand, two overrides force it to 0.       *)
(***************************************************************************)
TimeoutTicks == UInt16(PowerSensorInactivityTimeout) * Second

\* Mutant: measured from the last update instead of the last reading.
InactivityTimeoutSinceUpdate ==
  /\ UInt16(PowerSensorInactivityTimeout) # 0
  /\ since_update > TimeoutTicks

InactivityTimeout ==
  /\ UInt16(PowerSensorInactivityTimeout) # 0
  /\ (millis - last_power_demand_received) % ClockMod > TimeoutTicks

\* Mutant: only a status the inverter sent suspends the limiter.
StandbyIgnoresOffline ==
  HasOperationStatus /\ operation_status \notin {0, -1}

Standby == HasOperationStatus /\ operation_status # 0

\* Mutants: the manual branch wins over the overrides; an override leaves the
\* initial "Unknown" in place.
OperationModeManualFirst ==
  IF switches["manual_mode"] THEN "Manual"
  ELSE IF switches["emergency_power_off"] THEN "Off"
  ELSE IF Standby THEN "Standby"
  ELSE IF InactivityTimeout THEN "Inactivity timeout"
  ELSE "Auto"

OperationModeUnassigned ==
  IF switches["emergency_power_off"] THEN "Unknown"
  ELSE IF Standby THEN "Standby"
  ELSE IF switches["manual_mode"] THEN "Manual"
  ELSE IF InactivityTimeout THEN "Inactivity timeout"
  ELSE "Auto"

OperationMode ==
  IF switches["emergency_power_off"] THEN "Off"
  ELSE IF Standby THEN "Standby"
  ELSE IF switches["manual_mode"] THEN "Manual"
  ELSE IF InactivityTimeout THEN "Inactivity timeout"
  ELSE "Auto"

SelectedDemand ==
  CASE OperationMode = "Manual" -> UInt16(settings["manual_power_demand"])
    [] OperationMode = "Auto"   -> UInt16(power_demand)
    [] OTHER                    -> 0

\* Mutants: the demand remembered is the pending one, whatever was sent, or
\* the share of one inverter.
UpdateRemembersPending ==
  /\ since_update >= UpdateInterval
  /\ frame' = UInt16(PerDevice(SelectedDemand, settings["power_demand_divider"]))
  /\ last_power_demand' = UInt16(power_demand)
  /\ operation_mode' = OperationMode
  /\ since_update' = 0
  /\ UNCHANGED <<demand_vars, settings, switches, operation_status, pref_vars,
                 millis, restarts, latched>>

UpdateRemembersShare ==
  /\ since_update >= UpdateInterval
  /\ frame' = UInt16(PerDevice(SelectedDemand, settings["power_demand_divider"]))
  /\ last_power_demand' = frame'
  /\ operation_mode' = OperationMode
  /\ since_update' = 0
  /\ UNCHANGED <<demand_vars, settings, switches, operation_status, pref_vars,
                 millis, restarts, latched>>

Update ==
  /\ since_update >= UpdateInterval
  /\ frame' = UInt16(PerDevice(SelectedDemand, settings["power_demand_divider"]))
  /\ last_power_demand' = SelectedDemand
  /\ operation_mode' = OperationMode
  /\ since_update' = 0
  /\ UNCHANGED <<demand_vars, settings, switches, operation_status, pref_vars,
                 millis, restarts, latched>>

-----------------------------------------------------------------------------
(***************************************************************************)
(* The entities.                                                           *)
(***************************************************************************)
NumberControl(n, value) ==
  /\ n \in Entities
  /\ settings' = [settings EXCEPT ![n] = Applied(n, value)]
  /\ UNCHANGED <<demand_vars, switches, operation_status, output_vars,
                 pref_vars, clock_vars, restarts, latched>>

WriteState(w, state) ==
  /\ w \in Entities
  /\ switches' = [switches EXCEPT ![w] = state]
  /\ latched' = (latched /\ ~(w = "emergency_power_off" /\ ~state))
  /\ UNCHANGED <<demand_vars, settings, operation_status, output_vars,
                 pref_vars, clock_vars, restarts>>

(***************************************************************************)
(* The sensor named by operation_status_id, published by soyosource_       *)
(* inverter or soyosource_display.                                         *)
(***************************************************************************)
OperationStatus(id) ==
  /\ HasOperationStatus
  /\ operation_status' = id
  /\ UNCHANGED <<demand_vars, settings, switches, output_vars, pref_vars,
                 clock_vars, restarts, latched>>

-----------------------------------------------------------------------------
(***************************************************************************)
(* ESPHome: what the entities saved reaches the flash later; a restart, or *)
(* a crash, runs setup again from the flash.  Writing a value nobody has   *)
(* changed is the same as not writing it: setup would give it again.  The  *)
(* last frame stays what the inverters heard.                              *)
(***************************************************************************)
SyncPreferences ==
  /\ number_pref' = [n \in NumberIds |->
       IF n \in RestoreValue \cap Entities THEN settings[n] ELSE number_pref[n]]
  /\ switch_pref' = [w \in SwitchIds |->
       IF w \in Entities /\ Persistent(w) THEN switches[w] ELSE switch_pref[w]]
  /\ latched' = (/\ "emergency_power_off" \in Entities
                 /\ Persistent("emergency_power_off")
                 /\ switches["emergency_power_off"])
  /\ UNCHANGED <<demand_vars, settings, switches, operation_status,
                 output_vars, clock_vars, restarts>>

Restart ==
  /\ restarts < MaxRestarts
  /\ restarts' = restarts + 1
  /\ power_demand' = 0 /\ last_power_demand' = 0
  /\ last_power_demand_received' = 0
  /\ operation_status' = NaN
  /\ operation_mode' = "none"
  /\ settings' = NumberSetup(number_pref)
  /\ switches' = SwitchSetup(switch_pref)
  /\ millis' = 0
  /\ since_update' \in 0 .. UpdateInterval
  /\ silence' = 0 /\ limit' = 0
  /\ UNCHANGED <<frame, pref_vars, latched>>

Tick ==
  /\ since_update < UpdateInterval + LoopSlack
  /\ since_update' = since_update + 1
  /\ millis' = (millis + 1) % ClockMod
  /\ silence' = IF silence < ClockMod THEN silence + 1 ELSE silence
  /\ UNCHANGED <<power_demand, last_power_demand_received, limit, settings,
                 switches, operation_status, output_vars, pref_vars, restarts,
                 latched>>

Operate ==
  \/ NaNReading
  \/ \E r \in Readings \ {NaN} : PowerReading(r)
  \/ Update
  \/ \E n \in NumberIds : \E value \in NumberValues[n] : NumberControl(n, value)
  \/ \E w \in SwitchIds, state \in BOOLEAN : WriteState(w, state)
  \/ SyncPreferences

Next ==
  \/ Operate
  \/ \E id \in OperationStatusIds : OperationStatus(id)
  \/ Restart
  \/ Tick

(***************************************************************************)
(* The poller calls update again and again, and time goes on.              *)
(***************************************************************************)
Spec     == Init /\ [][Next]_vars
FairSpec == Spec /\ WF_vars(Update) /\ WF_vars(Tick)

-----------------------------------------------------------------------------
TypeOK ==
  /\ power_demand \in Int16Range
  /\ last_power_demand \in UInt16Range
  /\ last_power_demand_received \in 0 .. ClockMod - 1
  /\ settings \in [NumberIds -> Int]
  /\ \A n \in NumberIds : settings[n] \in PossibleValues(n)
  /\ switches \in [SwitchIds -> BOOLEAN]
  /\ operation_status \in OperationStatusIds \cup {NaN}
  /\ operation_mode \in OperationModes
  /\ frame \in UInt16Range \cup {Unset}
  /\ number_pref \in [NumberIds -> Int \cup {Unset}]
  /\ \A n \in NumberIds : number_pref[n] \in PossibleValues(n) \cup {Unset}
  /\ switch_pref \in [SwitchIds -> BOOLEAN \cup {Unset}]
  /\ millis \in 0 .. ClockMod - 1
  /\ since_update \in 0 .. UpdateInterval + LoopSlack
  /\ restarts \in 0 .. MaxRestarts
  /\ silence \in 0 .. ClockMod
  /\ limit \in Int16Range
  /\ latched \in BOOLEAN

(***************************************************************************)
(* The pending demand is never negative (it is cast to uint16_t), not even *)
(* after a reading that overflows an int16_t, and is above the maximum     *)
(* that was in force when the reading arrived in the two cases of          *)
(* AboveMaximum only, and there by no more than they explain; before the   *)
(* first reading since boot it is 0.                                       *)
(***************************************************************************)
DemandWithinLimit ==
  /\ 0 <= power_demand
  /\ \/ power_demand <= limit
     \/ \E b \in PossibleValues("buffer") :
          AboveMaximum(PowerDemandCalculation, power_demand,
                       [min |-> MinPowerDemand, max |-> limit, buffer |-> b,
                        zero |-> ZeroOutputOnMinPowerDemand])

(***************************************************************************)
(* "Shutting down for safety reasons": once the power sensor has been      *)
(* silent for the timeout plus the time an update may take to come, the    *)
(* inverters are told 0 W, unless the operator chose a manual demand.      *)
(***************************************************************************)
ShutDown == frame = 0 \/ operation_mode = "Manual"

SilentFor(ticks) ==
  /\ UInt16(PowerSensorInactivityTimeout) # 0
  /\ silence > TimeoutTicks + ticks

SilentSensorShutsDown ==
  SilentFor(UpdateInterval + LoopSlack) => ShutDown

(***************************************************************************)
(* The same for an outage shorter than the period of the clock.            *)
(***************************************************************************)
SilentSensorShutsDownBeforeWrap ==
  silence < ClockMod => SilentSensorShutsDown

(***************************************************************************)
(* last_power_demand_, which the next reading is added to, is what the     *)
(* inverters were really told together: after an override it is 0 like the *)
(* frame, and otherwise n shares are the least that covers it, for a       *)
(* divider n the entity can have.  (ceilf rounds up: 40 W for 3 inverters  *)
(* are 3 * 14 W.  The frame captured from the original meter, in a comment *)
(* of soyosource_modbus.cpp, has 13 W there.)                              *)
(***************************************************************************)
FeedbackMatchesFrame ==
  operation_mode # "none" =>
    \E n \in PossibleValues("power_demand_divider") :
      frame * n \in last_power_demand .. last_power_demand + n - 1

(***************************************************************************)
(* Once the emergency power off has been switched on and written to flash, *)
(* every frame is 0 W until the operator switches it off, whatever         *)
(* crashes, restarts, readings or other controls come in between.          *)
(***************************************************************************)
EmergencySurvivesRestart ==
  [][latched /\ frame' # frame => frame' = 0]_vars

(***************************************************************************)
(* Switching the emergency power off on makes the inverters stop.          *)
(***************************************************************************)
EmergencyStops ==
  switches["emergency_power_off"] ~>
    (frame = 0 \/ ~switches["emergency_power_off"])

(***************************************************************************)
(* A lowered max_power_demand reaches the inverters even if no reading     *)
(* comes any more: the timeout then stops them.  (Manual demands ignore    *)
(* the maximum, and a buffer that is no OemBuffer takes the OEM rules      *)
(* above it.)                                                              *)
(***************************************************************************)
MaximumInForce(m) ==
  settings["max_power_demand"] = m /\ OemBuffer(CurrentSettings)

LoweredMaximumTakesEffect ==
  \A m \in NumberValues["max_power_demand"] :
    MaximumInForce(m) ~>
      \/ frame # Unset /\ frame <= m
      \/ operation_mode = "Manual"
      \/ ~MaximumInForce(m)

(***************************************************************************)
(* No maximum the configuration or its entity can set is negative.  The    *)
(* schema asks for at least 1; the range of the entity starts at 0 unless  *)
(* its min_value says otherwise.                                           *)
(***************************************************************************)
NoNegativeMaximum ==
  \A max \in PossibleValues("max_power_demand") : 0 <= max
=============================================================================
