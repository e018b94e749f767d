------------------------------ MODULE Inverter ------------------------------
(***************************************************************************)
(* The soyosource_inverter component: it polls the inverter for its status *)
(* over RS485, publishes what a status frame holds, and declares the       *)
(* inverter offline when too many polls went unanswered.                   *)
(*                                                                         *)
(* The inverter and the wire are external: a poll may be answered once or  *)
(* not at all, an answer may be lost or garbled, and it may arrive after   *)
(* later polls.                                                            *)
(***************************************************************************)
EXTENDS Integers, Sequences

CONSTANTS
  NoResponseThreshold,   \* NO_RESPONSE_THRESHOLD, 15
  StatusFrames,          \* the status frames the inverter may send
  MaxInFlight,           \* bound on the answers on their way
  NaN

Offline == -1

(***************************************************************************)
(* A status frame: its length, the operation status, and the raw fields in *)
(* tenths of a volt, tenths of an ampere, volts, half hertz, and tenths of *)
(* a degree above -30 degrees.                                             *)
(***************************************************************************)
FrameType == [size : Nat, operation_status : 0 .. 255,
              battery_voltage : Nat, battery_current : Nat, ac_voltage : Nat,
              ac_frequency : 0 .. 255, temperature : Nat]

ASSUME InverterAssumption ==
  /\ NoResponseThreshold \in Nat \ {0}
  /\ NoResponseThreshold < 255       \* no_response_count_ is a uint8_t
  /\ StatusFrames \subseteq FrameType
  /\ MaxInFlight \in Nat \ {0}
  /\ NaN \notin Int

VARIABLES
  no_response_count,       \* no_response_count_
  operation_status_id,     \* operation_status_id_sensor_->state
  operation_status,        \* operation_status_text_sensor_
  measurements,            \* the six measurement sensors
  fan_running,             \* fan_running_binary_sensor_
  alive,                   \* external: the inverter is powered and connected
  in_flight,               \* external: answers on the wire
  unanswered               \* history: polls since the last accepted frame

published == <<operation_status_id, operation_status, measurements, fan_running>>
wire_vars == <<alive, in_flight>>
vars == <<no_response_count, published, wire_vars, unanswered>>

Sensors == {"battery_voltage", "battery_current", "battery_power",
            "ac_voltage", "ac_frequency", "temperature"}
NoMeasurements == [s \in Sensors |-> NaN]

OPERATION_STATUS ==
  <<"Normal", "Startup", "Standby", "Startup aborted", "Error or battery mode?",
    "Unknown (0x05)", "Unknown (0x06)", "Unknown (0x07)", "Unknown (0x08)",
    "Unknown (0x09)", "AC voltage too low", "Unknown (0x11)", "Unknown (0x12)">>

StatusText(raw) ==
  IF raw < Len(OPERATION_STATUS) THEN OPERATION_STATUS[raw + 1] ELSE "Unknown"

-----------------------------------------------------------------------------
Init ==
  /\ no_response_count = 0
  /\ operation_status_id = NaN /\ operation_status = "" /\ fan_running = FALSE
  /\ measurements = NoMeasurements
  /\ alive \in BOOLEAN
  /\ in_flight = 0
  /\ unanswered = 0

(***************************************************************************)
(* The plausibility test, on the raw fields: more than 2500 W, 300 V,      *)
(* 100 Hz or 200 degrees.                                                  *)
(***************************************************************************)
Unlikely(data) ==
  \/ data.battery_voltage * data.battery_current > 250000
  \/ data.ac_voltage > 300
  \/ data.ac_frequency > 200
  \/ data.temperature - 300 > 2000

Accepted(data) == data.size = 10 /\ ~Unlikely(data)

Measured(data) ==
  [battery_voltage |-> data.battery_voltage,
   battery_current |-> data.battery_current,
   battery_power   |-> data.battery_voltage * data.battery_current,
   ac_voltage      |-> data.ac_voltage,
   ac_frequency    |-> data.ac_frequency,
   temperature     |-> data.temperature - 300]

\* Mutant: an answer does not reset the counter of missing answers.
AnsweredNotCounted == UNCHANGED no_response_count

Answered == no_response_count' = 0

StatusFrame(data) ==
  /\ in_flight > 0
  /\ in_flight' = in_flight - 1
  /\ Accepted(data)
  /\ operation_status_id' = data.operation_status
  /\ operation_status' = StatusText(data.operation_status)
  /\ measurements' = Measured(data)
  /\ fan_running' = (data.temperature - 300 >= 450)
  /\ Answered
  /\ unanswered' = 0
  /\ UNCHANGED alive

\* Mutant: a frame that is dropped counts as an answer.
FrameDroppedCounts(data) ==
  /\ in_flight > 0
  /\ in_flight' = in_flight - 1
  /\ ~Accepted(data)
  /\ no_response_count' = 0
  /\ UNCHANGED <<published, alive, unanswered>>

FrameDropped(data) ==
  /\ in_flight > 0
  /\ in_flight' = in_flight - 1
  /\ ~Accepted(data)
  /\ UNCHANGED <<no_response_count, published, alive, unanswered>>

\* Mutant: the measurements of the last frame stay.
PublishOnlyOffline ==
  /\ operation_status_id' = Offline
  /\ operation_status' = "Offline"
  /\ UNCHANGED <<measurements, fan_running>>

PublishDeviceOffline ==
  /\ operation_status_id' = Offline
  /\ operation_status' = "Offline"
  /\ measurements' = NoMeasurements
  /\ UNCHANGED fan_running

(***************************************************************************)
(* update(): the offline test comes before the poll is counted and sent.   *)
(***************************************************************************)
\* Mutants: the counter is not reset, or one poll too early.
CountedWithoutReset == no_response_count

CountedWithEarlyReset ==
  IF no_response_count + 1 >= NoResponseThreshold THEN 0 ELSE no_response_count

CountedSoFar ==
  IF no_response_count >= NoResponseThreshold THEN 0 ELSE no_response_count

Poll ==
  /\ IF no_response_count >= NoResponseThreshold THEN PublishDeviceOffline
     ELSE UNCHANGED published
  /\ no_response_count' = CountedSoFar + 1
  /\ in_flight' = IF alive /\ in_flight < MaxInFlight THEN in_flight + 1
                  ELSE in_flight
  /\ unanswered' = IF unanswered <= NoResponseThreshold THEN unanswered + 1
                   ELSE unanswered
  /\ UNCHANGED alive

-----------------------------------------------------------------------------
(***************************************************************************)
(* The environment: an answer the bus never delivers, and an inverter that *)
(* stops or resumes answering.  Restart is a reboot of the controller.     *)
(***************************************************************************)
Lose ==
  /\ in_flight > 0
  /\ in_flight' = in_flight - 1
  /\ UNCHANGED <<no_response_count, published, alive, unanswered>>

SwitchPower ==
  /\ alive' = ~alive
  /\ UNCHANGED <<no_response_count, published, in_flight, unanswered>>

Restart ==
  /\ no_response_count' = 0
  /\ operation_status_id' = NaN /\ operation_status' = ""
  /\ fan_running' = FALSE
  /\ measurements' = NoMeasurements
  /\ unanswered' = 0
  /\ UNCHANGED wire_vars

Receive == \E data \in StatusFrames : StatusFrame(data) \/ FrameDropped(data)

Next == Receive \/ Poll \/ Lose \/ SwitchPower \/ Restart

Spec     == Init /\ [][Next]_vars
FairSpec == Spec /\ WF_vars(Poll) /\ WF_vars(Receive \/ Lose)

-----------------------------------------------------------------------------
Texts == {OPERATION_STATUS[i] : i \in 1 .. Len(OPERATION_STATUS)}
           \cup {"", "Offline", "Unknown"}

TypeOK ==
  /\ no_response_count \in 0 .. NoResponseThreshold
  /\ operation_status_id \in 0 .. 255 \cup {NaN, Offline}
  /\ operation_status \in Texts
  /\ measurements \in [Sensors -> Int \cup {NaN}]
  /\ fan_running \in BOOLEAN
  /\ alive \in BOOLEAN
  /\ in_flight \in 0 .. MaxInFlight
  /\ unanswered \in 0 .. NoResponseThreshold + 1

(***************************************************************************)
(* The inverter is reported offline exactly when more polls than the       *)
(* threshold have gone unanswered: not one poll early, although the        *)
(* counter starts again each time, and not one poll late.                  *)
(***************************************************************************)
OfflineExactlyWhenSilent ==
  (operation_status_id = Offline) <=> (unanswered > NoResponseThreshold)

(***************************************************************************)
(* While the inverter is offline no measurement of its last frame is left; *)
(* while there are measurements, the text and the fan sensor, which has no *)
(* value for offline and keeps its last one, belong to the same frame.     *)
(***************************************************************************)
SensorsAgree ==
  /\ operation_status_id = Offline => measurements = NoMeasurements
  /\ operation_status_id = Offline <=> operation_status = "Offline"
  /\ measurements = NoMeasurements => operation_status_id \in {Offline, NaN}
  /\ measurements # NoMeasurements =>
       /\ operation_status = StatusText(operation_status_id)
       /\ fan_running = (measurements["temperature"] >= 450)

(***************************************************************************)
(* An inverter that is cut off for good is reported offline, unless late   *)
(* frames or a restart come in between forever.                            *)
(***************************************************************************)
CutOffReported ==
  <>[](~alive) /\ <>[][~Restart]_vars => <>[](operation_status_id = Offline)
=============================================================================
