--------------------------- MODULE InverterProofs ---------------------------
(***************************************************************************)
(* Theorems about Inverter, for every threshold of missing answers, every  *)
(* set of status frames and every number of answers under way.             *)
(***************************************************************************)
EXTENDS Inverter, TLAPS

(***************************************************************************)
(* The counter starts again at every offline report, so that it does not   *)
(* tell how long the inverter has been silent.  Until the first report it  *)
(* agrees with unanswered; from then on the published status tells.        *)
(***************************************************************************)
Counting ==
  /\ no_response_count = unanswered
  /\ unanswered <= NoResponseThreshold
  /\ operation_status_id # Offline

Silent ==
  /\ no_response_count >= 1
  /\ unanswered = NoResponseThreshold + 1
  /\ operation_status_id = Offline

CountInv == Counting \/ Silent

-----------------------------------------------------------------------------
LEMMA Constants ==
  /\ NoResponseThreshold \in Nat /\ NoResponseThreshold >= 1
  /\ MaxInFlight \in Nat /\ MaxInFlight >= 1
  /\ StatusFrames \subseteq FrameType
  /\ NaN \notin Int
  /\ Offline # NaN /\ Offline \in Int /\ Offline \notin 0 .. 255
<1>1. Offline \in Int /\ Offline \notin 0 .. 255
  BY DEF Offline
<1>2. NaN \notin Int
  BY InverterAssumption
<1>3. Offline # NaN
  BY <1>1, <1>2
<1> QED BY <1>1, <1>2, <1>3, InverterAssumption

LEMMA StatusCodes == Len(OPERATION_STATUS) = 13
  BY DEF OPERATION_STATUS

\* The text of a status is one of the table's or "Unknown", never "Offline".
LEMMA StatusTextType ==
  ASSUME NEW raw \in 0 .. 255
  PROVE  StatusText(raw) \in Texts /\ StatusText(raw) # "Offline"
<1>1. CASE raw < 13
  <2>1. StatusText(raw) = OPERATION_STATUS[raw + 1] /\ raw + 1 \in 1 .. 13
    BY <1>1, StatusCodes DEF StatusText
  <2>2. \A i \in 1 .. 13 : OPERATION_STATUS[i] # "Offline"
    <3>1. OPERATION_STATUS[1] # "Offline" /\ OPERATION_STATUS[2] # "Offline"
          /\ OPERATION_STATUS[3] # "Offline" /\ OPERATION_STATUS[4] # "Offline"
          /\ OPERATION_STATUS[5] # "Offline" /\ OPERATION_STATUS[6] # "Offline"
          /\ OPERATION_STATUS[7] # "Offline" /\ OPERATION_STATUS[8] # "Offline"
          /\ OPERATION_STATUS[9] # "Offline" /\ OPERATION_STATUS[10] # "Offline"
          /\ OPERATION_STATUS[11] # "Offline" /\ OPERATION_STATUS[12] # "Offline"
          /\ OPERATION_STATUS[13] # "Offline"
      BY DEF OPERATION_STATUS
    <3> QED BY <3>1
  <2> QED BY <2>1, <2>2, StatusCodes DEF Texts
<1>2. CASE ~(raw < 13)
  BY <1>2, StatusCodes DEF StatusText, Texts
<1> QED BY <1>1, <1>2

\* A frame yields a value for every sensor.
LEMMA MeasuredType ==
  ASSUME NEW data \in FrameType
  PROVE  /\ Measured(data) \in [Sensors -> Int \cup {NaN}]
         /\ Measured(data) # NoMeasurements
         /\ Measured(data)["temperature"] = data.temperature - 300
<1>1. /\ data.battery_voltage \in Int /\ data.battery_current \in Int
      /\ data.ac_voltage \in Int /\ data.ac_frequency \in Int
      /\ data.temperature \in Int
  BY DEF FrameType
<1>2. data.battery_voltage * data.battery_current \in Int
  BY <1>1
<1>3. data.temperature - 300 \in Int
  BY <1>1
<1>4. Measured(data) \in [Sensors -> Int \cup {NaN}]
  BY <1>1, <1>2, <1>3 DEF Measured, Sensors
<1>5. Measured(data)["temperature"] = data.temperature - 300
  BY DEF Measured
<1>6. NoMeasurements["temperature"] = NaN
  BY DEF NoMeasurements, Sensors
<1> QED BY <1>3, <1>4, <1>5, <1>6, Constants

-----------------------------------------------------------------------------
LEMMA TypeInit == Init => TypeOK
<1> SUFFICES ASSUME Init PROVE TypeOK
  OBVIOUS
<1>1. operation_status \in Texts
  BY DEF Init, Texts
<1>2. measurements \in [Sensors -> Int \cup {NaN}]
  BY DEF Init, NoMeasurements
<1>3. fan_running \in BOOLEAN /\ alive \in BOOLEAN /\ operation_status_id = NaN
  BY DEF Init
<1>4. no_response_count = 0 /\ in_flight = 0 /\ unanswered = 0
  BY DEF Init
<1> QED BY <1>1, <1>2, <1>3, <1>4, Constants DEF TypeOK

LEMMA TypeNext == TypeOK /\ [Next]_vars => TypeOK'
<1> SUFFICES ASSUME TypeOK, [Next]_vars PROVE TypeOK'
  OBVIOUS
<1> USE Constants
<1>1. ASSUME NEW data \in StatusFrames, StatusFrame(data) PROVE TypeOK'
  <2>1. data \in FrameType /\ data.operation_status \in 0 .. 255
    BY DEF FrameType
  <2>2. StatusText(data.operation_status) \in Texts
    BY <2>1, StatusTextType
  <2>3. Measured(data) \in [Sensors -> Int \cup {NaN}]
    BY <2>1, MeasuredType
  <2>4. fan_running' \in BOOLEAN
    BY <1>1 DEF StatusFrame
  <2> QED BY <1>1, <2>1, <2>2, <2>3, <2>4 DEF StatusFrame, Answered, TypeOK
<1>2. ASSUME NEW data \in StatusFrames, FrameDropped(data) PROVE TypeOK'
  BY <1>2 DEF FrameDropped, published, TypeOK
<1>3. CASE Poll
  <2>1. published' = published \/ PublishDeviceOffline
    BY <1>3 DEF Poll
  <2>2. /\ operation_status_id' \in 0 .. 255 \cup {NaN, Offline}
        /\ operation_status' \in Texts
        /\ measurements' \in [Sensors -> Int \cup {NaN}]
        /\ fan_running' \in BOOLEAN
    <3>1. CASE published' = published
      BY <3>1 DEF published, TypeOK
    <3>2. CASE PublishDeviceOffline
      <4>1. operation_status_id' = Offline /\ operation_status' = "Offline"
            /\ measurements' = NoMeasurements /\ fan_running' = fan_running
        BY <3>2 DEF PublishDeviceOffline
      <4> QED BY <4>1 DEF NoMeasurements, Texts, TypeOK
    <3> QED BY <2>1, <3>1, <3>2
  <2>3. no_response_count' \in 0 .. NoResponseThreshold
    BY <1>3 DEF Poll, CountedSoFar, TypeOK
  <2>4. /\ in_flight' \in 0 .. MaxInFlight
        /\ unanswered' \in 0 .. NoResponseThreshold + 1
        /\ alive' \in BOOLEAN
    BY <1>3 DEF Poll, TypeOK
  <2> QED BY <2>2, <2>3, <2>4 DEF TypeOK
<1>4. CASE Lose
  BY <1>4 DEF Lose, published, TypeOK
<1>5. CASE SwitchPower
  BY <1>5 DEF SwitchPower, published, TypeOK
<1>6. CASE Restart
  <2>1. /\ no_response_count' = 0 /\ unanswered' = 0 /\ operation_status_id' = NaN
        /\ alive' = alive /\ in_flight' = in_flight /\ fan_running' \in BOOLEAN
    BY <1>6 DEF Restart, wire_vars
  <2>2. operation_status' \in Texts
    BY <1>6 DEF Restart, Texts
  <2>3. measurements' \in [Sensors -> Int \cup {NaN}]
    BY <1>6 DEF Restart, NoMeasurements
  <2> QED BY <2>1, <2>2, <2>3 DEF TypeOK
<1>7. CASE UNCHANGED vars
  BY <1>7 DEF vars, published, wire_vars, TypeOK
<1> QED BY <1>1, <1>2, <1>3, <1>4, <1>5, <1>6, <1>7 DEF Next, Receive

(***************************************************************************)
(* All values keep their types; the counter never passes the threshold.    *)
(***************************************************************************)
THEOREM InverterTypeCorrect == Spec => []TypeOK
  BY TypeInit, TypeNext, PTL DEF Spec

-----------------------------------------------------------------------------
LEMMA CountInit == Init => CountInv
<1>1. Init => no_response_count = 0 /\ unanswered = 0 /\ operation_status_id = NaN
  BY DEF Init
<1> QED BY <1>1, Constants DEF CountInv, Counting

LEMMA CountNext == TypeOK /\ CountInv /\ [Next]_vars => CountInv'
<1> SUFFICES ASSUME TypeOK, CountInv, [Next]_vars PROVE CountInv'
  OBVIOUS
<1> USE Constants DEF CountInv, Counting, Silent, TypeOK
<1>1. ASSUME NEW data \in StatusFrames, StatusFrame(data) PROVE CountInv'
  BY <1>1 DEF StatusFrame, Answered, FrameType
<1>2. ASSUME NEW data \in StatusFrames, FrameDropped(data) PROVE CountInv'
  BY <1>2 DEF FrameDropped, published
<1>3. CASE Poll
  <2>1. CASE no_response_count >= NoResponseThreshold
    BY <1>3, <2>1 DEF Poll, CountedSoFar, PublishDeviceOffline
  <2>2. CASE ~(no_response_count >= NoResponseThreshold)
    BY <1>3, <2>2 DEF Poll, CountedSoFar, published
  <2> QED BY <2>1, <2>2
<1>4. CASE Lose
  BY <1>4 DEF Lose, published
<1>5. CASE SwitchPower
  BY <1>5 DEF SwitchPower, published
<1>6. CASE Restart
  <2>1. no_response_count' = 0 /\ unanswered' = 0 /\ operation_status_id' = NaN
    BY <1>6 DEF Restart
  <2> QED BY <2>1
<1>7. CASE UNCHANGED vars
  BY <1>7 DEF vars, published
<1> QED BY <1>1, <1>2, <1>3, <1>4, <1>5, <1>6, <1>7 DEF Next, Receive

(***************************************************************************)
(* An inverter is published as offline exactly while more polls than the   *)
(* threshold have gone unanswered: on_soyosource_modbus_data and update()  *)
(* neither miss nor invent an outage, whatever is lost, late or dropped.   *)
(***************************************************************************)
THEOREM OfflineCorrect == Spec => []OfflineExactlyWhenSilent
<1>1. TypeOK /\ CountInv => OfflineExactlyWhenSilent
  BY Constants
  DEF CountInv, Counting, Silent, TypeOK, OfflineExactlyWhenSilent
<1> QED BY <1>1, InverterTypeCorrect, CountInit, CountNext, PTL DEF Spec

-----------------------------------------------------------------------------
LEMMA SensorsInit == Init => SensorsAgree
  BY Constants DEF Init, SensorsAgree

LEMMA SensorsNext == SensorsAgree /\ [Next]_vars => SensorsAgree'
<1> SUFFICES ASSUME SensorsAgree, [Next]_vars PROVE SensorsAgree'
  OBVIOUS
<1>1. ASSUME NEW data \in StatusFrames, StatusFrame(data) PROVE SensorsAgree'
  <2>1. data \in FrameType /\ data.operation_status \in 0 .. 255
    BY Constants DEF FrameType
  <2>2. StatusText(data.operation_status) # "Offline"
    BY <2>1, StatusTextType
  <2>3. /\ Measured(data) # NoMeasurements
        /\ Measured(data)["temperature"] = data.temperature - 300
    BY <2>1, MeasuredType
  <2>4. /\ operation_status_id' = data.operation_status
        /\ operation_status' = StatusText(data.operation_status)
        /\ measurements' = Measured(data)
        /\ fan_running' = (data.temperature - 300 >= 450)
    BY <1>1 DEF StatusFrame
  <2>5. operation_status_id' # Offline
    BY <2>1, <2>4, Constants
  <2>6. fan_running' = (measurements'["temperature"] >= 450)
    BY <2>3, <2>4
  <2> QED BY <2>2, <2>3, <2>4, <2>5, <2>6 DEF SensorsAgree
<1>2. ASSUME NEW data \in StatusFrames, FrameDropped(data) PROVE SensorsAgree'
  BY <1>2 DEF FrameDropped, published, SensorsAgree
<1>3. CASE Poll
  <2>1. CASE UNCHANGED published
    BY <2>1 DEF published, SensorsAgree
  <2>2. CASE PublishDeviceOffline
    BY <2>2 DEF PublishDeviceOffline, SensorsAgree
  <2> QED BY <1>3, <2>1, <2>2 DEF Poll
<1>4. CASE Lose
  BY <1>4 DEF Lose, published, SensorsAgree
<1>5. CASE SwitchPower
  BY <1>5 DEF SwitchPower, published, SensorsAgree
<1>6. CASE Restart
  BY <1>6, Constants DEF Restart, SensorsAgree
<1>7. CASE UNCHANGED vars
  BY <1>7 DEF vars, published, SensorsAgree
<1> QED BY <1>1, <1>2, <1>3, <1>4, <1>5, <1>6, <1>7 DEF Next, Receive

(***************************************************************************)
(* Going offline clears all measurements, and afterwards every sensor      *)
(* shows one and the same frame again, the fan sensor included, which      *)
(* publish_device_offline_ cannot clear.                                   *)
(***************************************************************************)
THEOREM SensorsCorrect == Spec => []SensorsAgree
  BY SensorsInit, SensorsNext, PTL DEF Spec
=============================================================================
