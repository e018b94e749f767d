--------------------------- MODULE LimiterProofs ---------------------------
(***************************************************************************)
(* Theorems about Limiter: the virtual meter and the inverter on one bus   *)
(* implement either component, and together a watchdog of the inverter,    *)
(* for every polling interval, update interval, threshold of missing       *)
(* answers and lateness of the loop.                                       *)
(***************************************************************************)
EXTENDS Limiter, VirtualMeterProofs, Sequences

LEMMA LimiterConstants ==
  /\ NoResponseThreshold \in Nat /\ NoResponseThreshold >= 1
  /\ MaxInFlight \in Nat /\ MaxInFlight >= 1
  /\ StatusFrames \subseteq Inv!FrameType
  /\ NaN \notin Int
  /\ Inv!Offline # NaN /\ Inv!Offline \in Int /\ Inv!Offline # 0
  /\ Inv!Offline \notin 0 .. 255
  /\ PollInterval \in Nat /\ PollInterval >= 1
  /\ UpdateInterval \in Nat /\ LoopSlack \in Nat
<1>1. /\ Inv!Offline \in Int /\ Inv!Offline \notin 0 .. 255
      /\ Inv!Offline # 0
  BY DEF Inv!Offline
<1>2. NaN \notin Int
  BY EnvironmentAssumption
<1>3. Inv!Offline # NaN
  BY <1>1, <1>2
<1> QED
  BY <1>1, <1>2, <1>3, LimiterAssumption, EnvironmentAssumption

-----------------------------------------------------------------------------
(***************************************************************************)
(* Every step of the composition is a step of the virtual meter, for which *)
(* the inverter is a sensor that publishes some status, ...                *)
(***************************************************************************)
LEMMA MeterUnchanged ==
  ASSUME UNCHANGED <<meter_vars, clock_vars>>, operation_status' = operation_status
  PROVE  UNCHANGED vars
  BY DEF meter_vars, clock_vars, vars

LEMMA MeterSensed ==
  ASSUME UNCHANGED <<meter_vars, clock_vars>>,
         operation_status' \in OperationStatusIds
  PROVE  Next
<1>1. OperationStatus(operation_status')
  BY LimiterAssumption DEF meter_vars, clock_vars, OperationStatus
<1> QED
  BY <1>1 DEF Next

LEMMA MeterStepSimulated == [LimiterNext]_limiter_vars => [Next]_vars
<1> SUFFICES ASSUME [LimiterNext]_limiter_vars PROVE [Next]_vars
  OBVIOUS
<1>1. CASE MeterStep
  BY <1>1 DEF MeterStep, Next
<1>2. CASE StatusPoll
  <2>1. CASE UNCHANGED Inv!published
    <3>1. operation_status' = operation_status
      BY <2>1 DEF Inv!published
    <3> QED
      BY <1>2, <3>1, MeterUnchanged DEF StatusPoll
  <2>2. CASE Inv!PublishDeviceOffline
    <3>1. operation_status' = Inv!Offline
      BY <2>2 DEF Inv!PublishDeviceOffline
    <3>2. operation_status' \in OperationStatusIds
      BY <3>1, LimiterAssumption
    <3> QED
      BY <1>2, <3>2, MeterSensed DEF StatusPoll
  <2> QED
    BY <1>2, <2>1, <2>2 DEF StatusPoll, Inv!Poll
<1>3. CASE StatusReceived
  <2>1. PICK data \in StatusFrames : Inv!StatusFrame(data) \/ Inv!FrameDropped(data)
    BY <1>3 DEF StatusReceived
  <2>2. CASE Inv!StatusFrame(data)
    <3>1. operation_status' = data.operation_status
      BY <2>2 DEF Inv!StatusFrame
    <3>2. operation_status' \in OperationStatusIds
      BY <3>1, LimiterAssumption
    <3> QED
      BY <1>3, <3>2, MeterSensed DEF StatusReceived
  <2>3. CASE Inv!FrameDropped(data)
    <3>1. operation_status' = operation_status
      BY <2>3 DEF Inv!FrameDropped, Inv!published
    <3> QED
      BY <1>3, <3>1, MeterUnchanged DEF StatusReceived
  <2> QED
    BY <2>1, <2>2, <2>3
<1>4. CASE WireStep
  <2>1. operation_status' = operation_status
    BY <1>4 DEF WireStep, Inv!Lose, Inv!SwitchPower, Inv!published
  <2> QED
    BY <1>4, <2>1, MeterUnchanged DEF WireStep
<1>5. CASE LimiterRestart
  BY <1>5 DEF LimiterRestart, Next
<1>6. CASE LimiterTick
  BY <1>6 DEF LimiterTick, Next
<1>7. CASE UNCHANGED limiter_vars
  BY <1>7 DEF limiter_vars
<1> QED
  BY <1>1, <1>2, <1>3, <1>4, <1>5, <1>6, <1>7 DEF LimiterNext

(***************************************************************************)
(* ... and a step of the inverter component, which the virtual meter does  *)
(* not touch.                                                              *)
(***************************************************************************)
LEMMA InverterUnchanged ==
  ASSUME UNCHANGED inverter_vars, operation_status' = operation_status
  PROVE  UNCHANGED Inv!vars
  BY DEF inverter_vars, Inv!vars, Inv!published, Inv!wire_vars

LEMMA StatusNotOperated == Operate => operation_status' = operation_status
  BY DEF Operate, NaNReading, PowerReading, Update, NumberControl, WriteState,
         SyncPreferences, vars

LEMMA InverterStepSimulated == [LimiterNext]_limiter_vars => [Inv!Next]_(Inv!vars)
<1> SUFFICES ASSUME [LimiterNext]_limiter_vars PROVE [Inv!Next]_(Inv!vars)
  OBVIOUS
<1>1. CASE MeterStep
  BY <1>1, StatusNotOperated, InverterUnchanged DEF MeterStep
<1>2. CASE StatusPoll
  BY <1>2 DEF StatusPoll, Inv!Next
<1>3. CASE StatusReceived
  BY <1>3 DEF StatusReceived, Inv!Next, Inv!Receive
<1>4. CASE WireStep
  BY <1>4 DEF WireStep, Inv!Next
<1>5. CASE LimiterRestart
  BY <1>5 DEF LimiterRestart, Inv!Next
<1>6. CASE LimiterTick
  BY <1>6, InverterUnchanged DEF LimiterTick, Tick
<1>7. CASE UNCHANGED limiter_vars
  <2>1. UNCHANGED inverter_vars /\ operation_status' = operation_status
    BY <1>7 DEF limiter_vars, vars
  <2> QED
    BY <2>1, InverterUnchanged
<1> QED
  BY <1>1, <1>2, <1>3, <1>4, <1>5, <1>6, <1>7 DEF LimiterNext

(***************************************************************************)
(* What is proved of the virtual meter alone, for any statuses, holds on a *)
(* bus with an inverter.                                                   *)
(***************************************************************************)
LEMMA LimiterImplementsMeter == LimiterSpec => Spec
<1>1. LimiterInit => Init
  BY DEF LimiterInit
<1> QED
  BY <1>1, MeterStepSimulated, PTL DEF LimiterSpec, Spec

-----------------------------------------------------------------------------
(***************************************************************************)
(* Types of the inverter's variables.  They do not follow from the theorem *)
(* of InverterProofs, which is about its own variables: the prover keeps a *)
(* theorem of an instance closed.                                          *)
(***************************************************************************)
LEMMA TextType ==
  ASSUME NEW raw \in 0 .. 255
  PROVE  Inv!StatusText(raw) \in Inv!Texts
<1>1. Len(Inv!OPERATION_STATUS) = 13
  BY DEF Inv!OPERATION_STATUS
<1>2. CASE raw < 13
  <2>1. raw + 1 \in 1 .. 13
    BY <1>2
  <2> QED
    BY <1>1, <1>2, <2>1 DEF Inv!StatusText, Inv!Texts
<1>3. CASE ~(raw < 13)
  BY <1>1, <1>3 DEF Inv!StatusText, Inv!Texts
<1> QED
  BY <1>2, <1>3

LEMMA MeasuredFrameType ==
  ASSUME NEW data \in Inv!FrameType
  PROVE  Inv!Measured(data) \in [Inv!Sensors -> Int \cup {NaN}]
<1>1. /\ data.battery_voltage \in Int /\ data.battery_current \in Int
      /\ data.ac_voltage \in Int /\ data.ac_frequency \in Int
      /\ data.temperature \in Int
  BY DEF Inv!FrameType
<1>2. data.battery_voltage * data.battery_current \in Int
  BY <1>1
<1>3. data.temperature - 300 \in Int
  BY <1>1
<1> QED
  BY <1>1, <1>2, <1>3 DEF Inv!Measured, Inv!Sensors

LEMMA InverterTypeInit == Inv!Init => Inv!TypeOK
<1> SUFFICES ASSUME Inv!Init PROVE Inv!TypeOK
  OBVIOUS
<1>1. status_text \in Inv!Texts
  BY DEF Inv!Init, Inv!Texts
<1>2. measurements \in [Inv!Sensors -> Int \cup {NaN}]
  BY DEF Inv!Init, Inv!NoMeasurements
<1>3. fan_running \in BOOLEAN /\ alive \in BOOLEAN /\ operation_status = NaN
  BY DEF Inv!Init
<1>4. no_response_count = 0 /\ in_flight = 0 /\ unanswered = 0
  BY DEF Inv!Init
<1> QED
  BY <1>1, <1>2, <1>3, <1>4, LimiterConstants DEF Inv!TypeOK

LEMMA InverterTypeNext ==
  Inv!TypeOK /\ [Inv!Next]_(Inv!vars) => Inv!TypeOK'
<1> SUFFICES ASSUME Inv!TypeOK, [Inv!Next]_(Inv!vars) PROVE Inv!TypeOK'
  OBVIOUS
<1> USE LimiterConstants
<1>1. ASSUME NEW data \in StatusFrames, Inv!StatusFrame(data) PROVE Inv!TypeOK'
  <2>1. data \in Inv!FrameType /\ data.operation_status \in 0 .. 255
    BY DEF Inv!FrameType
  <2>2. Inv!StatusText(data.operation_status) \in Inv!Texts
    BY <2>1, TextType
  <2>3. Inv!Measured(data) \in [Inv!Sensors -> Int \cup {NaN}]
    BY <2>1, MeasuredFrameType
  <2>4. fan_running' \in BOOLEAN
    BY <1>1 DEF Inv!StatusFrame
  <2> QED
    BY <1>1, <2>1, <2>2, <2>3, <2>4
    DEF Inv!StatusFrame, Inv!Answered, Inv!TypeOK
<1>2. ASSUME NEW data \in StatusFrames, Inv!FrameDropped(data) PROVE Inv!TypeOK'
  BY <1>2 DEF Inv!FrameDropped, Inv!published, Inv!TypeOK
<1>3. CASE Inv!Poll
  <2>1. /\ operation_status' \in 0 .. 255 \cup {NaN, Inv!Offline}
        /\ status_text' \in Inv!Texts
        /\ measurements' \in [Inv!Sensors -> Int \cup {NaN}]
        /\ fan_running' \in BOOLEAN
    <3>1. CASE UNCHANGED Inv!published
      BY <3>1 DEF Inv!published, Inv!TypeOK
    <3>2. CASE Inv!PublishDeviceOffline
      BY <3>2
      DEF Inv!PublishDeviceOffline, Inv!NoMeasurements, Inv!Texts, Inv!TypeOK
    <3> QED
      BY <1>3, <3>1, <3>2 DEF Inv!Poll
  <2>2. no_response_count' \in 0 .. NoResponseThreshold
    BY <1>3 DEF Inv!Poll, Inv!CountedSoFar, Inv!TypeOK
  <2>3. /\ in_flight' \in 0 .. MaxInFlight
        /\ unanswered' \in 0 .. NoResponseThreshold + 1
        /\ alive' \in BOOLEAN
    BY <1>3 DEF Inv!Poll, Inv!TypeOK
  <2> QED
    BY <2>1, <2>2, <2>3 DEF Inv!TypeOK
<1>4. CASE Inv!Lose
  BY <1>4 DEF Inv!Lose, Inv!published, Inv!TypeOK
<1>5. CASE Inv!SwitchPower
  BY <1>5 DEF Inv!SwitchPower, Inv!published, Inv!TypeOK
<1>6. CASE Inv!Restart
  <2>1. /\ no_response_count' = 0 /\ unanswered' = 0 /\ operation_status' = NaN
        /\ alive' = alive /\ in_flight' = in_flight
    BY <1>6 DEF Inv!Restart, Inv!wire_vars
  <2>2. status_text' \in Inv!Texts /\ fan_running' \in BOOLEAN
    BY <1>6 DEF Inv!Restart, Inv!Texts
  <2>3. measurements' \in [Inv!Sensors -> Int \cup {NaN}]
    BY <1>6 DEF Inv!Restart, Inv!NoMeasurements
  <2> QED
    BY <2>1, <2>2, <2>3 DEF Inv!TypeOK
<1>7. CASE UNCHANGED Inv!vars
  BY <1>7 DEF Inv!vars, Inv!published, Inv!wire_vars, Inv!TypeOK
<1> QED
  BY <1>1, <1>2, <1>3, <1>4, <1>5, <1>6, <1>7 DEF Inv!Next, Inv!Receive

-----------------------------------------------------------------------------
(***************************************************************************)
(* Types of the composition.                                               *)
(***************************************************************************)
LEMMA Times ==
  /\ PollInterval + LoopSlack \in Nat
  /\ OfflineTime \in Nat
  /\ StopTime \in Nat
  /\ StopTime = OfflineTime + UpdateInterval + LoopSlack
<1>1. PollInterval + LoopSlack \in Nat /\ NoResponseThreshold + 1 \in Nat
  BY LimiterConstants
<1> DEFINE w == PollInterval + LoopSlack
           n == NoResponseThreshold + 1
<1>2. w \in Nat /\ n \in Nat
  BY <1>1
<1> HIDE DEF w, n
<1>3. n * w \in Nat
  BY <1>2
<1>4. OfflineTime \in Nat
  BY <1>3 DEF OfflineTime, n, w
<1> QED
  BY <1>1, <1>4, LimiterConstants DEF StopTime

TimersOK ==
  /\ since_poll \in 0 .. PollInterval + LoopSlack
  /\ unheard \in 0 .. StopTime + 1

LEMMA TimersNext == TimersOK /\ [LimiterNext]_limiter_vars => TimersOK'
<1> SUFFICES ASSUME TimersOK, [LimiterNext]_limiter_vars PROVE TimersOK'
  OBVIOUS
<1> USE LimiterConstants, Times DEF TimersOK
<1>1. CASE MeterStep
  BY <1>1 DEF MeterStep
<1>2. CASE StatusPoll
  BY <1>2 DEF StatusPoll
<1>3. CASE StatusReceived
  BY <1>3 DEF StatusReceived
<1>4. CASE WireStep
  BY <1>4 DEF WireStep
<1>5. CASE LimiterRestart
  BY <1>5 DEF LimiterRestart
<1>6. CASE LimiterTick
  BY <1>6 DEF LimiterTick
<1>7. CASE UNCHANGED limiter_vars
  BY <1>7 DEF limiter_vars
<1> QED
  BY <1>1, <1>2, <1>3, <1>4, <1>5, <1>6, <1>7 DEF LimiterNext

LEMMA LimiterTypeInit == LimiterInit => LimiterTypeOK
<1>1. LimiterInit => TimersOK
  BY LimiterConstants, Times DEF LimiterInit, TimersOK
<1> QED
  BY <1>1, TypeInit, InverterTypeInit DEF LimiterInit, LimiterTypeOK, TimersOK

LEMMA LimiterTypeNext ==
  LimiterTypeOK /\ [LimiterNext]_limiter_vars => LimiterTypeOK'
<1>1. LimiterTypeOK <=> TypeOK /\ Inv!TypeOK /\ TimersOK
  BY DEF LimiterTypeOK, TimersOK
<1>2. LimiterTypeOK' <=> TypeOK' /\ Inv!TypeOK' /\ TimersOK'
  BY DEF LimiterTypeOK, TimersOK
<1> QED
  BY <1>1, <1>2, MeterStepSimulated, InverterStepSimulated, TypeNext,
     InverterTypeNext, TimersNext

(***************************************************************************)
(* The status the two components share is one that either of them knows.   *)
(***************************************************************************)
THEOREM LimiterTypeCorrect == LimiterSpec => []LimiterTypeOK
  BY LimiterTypeInit, LimiterTypeNext, PTL DEF LimiterSpec

-----------------------------------------------------------------------------
(***************************************************************************)
(* The watchdog.  Three facts carry it:                                    *)
(*   - the inverter is shown as offline exactly while more polls than the  *)
(*     threshold are unanswered (as in InverterProofs);                    *)
(*   - while it is shown in normal operation, the polls that went          *)
(*     unanswered account for the time it was not heard;                   *)
(*   - the age it had at the last update, unheard - since_update, tells    *)
(*     what that update commanded.                                         *)
(***************************************************************************)
PollTime == PollInterval + LoopSlack

Counting ==
  /\ no_response_count = unanswered
  /\ unanswered <= NoResponseThreshold
  /\ operation_status # Inv!Offline

Silent ==
  /\ no_response_count >= 1
  /\ unanswered = NoResponseThreshold + 1
  /\ operation_status = Inv!Offline

CountInv == Counting \/ Silent

HeardInv ==
  operation_status = 0 => unheard <= unanswered * PollTime + since_poll

StopInv == unheard > OfflineTime + since_update => frame = 0

LimiterInv == LimiterTypeOK /\ CountInv /\ HeardInv /\ StopInv

LEMMA CountInit == Inv!Init => CountInv
<1>1. Inv!Init =>
        no_response_count = 0 /\ unanswered = 0 /\ operation_status = NaN
  BY DEF Inv!Init
<1> QED
  BY <1>1, LimiterConstants DEF CountInv, Counting

LEMMA CountNext ==
  Inv!TypeOK /\ CountInv /\ [Inv!Next]_(Inv!vars) => CountInv'
<1> SUFFICES ASSUME Inv!TypeOK, CountInv, [Inv!Next]_(Inv!vars)
             PROVE  CountInv'
  OBVIOUS
<1> USE LimiterConstants DEF CountInv, Counting, Silent, Inv!TypeOK
<1>1. ASSUME NEW data \in StatusFrames, Inv!StatusFrame(data) PROVE CountInv'
  BY <1>1 DEF Inv!StatusFrame, Inv!Answered, Inv!FrameType
<1>2. ASSUME NEW data \in StatusFrames, Inv!FrameDropped(data) PROVE CountInv'
  BY <1>2 DEF Inv!FrameDropped, Inv!published
<1>3. CASE Inv!Poll
  <2>1. CASE no_response_count >= NoResponseThreshold
    BY <1>3, <2>1 DEF Inv!Poll, Inv!CountedSoFar, Inv!PublishDeviceOffline
  <2>2. CASE ~(no_response_count >= NoResponseThreshold)
    BY <1>3, <2>2 DEF Inv!Poll, Inv!CountedSoFar, Inv!published
  <2> QED
    BY <2>1, <2>2
<1>4. CASE Inv!Lose \/ Inv!SwitchPower
  BY <1>4 DEF Inv!Lose, Inv!SwitchPower, Inv!published
<1>5. CASE Inv!Restart
  <2>1. no_response_count' = 0 /\ unanswered' = 0 /\ operation_status' = NaN
    BY <1>5 DEF Inv!Restart
  <2> QED
    BY <2>1
<1>6. CASE UNCHANGED Inv!vars
  BY <1>6 DEF Inv!vars, Inv!published
<1> QED
  BY <1>1, <1>2, <1>3, <1>4, <1>5, <1>6 DEF Inv!Next, Inv!Receive

(***************************************************************************)
(* Of the composition's steps only those of the bus and the clock matter   *)
(* to HeardInv.                                                            *)
(***************************************************************************)
LEMMA OnePollMore ==
  ASSUME NEW n \in Nat
  PROVE  /\ n * PollTime \in Nat
         /\ (n + 1) * PollTime = n * PollTime + PollTime
<1>1. PollTime \in Nat
  BY LimiterConstants DEF PollTime
<1> QED
  BY <1>1

LEMMA HeardNext ==
  LimiterTypeOK /\ CountInv /\ HeardInv /\ [LimiterNext]_limiter_vars
    => HeardInv'
<1> SUFFICES ASSUME LimiterTypeOK, CountInv, HeardInv,
                    [LimiterNext]_limiter_vars
             PROVE  HeardInv'
  OBVIOUS
<1>0. /\ unanswered \in Nat /\ since_poll \in Nat /\ since_poll <= PollTime
      /\ unheard \in Nat /\ PollTime \in Nat /\ StopTime \in Nat
  BY LimiterConstants, Times DEF LimiterTypeOK, Inv!TypeOK, PollTime
<1>1. CASE UNCHANGED <<operation_status, unheard, unanswered, since_poll>>
  BY <1>1 DEF HeardInv
<1>2. CASE StatusPoll
  <2>1. CASE UNCHANGED Inv!published
    <3> SUFFICES ASSUME operation_status' = 0
                 PROVE  unheard' <= unanswered' * PollTime + since_poll'
      BY DEF HeardInv
    <3>1. operation_status = 0
      BY <2>1 DEF Inv!published
    <3>2. unanswered <= NoResponseThreshold
      BY <3>1, LimiterConstants DEF CountInv, Counting, Silent
    <3>3. unanswered' = unanswered + 1 /\ unheard' = unheard /\ since_poll' = 0
      BY <1>2, <3>2 DEF StatusPoll, Inv!Poll
    <3>4. unheard <= unanswered * PollTime + since_poll
      BY <3>1 DEF HeardInv
    <3> QED
      BY <1>0, <3>3, <3>4, OnePollMore
  <2>2. CASE Inv!PublishDeviceOffline
    <3>1. operation_status' = Inv!Offline
      BY <2>2 DEF Inv!PublishDeviceOffline
    <3> QED
      BY <3>1, LimiterConstants DEF HeardInv
  <2> QED
    BY <1>2, <2>1, <2>2 DEF StatusPoll, Inv!Poll
<1>3. CASE StatusReceived
  <2>1. PICK data \in StatusFrames :
          /\ Inv!StatusFrame(data) \/ Inv!FrameDropped(data)
          /\ unheard' = IF Inv!Accepted(data) /\ data.operation_status = 0 THEN 0
                        ELSE unheard
    BY <1>3 DEF StatusReceived
  <2>2. since_poll' = since_poll
    BY <1>3 DEF StatusReceived
  <2>3. CASE Inv!StatusFrame(data)
    <3> SUFFICES ASSUME operation_status' = 0
                 PROVE  unheard' <= unanswered' * PollTime + since_poll'
      BY DEF HeardInv
    <3>1. Inv!Accepted(data) /\ data.operation_status = 0 /\ unanswered' = 0
      BY <2>3 DEF Inv!StatusFrame
    <3>2. unheard' = 0
      BY <2>1, <3>1
    <3> QED
      BY <1>0, <2>2, <3>1, <3>2
  <2>4. CASE Inv!FrameDropped(data)
    <3>1. ~Inv!Accepted(data) /\ UNCHANGED <<operation_status, unanswered>>
      BY <2>4 DEF Inv!FrameDropped, Inv!published
    <3>2. unheard' = unheard
      BY <2>1, <3>1
    <3> QED
      BY <1>1, <2>2, <3>1, <3>2
  <2> QED
    BY <2>1, <2>3, <2>4
<1>4. CASE LimiterRestart
  <2>1. operation_status' = NaN
    BY <1>4 DEF LimiterRestart, Inv!Restart
  <2> QED
    BY <2>1, LimiterConstants DEF HeardInv
<1>5. CASE LimiterTick
  <2> SUFFICES ASSUME operation_status' = 0
               PROVE  unheard' <= unanswered' * PollTime + since_poll'
    BY DEF HeardInv
  <2>1. /\ operation_status' = operation_status /\ unanswered' = unanswered
        /\ since_poll' = since_poll + 1
        /\ unheard' = IF unheard <= StopTime THEN unheard + 1 ELSE unheard
    BY <1>5 DEF LimiterTick, Tick, inverter_vars
  <2>2. unheard <= unanswered * PollTime + since_poll
    BY <2>1 DEF HeardInv
  <2>3. unanswered * PollTime \in Nat
    BY <1>0, OnePollMore
  <2> QED
    BY <1>0, <2>1, <2>2, <2>3
<1>6. CASE MeterStep \/ WireStep \/ UNCHANGED limiter_vars
  BY <1>1, <1>6, StatusNotOperated
  DEF MeterStep, WireStep, Inv!Lose, Inv!SwitchPower, Inv!published,
      inverter_vars, limiter_vars, vars
<1> QED
  BY <1>2, <1>3, <1>4, <1>5, <1>6 DEF LimiterNext

(***************************************************************************)
(* An inverter that is shown in normal operation was heard within          *)
(* OfflineTime; so a drive command is never based on older news.           *)
(***************************************************************************)
LEMMA NormalWasHeard ==
  ASSUME LimiterTypeOK, CountInv, HeardInv, operation_status = 0
  PROVE  unheard <= OfflineTime
<1>1. unanswered \in Nat /\ unanswered <= NoResponseThreshold
  BY LimiterConstants
  DEF LimiterTypeOK, Inv!TypeOK, CountInv, Counting, Silent
<1>2. unheard <= unanswered * PollTime + since_poll
  BY DEF HeardInv
<1>3. /\ PollTime \in Nat /\ since_poll \in Nat /\ since_poll <= PollTime
      /\ unheard \in Nat
  BY LimiterConstants, Times DEF LimiterTypeOK, PollTime
<1> DEFINE n == NoResponseThreshold
           a == unanswered * PollTime
           b == n * PollTime
<1>4. n \in Nat /\ n - unanswered \in Nat
  BY <1>1, LimiterConstants
<1>5. b = a + (n - unanswered) * PollTime /\ (n - unanswered) * PollTime \in Nat
  BY <1>1, <1>3, <1>4
<1>6. a \in Nat /\ b \in Nat /\ OfflineTime = b + PollTime
  BY <1>1, <1>3, <1>4, OnePollMore DEF OfflineTime, PollTime
<1> HIDE DEF a, b, n
<1>7. a <= b
  BY <1>5, <1>6
<1>8. unheard <= a + since_poll
  BY <1>2 DEF a
<1> QED
  BY <1>3, <1>6, <1>7, <1>8

\* An update commands more than 0 W only while the status is normal.
LEMMA DrivenOnlyInNormal ==
  ASSUME LimiterTypeOK, Update, operation_status # 0
  PROVE  frame' = 0
<1>1. Standby
  BY LimiterAssumption DEF Standby
<1>2. SelectedDemand = 0
  BY <1>1 DEF SelectedDemand, OperationMode
<1> QED
  BY <1>2, FrameOfUpdate DEF Update, LimiterTypeOK

LEMMA OnlyUpdateSends == Operate => Update \/ UNCHANGED <<frame, since_update>>
  BY DEF Operate, NaNReading, PowerReading, NumberControl, WriteState,
         SyncPreferences, vars, output_vars, clock_vars

LEMMA StopNext ==
  LimiterInv /\ [LimiterNext]_limiter_vars => StopInv'
<1> SUFFICES ASSUME LimiterInv, [LimiterNext]_limiter_vars PROVE StopInv'
  OBVIOUS
<1>0. /\ LimiterTypeOK /\ CountInv /\ HeardInv
      /\ since_update \in Nat /\ unheard \in Nat
      /\ OfflineTime \in Nat /\ StopTime \in Nat
  BY LimiterConstants, Times DEF LimiterInv, LimiterTypeOK, TypeOK
<1> DEFINE late(u, s) == u > OfflineTime + s
<1>1. StopInv = (late(unheard, since_update) => frame = 0)
  BY DEF StopInv
<1>2. StopInv' = (late(unheard', since_update') => frame' = 0)
  BY DEF StopInv
<1>3. late(unheard, since_update) => frame = 0
  BY <1>1 DEF LimiterInv
<1>4. CASE UNCHANGED <<unheard, since_update, frame>>
  BY <1>2, <1>3, <1>4
<1>5. CASE unheard' = 0 /\ since_update' \in Nat
  <2>1. \A ticks \in Nat : ~(0 > OfflineTime + ticks)
    BY <1>0
  <2>2. ~late(unheard', since_update')
    BY <1>5, <2>1, Zenon
  <2> QED
    BY <1>2, <2>2
<1>6. CASE MeterStep
  <2>1. unheard' = unheard
    BY <1>6 DEF MeterStep
  <2>2. CASE Update
    <3> SUFFICES ASSUME late(unheard', since_update') PROVE frame' = 0
      BY <1>2
    <3>1. unheard > OfflineTime
      BY <1>0, <2>1, <2>2 DEF Update
    <3>2. operation_status # 0
      BY <1>0, <3>1, NormalWasHeard
    <3> QED
      BY <1>0, <2>2, <3>2, DrivenOnlyInNormal
  <2>3. CASE UNCHANGED <<frame, since_update>>
    BY <1>4, <2>1, <2>3
  <2> QED
    BY <1>6, <2>2, <2>3, OnlyUpdateSends DEF MeterStep
<1>7. CASE StatusReceived
  <2>1. UNCHANGED <<frame, since_update>> /\ unheard' \in {0, unheard}
    BY <1>7 DEF StatusReceived, meter_vars, output_vars, clock_vars
  <2> QED
    BY <1>0, <1>4, <1>5, <2>1
<1>8. CASE StatusPoll \/ WireStep \/ UNCHANGED limiter_vars
  BY <1>4, <1>8
  DEF StatusPoll, WireStep, meter_vars, output_vars, clock_vars, limiter_vars,
      vars
<1>9. CASE LimiterRestart
  <2>1. since_update' \in Nat
    BY <1>9, LimiterConstants DEF LimiterRestart, Restart
  <2> QED
    BY <1>5, <1>9, <2>1 DEF LimiterRestart
<1>10. CASE LimiterTick
  <2>1. /\ frame' = frame /\ since_update' = since_update + 1
        /\ unheard' = IF unheard <= StopTime THEN unheard + 1 ELSE unheard
    BY <1>10 DEF LimiterTick, Tick, output_vars
  <2>2. late(unheard', since_update') => late(unheard, since_update)
    BY <1>0, <2>1
  <2> QED
    BY <1>2, <1>3, <2>1, <2>2
<1> QED
  BY <1>6, <1>7, <1>8, <1>9, <1>10 DEF LimiterNext

LEMMA LimiterInvInit == LimiterInit => LimiterInv
<1> SUFFICES ASSUME LimiterInit PROVE LimiterInv
  OBVIOUS
<1>1. LimiterTypeOK /\ CountInv
  BY LimiterTypeInit, CountInit DEF LimiterInit
<1>2. HeardInv
  <2>1. operation_status = NaN
    BY DEF LimiterInit, Init
  <2> QED
    BY <2>1, LimiterConstants DEF HeardInv
<1>3. StopInv
  BY <1>1, LimiterConstants, Times
  DEF LimiterInit, StopInv, LimiterTypeOK, TypeOK
<1> QED
  BY <1>1, <1>2, <1>3 DEF LimiterInv

LEMMA LimiterInvNext == LimiterInv /\ [LimiterNext]_limiter_vars => LimiterInv'
<1>1. LimiterInv => LimiterTypeOK /\ Inv!TypeOK /\ CountInv /\ HeardInv
  BY DEF LimiterInv, LimiterTypeOK
<1>2. LimiterTypeOK' /\ CountInv' /\ HeardInv' /\ StopInv' => LimiterInv'
  BY DEF LimiterInv
<1> QED
  BY <1>1, <1>2, LimiterTypeNext, InverterStepSimulated, CountNext, HeardNext,
     StopNext

LEMMA LimiterInvariant == LimiterSpec => []LimiterInv
  BY LimiterInvInit, LimiterInvNext, PTL DEF LimiterSpec

(***************************************************************************)
(* What the virtual meter promises alone it promises on the bus, where the *)
(* status of the inverter also decides about its demand: a sensor that     *)
(* stays silent stops the inverter, the feedback is that of the frame sent *)
(* last, and no restart turns an emergency stop off.                       *)
(***************************************************************************)
THEOREM LimiterKeepsMeter ==
  LimiterSpec => /\ [](SilentSensorShutsDownBeforeWrap /\ FeedbackMatchesFrame)
                 /\ EmergencySurvivesRestart
  BY LimiterImplementsMeter, SilenceShutsDown, FeedbackCorrect, EmergencyHolds, PTL

(***************************************************************************)
(* Nor does the virtual meter hide from the inverter, or make up, that its *)
(* polls go unanswered: the status that suspends the demand is "offline"   *)
(* exactly while more polls than the threshold are unanswered.             *)
(***************************************************************************)
THEOREM LimiterOfflineCorrect == LimiterSpec => []Inv!OfflineExactlyWhenSilent
<1>1. LimiterInv => Inv!OfflineExactlyWhenSilent
  <2> SUFFICES ASSUME LimiterInv
               PROVE  (operation_status = Inv!Offline)
                        <=> (unanswered > NoResponseThreshold)
    BY DEF Inv!OfflineExactlyWhenSilent
  <2>1. CountInv /\ unanswered \in Nat
    BY DEF LimiterInv, LimiterTypeOK, Inv!TypeOK
  <2> QED
    BY <2>1, LimiterConstants DEF CountInv, Counting, Silent
<1> QED
  BY <1>1, LimiterInvariant, PTL

(***************************************************************************)
(* An inverter that was not heard to be in normal operation for StopTime   *)
(* is commanded 0 W, whatever the meter reads, the operator chooses, or    *)
(* the bus loses, delays or garbles.                                       *)
(***************************************************************************)
THEOREM UnheardStopped == LimiterSpec => []UnheardInverterIsStopped
<1>1. LimiterInv => UnheardInverterIsStopped
  <2> SUFFICES ASSUME LimiterInv, unheard > StopTime PROVE frame = 0
    BY DEF UnheardInverterIsStopped
  <2>1. /\ since_update \in Nat /\ since_update <= UpdateInterval + LoopSlack
        /\ unheard \in Nat /\ OfflineTime \in Nat
    BY LimiterConstants, Times DEF LimiterInv, LimiterTypeOK, TypeOK
  <2>2. unheard > OfflineTime + since_update
    BY <2>1, LimiterConstants, Times
  <2> QED
    BY <2>2 DEF LimiterInv, StopInv
<1> QED
  BY <1>1, LimiterInvariant, PTL

-----------------------------------------------------------------------------
(***************************************************************************)
(* The refinement of Watchdog.  Updates drive or stop the output, a status *)
(* or a reboot is the source being heard, and a tick lets time pass: while *)
(* the output is driven the deadline cannot be exceeded, since StopInv     *)
(* bounds the age and the tick's guard the time until the next update.     *)
(***************************************************************************)
driven == frame \notin {0, Unset}

LEMMA WatchdogStep ==
  LimiterInv /\ [LimiterNext]_limiter_vars
    => [InverterWatchdog!Next]_(InverterWatchdog!vars)
<1> SUFFICES ASSUME LimiterInv, [LimiterNext]_limiter_vars
             PROVE  [InverterWatchdog!Next]_(InverterWatchdog!vars)
  OBVIOUS
<1>0. /\ LimiterTypeOK /\ CountInv /\ HeardInv
      /\ since_update \in Nat /\ unheard \in Nat
      /\ OfflineTime \in Nat /\ StopTime \in Nat
  BY LimiterConstants, Times DEF LimiterInv, LimiterTypeOK, TypeOK
<1>1. InverterWatchdog!vars = <<unheard, driven>>
      /\ InverterWatchdog!vars' = <<unheard', driven'>>
  BY DEF InverterWatchdog!vars, driven
<1>2. ASSUME UNCHANGED <<unheard, frame>>
      PROVE  [InverterWatchdog!Next]_(InverterWatchdog!vars)
  BY <1>1, <1>2 DEF driven
<1>3. ASSUME unheard' = 0, UNCHANGED frame
      PROVE  InverterWatchdog!Next
  BY <1>3 DEF InverterWatchdog!Next, InverterWatchdog!Heard
<1>4. CASE MeterStep
  <2>1. unheard' = unheard
    BY <1>4 DEF MeterStep
  <2>2. CASE Update /\ frame' = 0
    BY <2>1, <2>2 DEF InverterWatchdog!Next, InverterWatchdog!Stop
  <2>3. CASE Update /\ frame' # 0
    <3>1. operation_status = 0
      BY <1>0, <2>3, DrivenOnlyInNormal
    <3>2. unheard <= OfflineTime
      BY <1>0, <3>1, NormalWasHeard
    <3>3. frame' # Unset
      BY <1>0, <2>3, FrameOfUpdate, EnvironmentAssumption
      DEF Update, LimiterTypeOK, UInt16Range
    <3> QED
      BY <2>1, <2>3, <3>2, <3>3
      DEF InverterWatchdog!Next, InverterWatchdog!Drive
  <2>4. CASE UNCHANGED <<frame, since_update>>
    BY <1>2, <2>1, <2>4
  <2> QED
    BY <1>4, <2>2, <2>3, <2>4, OnlyUpdateSends DEF MeterStep
<1>5. CASE StatusReceived
  <2>1. UNCHANGED frame /\ unheard' \in {0, unheard}
    BY <1>5 DEF StatusReceived, meter_vars, output_vars
  <2> QED
    BY <1>2, <1>3, <2>1
<1>6. CASE StatusPoll \/ WireStep \/ UNCHANGED limiter_vars
  BY <1>2, <1>6
  DEF StatusPoll, WireStep, meter_vars, output_vars, limiter_vars, vars
<1>7. CASE LimiterRestart
  BY <1>3, <1>7 DEF LimiterRestart, Restart
<1>8. CASE LimiterTick
  <2>1. /\ frame' = frame /\ since_update < UpdateInterval + LoopSlack
        /\ unheard' = IF unheard <= StopTime THEN unheard + 1 ELSE unheard
    BY <1>8 DEF LimiterTick, Tick, output_vars
  <2>2. driven => ~(unheard > OfflineTime + since_update)
    BY DEF LimiterInv, StopInv, driven
  <2>3. ~(unheard > OfflineTime + since_update) => unheard < StopTime
    BY <1>0, <2>1, LimiterConstants, Times
  <2> QED
    BY <2>1, <2>2, <2>3
    DEF InverterWatchdog!Next, InverterWatchdog!Pass, driven
<1> QED
  BY <1>4, <1>5, <1>6, <1>7, <1>8 DEF LimiterNext

(***************************************************************************)
(* The limiter implements the watchdog it is meant to be: no update drives *)
(* the inverter on news older than OfflineTime, and no driven output       *)
(* outlives StopTime.                                                      *)
(***************************************************************************)
THEOREM LimiterImplementsWatchdog == LimiterSpec => IsInverterWatchdog
<1>1. LimiterInit => InverterWatchdog!Init
  BY EnvironmentAssumption DEF LimiterInit, Init, InverterWatchdog!Init
<1> QED
  BY <1>1, WatchdogStep, LimiterInvariant, PTL
  DEF LimiterSpec, IsInverterWatchdog, InverterWatchdog!Spec

-----------------------------------------------------------------------------
LEMMA OnlyUpdateChangesMode ==
  [LimiterNext]_limiter_vars =>
    \/ Update
    \/ operation_mode' \in {operation_mode, "none"}
<1>1. Operate => Update \/ UNCHANGED operation_mode
  BY DEF Operate, NaNReading, PowerReading, NumberControl, WriteState,
         SyncPreferences, vars, output_vars
<1> QED
  BY <1>1
  DEF LimiterNext, MeterStep, StatusPoll, StatusReceived, WireStep,
      LimiterRestart, Restart, LimiterTick, Tick, limiter_vars, vars,
      meter_vars, output_vars

(***************************************************************************)
(* The limiter suspends an inverter only for what it said or did not say:  *)
(* the status it published last is not normal, and if it is "offline",     *)
(* more polls than the threshold were left unanswered.                     *)
(***************************************************************************)
THEOREM StandbyHasCause == LimiterSpec => StandbyOnlyWithCause
<1> DEFINE Cause ==
      operation_mode' = "Standby" /\ operation_mode # "Standby" =>
        /\ operation_status # 0
        /\ operation_status = Inv!Offline => unanswered > NoResponseThreshold
<1>1. LimiterInv /\ [LimiterNext]_limiter_vars => [Cause]_limiter_vars
  <2> SUFFICES ASSUME LimiterInv, [LimiterNext]_limiter_vars,
                      operation_mode' = "Standby", operation_mode # "Standby"
               PROVE  /\ operation_status # 0
                      /\ operation_status = Inv!Offline =>
                           unanswered > NoResponseThreshold
    OBVIOUS
  <2>1. Update
    BY OnlyUpdateChangesMode
  <2>2. operation_status # 0
    BY <2>1 DEF Update, OperationMode, Standby
  <2>3. operation_status = Inv!Offline => unanswered = NoResponseThreshold + 1
    BY DEF LimiterInv, CountInv, Counting, Silent
  <2> QED
    BY <2>2, <2>3, LimiterConstants
<1> QED
  BY <1>1, LimiterInvariant, PTL DEF LimiterSpec, StandbyOnlyWithCause
=============================================================================
