------------------------------- MODULE Limiter -------------------------------
(***************************************************************************)
(* The limiter with an RS485 inverter, the composition of the *-limiter-   *)
(* example configurations: soyosource_virtual_meter commands the inverter  *)
(* and reads, as its operation_status_id, the sensor soyosource_inverter   *)
(* publishes from the status frames of the same bus.  The components share *)
(* the operation status, the restart and the time; nothing else.           *)
(***************************************************************************)
EXTENDS VirtualMeter

CONSTANTS NoResponseThreshold, StatusFrames, MaxInFlight,
          PollInterval        \* clock ticks between two status polls

VARIABLES no_response_count, status_text, measurements, fan_running,
          alive, in_flight, unanswered,
          since_poll,         \* ticks since the last status poll
          unheard             \* history: ticks since a restart or the last
                              \* normal status frame, up to StopTime + 1

Inv == INSTANCE Inverter WITH operation_status_id <- operation_status,
                              operation_status <- status_text

(***************************************************************************)
(* operation_status_id is configured to the sensor of the inverter, whose  *)
(* states are the statuses of the frames and -1.  The other conjuncts are  *)
(* what Inverter assumes of its constants.                                 *)
(***************************************************************************)
ASSUME LimiterAssumption ==
  /\ HasOperationStatus
  /\ {Inv!Offline} \cup {data.operation_status : data \in StatusFrames}
       \subseteq OperationStatusIds
  /\ PollInterval \in Nat \ {0}
  /\ NoResponseThreshold \in Nat \ {0} /\ NoResponseThreshold < 255
  /\ StatusFrames \subseteq Inv!FrameType
  /\ MaxInFlight \in Nat \ {0}

inverter_vars == <<no_response_count, status_text, measurements, fan_running,
                   alive, in_flight, unanswered>>
meter_vars == <<demand_vars, settings, switches, output_vars, pref_vars,
                restarts, latched>>
limiter_vars == <<vars, inverter_vars, since_poll, unheard>>

(***************************************************************************)
(* The longest time between the last frame of a normal inverter and the    *)
(* poll that reports it offline, and then until the update that stops it.  *)
(***************************************************************************)
OfflineTime == (NoResponseThreshold + 1) * (PollInterval + LoopSlack)
StopTime == OfflineTime + UpdateInterval + LoopSlack

LimiterInit ==
  /\ Init
  /\ Inv!Init
  /\ since_poll \in 0 .. PollInterval
  /\ unheard = 0

MeterStep ==
  /\ Operate
  /\ UNCHANGED <<inverter_vars, since_poll, unheard>>

StatusPoll ==
  /\ since_poll >= PollInterval
  /\ Inv!Poll
  /\ since_poll' = 0
  /\ UNCHANGED <<meter_vars, clock_vars, unheard>>

StatusReceived ==
  /\ \E data \in StatusFrames :
       /\ Inv!StatusFrame(data) \/ Inv!FrameDropped(data)
       /\ unheard' = IF Inv!Accepted(data) /\ data.operation_status = 0 THEN 0
                     ELSE unheard
  /\ UNCHANGED <<meter_vars, clock_vars, since_poll>>

WireStep ==
  /\ Inv!Lose \/ Inv!SwitchPower
  /\ UNCHANGED <<meter_vars, clock_vars, since_poll, unheard>>

LimiterRestart ==
  /\ Restart
  /\ Inv!Restart
  /\ since_poll' \in 0 .. PollInterval
  /\ unheard' = 0

LimiterTick ==
  /\ Tick
  /\ since_poll < PollInterval + LoopSlack
  /\ since_poll' = since_poll + 1
  /\ unheard' = IF unheard <= StopTime THEN unheard + 1 ELSE unheard
  /\ UNCHANGED inverter_vars

LimiterNext ==
  \/ MeterStep
  \/ StatusPoll
  \/ StatusReceived
  \/ WireStep
  \/ LimiterRestart
  \/ LimiterTick

LimiterSpec == LimiterInit /\ [][LimiterNext]_limiter_vars

-----------------------------------------------------------------------------
LimiterTypeOK ==
  /\ TypeOK
  /\ Inv!TypeOK
  /\ since_poll \in 0 .. PollInterval + LoopSlack
  /\ unheard \in 0 .. StopTime + 1

(***************************************************************************)
(* An inverter that has not reported to be in normal operation for         *)
(* StopTime (it is off, cut off, in standby, or its frames are lost or     *)
(* dropped) is commanded 0 W, in manual mode too, and whatever the meter   *)
(* measures.                                                               *)
(***************************************************************************)
UnheardInverterIsStopped == unheard > StopTime => frame = 0

(***************************************************************************)
(* The limiter is a watchdog of the inverter: heard from through normal    *)
(* status frames, driven by limiter frames above 0 W.                      *)
(***************************************************************************)
InverterWatchdog ==
  INSTANCE Watchdog WITH Timeout <- OfflineTime, Deadline <- StopTime,
                         age <- unheard, driving <- frame \notin {0, Unset}

IsInverterWatchdog == InverterWatchdog!Spec

(***************************************************************************)
(* The limiter suspends an inverter only for what the inverter said or did *)
(* not say: never while its last status is normal, and never for fewer     *)
(* unanswered polls than the threshold.                                    *)
(***************************************************************************)
StandbyOnlyWithCause ==
  [][operation_mode' = "Standby" /\ operation_mode # "Standby" =>
       /\ operation_status # 0
       /\ operation_status = Inv!Offline => unanswered > NoResponseThreshold
    ]_limiter_vars
=============================================================================
