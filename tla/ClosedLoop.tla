----------------------------- MODULE ClosedLoop -----------------------------
(***************************************************************************)
(* The control loop soyosource_virtual_meter closes: the inverters feed    *)
(* the house, the smart meter measures what is still drawn from the grid,  *)
(* and the calculation for signed measurements adds that to the demand it  *)
(* commanded last.  House, grid, smart meter and inverters are external:   *)
(* the inverters follow a limiter frame at once, power_demand_divider is   *)
(* their real number, and the meter publishes what it measured some time   *)
(* before, so that a reading may be of an output that has changed since.   *)
(***************************************************************************)
EXTENDS VirtualMeter

CONSTANT Loads     \* what the house may draw, in watts

VARIABLES
  load,
  measured,  \* what the meter will publish, or Unset
  fresh,     \* history: the last reading is true of the present load and output
  settled    \* history: the present output was computed from such a reading

loop_vars == <<vars, load, measured, fresh, settled>>

(***************************************************************************)
(* The calculation for signed measurements with the settings of the        *)
(* configuration.  A house may draw up to 27 kW: with what buffer, maximum *)
(* and rounding add, its readings fit the int16_t of the calculation.      *)
(***************************************************************************)
ASSUME LoopAssumption ==
  /\ PowerDemandCalculation = "NEGATIVE_MEASUREMENTS_REQUIRED"
  /\ Entities \cap NumberIds = {}
  /\ Loads \subseteq {watts \in Nat : watts <= 27000}

Output == IF frame = Unset THEN 0 ELSE PowerDemandDivider * frame
Grid   == load - Output

LoopInit ==
  /\ Init
  /\ load \in Loads
  /\ measured = Unset /\ fresh = FALSE /\ settled = FALSE

LoadChange ==
  /\ load' \in Loads \ {load}
  /\ fresh' = FALSE /\ settled' = FALSE
  /\ UNCHANGED <<vars, measured>>

Measure ==
  /\ measured = Unset
  /\ measured' = 10 * Grid
  /\ UNCHANGED <<vars, load, fresh, settled>>

(***************************************************************************)
(* A reading before the first update after a restart does not count: the   *)
(* inverters still follow a frame this last_power_demand_ knows nothing of.*)
(***************************************************************************)
MeterReading ==
  /\ measured # Unset
  /\ PowerReading(measured)
  /\ measured' = Unset
  /\ fresh' = (operation_mode # "none" /\ measured = 10 * Grid)
  /\ UNCHANGED <<load, settled>>

LoopUpdate ==
  /\ Update
  /\ settled' = (operation_mode' = "Auto" /\ (fresh \/ (settled /\ frame' = frame)))
  /\ fresh' = (fresh /\ frame' = frame)
  /\ UNCHANGED <<load, measured>>

LoopSwitch ==
  /\ \E w \in SwitchIds, state \in BOOLEAN : WriteState(w, state)
  /\ UNCHANGED <<load, measured, fresh, settled>>

LoopRestart ==
  /\ Restart
  /\ fresh' = FALSE /\ settled' = FALSE
  /\ UNCHANGED <<load, measured>>

LoopTick == Tick /\ UNCHANGED <<load, measured, fresh, settled>>

LoopNext ==
  \/ LoadChange
  \/ Measure
  \/ MeterReading
  \/ LoopUpdate
  \/ LoopSwitch
  \/ LoopRestart
  \/ LoopTick

LoopSpec == LoopInit /\ [][LoopNext]_loop_vars

(***************************************************************************)
(* The meter goes on publishing, and now and then it does so before the    *)
(* output it measured has changed.                                         *)
(***************************************************************************)
FreshReading == MeterReading /\ fresh'

FairLoopSpec ==
  /\ LoopSpec
  /\ WF_loop_vars(Measure) /\ WF_loop_vars(MeterReading) /\ SF_loop_vars(FreshReading)
  /\ WF_loop_vars(LoopUpdate) /\ WF_loop_vars(LoopTick)

-----------------------------------------------------------------------------
LoopTypeOK ==
  /\ TypeOK
  /\ load \in Loads
  /\ measured # Unset => measured \in Int
  /\ fresh \in BOOLEAN /\ settled \in BOOLEAN

(***************************************************************************)
(* What the inverters should deliver: the load less the buffer.            *)
(***************************************************************************)
Target == load - Buffer

(***************************************************************************)
(* Once settled, the grid import is the buffer up to the watts lost by     *)
(* splitting the demand over the inverters, at most one less than there    *)
(* are inverters to either side; unless the target is out of their range.  *)
(***************************************************************************)
OnTarget ==
  LET slack == PowerDemandDivider - 1
  IN  \/ Grid \in Buffer - slack .. Buffer + slack
      \/ Target >= MaxPowerDemand /\ Output >= MaxPowerDemand
      \/ /\ Target < MinPowerDemand + slack
         /\ Output <= IF ZeroOutputOnMinPowerDemand THEN 0
                      ELSE MinPowerDemand + slack

SettledOnTarget == settled => OnTarget

(***************************************************************************)
(* "A positive buffer value tries to avoid exporting power to the grid":   *)
(* with a buffer of at least one watt per further inverter, a settled loop *)
(* does not export.                                                        *)
(***************************************************************************)
SettledNeverExports ==
  /\ settled
  /\ Buffer >= PowerDemandDivider - 1
  /\ ZeroOutputOnMinPowerDemand
  => Grid >= 0

(***************************************************************************)
(* Whatever happened before, a load that stays is followed: the loop does  *)
(* settle while the limiter is in automatic mode.                          *)
(***************************************************************************)
LoadIsFollowed ==
  \A l \in Loads :
    load = l ~> (OnTarget \/ load # l \/ operation_mode # "Auto")
=============================================================================
