----------------------------- MODULE DemandSweep -----------------------------
(***************************************************************************)
(* The calculations of PowerDemand compared with what they mean, while the *)
(* consumption rises watt by watt from the bottom of a window to its top,  *)
(* for every setting of a small set and every demand commanded last.  The  *)
(* settings are any that the schema and the number entities accept.  The   *)
(* demand goes out in frames for one or several inverters.                 *)
(***************************************************************************)
EXTENDS PowerDemand, SoyosourceModbus, DisplayProtocol

CONSTANTS Mins, Maxs, Buffers, Lasts, Windows  \* windows are <<first, last>>

(***************************************************************************)
(* What the schema, the number entities and the C++ fields hold: neither   *)
(* the minimum nor the maximum is negative, but the entity may take the    *)
(* maximum below the minimum.                                              *)
(***************************************************************************)
ASSUME SweepAssumption ==
  /\ Mins \subseteq {watts \in Int16Range : 0 <= watts}
  /\ Maxs \subseteq {watts \in Int16Range : 0 <= watts}
  /\ Buffers \subseteq Int16Range
  /\ Lasts \subseteq UInt16Range
  /\ Windows \subseteq Int16Range \X Int16Range

VARIABLES s, last, window, consumption

vars == <<s, last, window, consumption>>

Init ==
  /\ s \in [min : Mins, max : Maxs, buffer : Buffers, zero : BOOLEAN]
  /\ last \in Lasts
  /\ window \in Windows
  /\ consumption = window[1]

Rise ==
  /\ consumption < window[2]
  /\ consumption' = consumption + 1
  /\ UNCHANGED <<s, last, window>>

Spec == Init /\ [][Rise]_vars

-----------------------------------------------------------------------------
Clamp(x) ==
  IF x >= s.max THEN s.max
  ELSE IF x >= s.min THEN x
  ELSE IF s.zero THEN 0 ELSE s.min

\* No int16_t assignment of the calculation overflows.
NoOverflow ==
  /\ consumption - s.buffer \in Int16Range
  /\ consumption - s.buffer + last \in Int16Range

(***************************************************************************)
(* The table in the comment of the new method: what is imported now, less  *)
(* the buffer, on top of the demand in force, within min and max.          *)
(***************************************************************************)
NegativeIsClampedSum ==
  NoOverflow => NegativeMeasurements(consumption, last, s)
                  = Clamp(consumption - s.buffer + last)

(***************************************************************************)
(* A house that draws more never gets less: no calculation has a dip, not  *)
(* at the thresholds of the OEM rules, not where the zero-crossing rule    *)
(* restarts, as long as max is not below min and, for the OEM rules, the   *)
(* buffer is one they tolerate.                                            *)
(***************************************************************************)
DemandMonotone ==
  [][\A calculation \in Calculations :
       /\ SoundSettings(s)
       /\ calculation = "DUMB_OEM_BEHAVIOR" => OemBuffer(s)
       /\ NoOverflow /\ NoOverflow'
       => CalculatePowerDemand(calculation, consumption, last, s)
           <= CalculatePowerDemand(calculation, consumption', last, s)]_vars

(***************************************************************************)
(* "A positive buffer value (10) tries to avoid exporting power to the     *)
(* grid (demand - 10 watts)": the OEM rules, which expect the consumption  *)
(* without what the inverters deliver, never demand more than it, for any  *)
(* buffer from 0 to twice the maximum.                                     *)
(***************************************************************************)
OemNeverExceedsConsumption ==
  OemBuffer(s) /\ 0 <= s.buffer =>
    Oem(consumption, s) <= IF consumption > 0 THEN consumption ELSE 0

Demand == CalculatePowerDemand("NEGATIVE_MEASUREMENTS_REQUIRED", consumption, last, s)

(***************************************************************************)
(* Each inverter can read its share from the frame, above 255 W too, and   *)
(* finds the checksum right by the rule that the frames of the display     *)
(* follow: 264 - high - low stands for the sum of all bytes but the first. *)
(***************************************************************************)
FrameCarriesShare ==
  \A n \in 1 .. 6 :
    LET sent == Send(36, PerDevice(Demand, n))
    IN  Word(sent, 4) = PerDevice(Demand, n) /\ sent = WithChksum(Front(sent))
=============================================================================
