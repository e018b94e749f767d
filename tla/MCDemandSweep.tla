---------------------------- MODULE MCDemandSweep ----------------------------
(***************************************************************************)
(* Constants of the TLC run of DemandSweep: a window around zero wide      *)
(* enough to cross every threshold, one around the demand that takes two   *)
(* bytes, and the two ends of int16_t.                                     *)
(***************************************************************************)
EXTENDS DemandSweep

MCBuffers == {-4, 0, 3, 6, 9, 13}
MCWindows == {<<-25, 25>>, <<250, 265>>, <<-32768, -32750>>, <<32745, 32767>>}
=============================================================================
