-------------------------- MODULE SoyosourceModbus --------------------------
(***************************************************************************)
(* The frames of the soyosource_modbus component: the two it sends, and    *)
(* the status frames it takes from the bytes on the RS485 bus.  Byte n of  *)
(* the code is element n + 1 of a sequence.                                *)
(***************************************************************************)
EXTENDS Integers, Sequences

(***************************************************************************)
(* send: the checksum is an int that the assignment cuts to eight bits.    *)
(***************************************************************************)
\* Mutant: the high byte is missing in the checksum.
SendLowOnly(address, measurement) ==
  <<address, 86, 0, 33, measurement \div 256, measurement % 256, 128,
    (264 - (measurement % 256)) % 256>>

Send(address, measurement) ==
  LET high == measurement \div 256
      low  == measurement % 256
  IN  <<address, 86, 0, 33, high, low, 128, (264 - high - low) % 256>>

QueryStatus == <<36, 0, 0, 0, 0, 0, 0, 0>>

-----------------------------------------------------------------------------
Header == <<35, 1, 1, 0>>
ModbusLength == 4 + 10 + 1
Data(raw) == SubSeq(raw, 5, 14)

(***************************************************************************)
(* parse_soyosource_modbus_byte_, on the bytes of the buffer and the new   *)
(* one: they are the beginning of a frame, a frame, or neither.            *)
(***************************************************************************)
\* Mutant: a frame ends one byte late.
ModbusParsedLong(raw) ==
  IF Len(raw) = 4 /\ raw # Header THEN "reject"
  ELSE IF Len(raw) <= ModbusLength THEN "more"
  ELSE "frame"

ModbusParsed(raw) ==
  IF Len(raw) = 4 /\ raw # Header THEN "reject"
  ELSE IF Len(raw) < ModbusLength THEN "more"
  ELSE "frame"
=============================================================================
