--------------------------- MODULE DisplayProtocol ---------------------------
(***************************************************************************)
(* The frames of the soyosource_display component: the requests it sends   *)
(* to an inverter or its dongle, how it takes the answers from the bytes   *)
(* it receives, and what it reads from them.  The three kinds of answers   *)
(* differ in length and layout: SOYO, from the inverter itself or its old  *)
(* dongle, MS51 from a newer dongle, and the longer V2 frames of MS51.     *)
(***************************************************************************)
EXTENDS Integers, Sequences, SequencesExt

\* data[i] of the code
At(data, i) == data[i + 1]
Word(data, i) == 256 * At(data, i) + At(data, i + 1)

Bit6 == 64
HighNibble(byte) == byte \div 16
LowNibble(byte) == byte % 16

(***************************************************************************)
(* chksum: from 0xFF, all bytes but the first one subtracted in uint8_t.   *)
(***************************************************************************)
Chksum(data) ==
  LET sum[i \in 1 .. Len(data)] == IF i = 1 THEN 255 ELSE (sum[i - 1] - data[i]) % 256
  IN  sum[Len(data)]

WithChksum(data) == Append(data, Chksum(data))

-----------------------------------------------------------------------------
(***************************************************************************)
(* The requests.                                                           *)
(***************************************************************************)
SOF_REQUEST == 85
STATUS_COMMAND == 1
SETTINGS_COMMAND == 3
REBOOT_COMMAND == 17
WRITE_SETTINGS_COMMAND == 11

DisplayVersionSendCommand(function, value1, value2, value3) ==
  WithChksum(<<SOF_REQUEST, function, value1, value2, value3>>)

SendCommandFrame(version, function) ==
  IF version = "DISPLAY" THEN DisplayVersionSendCommand(function, 0, 0, 0)
  ELSE WithChksum(<<SOF_REQUEST, function, 0, 0, 0, 0, 0, 0, 0, 0, 0>>)

\* settings is a record of the fields of SoyosourceSettingsFrameT
WriteSettings(settings) ==
  WithChksum(<<SOF_REQUEST, WRITE_SETTINGS_COMMAND,
               settings.StartVoltage, settings.ShutdownVoltage,
               settings.OutputPowerLimit, settings.GridFrequency, 0, 0, 0,
               settings.StartDelay, settings.OperationMode>>)

DisplayVersionWriteSettings(register, settings) ==
  CASE register \in {"StartVoltage", "ShutdownVoltage"} ->
         DisplayVersionSendCommand(11, settings.StartVoltage, settings.ShutdownVoltage, 0)
    [] register = "OutputPowerLimit" ->
         DisplayVersionSendCommand(19, settings.OutputPowerLimit, settings.GridFrequency, 0)
    [] register = "StartDelay" ->
         DisplayVersionSendCommand(131, settings.StartDelay, 0, 0)
    [] register = "OperationMode" ->
         DisplayVersionSendCommand(3, 0, 0, settings.OperationMode)

-----------------------------------------------------------------------------
(***************************************************************************)
(* parse_soyosource_display_byte_, on the bytes of the buffer and the new  *)
(* one.                                                                    *)
(***************************************************************************)
SOF_SOYO_RESPONSE == 166
SOF_MS51_RESPONSE == 90
MS51_V2_SETTINGS == 23
MS51_V2_STATUS == 25

ResponseLength(raw) ==
  IF raw[1] = SOF_SOYO_RESPONSE THEN 15
  ELSE IF raw[2] \in {MS51_V2_SETTINGS, MS51_V2_STATUS} THEN 25
  ELSE 17

\* Mutant: the checksum is not compared.
DisplayParsedUnchecked(raw) ==
  IF raw[1] \notin {SOF_SOYO_RESPONSE, SOF_MS51_RESPONSE} THEN "reject"
  ELSE IF Len(raw) = 1 \/ Len(raw) < ResponseLength(raw) THEN "more"
  ELSE "frame"

DisplayParsed(raw) ==
  IF raw[1] \notin {SOF_SOYO_RESPONSE, SOF_MS51_RESPONSE} THEN "reject"
  ELSE IF Len(raw) = 1 \/ Len(raw) < ResponseLength(raw) THEN "more"
  ELSE IF raw = WithChksum(Front(raw)) THEN "frame"
  ELSE "reject"

-----------------------------------------------------------------------------
(***************************************************************************)
(* The status: what is published of the mode byte, the bitmask, the raw    *)
(* voltage and current, the grid frequency in half hertz and the           *)
(* temperature in tenths of a degree, from which fan_running follows.      *)
(***************************************************************************)
Status(mode, bitmask, data, voltages, ac_frequency, temperature) ==
  LET errors == IF (bitmask \div Bit6) % 2 = 1 THEN bitmask - Bit6 ELSE bitmask
  IN  [frame |-> "status", mode |-> HighNibble(mode),
       limiter_connected |-> errors # bitmask, error_bitmask |-> errors,
       operation_status_id |-> IF errors = 0 THEN 0 ELSE 2,
       battery_voltage |-> Word(data, voltages),
       battery_current |-> Word(data, voltages + 2),
       ac_voltage |-> Word(data, voltages + 4),
       ac_frequency |-> ac_frequency, temperature |-> temperature,
       fan_running |-> temperature >= 450]

Empty(frame) == [frame |-> frame, empty |-> TRUE]

\* Mutant: the temperature is read as a signed offset from 30 degrees.
SoyosourceStatusUnshifted(data) ==
  Status(At(data, 3), At(data, 4), data, 5, At(data, 11), Word(data, 12) + 300)

\* on_soyosource_status_data_
SoyosourceStatus(data) ==
  Status(At(data, 3), At(data, 4), data, 5, At(data, 11), Word(data, 12) - 300)

\* on_ms51_status_data_
MS51Status(data) ==
  IF Word(data, 8) = 0 /\ At(data, 15) = 0 THEN Empty("status")
  ELSE Status(At(data, 2), At(data, 3), data, 4, 2 * At(data, 10), 10 * At(data, 15))

(***************************************************************************)
(* The settings, with -1 for a frequency the frame does not tell.          *)
(***************************************************************************)
SettingsOf(mode, start_voltage, shutdown_voltage, frequency, limit, delay) ==
  [frame |-> "settings", mode |-> HighNibble(mode),
   StartVoltage |-> start_voltage, ShutdownVoltage |-> shutdown_voltage,
   GridFrequency |-> frequency, OutputPowerLimit |-> limit, StartDelay |-> delay]

\* on_soyosource_settings_data_
SoyosourceSettings(data) ==
  SettingsOf(At(data, 3), At(data, 7), At(data, 8), At(data, 11), At(data, 12), At(data, 13))

\* on_ms51_settings_data_
MS51Settings(data) ==
  IF At(data, 4) = 0 /\ At(data, 5) = 0 THEN Empty("settings")
  ELSE SettingsOf(At(data, 2), At(data, 6), At(data, 7), At(data, 10), At(data, 11),
                  At(data, 13))

\* on_ms51_v2_settings_data_
MS51V2Settings(data) ==
  IF At(data, 4) = 0 /\ At(data, 5) = 0 THEN Empty("settings")
  ELSE SettingsOf(At(data, 2), At(data, 6), At(data, 7), -1, At(data, 11), At(data, 13))

Unhandled == [frame |-> "unhandled"]

(***************************************************************************)
(* on_soyosource_display_data_: what becomes of a frame.  A V2 frame of    *)
(* settings is known by its type, whatever its function.                   *)
(***************************************************************************)
OnMS51Data(data) ==
  LET function == LowNibble(At(data, 2))
  IN  IF At(data, 1) = MS51_V2_SETTINGS THEN MS51V2Settings(data)
      ELSE CASE function = STATUS_COMMAND -> MS51Status(data)
             [] function = SETTINGS_COMMAND -> MS51Settings(data)
             [] OTHER -> Unhandled

OnSoyosourceData(data) ==
  LET function == LowNibble(At(data, 3))
  IN  CASE function = STATUS_COMMAND -> SoyosourceStatus(data)
        [] function = SETTINGS_COMMAND -> SoyosourceSettings(data)
        [] OTHER -> Unhandled

OnDisplayData(data) ==
  IF data[1] = SOF_MS51_RESPONSE THEN OnMS51Data(data) ELSE OnSoyosourceData(data)
=============================================================================
