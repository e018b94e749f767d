-------------------------- MODULE InverterEmulator --------------------------
(***************************************************************************)
(* The soyosource_inverter_emulator component, a stand-in for an inverter  *)
(* with the WiFi or the display protocol: which requests it takes from the *)
(* bytes it receives, and what it answers.  What it answers is fixed, but  *)
(* for a temperature that rises with every status.                         *)
(***************************************************************************)
EXTENDS DisplayProtocol

RequestLength(version) == IF version = "DISPLAY" THEN 6 ELSE 12

(***************************************************************************)
(* parse_soyosource_inverter_emulator_byte_, on the bytes of the buffer    *)
(* and the new one.                                                        *)
(***************************************************************************)
EmulatorParsed(version, raw) ==
  IF raw[1] # SOF_REQUEST THEN "reject"
  ELSE IF Len(raw) < RequestLength(version) THEN "more"
  ELSE IF raw = WithChksum(Front(raw)) THEN "frame"
  ELSE "reject"

-----------------------------------------------------------------------------
Bytes16(word) == <<word \div 256, word % 256>>

\* (operation_mode << 4) | function, assigned to a uint8_t
\* Mutant: the two nibbles change places.
ModeByteSwapped(operation_mode, function) == ((16 * function) % 256) + (operation_mode % 16)

ModeByte(operation_mode, function) == ((16 * operation_mode) % 256) + function

SendStatus(s) ==
  WithChksum(<<SOF_SOYO_RESPONSE>> \o Bytes16(s.power_demand)
    \o <<ModeByte(s.operation_mode, STATUS_COMMAND), s.operation_status>>
    \o Bytes16(s.battery_voltage) \o Bytes16(s.battery_current)
    \o Bytes16(s.ac_voltage) \o <<s.ac_frequency>> \o Bytes16(s.temperature))

SendSettings(s) ==
  WithChksum(<<SOF_SOYO_RESPONSE>> \o Bytes16(s.unknown1)
    \o <<ModeByte(s.operation_mode, SETTINGS_COMMAND), s.operation_status,
         s.device_model, s.device_type, s.start_voltage, s.shutdown_voltage>>
    \o Bytes16(s.ac_voltage) \o <<s.ac_frequency, s.max_power, s.start_delay>>)

(***************************************************************************)
(* on_wifi_version_data_ and on_display_version_data_: the values of the   *)
(* two versions, and the temperature after status_counter_ statuses.       *)
(***************************************************************************)
EmulatedStatus(version, status_counter) ==
  LET temperature == (status_counter % 80) * 10 + 200
  IN  IF version = "DISPLAY"
      THEN [power_demand |-> 257, operation_mode |-> 2, operation_status |-> 64,
            battery_voltage |-> 500, battery_current |-> 100, ac_voltage |-> 231,
            ac_frequency |-> 100, temperature |-> temperature]
      ELSE [power_demand |-> 0, operation_mode |-> 9, operation_status |-> 0,
            battery_voltage |-> 535, battery_current |-> 100, ac_voltage |-> 250,
            ac_frequency |-> 100, temperature |-> temperature]

EmulatedSettings(version) ==
  IF version = "DISPLAY"
  THEN [unknown1 |-> 257, operation_mode |-> 131, operation_status |-> 64,
        device_model |-> 212, device_type |-> 48, start_voltage |-> 52,
        shutdown_voltage |-> 49, ac_voltage |-> 235, ac_frequency |-> 100,
        max_power |-> 90, start_delay |-> 10]
  ELSE [unknown1 |-> 0, operation_mode |-> 9, operation_status |-> 0,
        device_model |-> 212, device_type |-> 48, start_voltage |-> 48,
        shutdown_voltage |-> 52, ac_voltage |-> 244, ac_frequency |-> 100,
        max_power |-> 90, start_delay |-> 6]

STATUS_ALT_COMMAND == 0
SETTINGS_ALT_COMMAND == 2

Requested(raw) ==
  CASE raw[2] \in {STATUS_ALT_COMMAND, STATUS_COMMAND} -> "status"
    [] raw[2] \in {SETTINGS_ALT_COMMAND, SETTINGS_COMMAND} -> "settings"
    [] raw[2] = WRITE_SETTINGS_COMMAND -> "write"
    [] raw[2] = REBOOT_COMMAND -> "reboot"
    [] OTHER -> "unhandled"
=============================================================================
