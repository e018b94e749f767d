-------------------------- MODULE MCFrameReceiver --------------------------
(***************************************************************************)
(* Constants of the TLC run of FrameReceiver.  The answers of the inverter *)
(* and of the MS51 dongles are those captured in comments of               *)
(* soyosource_inverter.cpp and soyosource_display.cpp.                     *)
(***************************************************************************)
EXTENDS FrameReceiver

ModbusFrames ==
  {[bytes |-> raw, means |-> Data(raw)] :
     raw \in {<<35, 1, 1, 0, 0, 1, 219, 0, 161, 0, 221, 100, 2, 202, 1>>,
              <<35, 1, 1, 0, 4, 2, 189, 0, 70, 0, 239, 100, 2, 67, 32>>}}

\* What the emulator sends a display, one tenth of a degree below and at 45 degrees.
EmulatedFrames ==
  {[bytes |-> SendStatus(EmulatedStatus("WIFI", n)),
    means |-> StatusMeaning(EmulatedStatus("WIFI", n))] : n \in {54, 55}}
  \cup {[bytes |-> SendSettings(EmulatedSettings("WIFI")),
         means |-> SettingsMeaning(EmulatedSettings("WIFI"))]}

MS51Frames ==
  {[bytes |-> <<90, 1, 209, 2, 0, 0, 0, 0, 0, 231, 50, 0, 0, 0, 0, 25, 249>>,
    means |-> [frame |-> "status", mode |-> 13, limiter_connected |-> FALSE,
               error_bitmask |-> 2, operation_status_id |-> 2, battery_voltage |-> 0,
               battery_current |-> 0, ac_voltage |-> 231, ac_frequency |-> 100,
               temperature |-> 250, fan_running |-> FALSE]],
   [bytes |-> <<90, 1, 211, 2, 212, 48, 49, 47, 0, 231, 100, 90, 0, 6, 55, 90, 137>>,
    means |-> [frame |-> "settings", mode |-> 13, StartVoltage |-> 49,
               ShutdownVoltage |-> 47, GridFrequency |-> 100, OutputPowerLimit |-> 90,
               StartDelay |-> 6]]}

MS51V2Frames ==
  {[bytes |-> <<90, 25, 81, 66, 0, 237, 0, 0, 0, 227, 50, 0, 0, 0, 3, 22, 22, 32, 25, 52,
                0, 0, 0, 27, 154>>,
    means |-> [frame |-> "status", mode |-> 5, limiter_connected |-> TRUE,
               error_bitmask |-> 2, operation_status_id |-> 2, battery_voltage |-> 237,
               battery_current |-> 0, ac_voltage |-> 227, ac_frequency |-> 100,
               temperature |-> 220, fan_running |-> FALSE]],
   [bytes |-> <<90, 23, 211, 66, 215, 24, 27, 25, 25, 8, 36, 5, 0, 10, 26, 45, 0, 0, 0, 0,
                0, 0, 0, 0, 21>>,
    means |-> [frame |-> "settings", mode |-> 13, StartVoltage |-> 27,
               ShutdownVoltage |-> 25, GridFrequency |-> -1, OutputPowerLimit |-> 5,
               StartDelay |-> 10]]}

Settings == [StartVoltage |-> 48, ShutdownVoltage |-> 45, OutputPowerLimit |-> 90,
             GridFrequency |-> 100, StartDelay |-> 6, OperationMode |-> 17]

WifiRequests ==
  {[bytes |-> SendCommandFrame("WIFI", STATUS_COMMAND), means |-> "status"],
   [bytes |-> SendCommandFrame("WIFI", SETTINGS_COMMAND), means |-> "settings"],
   [bytes |-> SendCommandFrame("WIFI", REBOOT_COMMAND), means |-> "reboot"],
   [bytes |-> WriteSettings(Settings), means |-> "write"]}

DisplayRequests ==
  {[bytes |-> SendCommandFrame("DISPLAY", STATUS_COMMAND), means |-> "status"],
   [bytes |-> SendCommandFrame("DISPLAY", SETTINGS_COMMAND), means |-> "settings"],
   [bytes |-> DisplayVersionWriteSettings("StartVoltage", Settings), means |-> "write"]}

\* A line that picks up bytes, among them start bytes, under a punctual loop;
\* a loop that may be blocked for 150 ms; and frames that follow each other closely.
Noisy(receiver, version, frames, noise) ==
  [receiver |-> receiver, version |-> version, frames |-> frames, noise |-> noise,
   loop_delay |-> 1, quiet |-> 4, max_faults |-> 1]
Blocked(receiver, version, frames) ==
  [receiver |-> receiver, version |-> version, frames |-> frames, noise |-> {},
   loop_delay |-> 6, quiet |-> 9, max_faults |-> 3]
Close(receiver, version, frames, noise) ==
  [receiver |-> receiver, version |-> version, frames |-> frames, noise |-> noise,
   loop_delay |-> 1, quiet |-> 1, max_faults |-> 1]

MCConditions ==
  {Noisy("modbus", "WIFI", ModbusFrames, {0, 35}),
   Blocked("modbus", "WIFI", ModbusFrames),
   [Blocked("display", "WIFI", MS51Frames \cup MS51V2Frames) EXCEPT !.max_faults = 2],
   Noisy("display", "WIFI", EmulatedFrames, {0, 166}),
   Close("display", "WIFI", EmulatedFrames, {0, 90}),
   Noisy("display", "WIFI", MS51Frames, {90}),
   Noisy("display", "WIFI", MS51V2Frames, {25}),
   Close("display", "WIFI", MS51V2Frames, {}),
   Noisy("emulator", "WIFI", WifiRequests, {85}),
   Blocked("emulator", "WIFI", WifiRequests),
   Close("emulator", "DISPLAY", DisplayRequests, {1, 85})}

(***************************************************************************)
(* ReadAsMeant, the hypothesis of the theorems in FrameReceiverProofs, for *)
(* the captured frames and the requests; of the emulator's answers it is   *)
(* proved there.                                                           *)
(***************************************************************************)
ASSUME CapturedFramesReadAsMeant ==
  \A c \in Conditions : c.frames # EmulatedFrames =>
    \A f \in c.frames : ReadAs(c.receiver, f)
=============================================================================
