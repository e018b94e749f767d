---------------------------- MODULE FrameReceiver ----------------------------
(***************************************************************************)
(* The receivers of soyosource_modbus, soyosource_display and              *)
(* soyosource_inverter_emulator.  They share their loop(): it takes the    *)
(* bytes the UART has collected, forgets a frame that stopped arriving,    *)
(* and hands each complete frame to its handler.  They differ in what they *)
(* take for a frame: on the RS485 bus the checksum is not verified, so all *)
(* that keeps two answers apart there is the silence between them.         *)
(*                                                                         *)
(* External: one frame is on the line at a time; a byte of it may get lost *)
(* (on the bus, when the controller transmits over it), and the line may   *)
(* pick up a spurious byte: these are its faults.  loop() may be late,     *)
(* since every component shares the main loop.                             *)
(***************************************************************************)
EXTENDS SoyosourceModbus, InverterEmulator

CONSTANTS
  Conditions,   \* the conditions considered, see below
  Devices,      \* the addresses of the devices registered on the bus
  Gap,          \* 50 ms, in ticks
  FrameTime,    \* the time a frame takes on the line
  MaxStatuses   \* bound on the statuses the emulator answers

Bytes == 0 .. 255

Receivers == {"modbus", "display", "emulator"}

(***************************************************************************)
(* Under which conditions a receiver works: which one it is, and in which  *)
(* protocol version; the frames sent to it, each with its meaning; the     *)
(* spurious bytes the line may pick up; the longest time between two calls *)
(* of loop, and the shortest between two frames; and a bound on the faults.*)
(***************************************************************************)
ASSUME LineAssumption ==
  /\ \A c \in Conditions :
       /\ c.receiver \in Receivers /\ c.version \in {"WIFI", "DISPLAY"}
       /\ \A f \in c.frames : f.bytes \in Seq(Bytes) /\ Len(f.bytes) > 4
       /\ c.noise \subseteq Bytes
       /\ {c.loop_delay, c.quiet, c.max_faults} \subseteq Nat
  /\ {Gap, FrameTime, MaxStatuses} \subseteq Nat
  /\ FrameTime <= Gap

(***************************************************************************)
(* The frames are frames of the receiver's protocol: they have its start,  *)
(* its length and, where there is one, the right checksum.                 *)
(***************************************************************************)
ASSUME FramesAssumption ==
  \A c \in Conditions : \A f \in c.frames :
    /\ c.receiver = "modbus" =>
         Len(f.bytes) = ModbusLength /\ SubSeq(f.bytes, 1, 4) = Header
    /\ c.receiver = "display" =>
         /\ f.bytes[1] \in {SOF_SOYO_RESPONSE, SOF_MS51_RESPONSE}
         /\ Len(f.bytes) = ResponseLength(f.bytes)
    /\ c.receiver = "emulator" =>
         f.bytes[1] = SOF_REQUEST /\ Len(f.bytes) = RequestLength(c.version)
    /\ c.receiver # "modbus" => f.bytes = WithChksum(Front(f.bytes))

VARIABLES
  conditions,      \* external: one of Conditions, for ever
  rx_buffer,       \* rx_buffer_
  since_byte,      \* now - last_byte_, up to Gap + 1
  since_loop,      \* ticks since the last call of loop
  status_counter,  \* status_counter_ of the emulator
  fifo,            \* external: bytes the UART holds
  frame,           \* external: the last frame on the line, and its meaning
  sent,            \* external: how many of its bytes have been sent
  on_line,         \* external: ticks since its start
  silence,         \* external: ticks since the last byte, up to Quiet
  noisy,           \* external: that byte was spurious
  faults,          \* external: how many faults there were
  intact,          \* history: nothing disturbed the frame
  handled          \* history: what the handlers saw since its start

receiver_vars == <<rx_buffer, since_byte, status_counter, handled>>
line_vars == <<conditions, frame, sent, on_line, silence, noisy, faults, intact>>
vars == <<receiver_vars, since_loop, fifo, line_vars>>

Receiver   == conditions.receiver
Version    == conditions.version
Frames     == conditions.frames
NoiseBytes == conditions.noise
LoopDelay  == conditions.loop_delay
Quiet      == conditions.quiet
MaxFaults  == conditions.max_faults

NoFrame == [bytes |-> <<>>, means |-> <<>>]

Init ==
  /\ rx_buffer = <<>> /\ since_byte = 0 /\ since_loop = 0 /\ status_counter = 0
  /\ fifo = <<>>
  /\ conditions \in Conditions
  /\ frame = NoFrame /\ sent = 0 /\ on_line = 0 /\ faults = 0
  /\ silence = 0 /\ noisy = FALSE
  /\ intact = FALSE /\ handled = <<>>

-----------------------------------------------------------------------------
(***************************************************************************)
(* What a handler makes of a frame: the bus gives the data to the devices  *)
(* at its address, the display publishes them.  What the emulator does is  *)
(* told by the request and by what a display makes of the answer.          *)
(***************************************************************************)
Reaction(request, counter) ==
  CASE request = "status" ->
         OnDisplayData(SendStatus(EmulatedStatus(Version, counter)))
    [] request = "settings" -> OnDisplayData(SendSettings(EmulatedSettings(Version)))
    [] OTHER -> [frame |-> request]

Handled(raw, counter) ==
  CASE Receiver = "modbus" -> IF raw[1] \in Devices THEN <<Data(raw)>> ELSE <<>>
    [] Receiver = "display" -> <<OnDisplayData(raw)>>
    [] Receiver = "emulator" -> <<Reaction(Requested(raw), counter)>>

Parsed(raw) ==
  CASE Receiver = "modbus" -> ModbusParsed(raw)
    [] Receiver = "display" -> DisplayParsed(raw)
    [] Receiver = "emulator" -> EmulatorParsed(Version, raw)

Counts(raw) == Receiver = "emulator" /\ Requested(raw) = "status"

(***************************************************************************)
(* One byte of loop(): state is the receiver as a record of the buffer,    *)
(* whether a byte was accepted, what was handled, and status_counter_.     *)
(***************************************************************************)
Received(state, byte) ==
  LET raw == Append(state.buffer, byte)
  IN  CASE Parsed(raw) = "more" -> [state EXCEPT !.buffer = raw, !.accepted = TRUE]
        [] Parsed(raw) = "reject" -> [state EXCEPT !.buffer = <<>>]
        [] Parsed(raw) = "frame" ->
             [state EXCEPT !.buffer = <<>>,
                           !.handled = @ \o Handled(raw, state.counter),
                           !.counter = IF Counts(raw) THEN @ + 1 ELSE @]

\* Mutant: a frame that stopped arriving is never forgotten.
KeptForever == rx_buffer

Kept == IF since_byte > Gap THEN <<>> ELSE rx_buffer

\* The bytes of the UART, one after another.
ReadAll(start) ==
  LET after[n \in 0 .. Len(fifo)] ==
        IF n = 0 THEN start ELSE Received(after[n - 1], fifo[n])
  IN  after[Len(fifo)]

(***************************************************************************)
(* loop(): both the reset and an accepted byte set the time stamp to the   *)
(* time loop was called.                                                   *)
(***************************************************************************)
Loop ==
  LET end == ReadAll([buffer |-> Kept, accepted |-> FALSE, handled |-> handled,
                      counter |-> status_counter])
  IN  /\ rx_buffer' = end.buffer
      /\ since_byte' = IF since_byte > Gap \/ end.accepted THEN 0 ELSE since_byte
      /\ handled' = end.handled
      /\ status_counter' = end.counter
      /\ fifo' = <<>>
      /\ since_loop' = 0
      /\ UNCHANGED line_vars

-----------------------------------------------------------------------------
(***************************************************************************)
(* What a frame should mean to its receiver.  An answer of the emulator    *)
(* means the values it was made from: the operation mode is a nibble, and  *)
(* the temperature is sent as tenths of a degree above -30 degrees.        *)
(***************************************************************************)
StatusMeaning(s) ==
  LET connected == s.operation_status = Bit6
  IN  [frame |-> "status", mode |-> s.operation_mode % 16,
       limiter_connected |-> connected, error_bitmask |-> 0, operation_status_id |-> 0,
       battery_voltage |-> s.battery_voltage, battery_current |-> s.battery_current,
       ac_voltage |-> s.ac_voltage, ac_frequency |-> s.ac_frequency,
       temperature |-> s.temperature - 300, fan_running |-> s.temperature >= 750]

SettingsMeaning(s) ==
  [frame |-> "settings", mode |-> s.operation_mode % 16,
   StartVoltage |-> s.start_voltage, ShutdownVoltage |-> s.shutdown_voltage,
   GridFrequency |-> s.ac_frequency, OutputPowerLimit |-> s.max_power,
   StartDelay |-> s.start_delay]

Meaning(f, counter) ==
  IF Receiver # "emulator" THEN f.means
  ELSE CASE f.means = "status" -> StatusMeaning(EmulatedStatus(Version, counter))
         [] f.means = "settings" -> SettingsMeaning(EmulatedSettings(Version))
         [] OTHER -> [frame |-> f.means]

StatusAsked(f) == Receiver = "emulator" /\ f.means = "status"

(***************************************************************************)
(* The line.  A spurious byte makes the silence start again.  A frame may  *)
(* pause after its first bytes, in the middle and before its checksum.     *)
(***************************************************************************)
Length == Len(frame.bytes)
Sending == sent < Length
Pauses == {1, 4, (Length \div 2) + 2, Length - 1, Length}

FrameStarts ==
  /\ ~Sending
  /\ silence >= Quiet \/ noisy
  /\ \E f \in Frames :
       /\ StatusAsked(f) => status_counter < MaxStatuses
       /\ frame' = [bytes |-> f.bytes, means |-> Meaning(f, status_counter)]
  /\ sent' = 0 /\ on_line' = 0
  /\ intact' = ~noisy
  /\ handled' = <<>>
  /\ UNCHANGED <<rx_buffer, since_byte, status_counter, since_loop, fifo, conditions,
                 silence, noisy, faults>>

LineUsed ==
  /\ Sending
  /\ silence' = 0
  /\ noisy' = FALSE
  /\ UNCHANGED <<receiver_vars, since_loop, conditions, frame, on_line>>

BytesArrive ==
  /\ LineUsed
  /\ sent' \in {n \in Pauses : n > sent}
  /\ fifo' = fifo \o SubSeq(frame.bytes, sent + 1, sent')
  /\ UNCHANGED <<faults, intact>>

ByteLost ==
  /\ LineUsed
  /\ faults < MaxFaults
  /\ sent' = sent + 1
  /\ faults' = faults + 1
  /\ intact' = FALSE
  /\ UNCHANGED fifo

Noise ==
  /\ silence > 0 \/ Sending
  /\ faults < MaxFaults
  /\ \E byte \in NoiseBytes : fifo' = Append(fifo, byte)
  /\ faults' = faults + 1
  /\ silence' = 0
  /\ noisy' = TRUE
  /\ intact' = FALSE
  /\ UNCHANGED <<receiver_vars, since_loop, conditions, frame, sent, on_line>>

(***************************************************************************)
(* Time passes, within the delays of the main loop and of the sender.      *)
(***************************************************************************)
Tick ==
  /\ since_loop < LoopDelay
  /\ Sending => on_line < FrameTime
  /\ since_loop' = since_loop + 1
  /\ since_byte' = IF since_byte <= Gap THEN since_byte + 1 ELSE since_byte
  /\ on_line' = IF Sending THEN on_line + 1 ELSE on_line
  /\ silence' = IF silence < Quiet THEN silence + 1 ELSE silence
  /\ noisy' = (noisy /\ silence' < Quiet)
  /\ UNCHANGED <<rx_buffer, status_counter, fifo, conditions, frame, sent, faults,
                 intact, handled>>

Next ==
  Loop \/ FrameStarts \/ BytesArrive \/ ByteLost \/ Noise \/ Tick

Spec == Init /\ [][Next]_vars

-----------------------------------------------------------------------------
LongestFrame ==
  CASE Receiver = "modbus" -> ModbusLength
    [] Receiver = "display" -> 25
    [] Receiver = "emulator" -> RequestLength(Version)

\* Types; the bytes that wait in the buffer are always fewer than a frame has.
TypeOK ==
  /\ rx_buffer \in Seq(Bytes) /\ Len(rx_buffer) < LongestFrame
  /\ since_byte \in 0 .. Gap + 1
  /\ since_loop \in 0 .. LoopDelay
  /\ status_counter \in Nat
  /\ fifo \in Seq(Bytes)
  /\ frame.bytes \in {<<>>} \cup {f.bytes : f \in Frames}
  /\ sent \in 0 .. Length /\ on_line \in 0 .. FrameTime
  /\ silence \in 0 .. Quiet /\ faults \in 0 .. MaxFaults
  /\ conditions \in Conditions
  /\ noisy \in BOOLEAN /\ intact \in BOOLEAN

(***************************************************************************)
(* Whatever was lost or picked up before, after a pause an undisturbed     *)
(* frame that a punctual loop receives reaches its handler, once, as soon  *)
(* as loop has read its last byte, and means to the receiver what its      *)
(* sender meant.  A frame and a call of loop fit into the 50 ms, and the   *)
(* pause outlasts both.                                                    *)
(***************************************************************************)
Punctual == FrameTime + LoopDelay <= Gap /\ Quiet > Gap + LoopDelay

IntactFrameHandled ==
  Punctual /\ intact /\ ~Sending /\ fifo = <<>> => handled = <<frame.means>>

(***************************************************************************)
(* The handler reads from the bytes of a frame what its sender meant.  For *)
(* frames captured from dongles and inverters this is a matter of their    *)
(* bytes.                                                                  *)
(***************************************************************************)
ReadAs(receiver, f) ==
  /\ receiver = "modbus" => f.bytes[1] \in Devices /\ f.means = Data(f.bytes)
  /\ receiver = "display" => f.means = OnDisplayData(f.bytes)
  /\ receiver = "emulator" => f.means = Requested(f.bytes)

ReadAsMeant == \A c \in Conditions : \A f \in c.frames : ReadAs(c.receiver, f)

(***************************************************************************)
(* However late loop is and whatever bytes are lost, a frame is handled    *)
(* once or not at all, and no handler is given bytes of two frames or of a *)
(* part of one, as long as the pause between two frames outlasts the 50 ms *)
(* by more than loop may be late: a call of loop then finds the buffer     *)
(* old.  (A byte too many may shift a frame on the RS485 bus, where nothing*)
(* verifies the checksum.)                                                 *)
(***************************************************************************)
NoMixedFrame ==
  NoiseBytes = {} /\ Quiet > Gap + LoopDelay =>
    handled = <<>> \/ handled = <<frame.means>>

(***************************************************************************)
(* Where the checksum is verified, no handler reads anything but what was  *)
(* sent, even if the frames follow each other without a pause and one of   *)
(* them lost a byte or got one too many.  The checksum is a plain sum,     *)
(* which leaves two gaps: it takes a lost byte for the start byte of the   *)
(* next frame, if they are equal, and a byte too many for the checksum.    *)
(***************************************************************************)
Detectable ==
  /\ MaxFaults <= 1
  /\ \A f \in Frames :
       /\ Last(f.bytes) \notin NoiseBytes
       /\ f.bytes[1] \notin Range(Tail(f.bytes))

MeansWhatWasSent(reaction) ==
  \E f \in Frames : IF Receiver = "display" THEN reaction = f.means
                    ELSE reaction.frame = f.means

OnlySentFrames ==
  Receiver # "modbus" /\ Detectable =>
    \A i \in DOMAIN handled :
      handled[i] # Unhandled => MeansWhatWasSent(handled[i])
=============================================================================
