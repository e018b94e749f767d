------------------------ MODULE FrameReceiverProofs ------------------------
(***************************************************************************)
(* Theorems about FrameReceiver, for frames of any number and content,     *)
(* any delays and any number of faults.                                    *)
(***************************************************************************)
EXTENDS FrameReceiver, SequenceTheorems, WellFoundedInduction, TLAPS

(***************************************************************************)
(* The state of a receiver while loop() reads: one byte more.              *)
(***************************************************************************)
IsState(s) ==
  s = [buffer |-> s.buffer, accepted |-> s.accepted, handled |-> s.handled,
       counter |-> s.counter]

LEMMA OneByte ==
  ASSUME NEW s, IsState(s), NEW byte, NEW raw, raw = Append(s.buffer, byte)
  PROVE  /\ Parsed(raw) = "more" =>
              Received(s, byte) = [buffer |-> raw, accepted |-> TRUE,
                                   handled |-> s.handled, counter |-> s.counter]
         /\ Parsed(raw) = "reject" =>
              Received(s, byte) = [buffer |-> <<>>, accepted |-> s.accepted,
                                   handled |-> s.handled, counter |-> s.counter]
         /\ Parsed(raw) = "frame" =>
              Received(s, byte) =
                [buffer |-> <<>>, accepted |-> s.accepted,
                 handled |-> s.handled \o Handled(raw, s.counter),
                 counter |-> IF Counts(raw) THEN s.counter + 1 ELSE s.counter]
<1>1. CASE Parsed(raw) = "more"
  BY <1>1 DEF Received, IsState
<1>2. CASE Parsed(raw) = "reject"
  BY <1>2 DEF Received, IsState
<1>3. CASE Parsed(raw) = "frame"
  BY <1>3 DEF Received, IsState
<1> QED
  BY <1>1, <1>2, <1>3

(***************************************************************************)
(* The recursion over the bytes of the UART is a function, which steps     *)
(* through the states of the receiver.  The library's induction theorems   *)
(* take an operator; the least index at which a fact fails serves as well. *)
(***************************************************************************)
LEMMA LeastOf ==
  ASSUME NEW T \in SUBSET Nat, T # {}
  PROVE  \E n \in T : \A m \in T : n <= m
<1> DEFINE Less == OpToRel(<, Nat)
<1>1. Less = {ss \in Nat \X Nat : ss[1] < ss[2]}
  BY DEF OpToRel
<1>2. IsWellFoundedOn(Less, Nat)
  BY NatLessThanWellFounded
<1> HIDE DEF Less
<1>3. PICK n \in T : \A m \in T : <<m, n>> \notin Less
  BY <1>2, WFMin
<1>4. ASSUME NEW m \in T, m < n PROVE FALSE
  <2>1. <<m, n>> \in Nat \X Nat /\ <<m, n>>[1] < <<m, n>>[2]
    BY <1>4
  <2>2. <<m, n>> \in Less
    BY <1>1, <2>1, Zenon
  <2> QED
    BY <1>3, <2>2
<1>5. \A m \in T : n \in Nat /\ m \in Nat /\ ~(m < n)
  BY <1>4
<1> QED
  BY <1>5

Reading(start, n, g) ==
  g = [i \in 0 .. n |-> IF i = 0 THEN start ELSE Received(g[i - 1], fifo[i])]

LEMMA ReadAllUnfolds ==
  ASSUME NEW X, fifo \in Seq(X), NEW start
  PROVE  \E g : Reading(start, Len(fifo), g) /\ ReadAll(start) = g[Len(fifo)]
<1> DEFINE N == Len(fifo)
           Missing == {n \in 0 .. N : ~ \E g : Reading(start, n, g)}
<1>0. N \in Nat
  OBVIOUS
<1> HIDE DEF N
<1>1. Missing = {}
  <2>1. SUFFICES ASSUME Missing # {} PROVE FALSE
    OBVIOUS
  <2>2. PICK n \in Missing : \A m \in Missing : n <= m
    <3>1. Missing \in SUBSET Nat
      BY <1>0
    <3> QED
      BY <2>1, <3>1, LeastOf
  <2>3. n \in 0 .. N /\ ~ \E g : Reading(start, n, g)
    OBVIOUS
  <2>4. n # 0
    <3> DEFINE g == [i \in 0 .. 0 |-> start]
    <3>1. Reading(start, 0, g)
      BY DEF Reading
    <3> QED
      BY <2>3, <3>1
  <2>5. n - 1 \in 0 .. N /\ n - 1 \notin Missing
    BY <1>0, <2>2, <2>3, <2>4
  <2>6. PICK g : Reading(start, n - 1, g)
    BY <2>5
  <2> DEFINE h == [i \in 0 .. n |-> IF i = n THEN Received(g[n - 1], fifo[n]) ELSE g[i]]
  <2>7. ASSUME NEW i \in 0 .. n
        PROVE  h[i] = IF i = 0 THEN start ELSE Received(h[i - 1], fifo[i])
    <3>1. CASE i = n
      BY <1>0, <2>3, <2>4, <3>1
    <3>2. CASE i # n
      <4>1. i \in 0 .. n - 1 /\ h[i] = g[i] /\ (i # 0 => h[i - 1] = g[i - 1])
        BY <1>0, <2>3, <3>2
      <4>2. g[i] = IF i = 0 THEN start ELSE Received(g[i - 1], fifo[i])
        BY <2>6, <4>1 DEF Reading
      <4> QED
        BY <4>1, <4>2
    <3> QED
      BY <3>1, <3>2
  <2>8. Reading(start, n, h)
    BY <2>7 DEF Reading
  <2> QED
    BY <2>3, <2>8
<1>2. \E g : Reading(start, N, g)
  <2>1. N \in 0 .. N
    BY <1>0
  <2>2. N \notin Missing
    BY <1>1, Zenon
  <2> QED
    BY <2>1, <2>2
<1>3. ReadAll(start) = (CHOOSE g : Reading(start, N, g))[N]
  BY DEF ReadAll, Reading, N
<1> QED
  BY <1>2, <1>3 DEF N

-----------------------------------------------------------------------------
(***************************************************************************)
(* Type correctness.                                                       *)
(***************************************************************************)
LEMMA LineFacts ==
  ASSUME conditions \in Conditions
  PROVE  /\ Receiver \in Receivers /\ Version \in {"WIFI", "DISPLAY"}
         /\ \A f \in Frames : f.bytes \in Seq(Bytes) /\ Len(f.bytes) > 4
         /\ NoiseBytes \subseteq Bytes
         /\ LoopDelay \in Nat /\ Quiet \in Nat /\ MaxFaults \in Nat
         /\ Gap \in Nat /\ FrameTime \in Nat /\ FrameTime <= Gap
  BY LineAssumption DEF Receiver, Version, Frames, NoiseBytes, LoopDelay, Quiet, MaxFaults

LEMMA ParsedFacts ==
  ASSUME conditions \in Conditions, NEW raw \in Seq(Bytes), raw # <<>>
  PROVE  /\ Parsed(raw) \in {"more", "reject", "frame"}
         /\ Parsed(raw) = "more" => Len(raw) < LongestFrame
<1>1. CASE Receiver = "modbus"
  BY <1>1 DEF Parsed, ModbusParsed, LongestFrame
<1>2. CASE Receiver = "display"
  <2>1. ResponseLength(raw) \in {15, 17, 25}
    BY DEF ResponseLength
  <2> QED
    BY <1>2, <2>1 DEF Parsed, DisplayParsed, LongestFrame
<1>3. CASE Receiver = "emulator"
  BY <1>3 DEF Parsed, EmulatorParsed, LongestFrame
<1> QED
  BY <1>1, <1>2, <1>3, LineFacts DEF Receivers

LEMMA LongestFramePositive ==
  ASSUME conditions \in Conditions
  PROVE  LongestFrame \in Nat \ {0}
<1>1. CASE Receiver = "modbus"
  BY <1>1 DEF LongestFrame, ModbusLength
<1>2. CASE Receiver = "display"
  BY <1>2 DEF LongestFrame
<1>3. CASE Receiver = "emulator"
  BY <1>3 DEF LongestFrame, RequestLength
<1> QED
  BY <1>1, <1>2, <1>3, LineFacts DEF Receivers

StateTyped(s) ==
  /\ IsState(s)
  /\ s.buffer \in Seq(Bytes) /\ Len(s.buffer) < LongestFrame
  /\ s.counter \in Nat

LEMMA OneByteTyped ==
  ASSUME conditions \in Conditions, NEW s, StateTyped(s), NEW byte \in Bytes
  PROVE  StateTyped(Received(s, byte))
<1>1. PICK raw : raw = Append(s.buffer, byte)
  OBVIOUS
<1>2. raw \in Seq(Bytes) /\ raw # <<>>
  BY <1>1 DEF StateTyped
<1>3. 0 < LongestFrame
  BY LongestFramePositive
<1> DEFINE t == Received(s, byte)
<1>4. IsState(t) /\ t.buffer \in {raw, <<>>} /\ t.counter \in {s.counter, s.counter + 1}
      /\ (t.buffer = raw => Parsed(raw) = "more")
  <2>1. CASE Parsed(raw) = "more"
    <3>1. t = [buffer |-> raw, accepted |-> TRUE, handled |-> s.handled,
               counter |-> s.counter]
      BY <1>1, <2>1, OneByte DEF StateTyped
    <3> QED
      BY <2>1, <3>1 DEF IsState
  <2>2. CASE Parsed(raw) = "reject"
    <3>1. t = [buffer |-> <<>>, accepted |-> s.accepted, handled |-> s.handled,
               counter |-> s.counter]
      BY <1>1, <2>2, OneByte DEF StateTyped
    <3> QED
      BY <1>2, <3>1 DEF IsState
  <2>3. CASE Parsed(raw) = "frame"
    <3>1. t = [buffer |-> <<>>, accepted |-> s.accepted,
               handled |-> s.handled \o Handled(raw, s.counter),
               counter |-> IF Counts(raw) THEN s.counter + 1 ELSE s.counter]
      BY <1>1, <2>3, OneByte DEF StateTyped
    <3> QED
      BY <1>2, <3>1 DEF IsState
  <2> QED
    BY <1>2, <2>1, <2>2, <2>3, ParsedFacts
<1> HIDE DEF t
<1>5. t.buffer \in Seq(Bytes) /\ Len(t.buffer) < LongestFrame
  <2>1. CASE t.buffer = raw
    <3>1. Len(raw) < LongestFrame
      BY <1>2, <1>4, <2>1, ParsedFacts
    <3> QED
      BY <1>2, <2>1, <3>1
  <2>2. CASE t.buffer = <<>>
    <3>1. Len(<<>>) = 0 /\ <<>> \in Seq(Bytes)
      OBVIOUS
    <3> QED
      BY <1>3, <2>2, <3>1
  <2> QED
    BY <1>4, <2>1, <2>2
<1>6. t.counter \in Nat
  BY <1>4 DEF StateTyped
<1> QED
  BY <1>4, <1>5, <1>6 DEF StateTyped, t

LEMMA ReadAllTyped ==
  ASSUME conditions \in Conditions, fifo \in Seq(Bytes), NEW start, StateTyped(start)
  PROVE  StateTyped(ReadAll(start))
<1>0. Len(fifo) \in Nat
  OBVIOUS
<1>1. PICK g : Reading(start, Len(fifo), g) /\ ReadAll(start) = g[Len(fifo)]
  BY ReadAllUnfolds
<1> DEFINE Wrong == {n \in 0 .. Len(fifo) : ~StateTyped(g[n])}
<1>2. SUFFICES ASSUME Wrong # {} PROVE FALSE
  BY <1>0, <1>1
<1>3. PICK n \in Wrong : \A m \in Wrong : n <= m
  <2>1. Wrong \in SUBSET Nat
    BY <1>0
  <2> QED
    BY <1>2, <2>1, LeastOf
<1>4. n # 0
  BY <1>0, <1>1 DEF Reading
<1>5. n - 1 \in 0 .. Len(fifo) /\ n - 1 \notin Wrong
  BY <1>0, <1>3, <1>4
<1>6. g[n] = Received(g[n - 1], fifo[n]) /\ fifo[n] \in Bytes
  BY <1>0, <1>1, <1>4 DEF Reading
<1> QED
  BY <1>5, <1>6, OneByteTyped

LEMMA ReceiverInit == Init => TypeOK
<1> SUFFICES ASSUME Init PROVE TypeOK
  OBVIOUS
<1>1. /\ rx_buffer = <<>> /\ since_byte = 0 /\ since_loop = 0 /\ status_counter = 0
      /\ fifo = <<>> /\ frame = NoFrame /\ sent = 0 /\ on_line = 0 /\ faults = 0
      /\ silence = 0 /\ conditions \in Conditions
  BY DEF Init
<1>2. noisy \in BOOLEAN /\ intact \in BOOLEAN
  BY DEF Init
<1>3. rx_buffer \in Seq(Bytes) /\ Len(rx_buffer) < LongestFrame /\ fifo \in Seq(Bytes)
  BY <1>1, LongestFramePositive
<1>4. frame.bytes = <<>> /\ sent \in 0 .. Length
  BY <1>1 DEF NoFrame, Length
<1>5. /\ since_byte \in 0 .. Gap + 1 /\ since_loop \in 0 .. LoopDelay
      /\ on_line \in 0 .. FrameTime /\ silence \in 0 .. Quiet /\ faults \in 0 .. MaxFaults
  BY <1>1, LineFacts
<1> QED
  BY <1>1, <1>2, <1>3, <1>4, <1>5 DEF TypeOK

LEMMA FrameOnLine ==
  ASSUME TypeOK
  PROVE  /\ frame.bytes \in Seq(Bytes) /\ Length \in Nat
         /\ Sending => Length > 4
         /\ \A n \in Pauses : Sending /\ n > sent => n \in 0 .. Length
<1>1. frame.bytes \in Seq(Bytes) /\ (frame.bytes = <<>> \/ Len(frame.bytes) > 4)
  <2>1. CASE frame.bytes = <<>>
    BY <2>1
  <2>2. ASSUME NEW f \in Frames, frame.bytes = f.bytes
        PROVE  frame.bytes \in Seq(Bytes) /\ Len(frame.bytes) > 4
    BY <2>2, LineFacts DEF TypeOK
  <2> QED
    BY <2>1, <2>2 DEF TypeOK
<1>2. Length \in Nat /\ (Sending => Length > 4)
  BY <1>1 DEF Length, Sending, TypeOK
<1> QED
  BY <1>1, <1>2 DEF Pauses, TypeOK

LEMMA ReceiverNext == TypeOK /\ [Next]_vars => TypeOK'
<1> SUFFICES ASSUME TypeOK, [Next]_vars PROVE TypeOK'
  OBVIOUS
<1>1. UNCHANGED conditions
  BY DEF Next, vars, line_vars, Loop, FrameStarts, LineUsed, BytesArrive, ByteLost,
         Noise, Tick
<1>2. /\ Frames' = Frames /\ NoiseBytes' = NoiseBytes /\ LoopDelay' = LoopDelay
      /\ Quiet' = Quiet /\ MaxFaults' = MaxFaults /\ LongestFrame' = LongestFrame
  BY <1>1 DEF Frames, NoiseBytes, LoopDelay, Quiet, MaxFaults, LongestFrame, Receiver,
              Version
<1>3. /\ conditions \in Conditions /\ LoopDelay \in Nat /\ Quiet \in Nat
      /\ MaxFaults \in Nat /\ Gap \in Nat /\ FrameTime \in Nat
  BY LineFacts DEF TypeOK
<1>4. CASE Loop
  <2> DEFINE start == [buffer |-> Kept, accepted |-> FALSE, handled |-> handled,
                       counter |-> status_counter]
  <2>1. StateTyped(start)
    <3>1. Kept \in Seq(Bytes) /\ Len(Kept) < LongestFrame
      BY <1>3, LongestFramePositive DEF Kept, TypeOK
    <3> QED
      BY <3>1 DEF StateTyped, IsState, TypeOK
  <2> HIDE DEF start
  <2>2. StateTyped(ReadAll(start))
    BY <1>3, <2>1, ReadAllTyped DEF TypeOK
  <2>3. /\ rx_buffer' = ReadAll(start).buffer /\ status_counter' = ReadAll(start).counter
        /\ since_byte' \in {0, since_byte} /\ fifo' = <<>> /\ since_loop' = 0
        /\ UNCHANGED <<frame, sent, on_line, silence, noisy, faults, intact>>
    BY <1>4 DEF Loop, line_vars, start
  <2>4. rx_buffer' \in Seq(Bytes) /\ Len(rx_buffer') < LongestFrame /\ status_counter' \in Nat
    BY <2>2, <2>3 DEF StateTyped
  <2>5. since_byte' \in 0 .. Gap + 1 /\ since_loop' \in 0 .. LoopDelay /\ fifo' \in Seq(Bytes)
    BY <1>3, <2>3 DEF TypeOK
  <2> QED
    BY <1>1, <1>2, <2>3, <2>4, <2>5 DEF TypeOK, Length
<1>5. CASE FrameStarts
  <2>1. PICK f \in Frames : frame' = [bytes |-> f.bytes, means |-> Meaning(f, status_counter)]
    BY <1>5 DEF FrameStarts
  <2>2. frame'.bytes \in {h.bytes : h \in Frames} /\ 0 \in 0 .. Len(frame'.bytes)
    BY <1>3, <2>1, LineFacts
  <2> QED
    BY <1>1, <1>2, <1>3, <1>5, <2>2 DEF FrameStarts, TypeOK, Length
<1>6. CASE BytesArrive
  <2>1. Sending /\ sent' \in 0 .. Length
    BY <1>6, FrameOnLine DEF BytesArrive, LineUsed
  <2>2. fifo' \in Seq(Bytes)
    <3>1. SubSeq(frame.bytes, sent + 1, sent') \in Seq(Bytes)
      BY <2>1, FrameOnLine DEF TypeOK, Length
    <3> QED
      BY <1>6, <3>1 DEF BytesArrive, TypeOK
  <2>3. noisy' = FALSE /\ silence' = 0
        /\ UNCHANGED <<receiver_vars, since_loop, frame, on_line, intact, faults>>
    BY <1>6 DEF BytesArrive, LineUsed
  <2>4. noisy' \in BOOLEAN
    BY <2>3, Zenon
  <2>5. silence' \in 0 .. Quiet
    BY <1>3, <2>3
  <2> QED
    BY <1>1, <1>2, <2>1, <2>2, <2>3, <2>4, <2>5 DEF TypeOK, Length, receiver_vars
<1>7. CASE ByteLost
  <2>1. sent' \in 0 .. Length /\ faults' \in 0 .. MaxFaults
    BY <1>3, <1>7, FrameOnLine DEF ByteLost, LineUsed, Sending, TypeOK
  <2>2. noisy' = FALSE /\ intact' = FALSE /\ silence' = 0
        /\ UNCHANGED <<receiver_vars, since_loop, fifo, frame, on_line>>
    BY <1>7 DEF ByteLost, LineUsed
  <2>3. noisy' \in BOOLEAN /\ intact' \in BOOLEAN
    BY <2>2, Zenon
  <2>4. silence' \in 0 .. Quiet
    BY <1>3, <2>2
  <2> QED
    BY <1>1, <1>2, <2>1, <2>2, <2>3, <2>4 DEF TypeOK, Length, receiver_vars
<1>8. CASE Noise
  <2>1. fifo' \in Seq(Bytes) /\ faults' \in 0 .. MaxFaults
    BY <1>3, <1>8, LineFacts DEF Noise, TypeOK
  <2>2. noisy' = TRUE /\ intact' = FALSE /\ silence' = 0
        /\ UNCHANGED <<receiver_vars, since_loop, frame, sent, on_line>>
    BY <1>8 DEF Noise
  <2>3. noisy' \in BOOLEAN /\ intact' \in BOOLEAN
    BY <2>2, Zenon
  <2>4. silence' \in 0 .. Quiet
    BY <1>3, <2>2
  <2> QED
    BY <1>1, <1>2, <2>1, <2>2, <2>3, <2>4 DEF TypeOK, Length, receiver_vars
<1>9. CASE Tick
  <2>1. /\ since_byte' \in 0 .. Gap + 1 /\ since_loop' \in 0 .. LoopDelay
        /\ on_line' \in 0 .. FrameTime /\ silence' \in 0 .. Quiet
    BY <1>3, <1>9 DEF Tick, TypeOK
  <2>2. noisy' \in BOOLEAN
    BY <1>9 DEF Tick
  <2> QED
    BY <1>1, <1>2, <1>9, <2>1, <2>2 DEF Tick, TypeOK, Length
<1>10. CASE UNCHANGED vars
  BY <1>1, <1>2, <1>10 DEF vars, receiver_vars, line_vars, TypeOK, Length
<1> QED
  BY <1>4, <1>5, <1>6, <1>7, <1>8, <1>9, <1>10 DEF Next

(***************************************************************************)
(* Whatever arrives and whenever loop() runs, rx_buffer_ never holds as    *)
(* many bytes as the longest frame has: it does not grow without bound.    *)
(***************************************************************************)
THEOREM ReceiverTypeCorrect == Spec => []TypeOK
  BY ReceiverInit, ReceiverNext, PTL DEF Spec

-----------------------------------------------------------------------------
(***************************************************************************)
(* How a receiver parses and handles a frame of its protocol.              *)
(***************************************************************************)
Prefix(raw, n) == SubSeq(raw, 1, n)

LEMMA FrameParses ==
  ASSUME conditions \in Conditions, NEW f \in Frames
  PROVE  /\ Parsed(f.bytes) = "frame"
         /\ \A n \in 1 .. Len(f.bytes) - 1 : Parsed(Prefix(f.bytes, n)) = "more"
<1> DEFINE bytes == f.bytes
<1>1. bytes \in Seq(Bytes) /\ Len(bytes) > 4 /\ Receiver \in Receivers
  BY LineFacts
<1>2. ASSUME NEW n \in 1 .. Len(bytes) - 1
      PROVE  /\ Prefix(bytes, n) \in Seq(Bytes) /\ Len(Prefix(bytes, n)) = n
             /\ Prefix(bytes, n)[1] = bytes[1]
             /\ n > 1 => Prefix(bytes, n)[2] = bytes[2]
  BY <1>1 DEF Prefix
<1>3. CASE Receiver = "modbus"
  <2>1. Len(bytes) = 15 /\ SubSeq(bytes, 1, 4) = Header
    BY <1>3, FramesAssumption DEF Frames, Receiver, ModbusLength
  <2>2. ASSUME NEW n \in 1 .. Len(bytes) - 1
        PROVE  ModbusParsed(Prefix(bytes, n)) = "more"
    BY <1>2, <2>1 DEF ModbusParsed, ModbusLength, Prefix
  <2>3. ModbusParsed(bytes) = "frame"
    BY <2>1 DEF ModbusParsed, ModbusLength
  <2> QED
    BY <1>3, <2>2, <2>3 DEF Parsed
<1>4. CASE Receiver = "display"
  <2>1. /\ bytes[1] \in {SOF_SOYO_RESPONSE, SOF_MS51_RESPONSE}
        /\ Len(bytes) = ResponseLength(bytes) /\ bytes = WithChksum(Front(bytes))
    BY <1>4, FramesAssumption DEF Frames, Receiver
  <2>2. ASSUME NEW n \in 1 .. Len(bytes) - 1
        PROVE  DisplayParsed(Prefix(bytes, n)) = "more"
    <3>1. n > 1 => ResponseLength(Prefix(bytes, n)) = ResponseLength(bytes)
      BY <1>2 DEF ResponseLength
    <3>2. Prefix(bytes, n)[1] \in {SOF_SOYO_RESPONSE, SOF_MS51_RESPONSE}
      BY <1>2, <2>1
    <3>3. n = 1 \/ n < ResponseLength(Prefix(bytes, n))
      BY <1>1, <2>1, <3>1
    <3>4. Len(Prefix(bytes, n)) = n
      BY <1>2
    <3> QED
      BY <3>2, <3>3, <3>4, Zenon DEF DisplayParsed
  <2>3. DisplayParsed(bytes) = "frame"
    BY <1>1, <2>1 DEF DisplayParsed
  <2> QED
    BY <1>4, <2>2, <2>3 DEF Parsed
<1>5. CASE Receiver = "emulator"
  <2>1. /\ bytes[1] = SOF_REQUEST /\ Len(bytes) = RequestLength(Version)
        /\ bytes = WithChksum(Front(bytes))
    BY <1>5, FramesAssumption DEF Frames, Receiver, Version
  <2>2. ASSUME NEW n \in 1 .. Len(bytes) - 1
        PROVE  EmulatorParsed(Version, Prefix(bytes, n)) = "more"
    BY <1>1, <1>2, <2>1 DEF EmulatorParsed
  <2>3. EmulatorParsed(Version, bytes) = "frame"
    BY <1>1, <2>1 DEF EmulatorParsed
  <2> QED
    BY <1>5, <2>2, <2>3 DEF Parsed
<1> QED
  BY <1>1, <1>3, <1>4, <1>5 DEF Receivers

(***************************************************************************)
(* What the emulator answers is read by a display as the values it was     *)
(* made from, for every temperature it counts up to.                       *)
(***************************************************************************)
LEMMA ChecksumAppended ==
  ASSUME NEW data, data \in Seq(Nat)
  PROVE  \A i \in Nat : 1 <= i /\ i <= Len(data) => WithChksum(data)[i] = data[i]
  BY DEF WithChksum

LEMMA WordOfBytes ==
  ASSUME NEW w \in Nat
  PROVE  /\ w \div 256 \in Nat /\ w % 256 \in Nat
         /\ 256 * (w \div 256) + (w % 256) = w
  OBVIOUS

LEMMA SumOfBytes ==
  ASSUME NEW w \in Nat, NEW high, NEW low, high = w \div 256, low = w % 256
  PROVE  256 * high + low = w
  BY WordOfBytes

LEMMA StatusFields ==
  ASSUME NEW s, NEW data, data = SendStatus(s),
         s.power_demand \in Nat, s.operation_mode \in Nat, s.operation_status \in Nat,
         s.battery_voltage \in Nat, s.battery_current \in Nat, s.ac_voltage \in Nat,
         s.ac_frequency \in Nat, s.temperature \in Nat
  PROVE  /\ data[1] = SOF_SOYO_RESPONSE
         /\ At(data, 3) = ModeByte(s.operation_mode, STATUS_COMMAND)
         /\ At(data, 4) = s.operation_status /\ At(data, 11) = s.ac_frequency
         /\ Word(data, 5) = s.battery_voltage /\ Word(data, 7) = s.battery_current
         /\ Word(data, 9) = s.ac_voltage /\ Word(data, 12) = s.temperature
<1>1. PICK mode \in Nat : mode = ModeByte(s.operation_mode, STATUS_COMMAND)
  BY DEF ModeByte, STATUS_COMMAND
<1>2. PICK raw : raw = <<SOF_SOYO_RESPONSE>> \o Bytes16(s.power_demand)
                         \o <<mode, s.operation_status>>
                         \o Bytes16(s.battery_voltage) \o Bytes16(s.battery_current)
                         \o Bytes16(s.ac_voltage) \o <<s.ac_frequency>>
                         \o Bytes16(s.temperature)
  OBVIOUS
<1>3. raw \in Seq(Nat)
  <2>1. ASSUME NEW w \in Nat PROVE Bytes16(w) \in Seq(Nat)
    BY WordOfBytes DEF Bytes16
  <2>2. <<SOF_SOYO_RESPONSE>> \in Seq(Nat) /\ <<s.ac_frequency>> \in Seq(Nat)
        /\ <<mode, s.operation_status>> \in Seq(Nat)
    BY DEF SOF_SOYO_RESPONSE
  <2>3. \A a, b \in Seq(Nat) : a \o b \in Seq(Nat)
    OBVIOUS
  <2> QED
    BY <1>2, <2>1, <2>2, <2>3, Zenon
<1>4. /\ raw[1] = SOF_SOYO_RESPONSE /\ raw[4] = mode /\ raw[5] = s.operation_status
      /\ raw[6] = s.battery_voltage \div 256 /\ raw[7] = s.battery_voltage % 256
      /\ raw[8] = s.battery_current \div 256 /\ raw[9] = s.battery_current % 256
      /\ raw[10] = s.ac_voltage \div 256 /\ raw[11] = s.ac_voltage % 256
      /\ raw[12] = s.ac_frequency
      /\ raw[13] = s.temperature \div 256 /\ raw[14] = s.temperature % 256
      /\ Len(raw) = 14
  BY <1>2 DEF Bytes16
<1>5. data = WithChksum(raw)
  BY <1>1, <1>2 DEF SendStatus
<1>6. \A i \in Nat : 1 <= i /\ i <= 14 => data[i] = raw[i]
  <2>1. \A i \in Nat : 1 <= i /\ i <= Len(raw) => data[i] = raw[i]
    BY <1>3, <1>5, ChecksumAppended, Zenon
  <2>2. Len(raw) = 14
    BY <1>4
  <2> QED
    BY <2>1, <2>2, Zenon
<1>7. /\ data[1] = raw[1] /\ data[4] = raw[4] /\ data[5] = raw[5] /\ data[6] = raw[6]
      /\ data[7] = raw[7] /\ data[8] = raw[8] /\ data[9] = raw[9] /\ data[10] = raw[10]
      /\ data[11] = raw[11] /\ data[12] = raw[12] /\ data[13] = raw[13]
      /\ data[14] = raw[14]
  BY <1>6
<1>8. /\ Word(data, 5) = s.battery_voltage /\ Word(data, 7) = s.battery_current
      /\ Word(data, 9) = s.ac_voltage /\ Word(data, 12) = s.temperature
  <2>1. /\ Word(data, 5) = 256 * data[6] + data[7] /\ Word(data, 7) = 256 * data[8] + data[9]
        /\ Word(data, 9) = 256 * data[10] + data[11]
        /\ Word(data, 12) = 256 * data[13] + data[14]
    BY DEF Word, At
  <2>2. Word(data, 5) = s.battery_voltage
    <3>1. data[6] = s.battery_voltage \div 256 /\ data[7] = s.battery_voltage % 256
      BY <1>4, <1>7, Zenon
    <3>2. 256 * data[6] + data[7] = s.battery_voltage
      BY <3>1, SumOfBytes
    <3> QED
      BY <2>1, <3>2
  <2>3. Word(data, 7) = s.battery_current
    <3>1. data[8] = s.battery_current \div 256 /\ data[9] = s.battery_current % 256
      BY <1>4, <1>7, Zenon
    <3>2. 256 * data[8] + data[9] = s.battery_current
      BY <3>1, SumOfBytes
    <3> QED
      BY <2>1, <3>2
  <2>4. Word(data, 9) = s.ac_voltage
    <3>1. data[10] = s.ac_voltage \div 256 /\ data[11] = s.ac_voltage % 256
      BY <1>4, <1>7, Zenon
    <3>2. 256 * data[10] + data[11] = s.ac_voltage
      BY <3>1, SumOfBytes
    <3> QED
      BY <2>1, <3>2
  <2>5. Word(data, 12) = s.temperature
    <3>1. data[13] = s.temperature \div 256 /\ data[14] = s.temperature % 256
      BY <1>4, <1>7, Zenon
    <3>2. 256 * data[13] + data[14] = s.temperature
      BY <3>1, SumOfBytes
    <3> QED
      BY <2>1, <3>2
  <2> QED
    BY <2>2, <2>3, <2>4, <2>5
<1>9. At(data, 3) = data[4] /\ At(data, 4) = data[5] /\ At(data, 11) = data[12]
  BY DEF At
<1> QED
  BY <1>1, <1>4, <1>7, <1>8, <1>9

LEMMA SettingsFields ==
  ASSUME NEW s, NEW data, data = SendSettings(s),
         s.unknown1 \in Nat, s.operation_mode \in Nat, s.operation_status \in Nat,
         s.device_model \in Nat, s.device_type \in Nat, s.start_voltage \in Nat,
         s.shutdown_voltage \in Nat, s.ac_voltage \in Nat, s.ac_frequency \in Nat,
         s.max_power \in Nat, s.start_delay \in Nat
  PROVE  /\ data[1] = SOF_SOYO_RESPONSE
         /\ At(data, 3) = ModeByte(s.operation_mode, SETTINGS_COMMAND)
         /\ At(data, 7) = s.start_voltage /\ At(data, 8) = s.shutdown_voltage
         /\ At(data, 11) = s.ac_frequency /\ At(data, 12) = s.max_power
         /\ At(data, 13) = s.start_delay
<1>1. PICK mode \in Nat : mode = ModeByte(s.operation_mode, SETTINGS_COMMAND)
  BY DEF ModeByte, SETTINGS_COMMAND
<1>2. PICK raw : raw = <<SOF_SOYO_RESPONSE>> \o Bytes16(s.unknown1)
                         \o <<mode, s.operation_status, s.device_model, s.device_type,
                              s.start_voltage, s.shutdown_voltage>>
                         \o Bytes16(s.ac_voltage)
                         \o <<s.ac_frequency, s.max_power, s.start_delay>>
  OBVIOUS
<1>3. raw \in Seq(Nat)
  <2>1. ASSUME NEW w \in Nat PROVE Bytes16(w) \in Seq(Nat)
    BY WordOfBytes DEF Bytes16
  <2>2. <<SOF_SOYO_RESPONSE>> \in Seq(Nat)
        /\ <<s.ac_frequency, s.max_power, s.start_delay>> \in Seq(Nat)
        /\ <<mode, s.operation_status, s.device_model, s.device_type,
             s.start_voltage, s.shutdown_voltage>> \in Seq(Nat)
    BY DEF SOF_SOYO_RESPONSE
  <2>3. \A a, b \in Seq(Nat) : a \o b \in Seq(Nat)
    OBVIOUS
  <2> QED
    BY <1>2, <2>1, <2>2, <2>3, Zenon
<1>4. /\ raw[1] = SOF_SOYO_RESPONSE /\ raw[4] = mode /\ raw[8] = s.start_voltage
      /\ raw[9] = s.shutdown_voltage /\ raw[12] = s.ac_frequency
      /\ raw[13] = s.max_power /\ raw[14] = s.start_delay /\ Len(raw) = 14
  BY <1>2 DEF Bytes16
<1>5. data = WithChksum(raw)
  BY <1>1, <1>2 DEF SendSettings
<1>6. \A i \in Nat : 1 <= i /\ i <= 14 => data[i] = raw[i]
  <2>1. \A i \in Nat : 1 <= i /\ i <= Len(raw) => data[i] = raw[i]
    BY <1>3, <1>5, ChecksumAppended, Zenon
  <2>2. Len(raw) = 14
    BY <1>4
  <2> QED
    BY <2>1, <2>2, Zenon
<1>7. /\ data[1] = raw[1] /\ data[4] = raw[4] /\ data[8] = raw[8] /\ data[9] = raw[9]
      /\ data[12] = raw[12] /\ data[13] = raw[13] /\ data[14] = raw[14]
  BY <1>6
<1> QED
  BY <1>1, <1>4, <1>7 DEF At

LEMMA StatusRead ==
  ASSUME NEW version, NEW n \in Nat
  PROVE  OnDisplayData(SendStatus(EmulatedStatus(version, n)))
           = StatusMeaning(EmulatedStatus(version, n))
<1> DEFINE Temperature == (n % 80) * 10 + 200
<1>1. Temperature \in Nat
  OBVIOUS
<1> HIDE DEF Temperature
<1>2. PICK s : s = EmulatedStatus(version, n)
  OBVIOUS
<1>3. PICK data : data = SendStatus(s)
  OBVIOUS
<1>4. /\ s.operation_status \in {0, Bit6} /\ s.temperature = Temperature
      /\ s.operation_mode \in 0 .. 15
      /\ s.power_demand \in Nat /\ s.battery_voltage \in Nat
      /\ s.battery_current \in Nat /\ s.ac_voltage \in Nat /\ s.ac_frequency \in Nat
  BY <1>2 DEF EmulatedStatus, Temperature, Bit6
<1>5. /\ data[1] = SOF_SOYO_RESPONSE
      /\ At(data, 3) = ModeByte(s.operation_mode, STATUS_COMMAND)
      /\ At(data, 4) = s.operation_status /\ At(data, 11) = s.ac_frequency
      /\ Word(data, 5) = s.battery_voltage /\ Word(data, 7) = s.battery_current
      /\ Word(data, 9) = s.ac_voltage /\ Word(data, 12) = s.temperature
  BY <1>1, <1>3, <1>4, StatusFields DEF Bit6
<1>6. /\ HighNibble(At(data, 3)) = s.operation_mode % 16
      /\ LowNibble(At(data, 3)) = STATUS_COMMAND
  BY <1>4, <1>5 DEF HighNibble, LowNibble, ModeByte, STATUS_COMMAND
<1>7. OnDisplayData(data) = SoyosourceStatus(data)
  BY <1>5, <1>6 DEF OnDisplayData, OnSoyosourceData, SOF_SOYO_RESPONSE, SOF_MS51_RESPONSE,
                    STATUS_COMMAND, SETTINGS_COMMAND
<1>8. PICK errors : errors = IF (s.operation_status \div Bit6) % 2 = 1
                             THEN s.operation_status - Bit6 ELSE s.operation_status
  OBVIOUS
<1>9. /\ errors = 0 /\ (IF errors = 0 THEN 0 ELSE 2) = 0
      /\ (errors # s.operation_status) = (s.operation_status = Bit6)
  BY <1>4, <1>8 DEF Bit6
<1>10. (s.temperature - 300 >= 450) = (s.temperature >= 750)
  BY <1>1, <1>4
<1>11. SoyosourceStatus(data) =
         [frame |-> "status", mode |-> HighNibble(At(data, 3)),
          limiter_connected |-> errors # s.operation_status, error_bitmask |-> errors,
          operation_status_id |-> IF errors = 0 THEN 0 ELSE 2,
          battery_voltage |-> s.battery_voltage, battery_current |-> s.battery_current,
          ac_voltage |-> s.ac_voltage, ac_frequency |-> s.ac_frequency,
          temperature |-> s.temperature - 300,
          fan_running |-> s.temperature - 300 >= 450]
  <2>1. /\ Word(data, 5) = s.battery_voltage /\ Word(data, 5 + 2) = s.battery_current
        /\ Word(data, 5 + 4) = s.ac_voltage
    BY <1>5
  <2>2. SoyosourceStatus(data) = Status(At(data, 3), s.operation_status, data, 5,
                                        s.ac_frequency, s.temperature - 300)
    BY <1>5, Zenon DEF SoyosourceStatus
  <2>3. Status(At(data, 3), s.operation_status, data, 5, s.ac_frequency, s.temperature - 300)
          = [frame |-> "status", mode |-> HighNibble(At(data, 3)),
             limiter_connected |-> errors # s.operation_status, error_bitmask |-> errors,
             operation_status_id |-> IF errors = 0 THEN 0 ELSE 2,
             battery_voltage |-> Word(data, 5),
             battery_current |-> Word(data, 5 + 2),
             ac_voltage |-> Word(data, 5 + 4), ac_frequency |-> s.ac_frequency,
             temperature |-> s.temperature - 300,
             fan_running |-> s.temperature - 300 >= 450]
    BY <1>8, Zenon DEF Status
  <2> QED
    BY <2>1, <2>2, <2>3, Zenon
<1>12. SoyosourceStatus(data) = StatusMeaning(s)
  <2>1. PICK connected, fan :
          connected = (errors # s.operation_status) /\ fan = (s.temperature - 300 >= 450)
    OBVIOUS
  <2>2. connected = (s.operation_status = Bit6) /\ fan = (s.temperature >= 750)
    BY <1>9, <1>10, <2>1
  <2>3. SoyosourceStatus(data) =
          [frame |-> "status", mode |-> s.operation_mode % 16,
           limiter_connected |-> connected, error_bitmask |-> 0, operation_status_id |-> 0,
           battery_voltage |-> s.battery_voltage, battery_current |-> s.battery_current,
           ac_voltage |-> s.ac_voltage, ac_frequency |-> s.ac_frequency,
           temperature |-> s.temperature - 300, fan_running |-> fan]
    BY <1>6, <1>9, <1>11, <2>1, Zenon
  <2>4. StatusMeaning(s) =
          [frame |-> "status", mode |-> s.operation_mode % 16,
           limiter_connected |-> connected, error_bitmask |-> 0, operation_status_id |-> 0,
           battery_voltage |-> s.battery_voltage, battery_current |-> s.battery_current,
           ac_voltage |-> s.ac_voltage, ac_frequency |-> s.ac_frequency,
           temperature |-> s.temperature - 300, fan_running |-> fan]
    BY <2>2, Zenon DEF StatusMeaning
  <2> QED
    BY <2>3, <2>4, Zenon
<1> QED
  BY <1>2, <1>3, <1>7, <1>12, Zenon

LEMMA SettingsRead ==
  ASSUME NEW version
  PROVE  OnDisplayData(SendSettings(EmulatedSettings(version)))
           = SettingsMeaning(EmulatedSettings(version))
<1>1. PICK s : s = EmulatedSettings(version)
  OBVIOUS
<1>2. PICK data : data = SendSettings(s)
  OBVIOUS
<1>3. /\ s.unknown1 \in Nat /\ s.operation_mode \in {131, 9}
      /\ s.operation_status \in Nat /\ s.device_model \in Nat /\ s.device_type \in Nat
      /\ s.start_voltage \in Nat /\ s.shutdown_voltage \in Nat /\ s.ac_voltage \in Nat
      /\ s.ac_frequency \in Nat /\ s.max_power \in Nat /\ s.start_delay \in Nat
  BY <1>1 DEF EmulatedSettings
<1>4. /\ data[1] = SOF_SOYO_RESPONSE
      /\ At(data, 3) = ModeByte(s.operation_mode, SETTINGS_COMMAND)
      /\ At(data, 7) = s.start_voltage /\ At(data, 8) = s.shutdown_voltage
      /\ At(data, 11) = s.ac_frequency /\ At(data, 12) = s.max_power
      /\ At(data, 13) = s.start_delay
  BY <1>2, <1>3, SettingsFields
<1>5. /\ HighNibble(At(data, 3)) = s.operation_mode % 16
      /\ LowNibble(At(data, 3)) = SETTINGS_COMMAND
  BY <1>3, <1>4 DEF HighNibble, LowNibble, ModeByte, SETTINGS_COMMAND
<1>6. OnDisplayData(data) = SoyosourceSettings(data)
  BY <1>4, <1>5 DEF OnDisplayData, OnSoyosourceData, SOF_SOYO_RESPONSE, SOF_MS51_RESPONSE,
                    STATUS_COMMAND, SETTINGS_COMMAND
<1>7. SoyosourceSettings(data) = SettingsMeaning(s)
  BY <1>4, <1>5, Zenon DEF SoyosourceSettings, SettingsOf, SettingsMeaning
<1> QED
  BY <1>1, <1>2, <1>6, <1>7, Zenon

(***************************************************************************)
(* A handler finds in a frame what its sender meant.                       *)
(***************************************************************************)
LEMMA FrameHandled ==
  ASSUME ReadAsMeant, conditions \in Conditions, NEW f \in Frames, NEW n \in Nat
  PROVE  Handled(f.bytes, n) = <<Meaning(f, n)>>
<1>1. CASE Receiver = "modbus"
  <2>1. f.bytes[1] \in Devices /\ f.means = Data(f.bytes)
    BY <1>1 DEF ReadAsMeant, ReadAs, Frames, Receiver
  <2> QED
    BY <1>1, <2>1 DEF Handled, Meaning
<1>2. CASE Receiver = "display"
  <2>1. f.means = OnDisplayData(f.bytes)
    BY <1>2 DEF ReadAsMeant, ReadAs, Frames, Receiver
  <2> QED
    BY <1>2, <2>1 DEF Handled, Meaning
<1>3. CASE Receiver = "emulator"
  <2>1. f.means = Requested(f.bytes)
    BY <1>3 DEF ReadAsMeant, ReadAs, Frames, Receiver
  <2>2. Reaction(f.means, n) = Meaning(f, n)
    <3>1. CASE f.means = "status"
      BY <1>3, <3>1, StatusRead DEF Reaction, Meaning
    <3>2. CASE f.means = "settings"
      BY <1>3, <3>2, SettingsRead DEF Reaction, Meaning
    <3>3. CASE f.means # "status" /\ f.means # "settings"
      BY <1>3, <3>3 DEF Reaction, Meaning
    <3> QED
      BY <3>1, <3>2, <3>3
  <2> QED
    BY <1>3, <2>1, <2>2 DEF Handled
<1> QED
  BY <1>1, <1>2, <1>3, LineFacts DEF Receivers

(***************************************************************************)
(* Prefixes of sequences of bytes.                                         *)
(***************************************************************************)
LEMMA PrefixGrows ==
  ASSUME NEW raw \in Seq(Bytes), NEW m \in 0 .. Len(raw), NEW n \in 0 .. Len(raw), m <= n
  PROVE  /\ Prefix(raw, m) \o SubSeq(raw, m + 1, n) = Prefix(raw, n)
         /\ Prefix(raw, m) \in Seq(Bytes) /\ Len(Prefix(raw, m)) = m
         /\ SubSeq(raw, m + 1, n) \in Seq(Bytes) /\ Len(SubSeq(raw, m + 1, n)) = n - m
<1>1. PICK a, b, c : /\ a = Prefix(raw, m) /\ b = SubSeq(raw, m + 1, n)
                     /\ c = Prefix(raw, n)
  OBVIOUS
<1>2. /\ a \in Seq(Bytes) /\ Len(a) = m /\ \A i \in 1 .. m : a[i] = raw[i]
  BY <1>1 DEF Prefix
<1>3. /\ b \in Seq(Bytes) /\ Len(b) = n - m /\ \A i \in 1 .. n - m : b[i] = raw[m + i]
  BY <1>1
<1>4. /\ c \in Seq(Bytes) /\ Len(c) = n /\ \A i \in 1 .. n : c[i] = raw[i]
  BY <1>1 DEF Prefix
<1>5. a \o b \in Seq(Bytes) /\ Len(a \o b) = n
  BY <1>2, <1>3
<1>6. ASSUME NEW i \in 1 .. n PROVE (a \o b)[i] = c[i]
  <2>1. CASE i <= m
    BY <1>2, <1>3, <1>4, <2>1
  <2>2. CASE i > m
    <3>1. i - m \in 1 .. n - m /\ m + (i - m) = i
      BY <2>2
    <3>2. (a \o b)[i] = b[i - m]
      BY <1>2, <1>3, <2>2
    <3> QED
      BY <1>3, <1>4, <3>1, <3>2
  <2>3. i <= m \/ i > m
    OBVIOUS
  <2> QED
    BY <2>1, <2>2, <2>3
<1>7. a \o b = c
  BY <1>4, <1>5, <1>6, SeqEqual
<1> QED
  BY <1>1, <1>2, <1>3, <1>7

LEMMA AppendToPrefix ==
  ASSUME NEW raw \in Seq(Bytes), NEW i \in 1 .. Len(raw)
  PROVE  /\ Prefix(raw, i - 1) \in Seq(Bytes) /\ Len(Prefix(raw, i - 1)) = i - 1
         /\ Append(Prefix(raw, i - 1), raw[i]) = Prefix(raw, i) /\ raw[i] \in Bytes
<1>1. PICK a, b, c : b = Prefix(raw, i - 1) /\ a = Append(b, raw[i]) /\ c = Prefix(raw, i)
  OBVIOUS
<1>2. raw[i] \in Bytes /\ i - 1 \in 0 .. Len(raw) /\ i \in 0 .. Len(raw)
  OBVIOUS
<1>3. b \in Seq(Bytes) /\ Len(b) = i - 1 /\ \A j \in 1 .. i - 1 : b[j] = raw[j]
  BY <1>1, <1>2 DEF Prefix
<1>4. c \in Seq(Bytes) /\ Len(c) = i /\ \A j \in 1 .. i : c[j] = raw[j]
  BY <1>1, <1>2 DEF Prefix
<1>5. a \in Seq(Bytes) /\ Len(a) = i /\ a[i] = raw[i]
  BY <1>1, <1>2, <1>3
<1>6. \A j \in 1 .. i - 1 : a[j] = b[j]
  BY <1>1, <1>2, <1>3
<1>7. ASSUME NEW j \in 1 .. i PROVE a[j] = c[j]
  <2>1. j = i \/ j \in 1 .. i - 1
    OBVIOUS
  <2> QED
    BY <1>3, <1>4, <1>5, <1>6, <2>1
<1>8. a = c
  BY <1>4, <1>5, <1>7, SeqEqual
<1> QED
  BY <1>1, <1>2, <1>3, <1>8

LEMMA AppendInConcat ==
  ASSUME NEW a \in Seq(Bytes), NEW b \in Seq(Bytes), NEW byte \in Bytes
  PROVE  Append(a \o b, byte) = a \o Append(b, byte)
<1>1. <<byte>> \in Seq(Bytes) /\ a \o b \in Seq(Bytes)
  OBVIOUS
<1>2. Append(a \o b, byte) = (a \o b) \o <<byte>> /\ Append(b, byte) = b \o <<byte>>
  BY <1>1, AppendIsConcat
<1>3. (a \o b) \o <<byte>> = a \o (b \o <<byte>>)
  BY <1>1, ConcatAssociative
<1> QED
  BY <1>2, <1>3, Zenon

(***************************************************************************)
(* What loop() makes of the bytes of one frame, in their order.            *)
(***************************************************************************)
LEMMA ReadFrame ==
  ASSUME conditions \in Conditions, fifo \in Seq(Bytes), fifo # <<>>, NEW f \in Frames,
         NEW start, IsState(start), start.buffer \in Seq(Bytes),
         NEW k \in 0 .. Len(f.bytes), start.buffer \o fifo = Prefix(f.bytes, k)
  PROVE  /\ k < Len(f.bytes) =>
              ReadAll(start) = [buffer |-> Prefix(f.bytes, k), accepted |-> TRUE,
                                handled |-> start.handled, counter |-> start.counter]
         /\ k = Len(f.bytes) =>
              /\ ReadAll(start).buffer = <<>>
              /\ ReadAll(start).handled = start.handled \o Handled(f.bytes, start.counter)
<1> DEFINE N == Len(fifo)
           p == Len(start.buffer)
           After(i) == [buffer |-> Prefix(f.bytes, p + i), accepted |-> TRUE,
                        handled |-> start.handled, counter |-> start.counter]
<1>1. f.bytes \in Seq(Bytes) /\ Len(f.bytes) \in Nat
  BY LineFacts
<1>2. /\ N \in Nat /\ N > 0 /\ p \in Nat /\ p + N = k
      /\ start.buffer = Prefix(f.bytes, p)
      /\ \A i \in 1 .. N : fifo[i] = f.bytes[p + i]
  <2>1. Len(Prefix(f.bytes, k)) = k
    BY <1>1 DEF Prefix
  <2>2. N \in Nat /\ N > 0 /\ p \in Nat /\ p + N = k
    BY <2>1
  <2>3. ASSUME NEW i \in 1 .. k
        PROVE  (start.buffer \o fifo)[i] = f.bytes[i]
    BY <1>1 DEF Prefix
  <2>4. ASSUME NEW i \in 1 .. N PROVE fifo[i] = f.bytes[p + i]
    <3>1. p + i \in 1 .. k /\ (start.buffer \o fifo)[p + i] = fifo[i]
      BY <2>2
    <3> QED
      BY <2>3, <3>1
  <2>5. ASSUME NEW i \in 1 .. p PROVE start.buffer[i] = f.bytes[i]
    <3>1. i \in 1 .. k /\ (start.buffer \o fifo)[i] = start.buffer[i]
      BY <2>2
    <3> QED
      BY <2>3, <3>1
  <2>6. start.buffer = Prefix(f.bytes, p)
    <3>1. Prefix(f.bytes, p) \in Seq(Bytes) /\ Len(Prefix(f.bytes, p)) = p
      BY <1>1, <2>2 DEF Prefix
    <3>2. \A i \in 1 .. p : Prefix(f.bytes, p)[i] = start.buffer[i]
      BY <1>1, <2>2, <2>5 DEF Prefix
    <3> QED
      BY <3>1, <3>2, SeqEqual
  <2> QED
    BY <2>2, <2>4, <2>6
<1> HIDE DEF N, p
<1>3. ASSUME NEW i \in 1 .. N
      PROVE  /\ p + i \in 1 .. Len(f.bytes)
             /\ Append(Prefix(f.bytes, p + i - 1), fifo[i]) = Prefix(f.bytes, p + i)
  <2>1. p + i \in 1 .. Len(f.bytes) /\ p + i - 1 \in 0 .. Len(f.bytes)
    BY <1>1, <1>2
  <2>2. fifo[i] = f.bytes[p + i] /\ (p + i) - 1 = p + i - 1
    BY <1>2
  <2> QED
    BY <1>1, <2>1, <2>2, AppendToPrefix
<1>4. PICK g : Reading(start, N, g) /\ ReadAll(start) = g[N]
  BY ReadAllUnfolds DEF N
<1>5. /\ g[0] = start
      /\ \A i \in 1 .. N : g[i] = Received(g[i - 1], fifo[i])
  <2>1. \A i \in 0 .. N : g[i] = IF i = 0 THEN start ELSE Received(g[i - 1], fifo[i])
    BY <1>4 DEF Reading
  <2> QED
    BY <1>2, <2>1
<1> DEFINE Wrong == {i \in 1 .. N : p + i < Len(f.bytes) /\ g[i] # After(i)}
<1>6. ASSUME NEW i \in 1 .. N,
             IsState(g[i - 1]), g[i - 1].buffer = Prefix(f.bytes, p + i - 1)
      PROVE  /\ p + i < Len(f.bytes) =>
                  g[i] = [buffer |-> Prefix(f.bytes, p + i), accepted |-> TRUE,
                          handled |-> g[i - 1].handled, counter |-> g[i - 1].counter]
             /\ p + i = Len(f.bytes) =>
                  /\ g[i].buffer = <<>>
                  /\ g[i].handled = g[i - 1].handled \o Handled(f.bytes, g[i - 1].counter)
  <2>1. PICK raw : raw = Append(g[i - 1].buffer, fifo[i])
    OBVIOUS
  <2>2. raw = Prefix(f.bytes, p + i) /\ p + i \in 1 .. Len(f.bytes)
    BY <1>3, <1>6, <2>1
  <2>3. g[i] = Received(g[i - 1], fifo[i])
    BY <1>5
  <2>4. ASSUME p + i < Len(f.bytes)
        PROVE  g[i] = [buffer |-> Prefix(f.bytes, p + i), accepted |-> TRUE,
                       handled |-> g[i - 1].handled, counter |-> g[i - 1].counter]
    <3>1. Parsed(raw) = "more"
      <4>1. p + i \in 1 .. Len(f.bytes) - 1
        BY <1>1, <2>2, <2>4
      <4> QED
        BY <2>2, <4>1, FrameParses
    <3>2. Received(g[i - 1], fifo[i])
            = [buffer |-> raw, accepted |-> TRUE,
               handled |-> g[i - 1].handled, counter |-> g[i - 1].counter]
      BY <1>6, <2>1, <3>1, OneByte
    <3> QED
      BY <2>2, <2>3, <3>2
  <2>5. ASSUME p + i = Len(f.bytes)
        PROVE  /\ g[i].buffer = <<>>
               /\ g[i].handled = g[i - 1].handled \o Handled(f.bytes, g[i - 1].counter)
    <3>1. raw = f.bytes
      BY <1>1, <2>2, <2>5 DEF Prefix
    <3>2. Parsed(raw) = "frame"
      BY <3>1, FrameParses
    <3>3. g[i] = [buffer |-> <<>>, accepted |-> g[i - 1].accepted,
                  handled |-> g[i - 1].handled \o Handled(raw, g[i - 1].counter),
                  counter |-> IF Counts(raw) THEN g[i - 1].counter + 1
                              ELSE g[i - 1].counter]
      BY <1>6, <2>1, <2>3, <3>2, OneByte
    <3>4. PICK h, n : h = g[i - 1].handled \o Handled(raw, g[i - 1].counter)
                      /\ n = IF Counts(raw) THEN g[i - 1].counter + 1
                             ELSE g[i - 1].counter
      OBVIOUS
    <3>5. g[i] = [buffer |-> <<>>, accepted |-> g[i - 1].accepted, handled |-> h,
                  counter |-> n]
      BY <3>3, <3>4, Zenon
    <3>6. g[i].buffer = <<>> /\ g[i].handled = h
      BY <3>5
    <3> QED
      BY <3>1, <3>4, <3>6, Zenon
  <2> QED
    BY <2>4, <2>5
<1>7. Wrong = {}
  <2>1. SUFFICES ASSUME Wrong # {} PROVE FALSE
    OBVIOUS
  <2>2. PICK i \in Wrong : \A j \in Wrong : i <= j
    <3>1. Wrong \in SUBSET Nat
      BY <1>2
    <3> QED
      BY <2>1, <3>1, LeastOf
  <2>3. i \in 1 .. N /\ p + i < Len(f.bytes) /\ g[i] # After(i)
    OBVIOUS
  <2>4. /\ IsState(g[i - 1]) /\ g[i - 1].buffer = Prefix(f.bytes, p + i - 1)
        /\ g[i - 1].handled = start.handled /\ g[i - 1].counter = start.counter
    <3>1. CASE i = 1
      BY <1>2, <1>5, <3>1
    <3>2. CASE i # 1
      <4>1. i - 1 \in 1 .. N /\ p + (i - 1) < Len(f.bytes) /\ i - 1 \notin Wrong
        BY <1>1, <1>2, <2>2, <2>3, <3>2
      <4>2. g[i - 1] = After(i - 1) /\ p + (i - 1) = p + i - 1
        BY <1>2, <2>3, <4>1
      <4> QED
        BY <4>2 DEF IsState
    <3> QED
      BY <3>1, <3>2
  <2> QED
    BY <1>6, <2>3, <2>4
<1>8. /\ IsState(g[N - 1]) /\ g[N - 1].buffer = Prefix(f.bytes, p + N - 1)
      /\ g[N - 1].handled = start.handled /\ g[N - 1].counter = start.counter
  <2>1. CASE N = 1
    BY <1>2, <1>5, <2>1
  <2>2. CASE N # 1
    <3>1. N - 1 \in 1 .. N /\ p + (N - 1) < Len(f.bytes) /\ p + (N - 1) = p + N - 1
      BY <1>1, <1>2, <2>2
    <3>2. g[N - 1] = After(N - 1)
      BY <1>7, <3>1
    <3> QED
      BY <3>1, <3>2 DEF IsState
  <2> QED
    BY <2>1, <2>2
<1>9. N \in 1 .. N
  BY <1>2
<1> QED
  BY <1>2, <1>4, <1>6, <1>8, <1>9

-----------------------------------------------------------------------------
(***************************************************************************)
(* An undisturbed frame is handled.  What makes it true is the time: bytes *)
(* wait in the UART no longer than loop is late, and bytes stay in the     *)
(* buffer no longer than 50 ms and loop is late after the last one.  After *)
(* a pause that is longer, a frame finds both empty.                       *)
(***************************************************************************)
BytesAreRecent ==
  /\ fifo # <<>> => silence <= since_loop
  /\ rx_buffer # <<>> => since_byte > Gap \/ silence <= since_byte + LoopDelay

(***************************************************************************)
(* The buffer of an undisturbed frame is younger than the frame or, once   *)
(* all of it was sent, by no more older than loop is late.                 *)
(***************************************************************************)
BufferIsYoung ==
  Kept # <<>> => since_byte <= on_line + IF Sending THEN 0 ELSE since_loop

\* A frame of Frames is on the line, in the meaning its sender gives it now.
Current ==
  \E f \in Frames : frame = [bytes |-> f.bytes, means |-> Meaning(f, status_counter)]

Waiting ==
  /\ handled = <<>> /\ Current
  /\ Kept \o fifo = Prefix(frame.bytes, sent)
  /\ ~Sending => fifo # <<>>

Delivered ==
  handled = <<frame.means>> /\ ~Sending /\ fifo = <<>> /\ Kept = <<>>

IntactInv ==
  /\ TypeOK /\ BytesAreRecent
  /\ Punctual /\ intact => BufferIsYoung /\ (Waiting \/ Delivered)

Start == [buffer |-> Kept, accepted |-> FALSE, handled |-> handled,
          counter |-> status_counter]

LEMMA StartTyped ==
  ASSUME TypeOK
  PROVE  /\ StateTyped(Start) /\ Start.buffer = Kept /\ Start.handled = handled
         /\ Start.counter = status_counter
<1>1. Kept \in Seq(Bytes) /\ Len(Kept) < LongestFrame
  BY LongestFramePositive DEF Kept, TypeOK
<1> QED
  BY <1>1 DEF StateTyped, IsState, TypeOK, Start

LEMMA LoopReads ==
  ASSUME TypeOK, Loop
  PROVE  /\ rx_buffer' = ReadAll(Start).buffer /\ handled' = ReadAll(Start).handled
         /\ Kept' = rx_buffer' /\ status_counter' = ReadAll(Start).counter
         /\ fifo' = <<>> /\ since_loop' = 0
         /\ since_byte' \in Nat /\ since_byte' <= Gap
         /\ ReadAll(Start).accepted = TRUE => since_byte' = 0
         /\ since_byte' \in {0, since_byte}
         /\ fifo = <<>> => ReadAll(Start) = Start
         /\ UNCHANGED <<conditions, frame, sent, on_line, silence, noisy, intact>>
<1>1. /\ rx_buffer' = ReadAll(Start).buffer /\ handled' = ReadAll(Start).handled
      /\ status_counter' = ReadAll(Start).counter /\ fifo' = <<>> /\ since_loop' = 0
      /\ since_byte' = IF since_byte > Gap \/ ReadAll(Start).accepted THEN 0 ELSE since_byte
      /\ UNCHANGED <<conditions, frame, sent, on_line, silence, noisy, intact>>
  BY DEF Loop, Start, line_vars
<1>2. Gap \in Nat /\ since_byte \in Nat
  BY LineFacts DEF TypeOK
<1>3. since_byte' \in Nat /\ since_byte' <= Gap /\ since_byte' \in {0, since_byte}
  BY <1>1, <1>2
<1>4. Kept' = rx_buffer'
  BY <1>2, <1>3 DEF Kept
<1>5. ASSUME fifo = <<>> PROVE ReadAll(Start) = Start
  <2>1. PICK g : Reading(Start, Len(fifo), g) /\ ReadAll(Start) = g[Len(fifo)]
    BY ReadAllUnfolds DEF TypeOK
  <2>2. Len(fifo) = 0 /\ 0 \in 0 .. Len(fifo)
    BY <1>5
  <2> QED
    BY <2>1, <2>2 DEF Reading
<1> QED
  BY <1>1, <1>3, <1>4, <1>5

LEMMA ConditionsStay ==
  ASSUME [Next]_vars
  PROVE  /\ UNCHANGED <<conditions, Receiver, Version, Frames, LoopDelay, Quiet, NoiseBytes>>
         /\ Punctual' <=> Punctual
<1>1. UNCHANGED conditions
  BY DEF Next, vars, line_vars, Loop, FrameStarts, LineUsed, BytesArrive, ByteLost,
         Noise, Tick
<1> QED
  BY <1>1 DEF Receiver, Version, Frames, LoopDelay, Quiet, NoiseBytes, Punctual

LEMMA CurrentStays ==
  ASSUME [Next]_vars, Current, UNCHANGED <<frame, status_counter>>
  PROVE  Current'
<1>1. PICK f \in Frames : frame = [bytes |-> f.bytes, means |-> Meaning(f, status_counter)]
  BY DEF Current
<1>2. Meaning(f, status_counter)' = Meaning(f, status_counter) /\ Frames' = Frames
  BY ConditionsStay DEF Meaning
<1> QED
  BY <1>1, <1>2 DEF Current

LEMMA CurrentFacts ==
  ASSUME TypeOK, Current
  PROVE  /\ Length > 4 /\ Length \in Nat /\ frame.bytes \in Seq(Bytes)
         /\ \E f \in Frames : frame.bytes = f.bytes
                             /\ frame.means = Meaning(f, status_counter)
<1>1. PICK f \in Frames : frame = [bytes |-> f.bytes, means |-> Meaning(f, status_counter)]
  BY DEF Current
<1>2. frame.bytes = f.bytes /\ frame.means = Meaning(f, status_counter)
  BY <1>1
<1>3. conditions \in Conditions
  BY DEF TypeOK
<1>4. f.bytes \in Seq(Bytes) /\ Len(f.bytes) > 4
  BY <1>3, LineFacts
<1>5. Length = Len(f.bytes)
  BY <1>2 DEF Length
<1>6. Length > 4 /\ Length \in Nat
  BY <1>4, <1>5
<1> QED
  BY <1>2, <1>4, <1>6

LEMMA RecentBytes ==
  ASSUME TypeOK, BytesAreRecent, [Next]_vars PROVE BytesAreRecent'
<1>0. /\ LoopDelay' = LoopDelay /\ LoopDelay \in Nat /\ Gap \in Nat /\ Quiet \in Nat
      /\ since_byte \in Nat /\ since_loop \in Nat /\ silence \in Nat
      /\ since_loop <= LoopDelay
  BY ConditionsStay, LineFacts DEF TypeOK
<1>1. CASE Loop
  <2>1. /\ fifo' = <<>> /\ since_byte' \in Nat /\ silence' = silence
        /\ rx_buffer' = ReadAll(Start).buffer
        /\ fifo = <<>> => ReadAll(Start) = Start
        /\ since_byte' \in {0, since_byte}
    BY <1>1, LoopReads
  <2>2. CASE fifo # <<>>
    <3>1. silence <= LoopDelay
      BY <1>0, <2>2 DEF BytesAreRecent
    <3>2. silence' = silence /\ since_byte' \in Nat
      BY <2>1
    <3>3. silence' <= since_byte' + LoopDelay'
      <4>1. silence \in Nat /\ LoopDelay \in Nat /\ LoopDelay' = LoopDelay
        BY <1>0
      <4>2. \A n \in Nat : silence <= n + LoopDelay
        BY <3>1, <4>1
      <4> QED
        BY <3>2, <4>1, <4>2
    <3> QED
      BY <2>1, <3>3 DEF BytesAreRecent
  <2>3. CASE fifo = <<>> /\ rx_buffer' # <<>>
    <3>1. rx_buffer' = Kept
      BY <2>1, <2>3, StartTyped
    <3>2. Kept = rx_buffer /\ ~(since_byte > Gap)
      BY <2>3, <3>1 DEF Kept
    <3>3. silence <= since_byte + LoopDelay
      BY <2>3, <3>1, <3>2 DEF BytesAreRecent
    <3>4. since_byte' = since_byte
      BY <1>1, <2>3, <3>2, LoopReads, StartTyped DEF Loop, Start
    <3> QED
      BY <1>0, <2>1, <3>3, <3>4 DEF BytesAreRecent
  <2> QED
    BY <2>1, <2>2, <2>3 DEF BytesAreRecent
<1>2. CASE FrameStarts
  BY <1>0, <1>2 DEF FrameStarts, BytesAreRecent
<1>3. CASE BytesArrive \/ ByteLost \/ Noise
  BY <1>0, <1>3 DEF BytesArrive, ByteLost, Noise, LineUsed, receiver_vars, BytesAreRecent
<1>4. CASE Tick
  BY <1>0, <1>4 DEF Tick, BytesAreRecent
<1>5. CASE UNCHANGED vars
  BY <1>0, <1>5 DEF vars, receiver_vars, line_vars, BytesAreRecent
<1> QED
  BY <1>1, <1>2, <1>3, <1>4, <1>5 DEF Next

LEMMA PauseClears ==
  ASSUME TypeOK, BytesAreRecent, Quiet > Gap + LoopDelay, silence >= Quiet
  PROVE  fifo = <<>> /\ Kept = <<>>
<1>1. /\ LoopDelay \in Nat /\ Quiet \in Nat /\ Gap \in Nat /\ since_byte \in Nat
      /\ since_loop \in Nat /\ silence \in Nat /\ since_loop <= LoopDelay
  BY LineFacts DEF TypeOK
<1>2. fifo = <<>>
  BY <1>1 DEF BytesAreRecent
<1>3. rx_buffer = <<>> \/ since_byte > Gap
  BY <1>1 DEF BytesAreRecent
<1> QED
  BY <1>2, <1>3 DEF Kept

LEMMA KeptStays ==
  ASSUME TypeOK, FrameStarts \/ BytesArrive \/ ByteLost \/ Noise \/ UNCHANGED vars
  PROVE  Kept' = Kept
<1>1. UNCHANGED <<rx_buffer, since_byte>>
  BY DEF FrameStarts, BytesArrive, ByteLost, Noise, LineUsed, receiver_vars, vars
<1> QED
  BY <1>1 DEF Kept

LEMMA KeptInTick ==
  ASSUME TypeOK, Tick
  PROVE  Kept' \in {Kept, <<>>} /\ (since_byte < Gap => Kept' = Kept)
<1>1. Gap \in Nat /\ since_byte \in Nat /\ rx_buffer' = rx_buffer
      /\ since_byte' = IF since_byte <= Gap THEN since_byte + 1 ELSE since_byte
  BY LineFacts DEF TypeOK, Tick
<1>2. CASE since_byte < Gap
  BY <1>1, <1>2 DEF Kept
<1>3. CASE since_byte >= Gap
  BY <1>1, <1>3 DEF Kept
<1> QED
  BY <1>1, <1>2, <1>3

LEMMA SendingFacts ==
  ASSUME TypeOK
  PROVE  /\ frame.bytes \in Seq(Bytes) /\ Length \in Nat /\ sent \in 0 .. Length
         /\ ~Sending => sent = Length
  BY FrameOnLine DEF TypeOK, Sending

LEMMA IntactLoop ==
  ASSUME ReadAsMeant, TypeOK, BufferIsYoung, Waiting \/ Delivered, [Next]_vars, Loop
  PROVE  BufferIsYoung' /\ (Waiting' \/ Delivered')
<1>1. /\ rx_buffer' = ReadAll(Start).buffer /\ handled' = ReadAll(Start).handled
      /\ Kept' = rx_buffer' /\ status_counter' = ReadAll(Start).counter
      /\ fifo' = <<>> /\ since_loop' = 0
      /\ ReadAll(Start).accepted = TRUE => since_byte' = 0
      /\ since_byte' \in {0, since_byte}
      /\ fifo = <<>> => ReadAll(Start) = Start
      /\ UNCHANGED <<conditions, frame, sent, on_line>>
  BY LoopReads
<1>2. (Sending' <=> Sending) /\ Length' = Length
  BY <1>1 DEF Sending, Length
<1>3. /\ on_line \in Nat /\ since_byte \in Nat /\ since_loop \in Nat
      /\ conditions \in Conditions /\ fifo \in Seq(Bytes) /\ status_counter \in Nat
  BY LineFacts DEF TypeOK
<1>4. CASE fifo = <<>>
  <2>1. Kept' = Kept /\ handled' = handled /\ status_counter' = status_counter /\ fifo' = fifo
    BY <1>1, <1>4, StartTyped
  <2>2. Kept # <<>> => Sending
    BY <1>4 DEF Waiting, Delivered
  <2>3. BufferIsYoung'
    <3>1. CASE Kept = <<>>
      BY <2>1, <3>1 DEF BufferIsYoung
    <3>2. CASE Kept # <<>>
      <4>1. since_byte <= on_line
        BY <1>3, <2>2, <3>2 DEF BufferIsYoung
      <4>2. since_byte' <= on_line
        BY <1>1, <1>3, <4>1
      <4> QED
        BY <1>1, <1>2, <1>3, <2>2, <3>2, <4>2 DEF BufferIsYoung
    <3> QED
      BY <3>1, <3>2
  <2>4. CASE Waiting
    <3>1. Current'
      BY <1>1, <2>1, <2>4, CurrentStays DEF Waiting
    <3> QED
      BY <1>1, <1>2, <2>1, <2>3, <2>4, <3>1 DEF Waiting, Prefix
  <2>5. CASE Delivered
    BY <1>1, <1>2, <2>1, <2>3, <2>5 DEF Delivered
  <2> QED
    BY <2>4, <2>5
<1>5. CASE fifo # <<>>
  <2>1. Waiting
    BY <1>5 DEF Delivered
  <2>2. PICK f \in Frames : frame = [bytes |-> f.bytes, means |-> Meaning(f, status_counter)]
    BY <2>1 DEF Waiting, Current
  <2>3. /\ frame.bytes = f.bytes /\ frame.means = Meaning(f, status_counter)
        /\ Length = Len(f.bytes) /\ sent \in 0 .. Len(f.bytes)
        /\ f.bytes \in Seq(Bytes)
    BY <2>2, SendingFacts DEF Length
  <2>4. /\ IsState(Start) /\ Start.buffer \in Seq(Bytes)
        /\ Start.buffer \o fifo = Prefix(f.bytes, sent)
        /\ Start.handled = <<>> /\ Start.counter = status_counter
    BY <2>1, <2>3, StartTyped DEF StateTyped, Waiting
  <2>5. CASE sent < Len(f.bytes)
    <3>1. ReadAll(Start) = [buffer |-> Prefix(f.bytes, sent), accepted |-> TRUE,
                            handled |-> <<>>, counter |-> status_counter]
      BY <1>3, <1>5, <2>3, <2>4, <2>5, ReadFrame
    <3>2. /\ Kept' = Prefix(f.bytes, sent) /\ handled' = <<>> /\ since_byte' = 0
          /\ status_counter' = status_counter
      BY <1>1, <3>1
    <3>3. Sending
      BY <2>3, <2>5 DEF Sending
    <3>4. BufferIsYoung'
      BY <1>1, <1>2, <1>3, <3>2, <3>3 DEF BufferIsYoung
    <3>5. Current'
      BY <1>1, <2>1, <3>2, CurrentStays DEF Waiting
    <3>6. Kept' \o fifo' = Prefix(frame.bytes, sent)'
      <4>1. Prefix(f.bytes, sent) \in Seq(Bytes)
        BY <2>3, PrefixGrows
      <4>2. Prefix(f.bytes, sent) \o <<>> = Prefix(f.bytes, sent)
        BY <4>1
      <4> QED
        BY <1>1, <2>3, <3>2, <4>2 DEF Prefix
    <3> QED
      BY <1>2, <3>2, <3>3, <3>4, <3>5, <3>6 DEF Waiting
  <2>6. CASE sent = Len(f.bytes)
    <3>1. /\ ReadAll(Start).buffer = <<>>
          /\ ReadAll(Start).handled = <<>> \o Handled(f.bytes, status_counter)
      BY <1>3, <1>5, <2>3, <2>4, <2>6, ReadFrame
    <3>2. Handled(f.bytes, status_counter) = <<frame.means>>
      BY <1>3, <2>3, FrameHandled
    <3>3. <<>> \o <<frame.means>> = <<frame.means>>
      OBVIOUS
    <3>4. Kept' = <<>> /\ handled' = <<frame.means>>
      BY <1>1, <3>1, <3>2, <3>3, Zenon
    <3>5. ~Sending
      BY <2>3, <2>6 DEF Sending
    <3> QED
      BY <1>1, <1>2, <3>4, <3>5 DEF Delivered, BufferIsYoung
  <2> QED
    BY <2>3, <2>5, <2>6
<1> QED
  BY <1>4, <1>5

LEMMA IntactStarts ==
  ASSUME TypeOK, BytesAreRecent, Quiet > Gap + LoopDelay, [Next]_vars, FrameStarts, ~noisy
  PROVE  BufferIsYoung' /\ Waiting'
<1>1. PICK f \in Frames : frame' = [bytes |-> f.bytes, means |-> Meaning(f, status_counter)]
  BY DEF FrameStarts
<1>2. /\ f.bytes \in Seq(Bytes) /\ Len(f.bytes) \in Nat /\ Len(f.bytes) > 4
      /\ sent' = 0 /\ handled' = <<>> /\ fifo' = fifo /\ status_counter' = status_counter
  <2>1. conditions \in Conditions
    BY DEF TypeOK
  <2>2. /\ f.bytes \in Seq(Bytes) /\ Len(f.bytes) \in Nat /\ Len(f.bytes) > 4
    BY <2>1, LineFacts
  <2>3. sent' = 0 /\ handled' = <<>> /\ fifo' = fifo /\ status_counter' = status_counter
    BY DEF FrameStarts
  <2> QED
    BY <2>2, <2>3
<1>3. fifo = <<>> /\ Kept = <<>>
  BY PauseClears DEF FrameStarts
<1>4. Kept' = <<>>
  BY <1>3, KeptStays
<1>5. Sending'
  BY <1>1, <1>2 DEF Sending, Length
<1>6. Current'
  <2>1. Meaning(f, status_counter)' = Meaning(f, status_counter) /\ Frames' = Frames
    BY <1>2, ConditionsStay DEF Meaning
  <2> QED
    BY <1>1, <2>1 DEF Current
<1>7. Kept' \o fifo' = Prefix(frame.bytes, sent)'
  <2>1. Prefix(f.bytes, 0) = <<>> /\ <<>> \o <<>> = <<>>
    BY <1>2 DEF Prefix
  <2>2. Prefix(frame.bytes, sent)' = Prefix(f.bytes, 0)
    BY <1>1, <1>2 DEF Prefix
  <2> QED
    BY <1>2, <1>3, <1>4, <2>1, <2>2, Zenon
<1> QED
  BY <1>2, <1>4, <1>5, <1>6, <1>7 DEF BufferIsYoung, Waiting

LEMMA IntactArrives ==
  ASSUME TypeOK, BufferIsYoung, Waiting \/ Delivered, [Next]_vars, BytesArrive
  PROVE  BufferIsYoung' /\ Waiting'
<1>1. /\ UNCHANGED <<rx_buffer, since_byte, since_loop, conditions, frame, on_line,
                     handled, status_counter>>
      /\ Sending /\ sent' > sent /\ sent' \in Pauses
      /\ fifo' = fifo \o SubSeq(frame.bytes, sent + 1, sent')
  BY DEF BytesArrive, LineUsed, receiver_vars
<1>2. Waiting
  BY <1>1 DEF Delivered
<1>3. PICK n \in 0 .. Length : n = sent' /\ n > sent
  BY <1>1, FrameOnLine
<1>4. frame.bytes \in Seq(Bytes) /\ Length \in Nat /\ sent \in 0 .. Length
  BY SendingFacts
<1>5. PICK more : more = SubSeq(frame.bytes, sent + 1, n)
  OBVIOUS
<1>6. /\ Prefix(frame.bytes, sent) \o more = Prefix(frame.bytes, n)
      /\ more \in Seq(Bytes) /\ Len(more) = n - sent /\ n - sent > 0
  <2>1. sent <= n /\ sent \in 0 .. Len(frame.bytes) /\ n \in 0 .. Len(frame.bytes)
    BY <1>3, <1>4 DEF Length
  <2>2. n - sent > 0
    <3>1. n \in 0 .. Length /\ n > sent
      BY <1>3
    <3> QED
      BY <1>4, <3>1
  <2> QED
    BY <1>4, <1>5, <2>1, <2>2, PrefixGrows
<1>7. Kept' = Kept /\ Kept \in Seq(Bytes) /\ fifo \in Seq(Bytes)
  <2>1. Kept' = Kept
    BY KeptStays
  <2> QED
    BY <2>1, StartTyped DEF StateTyped, TypeOK
<1>8. fifo' = fifo \o more
  BY <1>1, <1>3, <1>5
<1>9. fifo' # <<>>
  <2>1. Len(fifo \o more) > 0
    BY <1>6, <1>7
  <2> QED
    BY <1>8, <2>1
<1>10. Kept' \o fifo' = Prefix(frame.bytes, sent)'
  <2>1. Kept \o (fifo \o more) = (Kept \o fifo) \o more
    <3>1. \A a, b, c \in Seq(Bytes) : a \o (b \o c) = (a \o b) \o c
      BY ConcatAssociative
    <3> QED
      BY <1>6, <1>7, <3>1, Zenon
  <2>2. Kept \o fifo = Prefix(frame.bytes, sent)
    BY <1>2 DEF Waiting
  <2>3. Prefix(frame.bytes, sent)' = Prefix(frame.bytes, n)
    BY <1>1, <1>3 DEF Prefix
  <2> QED
    BY <1>6, <1>7, <1>8, <2>1, <2>2, <2>3, Zenon
<1>11. Current'
  BY <1>1, <1>2, CurrentStays DEF Waiting
<1>12. BufferIsYoung'
  <2>1. on_line \in Nat /\ since_byte \in Nat /\ since_loop \in Nat
    BY LineFacts DEF TypeOK
  <2>2. Kept # <<>> => since_byte <= on_line
    BY <1>1, <2>1 DEF BufferIsYoung
  <2> QED
    BY <1>1, <1>7, <2>1, <2>2 DEF BufferIsYoung
<1> QED
  BY <1>1, <1>2, <1>9, <1>10, <1>11, <1>12 DEF Waiting

LEMMA IntactTick ==
  ASSUME TypeOK, Punctual, BufferIsYoung, Waiting \/ Delivered, [Next]_vars, Tick
  PROVE  BufferIsYoung' /\ (Waiting' \/ Delivered')
<1>1. /\ UNCHANGED <<rx_buffer, status_counter, fifo, conditions, frame, sent, handled>>
      /\ since_loop < LoopDelay /\ since_loop' = since_loop + 1
      /\ since_byte' = IF since_byte <= Gap THEN since_byte + 1 ELSE since_byte
      /\ on_line' = IF Sending THEN on_line + 1 ELSE on_line
      /\ Sending => on_line < FrameTime
  BY DEF Tick
<1>2. /\ on_line \in Nat /\ since_byte \in Nat /\ since_loop \in Nat /\ Gap \in Nat
      /\ on_line <= FrameTime /\ FrameTime \in Nat /\ LoopDelay \in Nat
      /\ FrameTime + LoopDelay <= Gap
  BY LineFacts DEF TypeOK, Punctual
<1>3. Sending' <=> Sending
  BY <1>1 DEF Sending, Length
<1>4. Current => Current'
  BY <1>1, CurrentStays
<1>5. CASE Kept = <<>>
  <2>1. Kept' = <<>>
    BY <1>5, KeptInTick
  <2> QED
    BY <1>1, <1>3, <1>4, <1>5, <2>1 DEF BufferIsYoung, Waiting, Delivered, Prefix
<1>6. CASE Kept # <<>>
  <2>1. since_byte < Gap /\ since_byte' = since_byte + 1
        /\ (Sending => since_byte + 1 <= on_line + 1)
        /\ (~Sending => since_byte + 1 <= on_line + (since_loop + 1))
    <3>1. CASE Sending
      BY <1>1, <1>2, <1>6, <3>1 DEF BufferIsYoung
    <3>2. CASE ~Sending
      BY <1>1, <1>2, <1>6, <3>2 DEF BufferIsYoung
    <3> QED
      BY <3>1, <3>2
  <2>2. Kept' = Kept
    BY <2>1, KeptInTick
  <2>3. BufferIsYoung'
    <3>1. CASE Sending
      BY <1>1, <1>2, <1>3, <2>1, <3>1 DEF BufferIsYoung
    <3>2. CASE ~Sending
      BY <1>1, <1>2, <1>3, <2>1, <3>2 DEF BufferIsYoung
    <3> QED
      BY <3>1, <3>2
  <2> QED
    BY <1>1, <1>3, <1>4, <2>2, <2>3 DEF Waiting, Delivered, Prefix
<1> QED
  BY <1>5, <1>6

LEMMA IntactStart == Init => IntactInv
<1> SUFFICES ASSUME Init PROVE IntactInv
  OBVIOUS
<1>1. TypeOK
  BY ReceiverInit
<1>2. fifo = <<>> /\ rx_buffer = <<>> /\ intact = FALSE
  BY DEF Init
<1> QED
  BY <1>1, <1>2 DEF IntactInv, BytesAreRecent

LEMMA IntactNext ==
  ASSUME ReadAsMeant PROVE IntactInv /\ [Next]_vars => IntactInv'
<1> SUFFICES ASSUME IntactInv, [Next]_vars PROVE IntactInv'
  OBVIOUS
<1>1. TypeOK /\ BytesAreRecent
  BY DEF IntactInv
<1>2. TypeOK' /\ BytesAreRecent'
  BY <1>1, ReceiverNext, RecentBytes
<1>3. SUFFICES ASSUME Punctual, intact'
               PROVE  BufferIsYoung' /\ (Waiting' \/ Delivered')
  BY <1>2, ConditionsStay DEF IntactInv
<1>4. CASE Loop
  <2>1. intact
    BY <1>3, <1>4 DEF Loop, line_vars
  <2> QED
    BY <1>1, <1>3, <1>4, <2>1, IntactLoop DEF IntactInv
<1>5. CASE FrameStarts
  <2>1. ~noisy /\ Quiet > Gap + LoopDelay
    BY <1>3, <1>5 DEF FrameStarts, Punctual
  <2> QED
    BY <1>1, <1>5, <2>1, IntactStarts
<1>6. CASE BytesArrive
  <2>1. intact
    BY <1>3, <1>6 DEF BytesArrive
  <2> QED
    BY <1>1, <1>3, <1>6, <2>1, IntactArrives DEF IntactInv
<1>7. CASE ByteLost \/ Noise
  BY <1>3, <1>7 DEF ByteLost, Noise
<1>8. CASE Tick
  <2>1. intact
    BY <1>3, <1>8 DEF Tick
  <2> QED
    BY <1>1, <1>3, <1>8, <2>1, IntactTick DEF IntactInv
<1>9. CASE UNCHANGED vars
  <2>1. /\ intact /\ Kept' = Kept
        /\ UNCHANGED <<since_byte, since_loop, status_counter, fifo, frame, sent, on_line,
                       handled>>
    BY <1>1, <1>3, <1>9, KeptStays DEF vars, receiver_vars, line_vars
  <2>2. BufferIsYoung /\ (Waiting \/ Delivered) /\ (Current => Current')
    BY <1>3, <2>1, CurrentStays DEF IntactInv
  <2> QED
    BY <2>1, <2>2 DEF BufferIsYoung, Waiting, Delivered, Prefix, Sending, Length
<1> QED
  BY <1>4, <1>5, <1>6, <1>7, <1>8, <1>9 DEF Next

(***************************************************************************)
(* After a pause, an undisturbed frame that a punctual loop receives       *)
(* reaches its handler once, and means what its sender meant, whatever     *)
(* came before it: for every set of frames of the three protocols, any     *)
(* delays within Punctual, and any number of faults before.                *)
(***************************************************************************)
THEOREM IntactFramesHandled ==
  ASSUME ReadAsMeant PROVE Spec => []IntactFrameHandled
<1>1. Init => IntactInv
  BY IntactStart
<1>2. IntactInv /\ [Next]_vars => IntactInv'
  BY IntactNext
<1>3. IntactInv => IntactFrameHandled
  BY DEF IntactInv, IntactFrameHandled, Waiting, Delivered
<1> QED
  BY <1>1, <1>2, <1>3, PTL DEF Spec

-----------------------------------------------------------------------------
(***************************************************************************)
(* Lost bytes do not mix frames.  All that counts is how many bytes of the *)
(* frame are left: as many as were sent, then they are those sent, or      *)
(* fewer, then they are too few for any frame.  This needs frames of the   *)
(* least length the receiver can take some of their bytes for.             *)
(***************************************************************************)
Occurring == UNION {Range(f.bytes) : f \in Frames}

ShortestFrame ==
  CASE Receiver = "modbus" -> ModbusLength
    [] Receiver = "display" -> IF SOF_SOYO_RESPONSE \in Occurring THEN 15 ELSE 17
    [] Receiver = "emulator" -> RequestLength(Version)

(***************************************************************************)
(* So are the frames of the bus and the requests, the answers of the       *)
(* inverter itself and of the emulator, and those of an MS51 dongle of the *)
(* first version, unless the start byte of the former occurs in them.      *)
(***************************************************************************)
ShortFrames == \A f \in Frames : Len(f.bytes) = ShortestFrame

LEMMA AppendGrows ==
  ASSUME NEW S, NEW a \in Seq(S), NEW byte \in S
  PROVE  /\ Append(a, byte) \in Seq(S) /\ Append(a, byte) # <<>>
         /\ Len(Append(a, byte)) = Len(a) + 1 /\ Len(a) \in Nat
  OBVIOUS

LEMMA OccurringBytes ==
  ASSUME conditions \in Conditions
  PROVE  Occurring \subseteq Bytes /\ \A f \in Frames : f.bytes \in Seq(Occurring)
<1>1. ASSUME NEW f \in Frames
      PROVE  Range(f.bytes) \subseteq Bytes /\ f.bytes \in Seq(Range(f.bytes))
  <2>1. f.bytes \in Seq(Bytes)
    BY LineFacts
  <2>2. \A i \in 1 .. Len(f.bytes) : f.bytes[i] \in Bytes /\ f.bytes[i] \in Range(f.bytes)
    BY <2>1 DEF Range
  <2>3. Range(f.bytes) \subseteq Bytes
    BY <2>1 DEF Range
  <2> QED
    BY <2>1, <2>2, <2>3
<1>2. ASSUME NEW f \in Frames PROVE f.bytes \in Seq(Occurring)
  <2>1. Range(f.bytes) \subseteq Occurring
    BY DEF Occurring
  <2> QED
    BY <1>1, <2>1
<1> QED
  BY <1>1, <1>2 DEF Occurring

LEMMA TooShort ==
  ASSUME conditions \in Conditions, NEW raw \in Seq(Occurring), raw # <<>>,
         Len(raw) < ShortestFrame
  PROVE  Parsed(raw) \in {"more", "reject"}
<1>1. CASE Receiver = "modbus"
  BY <1>1 DEF Parsed, ModbusParsed, ShortestFrame
<1>2. CASE Receiver = "display"
  <2>1. /\ ResponseLength(raw) \in {15, 17, 25}
        /\ ResponseLength(raw) = 15 => raw[1] = SOF_SOYO_RESPONSE
    BY DEF ResponseLength
  <2>2. raw[1] \in Occurring
    OBVIOUS
  <2>3. Len(raw) < ResponseLength(raw)
    BY <1>2, <2>1, <2>2 DEF ShortestFrame
  <2> QED
    BY <1>2, <2>3 DEF Parsed, DisplayParsed
<1>3. CASE Receiver = "emulator"
  BY <1>3 DEF Parsed, EmulatorParsed, ShortestFrame
<1> QED
  BY <1>1, <1>2, <1>3, LineFacts DEF Receivers

LEMMA ReadFragment ==
  ASSUME conditions \in Conditions, fifo \in Seq(Occurring),
         NEW start, IsState(start), start.buffer \in Seq(Occurring),
         ShortestFrame \in Nat, Len(start.buffer) + Len(fifo) < ShortestFrame
  PROVE  LET end == ReadAll(start)
             all == Len(start.buffer) + Len(fifo)
         IN  /\ end.handled = start.handled /\ end.counter = start.counter
             /\ end.buffer \in Seq(Occurring) /\ Len(end.buffer) <= all
             /\ Len(end.buffer) = all => end.buffer = start.buffer \o fifo
<1> DEFINE N == Len(fifo)
           p == Len(start.buffer)
           So(t, i) == /\ IsState(t) /\ t.buffer \in Seq(Occurring)
                       /\ t.handled = start.handled /\ t.counter = start.counter
                       /\ Len(t.buffer) <= p + i
                       /\ Len(t.buffer) = p + i =>
                            t.buffer = start.buffer \o Prefix(fifo, i)
<1>1. N \in Nat /\ p \in Nat /\ p + N < ShortestFrame
  OBVIOUS
<1>2. PICK g : Reading(start, N, g) /\ ReadAll(start) = g[N]
  BY ReadAllUnfolds
<1>3. So(start, 0)
  <2>1. Prefix(fifo, 0) = <<>> /\ start.buffer \o <<>> = start.buffer
    BY DEF Prefix
  <2>2. p + 0 = p /\ Len(start.buffer) <= p + 0
    BY <1>1
  <2> QED
    BY <2>1, <2>2, Zenon
<1>4. ASSUME NEW i \in 1 .. N
      PROVE  /\ Prefix(fifo, i - 1) \in Seq(Bytes) /\ Len(Prefix(fifo, i - 1)) = i - 1
             /\ Append(Prefix(fifo, i - 1), fifo[i]) = Prefix(fifo, i)
             /\ fifo[i] \in Occurring
  <2>1. fifo \in Seq(Bytes) /\ start.buffer \in Seq(Bytes) /\ fifo[i] \in Occurring
    BY OccurringBytes
  <2> QED
    BY <2>1, AppendToPrefix
<1> HIDE DEF N, p
<1>5. ASSUME NEW i \in 1 .. N, NEW t, So(t, i - 1)
      PROVE  So(Received(t, fifo[i]), i)
  <2>1. PICK raw : raw = Append(t.buffer, fifo[i])
    OBVIOUS
  <2>2. i \in Nat /\ i > 0 /\ p + (i - 1) = p + i - 1 /\ p + i - 1 \in Nat
    BY <1>1
  <2>3. /\ raw \in Seq(Occurring) /\ raw # <<>> /\ Len(raw) = Len(t.buffer) + 1
        /\ Len(t.buffer) \in Nat
    <3>1. t.buffer \in Seq(Occurring) /\ fifo[i] \in Occurring
      BY <1>4, <1>5
    <3> QED
      BY <2>1, <3>1, AppendGrows, Zenon
  <2>4. Len(raw) <= p + i /\ Len(raw) < ShortestFrame
    BY <1>1, <1>5, <2>2, <2>3
  <2>5. ASSUME Len(raw) = p + i PROVE raw = start.buffer \o Prefix(fifo, i)
    <3>1. t.buffer = start.buffer \o Prefix(fifo, i - 1)
      <4>1. Len(t.buffer) = p + (i - 1)
        BY <1>1, <2>2, <2>3, <2>5
      <4> QED
        BY <1>5, <4>1
    <3>2. Append(start.buffer \o Prefix(fifo, i - 1), fifo[i])
            = start.buffer \o Append(Prefix(fifo, i - 1), fifo[i])
      <4>1. start.buffer \in Seq(Bytes) /\ fifo[i] \in Bytes
        BY <1>4, OccurringBytes
      <4> QED
        BY <1>4, <4>1, AppendInConcat
    <3> QED
      BY <1>4, <2>1, <3>1, <3>2, Zenon
  <2>6. Parsed(raw) \in {"more", "reject"}
    BY <2>3, <2>4, TooShort
  <2>7. CASE Parsed(raw) = "more"
    <3>1. Received(t, fifo[i]) = [buffer |-> raw, accepted |-> TRUE, handled |-> t.handled,
                                  counter |-> t.counter]
      BY <1>5, <2>1, <2>7, OneByte
    <3> QED
      BY <1>5, <2>3, <2>4, <2>5, <3>1 DEF IsState
  <2>8. CASE Parsed(raw) = "reject"
    <3>1. Received(t, fifo[i]) = [buffer |-> <<>>, accepted |-> t.accepted,
                                  handled |-> t.handled, counter |-> t.counter]
      BY <1>5, <2>1, <2>8, OneByte
    <3>2. 0 <= p + i /\ 0 # p + i
      BY <1>1, <2>2
    <3> QED
      BY <1>5, <3>1, <3>2 DEF IsState
  <2> QED
    BY <2>6, <2>7, <2>8
<1> HIDE DEF So
<1> DEFINE Wrong == {i \in 0 .. N : ~So(g[i], i)}
<1>6. Wrong = {}
  <2>1. SUFFICES ASSUME Wrong # {} PROVE FALSE
    OBVIOUS
  <2>2. PICK i \in Wrong : \A j \in Wrong : i <= j
    <3>1. Wrong \in SUBSET Nat
      BY <1>1
    <3> QED
      BY <2>1, <3>1, LeastOf
  <2>3. i \in 0 .. N /\ ~So(g[i], i)
    OBVIOUS
  <2>4. i # 0
    <3>1. g[0] = start
      BY <1>1, <1>2 DEF Reading
    <3> QED
      BY <1>3, <2>3, <3>1
  <2>5. i - 1 \in 0 .. N /\ i - 1 \notin Wrong /\ i \in 1 .. N
    BY <1>1, <2>2, <2>3, <2>4
  <2>6. g[i] = Received(g[i - 1], fifo[i])
    BY <1>2, <2>3, <2>4 DEF Reading
  <2> QED
    BY <1>5, <2>3, <2>5, <2>6
<1>7. So(g[N], N)
  <2>1. N \in 0 .. N /\ N \notin Wrong
    BY <1>1, <1>6
  <2> QED
    BY <2>1
<1>8. Prefix(fifo, N) = fifo
  BY DEF Prefix, N
<1> QED
  BY <1>2, <1>7, <1>8 DEF So, N, p

Left == Len(Kept) + Len(fifo)

Fragment ==
  /\ handled = <<>> /\ (frame = NoFrame \/ Current)
  /\ Kept \in Seq(Occurring) /\ fifo \in Seq(Occurring)
  /\ Left <= sent
  /\ Left = sent => Kept \o fifo = Prefix(frame.bytes, sent)

\* The premise of NoMixedFrame, for such frames.
OnlyLosses == ShortFrames /\ NoiseBytes = {} /\ Quiet > Gap + LoopDelay

UnmixedInv ==
  /\ TypeOK /\ BytesAreRecent
  /\ OnlyLosses => ~noisy /\ (Fragment \/ Delivered)

LEMMA LeftFacts ==
  ASSUME TypeOK
  PROVE  /\ Kept \in Seq(Bytes) /\ fifo \in Seq(Bytes)
         /\ Len(Kept) \in Nat /\ Len(fifo) \in Nat /\ Left \in Nat
         /\ sent \in Nat /\ Length \in Nat /\ sent <= Length
         /\ Length > 0 => frame # NoFrame
<1>1. Kept \in Seq(Bytes) /\ fifo \in Seq(Bytes)
  BY StartTyped DEF StateTyped, TypeOK
<1>2. sent \in Nat /\ Length \in Nat /\ sent <= Length
  BY SendingFacts
<1>3. frame = NoFrame => Length = 0
  BY DEF NoFrame, Length
<1> QED
  BY <1>1, <1>2, <1>3 DEF Left

LEMMA OccurringStay ==
  ASSUME [Next]_vars PROVE Occurring' = Occurring /\ (ShortFrames' <=> ShortFrames)
<1>1. UNCHANGED <<Receiver, Version, Frames>>
  BY ConditionsStay
<1>2. Occurring' = Occurring
  BY <1>1 DEF Occurring
<1> QED
  BY <1>1, <1>2 DEF ShortFrames, ShortestFrame

LEMMA UnmixedLoop ==
  ASSUME ReadAsMeant, TypeOK, ShortFrames, Fragment \/ Delivered, [Next]_vars, Loop
  PROVE  Fragment' \/ Delivered'
<1>1. /\ rx_buffer' = ReadAll(Start).buffer /\ handled' = ReadAll(Start).handled
      /\ Kept' = rx_buffer' /\ status_counter' = ReadAll(Start).counter
      /\ fifo' = <<>> /\ (fifo = <<>> => ReadAll(Start) = Start)
      /\ UNCHANGED <<conditions, frame, sent>>
  BY LoopReads
<1>2. (Sending' <=> Sending) /\ Length' = Length
  BY <1>1 DEF Sending, Length
<1>3. /\ conditions \in Conditions /\ fifo \in Seq(Bytes) /\ status_counter \in Nat
      /\ Occurring' = Occurring
  BY OccurringStay DEF TypeOK
<1>4. CASE fifo = <<>>
  <2>1. Kept' = Kept /\ handled' = handled /\ status_counter' = status_counter /\ fifo' = fifo
    BY <1>1, <1>4, StartTyped
  <2>2. Current => Current'
    BY <1>1, <2>1, CurrentStays
  <2> QED
    BY <1>1, <1>2, <1>3, <2>1, <2>2 DEF Fragment, Delivered, Left, Prefix
<1>5. CASE fifo # <<>>
  <2>1. Fragment
    BY <1>5 DEF Delivered
  <2>2. Left <= sent /\ Left > 0 /\ Left <= Length /\ frame # NoFrame
    <3>1. Len(fifo) > 0
      BY <1>3, <1>5
    <3> QED
      BY <2>1, <3>1, LeftFacts DEF Fragment, Left
  <2>3. PICK f \in Frames : frame = [bytes |-> f.bytes, means |-> Meaning(f, status_counter)]
    BY <2>1, <2>2 DEF Fragment, Current
  <2>4. /\ frame.bytes = f.bytes /\ frame.means = Meaning(f, status_counter)
        /\ Length = Len(f.bytes) /\ Length \in Nat /\ f.bytes \in Seq(Bytes)
        /\ Length = ShortestFrame
    BY <1>3, <2>3, SendingFacts DEF Length, ShortFrames
  <2>5. /\ IsState(Start) /\ Start.buffer \in Seq(Bytes) /\ Start.buffer = Kept
        /\ Start.handled = <<>> /\ Start.counter = status_counter
        /\ Start.buffer \in Seq(Occurring) /\ fifo \in Seq(Occurring)
    BY <2>1, StartTyped DEF StateTyped, Fragment
  <2>6. CASE Left < Length
    <3>1. Len(Start.buffer) + Len(fifo) < ShortestFrame
      BY <2>4, <2>5, <2>6 DEF Left
    <3>2. /\ ReadAll(Start).handled = <<>> /\ ReadAll(Start).counter = status_counter
          /\ ReadAll(Start).buffer \in Seq(Occurring) /\ Len(ReadAll(Start).buffer) <= Left
          /\ Len(ReadAll(Start).buffer) = Left => ReadAll(Start).buffer = Kept \o fifo
      BY <1>3, <2>4, <2>5, <3>1, ReadFragment DEF Left
    <3>3. PICK b \in Seq(Occurring) : b = ReadAll(Start).buffer
      BY <3>2
    <3>4. /\ Kept' = b /\ handled' = <<>> /\ status_counter' = status_counter
          /\ fifo' = <<>> /\ Len(b) <= Left /\ (Len(b) = Left => b = Kept \o fifo)
      BY <1>1, <3>2, <3>3
    <3>5. Left' = Len(b) /\ Len(b) \in Nat /\ b \o <<>> = b
      <4>1. Len(b) + Len(<<>>) = Len(b) /\ Len(b) \in Nat /\ b \o <<>> = b
        OBVIOUS
      <4>2. Left' = Len(b) + Len(<<>>)
        BY <3>4 DEF Left
      <4> QED
        BY <4>1, <4>2, Zenon
    <3>6. Len(b) <= sent /\ (Len(b) = sent => Len(b) = Left /\ Left = sent)
      BY <2>2, <3>4, <3>5, LeftFacts
    <3>7. Len(b) = sent => b \o <<>> = Prefix(frame.bytes, sent)
      BY <2>1, <3>4, <3>5, <3>6 DEF Fragment
    <3>8. Current'
      BY <1>1, <2>1, <2>2, <3>4, CurrentStays DEF Fragment
    <3>9. Kept' \in Seq(Occurring)' /\ fifo' \in Seq(Occurring)'
      BY <1>3, <3>4
    <3> QED
      BY <1>1, <3>4, <3>5, <3>6, <3>7, <3>8, <3>9 DEF Fragment, Prefix
  <2>7. CASE Left = Length
    <3>1. sent = Length /\ Left = sent
      BY <2>2, <2>7, LeftFacts
    <3>2. Start.buffer \o fifo = Prefix(f.bytes, Len(f.bytes))
      BY <2>1, <2>4, <2>5, <3>1 DEF Fragment
    <3>3. Len(f.bytes) \in 0 .. Len(f.bytes)
      BY <2>4
    <3>4. /\ ReadAll(Start).buffer = <<>>
          /\ ReadAll(Start).handled = <<>> \o Handled(f.bytes, status_counter)
      BY <1>3, <1>5, <2>5, <3>2, <3>3, ReadFrame
    <3>5. Handled(f.bytes, status_counter) = <<frame.means>>
      BY <1>3, <2>4, FrameHandled
    <3>6. <<>> \o <<frame.means>> = <<frame.means>>
      OBVIOUS
    <3>7. Kept' = <<>> /\ handled' = <<frame.means>>
      BY <1>1, <3>4, <3>5, <3>6, Zenon
    <3>8. ~Sending
      BY <2>4, <3>1 DEF Sending
    <3> QED
      BY <1>1, <1>2, <3>7, <3>8 DEF Delivered
  <2> QED
    BY <2>2, <2>4, <2>6, <2>7, LeftFacts
<1> QED
  BY <1>4, <1>5

LEMMA UnmixedStarts ==
  ASSUME TypeOK, BytesAreRecent, Quiet > Gap + LoopDelay, [Next]_vars, FrameStarts, ~noisy
  PROVE  Fragment'
<1>1. Waiting' /\ Kept' = <<>> /\ fifo' = <<>> /\ sent' = 0
  <2>1. fifo = <<>> /\ Kept = <<>>
    BY PauseClears DEF FrameStarts
  <2> QED
    BY <2>1, IntactStarts, KeptStays DEF FrameStarts
<1>2. Left' = 0
  BY <1>1 DEF Left
<1>3. Kept' \in Seq(Occurring)' /\ fifo' \in Seq(Occurring)'
  BY <1>1
<1> QED
  BY <1>1, <1>2, <1>3 DEF Waiting, Fragment

LEMMA UnmixedArrives ==
  ASSUME TypeOK, Fragment \/ Delivered, [Next]_vars, BytesArrive
  PROVE  Fragment'
<1>1. /\ UNCHANGED <<conditions, frame, handled, status_counter>>
      /\ Sending /\ sent' > sent /\ sent' \in Pauses
      /\ fifo' = fifo \o SubSeq(frame.bytes, sent + 1, sent')
  BY DEF BytesArrive, LineUsed, receiver_vars
<1>2. Fragment
  BY <1>1 DEF Delivered
<1>3. PICK n \in 0 .. Length : n = sent' /\ n > sent
  BY <1>1, FrameOnLine
<1>4. frame.bytes \in Seq(Bytes) /\ Length \in Nat /\ sent \in 0 .. Length /\ n > sent
  BY <1>3, SendingFacts
<1>5. PICK more : more = SubSeq(frame.bytes, sent + 1, n)
  OBVIOUS
<1>6. /\ Prefix(frame.bytes, sent) \o more = Prefix(frame.bytes, n)
      /\ more \in Seq(Bytes) /\ Len(more) = n - sent
  <2>1. sent <= n /\ sent \in 0 .. Len(frame.bytes) /\ n \in 0 .. Len(frame.bytes)
    BY <1>4 DEF Length
  <2> QED
    BY <1>4, <1>5, <2>1, PrefixGrows
<1>7. Kept' = Kept /\ fifo' = fifo \o more
  BY <1>1, <1>3, <1>5, KeptStays
<1>8. Left' = Left + (n - sent) /\ Left <= sent
  <2>1. Len(fifo \o more) = Len(fifo) + (n - sent)
    <3>1. \A a, b \in Seq(Bytes) : Len(a \o b) = Len(a) + Len(b)
      OBVIOUS
    <3> QED
      BY <1>6, <3>1, LeftFacts, Zenon
  <2> QED
    BY <1>2, <1>4, <1>7, <2>1, LeftFacts DEF Left, Fragment
<1>9. Left + (n - sent) <= n /\ (Left + (n - sent) = n => Left = sent)
  BY <1>4, <1>8, LeftFacts
<1>10. Left = sent => Kept \o (fifo \o more) = Prefix(frame.bytes, n)
  <2>1. \A a, b, c \in Seq(Bytes) : a \o (b \o c) = (a \o b) \o c
    BY ConcatAssociative
  <2>2. Kept \o (fifo \o more) = (Kept \o fifo) \o more
    BY <1>6, <2>1, LeftFacts, Zenon
  <2> QED
    BY <1>2, <1>6, <2>2, Zenon DEF Fragment
<1>11. frame = NoFrame \/ Current'
  BY <1>1, <1>2, CurrentStays DEF Fragment
<1>12. Prefix(frame.bytes, sent)' = Prefix(frame.bytes, n) /\ sent' = n /\ frame' = frame
       /\ handled' = <<>>
  BY <1>1, <1>2, <1>3 DEF Prefix, Fragment
<1>13. Kept' \in Seq(Occurring)' /\ fifo' \in Seq(Occurring)'
  <2>1. PICK f \in Frames : frame.bytes = f.bytes
    <3>1. Length > 4
      BY <1>1, FrameOnLine
    <3>2. frame.bytes # <<>>
      BY <3>1 DEF Length
    <3> QED
      BY <3>2 DEF TypeOK
  <2>2. f.bytes \in Seq(Occurring)
    BY OccurringBytes DEF TypeOK
  <2>3. more \in Seq(Occurring)
    <3>1. more = SubSeq(f.bytes, sent + 1, n) /\ sent + 1 \in 1 .. Len(f.bytes) + 1
          /\ n \in 0 .. Len(f.bytes)
      BY <1>4, <1>5, <2>1 DEF Length
    <3> QED
      BY <2>2, <3>1
  <2>4. fifo \o more \in Seq(Occurring) /\ Kept \in Seq(Occurring)
    BY <1>2, <2>3 DEF Fragment
  <2> QED
    BY <1>7, <2>4, OccurringStay
<1> QED
  BY <1>7, <1>8, <1>9, <1>10, <1>11, <1>12, <1>13 DEF Fragment

LEMMA UnmixedNext ==
  ASSUME ReadAsMeant PROVE UnmixedInv /\ [Next]_vars => UnmixedInv'
<1> SUFFICES ASSUME UnmixedInv, [Next]_vars PROVE UnmixedInv'
  OBVIOUS
<1>1. TypeOK /\ BytesAreRecent
  BY DEF UnmixedInv
<1>2. TypeOK' /\ BytesAreRecent'
  BY <1>1, ReceiverNext, RecentBytes
<1>3. SUFFICES ASSUME OnlyLosses PROVE ~noisy' /\ (Fragment' \/ Delivered')
  BY <1>2, ConditionsStay, OccurringStay DEF UnmixedInv, OnlyLosses
<1>4. ~noisy /\ (Fragment \/ Delivered) /\ ShortFrames
      /\ Occurring' = Occurring
  BY <1>3, OccurringStay DEF UnmixedInv, OnlyLosses
<1>5. CASE Loop
  <2>1. noisy' = noisy
    BY <1>5 DEF Loop, line_vars
  <2> QED
    BY <1>1, <1>4, <1>5, <2>1, UnmixedLoop
<1>6. CASE FrameStarts
  <2>1. noisy' = noisy /\ Quiet > Gap + LoopDelay
    BY <1>3, <1>6 DEF FrameStarts, OnlyLosses
  <2> QED
    BY <1>1, <1>4, <1>6, <2>1, UnmixedStarts
<1>7. CASE BytesArrive
  <2>1. noisy' = FALSE
    BY <1>7 DEF BytesArrive, LineUsed
  <2> QED
    BY <1>1, <1>4, <1>7, <2>1, UnmixedArrives
<1>8. CASE ByteLost
  <2>1. /\ UNCHANGED <<conditions, frame, handled, status_counter, fifo>> /\ Sending
        /\ sent' = sent + 1 /\ noisy' = FALSE /\ Kept' = Kept
    BY <1>1, <1>8, KeptStays DEF ByteLost, LineUsed, receiver_vars
  <2>2. Fragment
    BY <1>4, <2>1 DEF Delivered
  <2>3. Left' = Left /\ Left < sent + 1 /\ Left # sent + 1 /\ Left <= sent + 1
    <3>1. Left <= sent
      BY <2>2 DEF Fragment
    <3> QED
      BY <1>1, <2>1, <3>1, LeftFacts DEF Left
  <2>4. frame = NoFrame \/ Current'
    BY <2>1, <2>2, CurrentStays DEF Fragment
  <2> QED
    BY <1>4, <2>1, <2>2, <2>3, <2>4 DEF Fragment
<1>9. CASE Noise
  BY <1>3, <1>9 DEF Noise, OnlyLosses
<1>10. CASE Tick
  <2>1. /\ UNCHANGED <<conditions, frame, handled, status_counter, fifo, sent>>
        /\ noisy' = (noisy /\ silence' < Quiet) /\ Kept' \in {Kept, <<>>}
    BY <1>1, <1>10, KeptInTick DEF Tick
  <2>2. ~noisy'
    BY <1>4, <2>1
  <2>3. CASE Delivered
    BY <2>1, <2>2, <2>3 DEF Delivered, Sending, Length
  <2>4. CASE Fragment
    <3>1. frame = NoFrame \/ Current'
      BY <2>1, <2>4, CurrentStays DEF Fragment
    <3>2. CASE Kept' = Kept
      BY <1>4, <2>1, <2>2, <2>4, <3>1, <3>2 DEF Fragment, Left, Prefix
    <3>3. CASE Kept' = <<>> /\ Kept # <<>>
      <4>1. Len(Kept) > 0 /\ Left <= sent
        BY <1>1, <2>4, <3>3, LeftFacts DEF Fragment
      <4>2. Left' = Len(fifo)
        <5>1. Len(<<>>) + Len(fifo) = Len(fifo)
          BY <1>1, LeftFacts
        <5> QED
          BY <2>1, <3>3, <5>1 DEF Left
      <4>3. Len(fifo) < sent /\ Len(fifo) # sent /\ Len(fifo) <= sent
        BY <1>1, <4>1, LeftFacts DEF Left
      <4> QED
        BY <1>4, <2>1, <2>2, <2>4, <3>1, <3>3, <4>2, <4>3 DEF Fragment
    <3> QED
      BY <2>1, <3>2, <3>3
  <2> QED
    BY <1>4, <2>3, <2>4
<1>11. CASE UNCHANGED vars
  <2>1. /\ Kept' = Kept
        /\ UNCHANGED <<conditions, frame, handled, status_counter, fifo, sent, noisy>>
    BY <1>1, <1>11, KeptStays DEF vars, receiver_vars, line_vars
  <2>2. Current => Current'
    BY <2>1, CurrentStays
  <2> QED
    BY <1>4, <2>1, <2>2 DEF Fragment, Delivered, Left, Prefix, Sending, Length
<1> QED
  BY <1>5, <1>6, <1>7, <1>8, <1>9, <1>10, <1>11 DEF Next

(***************************************************************************)
(* However late loop is and however many bytes are lost, a handler is      *)
(* given a frame once or not at all, and never bytes of two of them: on    *)
(* the RS485 bus, whose checksum nobody verifies, at the emulator, and at  *)
(* a display, unless it is attached to a dongle of the second version,     *)
(* whose frames can shrink to one of the first.                            *)
(***************************************************************************)
THEOREM FramesNotMixed ==
  ASSUME ReadAsMeant PROVE Spec => [](ShortFrames => NoMixedFrame)
<1>1. Init => UnmixedInv
  <2>1. SUFFICES ASSUME Init PROVE UnmixedInv
    OBVIOUS
  <2>2. TypeOK
    BY <2>1, ReceiverInit
  <2>3. /\ rx_buffer = <<>> /\ fifo = <<>> /\ frame = NoFrame /\ sent = 0 /\ ~noisy
        /\ handled = <<>>
    BY <2>1 DEF Init
  <2>4. Kept = <<>> /\ Left = 0
    BY <2>3 DEF Kept, Left
  <2>5. Kept \o fifo = Prefix(frame.bytes, sent)
    <3>1. <<>> \o <<>> = <<>> /\ SubSeq(<<>>, 1, 0) = <<>>
      OBVIOUS
    <3> QED
      BY <2>3, <2>4, <3>1 DEF Prefix, NoFrame
  <2> QED
    BY <2>2, <2>3, <2>4, <2>5 DEF UnmixedInv, BytesAreRecent, Fragment
<1>2. UnmixedInv /\ [Next]_vars => UnmixedInv'
  BY UnmixedNext
<1>3. UnmixedInv => (ShortFrames => NoMixedFrame)
  BY DEF UnmixedInv, OnlyLosses, NoMixedFrame, Fragment, Delivered
<1> QED
  BY <1>1, <1>2, <1>3, PTL DEF Spec

-----------------------------------------------------------------------------
(***************************************************************************)
(* loop() reads the bytes that have come since the last call in one go;    *)
(* what it would do now changes with each byte that arrives as if it had   *)
(* run before it.                                                          *)
(***************************************************************************)
Over(start, bytes, g) ==
  g = [i \in 0 .. Len(bytes) |-> IF i = 0 THEN start ELSE Received(g[i - 1], bytes[i])]

LEMMA SameReceiver ==
  ASSUME [Next]_vars
  PROVE  \A s, byte : Received(s, byte)' = Received(s, byte)
<1>1. UNCHANGED <<Receiver, Version>>
  BY ConditionsStay
<1>2. \A raw : Parsed(raw)' = Parsed(raw) /\ Counts(raw)' = Counts(raw)
  BY <1>1 DEF Parsed, Counts
<1>3. \A raw, n : Handled(raw, n)' = Handled(raw, n)
  BY <1>1 DEF Handled, Reaction
<1> QED
  BY <1>2, <1>3 DEF Received

\* Over determines the states it steps through.
LEMMA OverIsUnique ==
  ASSUME NEW bytes, Len(bytes) \in Nat, NEW start, NEW g, NEW h,
         Over(start, bytes, g), NEW n \in Nat, n <= Len(bytes),
         h[0] = start, \A i \in 1 .. n : h[i] = Received(h[i - 1], bytes[i])
  PROVE  g[n] = h[n]
<1> DEFINE Wrong == {i \in 0 .. n : g[i] # h[i]}
<1>1. SUFFICES ASSUME Wrong # {} PROVE FALSE
  OBVIOUS
<1>2. PICK i \in Wrong : \A j \in Wrong : i <= j
  <2>1. Wrong \in SUBSET Nat
    OBVIOUS
  <2> QED
    BY <1>1, <2>1, LeastOf
<1>3. i \in 0 .. n /\ g[i] # h[i]
  OBVIOUS
<1>4. \A j \in 0 .. n : g[j] = IF j = 0 THEN start ELSE Received(g[j - 1], bytes[j])
  <2>1. \A j \in 0 .. n : j \in 0 .. Len(bytes)
    OBVIOUS
  <2>2. \A j \in 0 .. Len(bytes) :
          g[j] = IF j = 0 THEN start ELSE Received(g[j - 1], bytes[j])
    BY DEF Over
  <2> QED
    BY <2>1, <2>2
<1>5. i # 0
  BY <1>3, <1>4
<1>6. i - 1 \in 0 .. n /\ i - 1 \notin Wrong /\ i \in 1 .. n
  BY <1>2, <1>3, <1>5
<1>7. g[i] = Received(g[i - 1], bytes[i]) /\ h[i] = Received(h[i - 1], bytes[i])
  BY <1>3, <1>4, <1>5, <1>6
<1> QED
  BY <1>3, <1>6, <1>7

LEMMA ReadAllOver ==
  ASSUME NEW X, fifo \in Seq(X), NEW start
  PROVE  \E g : Over(start, fifo, g) /\ ReadAll(start) = g[Len(fifo)]
  BY ReadAllUnfolds DEF Reading, Over

\* The same in the next state.
ReadAllIsReading ==
  fifo \in Seq(Bytes) =>
    \A start : \E g : Reading(start, Len(fifo), g) /\ ReadAll(start) = g[Len(fifo)]

LEMMA ReadAllUnfoldsNow == ReadAllIsReading
  BY ReadAllUnfolds DEF ReadAllIsReading

LEMMA ReadAllUnfoldsNext == ReadAllIsReading'
  BY ReadAllUnfoldsNow, PTL

LEMMA ReadsOn ==
  ASSUME [Next]_vars, fifo \in Seq(Bytes), NEW more \in Seq(Bytes), fifo' = fifo \o more,
         NEW start
  PROVE  \E g : /\ g[0] = ReadAll(start)
                /\ \A i \in 1 .. Len(more) : g[i] = Received(g[i - 1], more[i])
                /\ ReadAll(start)' = g[Len(more)]
<1> DEFINE N == Len(fifo)
           M == Len(more)
<1>1. PICK g : Over(start, fifo, g) /\ ReadAll(start) = g[N]
  BY ReadAllOver
<1>2. PICK h : Over(start, fifo', h) /\ ReadAll(start)' = h[Len(fifo')]
  <2>1. fifo' \in Seq(Bytes)
    OBVIOUS
  <2>2. PICK h : Reading(start, Len(fifo), h)' /\ ReadAll(start)' = h[Len(fifo')]
    BY <2>1, ReadAllUnfoldsNext DEF ReadAllIsReading
  <2>3. Over(start, fifo', h)
    BY <2>2, SameReceiver DEF Reading, Over
  <2> QED
    BY <2>2, <2>3
<1>3. /\ N \in Nat /\ M \in Nat /\ Len(fifo') = N + M
      /\ \A i \in 1 .. N : fifo'[i] = fifo[i]
      /\ \A i \in 1 .. M : fifo'[N + i] = more[i]
  OBVIOUS
<1> HIDE DEF N, M
<1>4. \A i \in 0 .. N + M : h[i] = IF i = 0 THEN start ELSE Received(h[i - 1], fifo'[i])
  BY <1>2, <1>3 DEF Over
<1>5. h[N] = g[N]
  <2>1. h[0] = start
    BY <1>3, <1>4
  <2>2. ASSUME NEW i \in 1 .. N PROVE h[i] = Received(h[i - 1], fifo[i])
    <3>1. i \in 0 .. N + M /\ i # 0 /\ fifo'[i] = fifo[i]
      BY <1>3
    <3> QED
      BY <1>4, <3>1
  <2>3. N <= Len(fifo) /\ N \in Nat /\ Len(fifo) \in Nat
    BY <1>3 DEF N
  <2> QED
    BY <1>1, <2>1, <2>2, <2>3, OverIsUnique
<1>6. ASSUME NEW i \in 1 .. M PROVE h[N + i] = Received(h[N + i - 1], more[i])
  <2>1. PICK j : j = N + i
    OBVIOUS
  <2>2. j \in 0 .. N + M /\ j # 0 /\ fifo'[j] = more[i]
    BY <1>3, <2>1
  <2>3. h[j] = Received(h[j - 1], fifo'[j])
    BY <1>4, <2>2, Zenon
  <2>4. j - 1 = N + i - 1
    BY <1>3, <2>1
  <2> QED
    BY <2>1, <2>2, <2>3, <2>4, Zenon
<1> DEFINE k == [i \in 0 .. M |-> h[N + i]]
<1>7. k[0] = ReadAll(start) /\ ReadAll(start)' = k[M]
  <2>1. 0 \in 0 .. M /\ M \in 0 .. M /\ N + 0 = N
    BY <1>3
  <2> QED
    BY <1>1, <1>2, <1>3, <1>5, <2>1 DEF N
<1>8. ASSUME NEW i \in 1 .. M PROVE k[i] = Received(k[i - 1], more[i])
  <2>1. i \in 0 .. M /\ i - 1 \in 0 .. M /\ N + (i - 1) = N + i - 1
    BY <1>3
  <2> QED
    BY <1>6, <2>1
<1> QED
  BY <1>7, <1>8 DEF M

\* When nothing arrives, or after loop() ran.
LEMMA ReadsTheSame ==
  ASSUME [Next]_vars, fifo \in Seq(Bytes), fifo' = fifo, NEW start
  PROVE  ReadAll(start)' = ReadAll(start)
<1>1. PICK none \in Seq(Bytes) : fifo' = fifo \o none /\ Len(none) = 0
  <2>1. <<>> \in Seq(Bytes) /\ fifo \o <<>> = fifo /\ Len(<<>>) = 0
    OBVIOUS
  <2>2. fifo' = fifo \o <<>>
    BY <2>1, Zenon
  <2> QED
    BY <2>1, <2>2, Zenon
<1>2. PICK g : /\ g[0] = ReadAll(start)
               /\ \A i \in 1 .. Len(none) : g[i] = Received(g[i - 1], none[i])
               /\ ReadAll(start)' = g[Len(none)]
  BY <1>1, ReadsOn
<1>3. g[0] = ReadAll(start) /\ ReadAll(start)' = g[Len(none)]
  BY <1>2, Zenon
<1> QED
  BY <1>1, <1>3, Zenon

LEMMA ReadsNothing ==
  ASSUME [Next]_vars, fifo' = <<>>, NEW start
  PROVE  ReadAll(start)' = start
<1>1. fifo' \in Seq(Bytes) /\ Len(fifo') = 0
  OBVIOUS
<1>2. PICK h : Reading(start, Len(fifo), h)' /\ ReadAll(start)' = h[Len(fifo')]
  BY <1>1, ReadAllUnfoldsNext DEF ReadAllIsReading
<1>3. Over(start, fifo', h)
  BY <1>2, SameReceiver DEF Reading, Over
<1>4. h[0] = start
  BY <1>1, <1>3 DEF Over
<1> QED
  BY <1>1, <1>2, <1>4

-----------------------------------------------------------------------------
(***************************************************************************)
(* The checksum, as a running sum of the bytes of a frame, the checksum    *)
(* included: it ends with 0 if the frame is right.                         *)
(***************************************************************************)
Rest(x) == x % 256

LEMMA RestFacts ==
  /\ \A x \in Int : Rest(x) \in Bytes
  /\ \A b \in Bytes : Rest(b) = b
  /\ \A x, d \in Int : Rest(Rest(x) + d) = Rest(x + d) /\ Rest(Rest(x) - d) = Rest(x - d)
  /\ \A a, b \in Bytes : Rest(a - b) = 0 => a = b
  /\ 255 \in Bytes /\ 0 \in Bytes /\ Bytes \subseteq Int
  BY DEF Rest, Bytes

\* h runs through the bytes from the second: the start byte does not count.
RunningSum(raw, h) ==
  /\ h[1] = 255
  /\ \A i \in 1 .. Len(raw) : h[i] \in Bytes /\ (i > 1 => h[i] = Rest(h[i - 1] - raw[i]))

Summing(data, n, g) ==
  g = [i \in 1 .. n |-> IF i = 1 THEN 255 ELSE (g[i - 1] - data[i]) % 256]

LEMMA ChksumUnfolds ==
  ASSUME NEW data \in Seq(Bytes), data # <<>>
  PROVE  \E h : RunningSum(data, h) /\ Chksum(data) = h[Len(data)]
<1> DEFINE N == Len(data)
           Missing == {n \in 1 .. N : ~ \E g : Summing(data, n, g)}
<1>0. N \in Nat /\ N > 0 /\ \A i \in 1 .. N : data[i] \in Bytes
  OBVIOUS
<1> HIDE DEF N
<1>1. Missing = {}
  <2>1. SUFFICES ASSUME Missing # {} PROVE FALSE
    OBVIOUS
  <2>2. PICK n \in Missing : \A m \in Missing : n <= m
    <3>1. Missing \in SUBSET Nat
      BY <1>0
    <3> QED
      BY <2>1, <3>1, LeastOf
  <2>3. n \in 1 .. N /\ ~ \E g : Summing(data, n, g)
    OBVIOUS
  <2>4. n # 1
    <3> DEFINE g == [i \in 1 .. 1 |-> 255]
    <3>1. Summing(data, 1, g)
      BY DEF Summing
    <3> QED
      BY <2>3, <3>1
  <2>5. n - 1 \in 1 .. N /\ n - 1 \notin Missing
    BY <1>0, <2>2, <2>3, <2>4
  <2>6. PICK g : Summing(data, n - 1, g)
    BY <2>5
  <2> DEFINE h == [i \in 1 .. n |-> IF i = n THEN (g[n - 1] - data[n]) % 256 ELSE g[i]]
  <2>7. ASSUME NEW i \in 1 .. n
        PROVE  h[i] = IF i = 1 THEN 255 ELSE (h[i - 1] - data[i]) % 256
    <3>1. CASE i = n
      BY <1>0, <2>3, <2>4, <3>1
    <3>2. CASE i # n
      <4>1. i \in 1 .. n - 1 /\ h[i] = g[i] /\ (i # 1 => h[i - 1] = g[i - 1])
        BY <1>0, <2>3, <3>2
      <4>2. g[i] = IF i = 1 THEN 255 ELSE (g[i - 1] - data[i]) % 256
        BY <2>6, <4>1 DEF Summing
      <4> QED
        BY <4>1, <4>2
    <3> QED
      BY <3>1, <3>2
  <2>8. Summing(data, n, h)
    BY <2>7 DEF Summing
  <2> QED
    BY <2>3, <2>8
<1>2. \E g : Summing(data, N, g)
  <2>1. N \in 1 .. N
    BY <1>0
  <2>2. N \notin Missing
    BY <1>1, Zenon
  <2> QED
    BY <2>1, <2>2
<1>3. Chksum(data) = (CHOOSE g : Summing(data, N, g))[N]
  BY DEF Chksum, Summing, N
<1>4. PICK h : Summing(data, N, h) /\ Chksum(data) = h[N]
  BY <1>2, <1>3
<1>5. \A i \in 1 .. N : h[i] = IF i = 1 THEN 255 ELSE Rest(h[i - 1] - data[i])
  BY <1>4 DEF Summing, Rest
<1>6. h[1] = 255
  BY <1>0, <1>5
<1> DEFINE Wrong == {i \in 1 .. N : h[i] \notin Bytes}
<1>7. Wrong = {}
  <2>1. SUFFICES ASSUME Wrong # {} PROVE FALSE
    OBVIOUS
  <2>2. PICK i \in Wrong : \A j \in Wrong : i <= j
    <3>1. Wrong \in SUBSET Nat
      BY <1>0
    <3> QED
      BY <2>1, <3>1, LeastOf
  <2>3. i \in 1 .. N /\ h[i] \notin Bytes
    OBVIOUS
  <2>4. i # 1
    BY <1>6, <2>3, RestFacts
  <2>5. i - 1 \in 1 .. N /\ i - 1 \notin Wrong
    BY <1>0, <2>2, <2>3, <2>4
  <2>6. h[i] = Rest(h[i - 1] - data[i])
    BY <1>5, <2>3, <2>4
  <2>7. h[i - 1] \in Int /\ data[i] \in Int
    BY <1>0, <2>3, <2>5, RestFacts
  <2>8. h[i - 1] - data[i] \in Int
    BY <2>7
  <2> QED
    BY <2>3, <2>6, <2>8, RestFacts, Zenon
<1>8. ASSUME NEW i \in 1 .. N
      PROVE  h[i] \in Bytes /\ (i > 1 => h[i] = Rest(h[i - 1] - data[i]))
  <2>1. i > 1 => i # 1
    BY <1>0
  <2> QED
    BY <1>5, <1>7, <2>1
<1> QED
  BY <1>4, <1>6, <1>8 DEF RunningSum, N

Right(raw) == raw = WithChksum(Front(raw))

LEMMA RightEndsAtZero ==
  ASSUME NEW raw \in Seq(Bytes), Len(raw) > 1
  PROVE  \E h : RunningSum(raw, h) /\ (Right(raw) <=> h[Len(raw)] = 0)
<1> DEFINE N == Len(raw)
<1>0. N \in Nat /\ N > 1 /\ raw[N] \in Bytes
  OBVIOUS
<1>1. PICK data : data = Front(raw)
  OBVIOUS
<1>2. /\ data \in Seq(Bytes) /\ data # <<>> /\ Len(data) = N - 1
      /\ \A i \in 1 .. N - 1 : data[i] = raw[i]
  <2>1. data = SubSeq(raw, 1, N - 1)
    BY <1>1 DEF Front
  <2>2. /\ data \in Seq(Bytes) /\ Len(data) = N - 1
        /\ \A i \in 1 .. N - 1 : data[i] = raw[i]
    BY <1>0, <2>1
  <2>3. data # <<>>
    BY <1>0, <2>2
  <2> QED
    BY <2>2, <2>3
<1>3. PICK g : RunningSum(data, g) /\ Chksum(data) = g[N - 1]
  BY <1>2, ChksumUnfolds
<1>4. \A c \in Bytes : Append(data, c) = raw <=> c = raw[N]
  <2>1. ASSUME NEW c \in Bytes, c = raw[N] PROVE Append(data, c) = raw
    <3>1. PICK b : b = Append(data, c)
      OBVIOUS
    <3>2. /\ b \in Seq(Bytes) /\ Len(b) = N /\ b[N] = c
          /\ \A i \in 1 .. N - 1 : b[i] = data[i]
      BY <1>0, <1>2, <3>1
    <3>3. ASSUME NEW i \in 1 .. N PROVE b[i] = raw[i]
      <4>1. i = N \/ i \in 1 .. N - 1
        BY <1>0
      <4> QED
        BY <1>2, <2>1, <3>2, <4>1
    <3>4. b = raw
      BY <1>0, <3>2, <3>3, SeqEqual
    <3> QED
      BY <3>1, <3>4
  <2>2. ASSUME NEW c \in Bytes, Append(data, c) = raw PROVE c = raw[N]
    <3>1. Append(data, c)[Len(data) + 1] = c
      BY <1>2
    <3>2. Len(data) + 1 = N
      BY <1>0, <1>2
    <3> QED
      BY <2>2, <3>1, <3>2
  <2> QED
    BY <2>1, <2>2
<1> DEFINE h == [i \in 1 .. N |-> IF i = N THEN Rest(g[N - 1] - raw[N]) ELSE g[i]]
<1>5. g[N - 1] \in Bytes /\ g[1] = 255
  BY <1>0, <1>2, <1>3 DEF RunningSum
<1>6. h[N] = Rest(g[N - 1] - raw[N]) /\ \A i \in 1 .. N - 1 : h[i] = g[i]
  BY <1>0
<1> HIDE DEF h, N
<1>7. h[N] \in Bytes /\ (h[N] = 0 <=> g[N - 1] = raw[N])
  <2>1. PICK a, b \in Bytes : a = g[N - 1] /\ b = raw[N]
    BY <1>0, <1>5
  <2>2. a - b \in Int /\ (a = b => a - b = 0) /\ Rest(0) = 0
    BY RestFacts
  <2>3. Rest(a - b) \in Bytes /\ (Rest(a - b) = 0 => a = b)
    BY <2>2, RestFacts
  <2>4. a = b => Rest(a - b) = 0
    BY <2>2, Zenon
  <2> QED
    BY <1>6, <2>1, <2>3, <2>4, Zenon
<1>8. Right(raw) <=> h[N] = 0
  <2>1. Right(raw) <=> raw = Append(data, g[N - 1])
    BY <1>1, <1>3, Zenon DEF Right, WithChksum
  <2>2. Append(data, g[N - 1]) = raw <=> g[N - 1] = raw[N]
    BY <1>4, <1>5, Zenon
  <2> QED
    BY <1>7, <2>1, <2>2, Zenon
<1>9. ASSUME NEW i \in 1 .. N
      PROVE  h[i] \in Bytes /\ (i > 1 => h[i] = Rest(h[i - 1] - raw[i]))
  <2>1. CASE i = N
    <3>1. h[N - 1] = g[N - 1]
      BY <1>0, <1>6
    <3> QED
      BY <1>6, <1>7, <2>1, <3>1
  <2>2. CASE i # N
    <3>1. i \in 1 .. N - 1 /\ (i > 1 => i - 1 \in 1 .. N - 1)
      BY <1>0, <2>2
    <3>2. g[i] \in Bytes /\ (i > 1 => g[i] = Rest(g[i - 1] - data[i])) /\ data[i] = raw[i]
      BY <1>2, <1>3, <3>1 DEF RunningSum
    <3> QED
      BY <1>6, <3>1, <3>2
  <2> QED
    BY <2>1, <2>2
<1>10. h[1] = 255
  BY <1>0, <1>5, <1>6
<1> QED
  BY <1>8, <1>9, <1>10 DEF RunningSum, N

LEMMA ByteFacts ==
  \A b \in Bytes : b \in Int /\ b + 0 = b /\ 0 + b = b /\ Rest(b + 0) = b /\ Rest(0 + b) = b
<1> SUFFICES ASSUME NEW b \in Bytes
             PROVE  b \in Int /\ b + 0 = b /\ 0 + b = b /\ Rest(b + 0) = b /\ Rest(0 + b) = b
  OBVIOUS
<1>1. b \in Int /\ b + 0 = b /\ 0 + b = b
  BY DEF Bytes
<1>2. Rest(b) = b
  BY RestFacts
<1> QED
  BY <1>1, <1>2

\* From i + 1 to m, b has the bytes of a from j + 1 to n; d is the distance.
SameShifted(a, j, n, b, i, m, d) ==
  /\ i \in 1 .. Len(b) /\ m \in i .. Len(b) /\ j \in 1 .. Len(a) /\ n \in j .. Len(a)
  /\ d \in Int /\ j = i + d /\ n = m + d
  /\ \A x \in i .. m : x > i => b[x] = a[x + d]

\* The running sum of h at i is that of f at j, and c more.
Ahead(h, i, f, j, c) == c \in Int /\ h[i] = Rest(f[j] + c)

\* Where two words have the same bytes, shifted, their sums keep their difference.
LEMMA ShiftedSums ==
  ASSUME NEW a \in Seq(Bytes), NEW f, RunningSum(a, f),
         NEW b \in Seq(Bytes), NEW h, RunningSum(b, h),
         NEW c, NEW i0, NEW m, NEW j0, NEW n, NEW d,
         SameShifted(a, j0, n, b, i0, m, d), Ahead(h, i0, f, j0, c)
  PROVE  Ahead(h, m, f, n, c)
<1>0. Len(a) \in Nat /\ Len(b) \in Nat /\ \A i \in 1 .. Len(a) : a[i] \in Bytes
  OBVIOUS
<1>s. /\ i0 \in 1 .. Len(b) /\ m \in i0 .. Len(b) /\ j0 \in 1 .. Len(a) /\ n \in j0 .. Len(a)
      /\ d \in Int /\ j0 = i0 + d /\ n = m + d
      /\ \A i \in i0 .. m : i > i0 => b[i] = a[i + d]
  BY DEF SameShifted
<1>c. c \in Int /\ h[i0] = Rest(f[j0] + c)
  BY DEF Ahead
<1>e. m + d = n /\ i0 + d = j0 /\ i0 \in Nat /\ m \in Nat /\ n \in Nat /\ i0 <= m
  BY <1>0, <1>s
<1>f. /\ 1 <= i0 /\ d \in Int /\ i0 <= m /\ m <= Len(b) /\ 1 <= i0 + d /\ m + d <= Len(a)
      /\ h[i0] = Rest(f[i0 + d] + c)
      /\ \A i \in i0 + 1 .. m : b[i] = a[i + d]
  BY <1>0, <1>c, <1>e, <1>s
<1> DEFINE Wrong == {i \in i0 .. m : h[i] # Rest(f[i + d] + c)}
<1>1. SUFFICES ASSUME Wrong # {} PROVE FALSE
  <2>1. m \in i0 .. m
    BY <1>e
  <2> QED
    BY <1>c, <1>e, <2>1 DEF Ahead
<1>2. PICK i \in Wrong : \A j \in Wrong : i <= j
  <2>1. Wrong \in SUBSET Nat
    BY <1>e
  <2> QED
    BY <1>1, <2>1, LeastOf
<1>3. i \in i0 .. m /\ i \in Nat /\ h[i] # Rest(f[i + d] + c)
  BY <1>e
<1>4. i # i0
  BY <1>3, <1>f
<1>5. i - 1 \in i0 .. m /\ i - 1 \notin Wrong /\ i \in i0 + 1 .. m
  BY <1>2, <1>3, <1>4, <1>e
<1>6. PICK k \in 1 .. Len(a) : k = i + d
  BY <1>0, <1>3, <1>e, <1>f
<1>7. k - 1 = (i - 1) + d /\ k > 1 /\ k - 1 \in 1 .. Len(a) /\ i \in 1 .. Len(b) /\ i > 1
  BY <1>0, <1>3, <1>5, <1>6, <1>e, <1>f
<1>8. h[i - 1] = Rest(f[k - 1] + c)
  BY <1>5, <1>7
<1>9. h[i] = Rest(h[i - 1] - a[k]) /\ f[k] = Rest(f[k - 1] - a[k])
  <2>1. h[i] = Rest(h[i - 1] - b[i]) /\ f[k] = Rest(f[k - 1] - a[k])
    BY <1>6, <1>7 DEF RunningSum
  <2> QED
    BY <1>5, <1>6, <1>f, <2>1
<1>10. PICK x \in Int, e \in Int : x = f[k - 1] /\ e = a[k]
  <2>1. f[k - 1] \in Bytes /\ a[k] \in Bytes
    BY <1>0, <1>6, <1>7 DEF RunningSum
  <2> QED
    BY <2>1, RestFacts
<1>11. Rest(Rest(x + c) - e) = Rest(Rest(x - e) + c)
  <2>1. x + c \in Int /\ x - e \in Int /\ (x + c) - e = (x - e) + c
    BY <1>c
  <2> QED
    BY <1>c, <2>1, RestFacts
<1>12. h[i] = Rest(f[k] + c)
  BY <1>8, <1>9, <1>10, <1>11
<1> QED
  BY <1>3, <1>6, <1>12

\* The first N bytes of a word, in which byte k of a is missing.
Lacking(raw, a, N, k) ==
  Len(raw) = N /\ \A i \in 1 .. N - 1 : raw[i] = a[IF i < k THEN i ELSE i + 1]

(***************************************************************************)
(* A word that lacks a byte of a right frame is right only if the byte     *)
(* that comes instead at its end is the one that is missing.               *)
(***************************************************************************)
LEMMA LackRefused ==
  ASSUME NEW a \in Seq(Bytes), NEW N, N = Len(a), Right(a), NEW k \in 2 .. N,
         NEW raw \in Seq(Bytes), Lacking(raw, a, N, k), Right(raw)
  PROVE  raw[N] = a[k]
<1>r. Len(raw) = N /\ \A i \in 1 .. N - 1 : raw[i] = a[IF i < k THEN i ELSE i + 1]
  BY DEF Lacking
<1>0. N \in Nat /\ N > 1 /\ k \in Nat /\ k - 1 \in Nat
      /\ (\A i \in 1 .. N : a[i] \in Bytes /\ raw[i] \in Bytes)
  BY <1>r
<1>1. PICK f : RunningSum(a, f) /\ f[N] = 0
  BY <1>0, <1>r, RightEndsAtZero
<1>2. PICK h : RunningSum(raw, h) /\ h[N] = 0
  BY <1>0, <1>r, RightEndsAtZero
<1>3. h[k - 1] = Rest(f[k - 1] + 0)
  <2>1. h[1] = Rest(f[1] + 0)
    <3>1. h[1] = 255 /\ f[1] = 255
      BY <1>1, <1>2 DEF RunningSum
    <3>2. 255 \in Bytes
      BY RestFacts
    <3> QED
      BY <3>1, <3>2, ByteFacts
  <2>2. PICK p \in Nat : p = k - 1
    BY <1>0, <1>r
  <2>3. ASSUME NEW i \in 1 .. p, i > 1 PROVE raw[i] = a[i + 0]
    <3>1. i \in 1 .. N - 1 /\ i < k /\ i + 0 = i
      BY <1>0, <1>r, <2>2
    <3> QED
      BY <1>r, <3>1
  <2>4. /\ 1 \in 1 .. Len(raw) /\ p \in 1 .. Len(raw) /\ 1 \in 1 .. Len(a)
        /\ p \in 1 .. Len(a) /\ 1 = 1 + 0 /\ p = p + 0 /\ 0 \in Int
    BY <1>0, <1>r, <2>2
  <2>s. SameShifted(a, 1, p, raw, 1, p, 0)
    BY <2>3, <2>4 DEF SameShifted
  <2>5. Ahead(h, 1, f, 1, 0)
    BY <2>1, <2>4 DEF Ahead
  <2>6. Ahead(h, p, f, p, 0)
    BY <1>1, <1>2, <2>s, <2>5, ShiftedSums, Zenon
  <2> QED
    BY <2>2, <2>6 DEF Ahead
<1>4. PICK e \in Bytes : e = a[k] /\ e \in Int
  BY <1>0, <1>r, ByteFacts
<1>5. h[k - 1] = Rest(f[k] + e)
  <2>1. f[k] = Rest(f[k - 1] - e) /\ f[k - 1] \in Bytes
    <3>1. k \in 1 .. N /\ k > 1 /\ k - 1 \in 1 .. N
      BY <1>0, <1>r
    <3> QED
      BY <1>1, <1>4, <3>1 DEF RunningSum
  <2>2. PICK x \in Int : x = f[k - 1]
    BY <2>1, RestFacts
  <2>3. x - e \in Int /\ (x - e) + e = x /\ x + 0 = x
    BY <1>4
  <2>4. Rest(Rest(x - e) + e) = Rest(x)
    BY <2>3, RestFacts
  <2> QED
    BY <1>3, <2>1, <2>2, <2>3, <2>4
<1>6. h[N - 1] = Rest(f[N] + e)
  <2>0. PICK p \in Nat : p = k - 1
    BY <1>0, <1>r
  <2>1. PICK m \in Nat : m = N - 1
    <3>1. N - 1 \in Nat
      BY <1>0, <1>r
    <3> QED
      BY <3>1
  <2>2. ASSUME NEW i \in p .. m, i > p PROVE raw[i] = a[i + 1]
    <3>1. i \in Int /\ p <= i /\ i <= m
      BY <2>0, <2>1
    <3>2. i > k - 1 /\ i <= N - 1 /\ k - 1 >= 1
      BY <1>0, <1>r, <2>0, <2>1, <2>2, <3>1
    <3>3. i \in 1 .. N - 1 /\ ~(i < k)
      BY <1>0, <1>r, <3>1, <3>2
    <3> QED
      BY <1>r, <3>3
  <2>3. /\ p \in 1 .. Len(raw) /\ m \in p .. Len(raw)
        /\ k \in 1 .. Len(a) /\ N \in k .. Len(a) /\ k = p + 1 /\ N = m + 1 /\ 1 \in Int
    BY <1>0, <1>r, <2>0, <2>1
  <2>4. Ahead(h, p, f, k, e)
    BY <1>4, <1>5, <2>0 DEF Ahead
  <2>s. SameShifted(a, k, N, raw, p, m, 1)
    BY <2>2, <2>3 DEF SameShifted
  <2>5. Ahead(h, m, f, N, e)
    BY <1>1, <1>2, <2>s, <2>4, ShiftedSums, Zenon
  <2> QED
    BY <2>1, <2>5 DEF Ahead
<1>7. h[N - 1] = e
  BY <1>1, <1>4, <1>6, ByteFacts
<1>8. h[N] = Rest(h[N - 1] - raw[N])
  <2>1. N \in 1 .. N /\ N > 1
    BY <1>0, <1>r
  <2> QED
    BY <1>r, <1>2, <2>1 DEF RunningSum
<1> QED
  <2>1. Rest(e - raw[N]) = 0 /\ raw[N] \in Bytes
    <3>1. N \in 1 .. N
      BY <1>0, <1>r
    <3> QED
      BY <1>0, <1>r, <1>2, <1>7, <1>8, <3>1
  <2> QED
    BY <1>4, <2>1, RestFacts

\* The first N bytes of a word, in which s follows k bytes of a.
Gaining(raw, a, N, k, s) ==
  /\ Len(raw) = N
  /\ \A i \in 1 .. N :
       raw[i] = IF i <= k THEN a[i] ELSE IF i = k + 1 THEN s ELSE a[i - 1]

(***************************************************************************)
(* A word with a byte too many is right only if that byte is the checksum  *)
(* of the frame or, when it precedes the frame, the frame begins with it:  *)
(* the checksum leaves out the first byte.                                 *)
(***************************************************************************)
LEMMA GainRefused ==
  ASSUME NEW a \in Seq(Bytes), NEW N, N = Len(a), N > 1, Right(a), NEW k \in 0 .. N - 1,
         NEW s \in Bytes, NEW raw \in Seq(Bytes), Gaining(raw, a, N, k, s), Right(raw)
  PROVE  a[N] = IF k = 0 THEN a[1] ELSE s
<1>r. /\ Len(raw) = N
      /\ \A i \in 1 .. N :
           raw[i] = IF i <= k THEN a[i] ELSE IF i = k + 1 THEN s ELSE a[i - 1]
  BY DEF Gaining
<1>0. N \in Nat /\ k \in Nat /\ k + 1 \in Nat
      /\ (\A i \in 1 .. N : a[i] \in Bytes /\ raw[i] \in Bytes)
  BY <1>r
<1>1. PICK f : RunningSum(a, f) /\ f[N] = 0
  BY <1>0, <1>r, RightEndsAtZero
<1>2. PICK h : RunningSum(raw, h) /\ h[N] = 0
  BY <1>0, <1>r, RightEndsAtZero
<1> DEFINE j == IF k = 0 THEN 2 ELSE k + 1
<1>3. PICK e \in Bytes : e = (IF k = 0 THEN a[1] ELSE s) /\ e \in Int
  <2>1. a[1] \in Bytes
    BY <1>0, <1>r
  <2> QED
    BY <2>1, ByteFacts
<1>4. PICK x \in Bytes : x = f[j - 1] /\ h[j - 1] = x
  <2>1. CASE k = 0
    <3>1. j - 1 = 1
      BY <2>1
    <3>2. f[1] = 255 /\ h[1] = 255
      BY <1>1, <1>2 DEF RunningSum
    <3>3. 255 \in Bytes
      BY RestFacts
    <3> QED
      BY <3>1, <3>2, <3>3
  <2>2. CASE k # 0
    <3>1. h[1] = Rest(f[1] + 0)
      <4>1. h[1] = 255 /\ f[1] = 255
        BY <1>1, <1>2 DEF RunningSum
      <4>2. 255 \in Bytes
        BY RestFacts
      <4> QED
        BY <4>1, <4>2, ByteFacts
    <3>2. ASSUME NEW i \in 1 .. k, i > 1 PROVE raw[i] = a[i + 0]
      <4>1. i \in 1 .. N /\ i <= k /\ i + 0 = i
        BY <1>0, <1>r
      <4> QED
        BY <1>r, <4>1
    <3>3. /\ 1 \in 1 .. Len(raw) /\ k \in 1 .. Len(raw) /\ 1 \in 1 .. Len(a)
          /\ k \in 1 .. Len(a) /\ 1 = 1 + 0 /\ k = k + 0 /\ 0 \in Int
      BY <1>0, <1>r, <2>2
    <3>s. SameShifted(a, 1, k, raw, 1, k, 0)
      BY <3>2, <3>3 DEF SameShifted
    <3>a. Ahead(h, 1, f, 1, 0)
      BY <3>1, <3>3 DEF Ahead
    <3>b. Ahead(h, k, f, k, 0)
      BY <1>1, <1>2, <3>a, <3>s, ShiftedSums, Zenon
    <3>4. h[k] = Rest(f[k] + 0)
      BY <3>b DEF Ahead
    <3>5. j - 1 = k /\ k \in 1 .. Len(a)
      BY <1>0, <1>r, <2>2
    <3>6. f[k] \in Bytes
      BY <1>1, <3>5 DEF RunningSum
    <3> QED
      BY <3>4, <3>5, <3>6, ByteFacts
  <2> QED
    BY <2>1, <2>2
<1>5. j \in 2 .. N /\ (k # 0 => j = k + 1) /\ (k = 0 => j = 2) /\ j \in Nat
  BY <1>0, <1>r
<1>6. raw[j] = e
  BY <1>0, <1>r, <1>3, <1>5
<1> HIDE DEF j
<1>m. PICK minus \in Int : minus = 0 - e
  BY <1>3
<1>7. h[j] = Rest(f[j - 1] + minus)
  <2>1. h[j] = Rest(h[j - 1] - raw[j])
    BY <1>0, <1>r, <1>2, <1>5 DEF RunningSum
  <2>2. x + minus = x - e
    BY <1>3, <1>m, ByteFacts
  <2> QED
    BY <1>4, <1>6, <2>1, <2>2
<1>8. h[N] = Rest(f[N - 1] + minus)
  <2>0. PICK p \in Nat : p = j - 1
    BY <1>0, <1>r, <1>5
  <2>1. PICK m \in Nat : m = N - 1
    <3>1. N - 1 \in Nat
      BY <1>0, <1>r
    <3> QED
      BY <3>1
  <2>2. PICK d \in Int : d = -1
    OBVIOUS
  <2>3. ASSUME NEW i \in j .. N, i > j PROVE raw[i] = a[i + d]
    <3>0. i \in Int /\ j <= i /\ i <= N
      BY <1>0, <1>r, <1>5
    <3>1. i \in 1 .. N /\ ~(i <= k) /\ i # k + 1 /\ i + d = i - 1
      BY <1>0, <1>r, <1>5, <2>2, <2>3, <3>0
    <3> QED
      BY <1>r, <3>1
  <2>4. /\ j \in 1 .. Len(raw) /\ N \in j .. Len(raw)
        /\ p \in 1 .. Len(a) /\ m \in p .. Len(a) /\ p = j + d /\ m = N + d
    BY <1>0, <1>r, <1>5, <2>0, <2>1, <2>2
  <2>5. Ahead(h, j, f, p, minus)
    BY <1>7, <1>m, <2>0 DEF Ahead
  <2>s. SameShifted(a, p, m, raw, j, N, d)
    BY <2>3, <2>4 DEF SameShifted
  <2>6. Ahead(h, N, f, m, minus)
    BY <1>1, <1>2, <2>s, <2>5, ShiftedSums, Zenon
  <2> QED
    BY <2>1, <2>6 DEF Ahead
<1>9. PICK y \in Bytes : y = f[N - 1]
  BY <1>0, <1>r, <1>1 DEF RunningSum
<1>10. Rest(y - e) = 0
  <2>1. y + minus = y - e
    BY <1>3, <1>m, ByteFacts
  <2> QED
    BY <1>2, <1>8, <1>9, <2>1
<1>11. Rest(y - a[N]) = 0
  <2>1. N \in 1 .. N
    BY <1>0, <1>r
  <2> QED
    BY <1>0, <1>r, <1>1, <1>9, <2>1 DEF RunningSum
<1>12. y = e /\ y = a[N]
  <2>1. a[N] \in Bytes /\ e \in Bytes
    BY <1>0, <1>r, <1>3
  <2>2. \A b, c \in Bytes : Rest(b - c) = 0 => b = c
    BY RestFacts, Zenon
  <2> QED
    BY <1>10, <1>11, <2>1, <2>2, ZenonT(30)
<1> QED
  BY <1>3, <1>12

-----------------------------------------------------------------------------
(***************************************************************************)
(* What a receiver that verifies the checksum takes for the start of a     *)
(* frame and for its length, and the words of that length it refuses.      *)
(***************************************************************************)
StartBytes ==
  IF Receiver = "display" THEN {SOF_SOYO_RESPONSE, SOF_MS51_RESPONSE} ELSE {SOF_REQUEST}

LengthOf(raw) == IF Receiver = "display" THEN ResponseLength(raw) ELSE RequestLength(Version)

Refused(z) == ~Right(SubSeq(z, 1, LengthOf(z)))

(***************************************************************************)
(* What is left of a frame f when the receiver takes one of its later      *)
(* bytes for the start byte, and what a fault in its first two bytes makes *)
(* of it when they then promise another length. Either reaches into the    *)
(* frames that follow.                                                     *)
(***************************************************************************)
Leads(f) ==
  {SubSeq(f.bytes, i, Len(f.bytes)) :
     i \in {j \in 2 .. Len(f.bytes) : f.bytes[j] \in StartBytes}}
  \cup {raw \in {RemoveAt(f.bytes, 2)}
                \cup {InsertAt(f.bytes, i, s) : i \in {1, 2}, s \in NoiseBytes} :
          raw[1] \in StartBytes /\ LengthOf(raw) # Len(f.bytes)}

\* The receiver can take no byte for a start byte but the first of a frame.
NoFalseStart ==
  \A f \in Frames : (Range(Tail(f.bytes)) \cup NoiseBytes) \cap StartBytes = {}

\* loop() is never so late that it forgets a frame that is still arriving.
NeverCut == FrameTime + LoopDelay <= Gap

(***************************************************************************)
(* What the frames must be for the plain sum to tell a frame from all that *)
(* one fault can make of it: they have one length; a word that begins with *)
(* a lead is refused, whichever frames follow; and if a frame contains a   *)
(* start byte, nothing but a fault may make the receiver read from the     *)
(* middle of it, which a late loop would, that forgets the first half.     *)
(***************************************************************************)
Unmistakable ==
  /\ \A f, g \in Frames : Len(f.bytes) = Len(g.bytes)
  /\ \A f, g, h \in Frames : \A lead \in Leads(f) : Refused(lead \o g.bytes \o h.bytes)
  /\ NeverCut \/ NoFalseStart

\* The premise of OnlySentFrames, for such frames.
Verified == Receiver # "modbus" /\ Detectable /\ Unmistakable

LEMMA LengthOfFacts ==
  ASSUME conditions \in Conditions, NEW raw
  PROVE  /\ LengthOf(raw) \in Nat /\ LengthOf(raw) > 2 /\ LengthOf(raw) <= 25
         /\ \A other : other[1] = raw[1] /\ other[2] = raw[2] => LengthOf(other) = LengthOf(raw)
         /\ Receiver # "display" => \A other : LengthOf(other) = LengthOf(raw)
<1>1. ResponseLength(raw) \in {15, 17, 25} /\ RequestLength(Version) \in {6, 12}
  BY DEF ResponseLength, RequestLength
<1>2. /\ LengthOf(raw) \in {6, 12, 15, 17, 25}
      /\ Receiver # "display" => \A other : LengthOf(other) = LengthOf(raw)
  BY <1>1 DEF LengthOf
<1>3. ASSUME NEW other, other[1] = raw[1], other[2] = raw[2]
      PROVE  LengthOf(other) = LengthOf(raw)
  BY <1>3 DEF LengthOf, ResponseLength
<1> QED
  BY <1>2, <1>3

\* Both receivers reject, wait and accept by these alone.
LEMMA Parsing ==
  ASSUME conditions \in Conditions, Receiver # "modbus", NEW raw
  PROVE  /\ raw[1] \notin StartBytes => Parsed(raw) = "reject"
         /\ raw[1] \in StartBytes /\ (Len(raw) = 1 \/ Len(raw) < LengthOf(raw))
              => Parsed(raw) = "more"
         /\ raw[1] \in StartBytes /\ Len(raw) # 1 /\ ~(Len(raw) < LengthOf(raw))
              => Parsed(raw) = IF Right(raw) THEN "frame" ELSE "reject"
<1>1. CASE Receiver = "display"
  <2>1. Parsed(raw) = DisplayParsed(raw) /\ LengthOf(raw) = ResponseLength(raw)
        /\ StartBytes = {SOF_SOYO_RESPONSE, SOF_MS51_RESPONSE}
    BY <1>1 DEF Parsed, LengthOf, StartBytes
  <2> QED
    BY <2>1, Zenon DEF DisplayParsed, Right
<1>2. CASE Receiver = "emulator"
  <2>1. Parsed(raw) = EmulatorParsed(Version, raw) /\ LengthOf(raw) = RequestLength(Version)
        /\ StartBytes = {SOF_REQUEST}
    BY <1>2 DEF Parsed, LengthOf, StartBytes
  <2>2. Len(raw) = 1 => Len(raw) < RequestLength(Version)
    BY DEF RequestLength
  <2> QED
    BY <2>1, <2>2, Zenon DEF EmulatorParsed, Right
<1> QED
  BY <1>1, <1>2, LineFacts DEF Receivers

(***************************************************************************)
(* The frames of a receiver that verifies the checksum.                    *)
(***************************************************************************)
LEMMA FrameFacts ==
  ASSUME conditions \in Conditions, Verified, NEW f \in Frames
  PROVE  /\ f.bytes \in Seq(Bytes) /\ Len(f.bytes) \in Nat /\ Len(f.bytes) > 4
         /\ f.bytes[1] \in StartBytes /\ Right(f.bytes) /\ Len(f.bytes) = LengthOf(f.bytes)
         /\ f.bytes[Len(f.bytes)] \notin NoiseBytes
         /\ \A k \in 2 .. Len(f.bytes) : f.bytes[k] # f.bytes[1]
         /\ NoFalseStart => \A k \in 2 .. Len(f.bytes) : f.bytes[k] \notin StartBytes
<1> DEFINE bytes == f.bytes
<1>1. bytes \in Seq(Bytes) /\ Len(bytes) \in Nat /\ Len(bytes) > 4
  BY LineFacts
<1>2. bytes[1] \in StartBytes /\ Right(bytes) /\ Len(bytes) = LengthOf(bytes)
  <2>1. CASE Receiver = "display"
    <3>1. /\ bytes[1] \in {SOF_SOYO_RESPONSE, SOF_MS51_RESPONSE}
          /\ Len(bytes) = ResponseLength(bytes) /\ bytes = WithChksum(Front(bytes))
      BY <2>1, FramesAssumption DEF Frames, Receiver
    <3> QED
      BY <2>1, <3>1 DEF StartBytes, Right, LengthOf
  <2>2. CASE Receiver = "emulator"
    <3>1. /\ bytes[1] = SOF_REQUEST /\ Len(bytes) = RequestLength(Version)
          /\ bytes = WithChksum(Front(bytes))
      BY <2>2, FramesAssumption DEF Frames, Receiver, Version
    <3> QED
      BY <2>2, <3>1 DEF StartBytes, Right, LengthOf
  <2> QED
    BY <2>1, <2>2, LineFacts DEF Receivers, Verified
<1>3. Last(bytes) \notin NoiseBytes /\ bytes[1] \notin Range(Tail(bytes))
  BY DEF Verified, Detectable
<1>4. bytes[Len(bytes)] \notin NoiseBytes
  BY <1>3 DEF Last
<1>5. ASSUME NEW k \in 2 .. Len(bytes) PROVE bytes[k] \in Range(Tail(bytes))
  <2>1. Tail(bytes) \in Seq(Bytes) /\ Len(Tail(bytes)) = Len(bytes) - 1
    BY <1>1
  <2>2. k - 1 \in 1 .. Len(bytes) - 1 /\ (k - 1) + 1 = k
    BY <1>1
  <2>3. Tail(bytes)[k - 1] = bytes[k]
    BY <1>1, <2>1, <2>2
  <2>4. DOMAIN Tail(bytes) = 1 .. Len(bytes) - 1
    BY <2>1
  <2> QED
    BY <2>2, <2>3, <2>4 DEF Range
<1>6. NoFalseStart => Range(Tail(bytes)) \cap StartBytes = {}
  BY DEF NoFalseStart
<1> QED
  BY <1>1, <1>2, <1>3, <1>4, <1>5, <1>6

\* Frames of one length also have one start byte.
LEMMA AlikeFrames ==
  ASSUME conditions \in Conditions, Verified, NEW f \in Frames, NEW g \in Frames
  PROVE  /\ Len(g.bytes) = Len(f.bytes) /\ g.bytes[1] = f.bytes[1]
         /\ \A raw : LengthOf(raw) <= 2 * Len(f.bytes)
<1>1. Len(g.bytes) = Len(f.bytes)
  BY DEF Verified, Unmistakable
<1>2. /\ Len(f.bytes) = LengthOf(f.bytes) /\ Len(g.bytes) = LengthOf(g.bytes)
      /\ f.bytes[1] \in StartBytes /\ g.bytes[1] \in StartBytes /\ Len(f.bytes) \in Nat
  BY FrameFacts
<1>3. CASE Receiver = "display"
  <2>1. /\ Len(f.bytes) = ResponseLength(f.bytes) /\ Len(g.bytes) = ResponseLength(g.bytes)
        /\ f.bytes[1] \in {SOF_SOYO_RESPONSE, SOF_MS51_RESPONSE}
        /\ g.bytes[1] \in {SOF_SOYO_RESPONSE, SOF_MS51_RESPONSE}
    BY <1>2, <1>3 DEF LengthOf, StartBytes
  <2>2. g.bytes[1] = f.bytes[1] /\ Len(f.bytes) >= 15
    BY <1>1, <2>1 DEF ResponseLength
  <2>3. \A raw : LengthOf(raw) \in Nat /\ LengthOf(raw) <= 25
    BY LengthOfFacts
  <2> QED
    BY <1>1, <1>2, <2>2, <2>3
<1>4. CASE Receiver # "display"
  <2>1. \A raw : LengthOf(raw) = Len(f.bytes)
    BY <1>2, <1>4, LengthOfFacts
  <2>2. g.bytes[1] = f.bytes[1]
    BY <1>2, <1>4 DEF StartBytes
  <2> QED
    BY <1>1, <1>2, <2>1, <2>2
<1> QED
  BY <1>3, <1>4

-----------------------------------------------------------------------------
(***************************************************************************)
(* A buffer that holds something else than the beginning of a frame is     *)
(* harmless if, whichever frames follow, the word it becomes is refused.   *)
(***************************************************************************)
\* What follows y if the rest of bytes and two more frames arrive undisturbed.
Future(y, bytes, n, g, h) ==
  y \o SubSeq(bytes, n + 1, Len(bytes)) \o g.bytes \o h.bytes

\* Whatever arrives, y will not become a right word.
Lost(y, bytes, n) ==
  /\ y # <<>> /\ y[1] \in StartBytes
  /\ \A g, h \in Frames : LET z == Future(y, bytes, n, g, h)
                          IN  Refused(z) /\ Len(y) <= LengthOf(z)

\* Nor is it one yet.
Doomed(y, bytes, n) ==
  Lost(y, bytes, n) /\ \A g, h \in Frames : Len(y) < LengthOf(Future(y, bytes, n, g, h))

\* Only the bytes of a word decide whether it is refused.
LEMMA CutWord ==
  ASSUME conditions \in Conditions, NEW z \in Seq(Bytes), NEW w \in Seq(Bytes),
         Len(z) >= LengthOf(z), Len(w) >= LengthOf(z),
         \A i \in 1 .. LengthOf(z) : w[i] = z[i]
  PROVE  LengthOf(w) = LengthOf(z) /\ (Refused(w) <=> Refused(z))
<1>1. LengthOf(z) \in Nat /\ LengthOf(z) > 2
  BY LengthOfFacts
<1>2. LengthOf(w) = LengthOf(z)
  <2>1. w[1] = z[1] /\ w[2] = z[2]
    BY <1>1
  <2> QED
    BY <2>1, LengthOfFacts
<1>3. PICK L \in Nat : L = LengthOf(z)
  BY <1>1
<1>4. SubSeq(w, 1, L) = SubSeq(z, 1, L)
  <2>1. PICK a, b : a = SubSeq(w, 1, L) /\ b = SubSeq(z, 1, L)
    OBVIOUS
  <2>2. a \in Seq(Bytes) /\ Len(a) = L /\ \A i \in 1 .. L : a[i] = w[i]
    BY <1>3, <2>1
  <2>3. b \in Seq(Bytes) /\ Len(b) = L /\ \A i \in 1 .. L : b[i] = z[i]
    BY <1>3, <2>1
  <2>4. a = b
    BY <1>3, <2>2, <2>3, SeqEqual
  <2> QED
    BY <2>1, <2>4
<1> QED
  BY <1>2, <1>3, <1>4 DEF Refused

LEMMA AssociatesOnBytes ==
  \A a, b, c \in Seq(Bytes) : (a \o b) \o c = a \o (b \o c)
  BY ConcatAssociative

\* c has the m bytes of a, then the n bytes of b.
Joins(c, a, m, b, n) ==
  /\ c \in Seq(Bytes) /\ Len(c) = m + n /\ m + n \in Nat
  /\ \A i \in 1 .. m : c[i] = a[i]
  /\ \A i \in 1 .. n : c[m + i] = b[i]

LEMMA Joined ==
  ASSUME NEW a \in Seq(Bytes), NEW b \in Seq(Bytes),
         NEW m \in Nat, Len(a) = m, NEW n \in Nat, Len(b) = n
  PROVE  Joins(a \o b, a, m, b, n)
<1>1. a \o b \in Seq(Bytes) /\ Len(a \o b) = m + n
  OBVIOUS
<1>2. \A i \in 1 .. m : (a \o b)[i] = a[i]
  OBVIOUS
<1>3. \A i \in 1 .. n : (a \o b)[m + i] = b[i]
  OBVIOUS
<1>4. m + n \in Nat
  OBVIOUS
<1> QED
  BY <1>1, <1>2, <1>3, <1>4, Zenon DEF Joins

\* z has p bytes of y, the last r of bytes, s of g and t of h.
Spliced(z, y, p, bytes, n, r, g, s, h, t) ==
  /\ z \in Seq(Bytes) /\ Len(z) = p + r + s + t
  /\ \A i \in 1 .. p : z[i] = y[i]
  /\ \A i \in 1 .. r : z[p + i] = bytes[n + i]
  /\ \A i \in 1 .. s : z[p + r + i] = g[i]
  /\ \A i \in 1 .. t : z[p + r + s + i] = h[i]

LEMMA FutureFacts ==
  ASSUME NEW y \in Seq(Bytes), NEW bytes \in Seq(Bytes), NEW n \in 0 .. Len(bytes),
         NEW g, NEW h, g.bytes \in Seq(Bytes), h.bytes \in Seq(Bytes),
         NEW p \in Nat, Len(y) = p, NEW r \in Nat, Len(bytes) = n + r,
         NEW s \in Nat, Len(g.bytes) = s, NEW t \in Nat, Len(h.bytes) = t
  PROVE  Spliced(Future(y, bytes, n, g, h), y, p, bytes, n, r, g.bytes, s, h.bytes, t)
<1>z. PICK z : z = Future(y, bytes, n, g, h)
  OBVIOUS
<1>1. PICK b : b = SubSeq(bytes, n + 1, Len(bytes))
  OBVIOUS
<1>2. b \in Seq(Bytes) /\ Len(b) = r /\ \A i \in 1 .. r : b[i] = bytes[n + i]
  BY <1>1
<1>3. PICK c : c = y \o b
  OBVIOUS
<1>4. /\ c \in Seq(Bytes) /\ Len(c) = p + r /\ p + r \in Nat
      /\ \A i \in 1 .. p : c[i] = y[i]
      /\ \A i \in 1 .. r : c[p + i] = b[i]
  <2>1. Joins(c, y, p, b, r)
    BY <1>2, <1>3, Joined, Zenon
  <2> QED
    BY <2>1 DEF Joins
<1>5. PICK pr \in Nat : pr = p + r
  BY <1>4
<1>6. PICK d : d = c \o g.bytes
  OBVIOUS
<1>7. /\ d \in Seq(Bytes) /\ Len(d) = pr + s /\ pr + s \in Nat
      /\ \A i \in 1 .. pr : d[i] = c[i]
      /\ \A i \in 1 .. s : d[pr + i] = g.bytes[i]
  <2>1. Len(c) = pr
    BY <1>4, <1>5
  <2>2. Joins(d, c, pr, g.bytes, s)
    BY <1>4, <1>6, <2>1, Joined, Zenon
  <2> QED
    BY <2>2 DEF Joins
<1>8. PICK q \in Nat : q = pr + s
  BY <1>7
<1>9. z = d \o h.bytes
  BY <1>1, <1>3, <1>6, <1>z DEF Future
<1>10. /\ z \in Seq(Bytes) /\ Len(z) = q + t
       /\ \A i \in 1 .. q : z[i] = d[i]
       /\ \A i \in 1 .. t : z[q + i] = h.bytes[i]
  <2>1. Len(d) = q
    BY <1>7, <1>8
  <2>2. Joins(d \o h.bytes, d, q, h.bytes, t)
    BY <1>7, <2>1, Joined, Zenon
  <2>3. Joins(z, d, q, h.bytes, t)
    BY <1>9, <2>2, Zenon
  <2> QED
    BY <2>3 DEF Joins
<1>11. ASSUME NEW i \in 1 .. p PROVE z[i] = y[i]
  <2>1. i \in 1 .. pr /\ i \in 1 .. q
    BY <1>5, <1>8
  <2> QED
    BY <1>4, <1>7, <1>10, <2>1
<1>12. ASSUME NEW i \in 1 .. r PROVE z[p + i] = bytes[n + i]
  <2>1. PICK j : j = p + i
    OBVIOUS
  <2>2. j \in 1 .. pr /\ j \in 1 .. q
    BY <1>5, <1>8, <2>1
  <2>3. c[j] = b[i]
    BY <1>4, <2>1
  <2> QED
    BY <1>2, <1>7, <1>10, <2>1, <2>2, <2>3
<1>13. ASSUME NEW i \in 1 .. s PROVE z[p + r + i] = g.bytes[i]
  <2>1. PICK j : j = pr + i
    OBVIOUS
  <2>2. j \in 1 .. q
    BY <1>8, <2>1
  <2>3. z[j] = g.bytes[i]
    BY <1>7, <1>10, <2>1, <2>2
  <2>4. j = p + r + i
    BY <1>5, <2>1
  <2> QED
    BY <2>3, <2>4
<1>14. ASSUME NEW i \in 1 .. t PROVE z[p + r + s + i] = h.bytes[i]
  <2>1. q + i = p + r + s + i
    BY <1>5, <1>8
  <2> QED
    BY <1>10, <2>1
<1>15. q + t = p + r + s + t
  BY <1>5, <1>8
<1>16. Spliced(z, y, p, bytes, n, r, g.bytes, s, h.bytes, t)
  BY <1>10, <1>11, <1>12, <1>13, <1>14, <1>15 DEF Spliced
<1> QED
  BY <1>16, <1>z

\* The future stays what it is when the next byte arrives.
LEMMA FutureArrives ==
  ASSUME NEW y \in Seq(Bytes), NEW bytes \in Seq(Bytes), NEW n \in 0 .. Len(bytes) - 1,
         NEW g, NEW h, g.bytes \in Seq(Bytes), h.bytes \in Seq(Bytes)
  PROVE  Future(Append(y, bytes[n + 1]), bytes, n + 1, g, h) = Future(y, bytes, n, g, h)
<1>1. PICK b, c : b = SubSeq(bytes, n + 1, Len(bytes)) /\ c = SubSeq(bytes, n + 2, Len(bytes))
  OBVIOUS
<1>2. PICK x \in Bytes : x = bytes[n + 1]
  OBVIOUS
<1>3. /\ b \in Seq(Bytes) /\ Len(b) = Len(bytes) - n
      /\ \A i \in 1 .. Len(bytes) - n : b[i] = bytes[n + i]
  BY <1>1
<1>4. /\ c \in Seq(Bytes) /\ Len(c) = Len(bytes) - (n + 1)
      /\ \A i \in 1 .. Len(bytes) - (n + 1) : c[i] = bytes[n + 1 + i]
  BY <1>1
<1>5. PICK d : d = <<x>> \o c
  OBVIOUS
<1>6. /\ d \in Seq(Bytes) /\ Len(d) = Len(bytes) - n /\ d[1] = x
      /\ \A i \in 1 .. Len(bytes) - (n + 1) : d[1 + i] = c[i]
  BY <1>4, <1>5
<1>7. ASSUME NEW i \in 1 .. Len(bytes) - n PROVE d[i] = b[i]
  <2>1. CASE i = 1
    BY <1>2, <1>3, <1>6, <2>1
  <2>2. CASE i # 1
    <3>1. PICK j \in 1 .. Len(bytes) - (n + 1) : i = 1 + j
      <4>1. i - 1 \in 1 .. Len(bytes) - (n + 1) /\ i = 1 + (i - 1)
        BY <2>2
      <4> QED
        BY <4>1
    <3>2. d[i] = c[j] /\ c[j] = bytes[n + 1 + j] /\ b[i] = bytes[n + i]
      BY <1>3, <1>4, <1>6, <3>1
    <3>3. n + 1 + j = n + i
      BY <3>1
    <3> QED
      BY <3>2, <3>3
  <2> QED
    BY <2>1, <2>2
<1>8. d = b
  BY <1>3, <1>6, <1>7, SeqEqual
<1>9. Append(y, x) \o c = y \o b
  <2>1. <<x>> \in Seq(Bytes) /\ y \in Seq(Bytes) /\ c \in Seq(Bytes)
    BY <1>4
  <2>2. Append(y, x) = y \o <<x>>
    BY AppendIsConcat
  <2>3. PICK e : e = <<x>>
    OBVIOUS
  <2>4. (y \o e) \o c = y \o (e \o c)
    <3>1. e \in Seq(Bytes) /\ y \in Seq(Bytes) /\ c \in Seq(Bytes)
      BY <2>1, <2>3
    <3> QED
      <4>1. \A v, w \in Seq(Bytes) : (y \o v) \o w = y \o (v \o w)
        BY <3>1, AssociatesOnBytes, Zenon
      <4>2. \A w \in Seq(Bytes) : (y \o e) \o w = y \o (e \o w)
        BY <3>1, <4>1, Zenon
      <4> QED
        BY <3>1, <4>2, Zenon
  <2> QED
    BY <1>5, <1>8, <2>2, <2>3, <2>4, Zenon
<1>10. (n + 1) + 1 = n + 2
  OBVIOUS
<1> QED
  BY <1>1, <1>2, <1>9, <1>10 DEF Future

\* By hypothesis, if the lead promises another length than the frame has.
LEMMA LeadRefused ==
  ASSUME conditions \in Conditions, Verified, NEW f \in Frames, NEW g \in Frames,
         NEW h \in Frames, NEW lead \in Seq(Bytes), Len(lead) > 1,
         lead = RemoveAt(f.bytes, 2)
           \/ \E i \in {1, 2}, s \in NoiseBytes : lead = InsertAt(f.bytes, i, s),
         NEW z, z = lead \o g.bytes \o h.bytes, z[1] \in StartBytes,
         LengthOf(z) # Len(f.bytes)
  PROVE  Refused(z)
<1>1. g.bytes \in Seq(Bytes) /\ h.bytes \in Seq(Bytes)
  BY LineFacts
<1>2. PICK c : c = lead \o g.bytes
  OBVIOUS
<1>3. /\ c \in Seq(Bytes) /\ Len(c) >= Len(lead) /\ \A i \in 1 .. Len(lead) : c[i] = lead[i]
  BY <1>1, <1>2
<1>4. z = c \o h.bytes
  BY <1>2
<1>5. \A i \in 1 .. Len(c) : z[i] = c[i]
  BY <1>1, <1>3, <1>4
<1>6. z[1] = lead[1] /\ z[2] = lead[2]
  <2>1. 1 \in 1 .. Len(lead) /\ 2 \in 1 .. Len(lead) /\ 1 \in 1 .. Len(c) /\ 2 \in 1 .. Len(c)
    BY <1>3
  <2> QED
    BY <1>3, <1>5, <2>1
<1>7. LengthOf(lead) = LengthOf(z)
  BY <1>6, LengthOfFacts
<1>8. lead \in Leads(f)
  <2>1. lead \in {RemoveAt(f.bytes, 2)}
                 \cup {InsertAt(f.bytes, i, s) : i \in {1, 2}, s \in NoiseBytes}
    <3>1. CASE lead = RemoveAt(f.bytes, 2)
      BY <3>1
    <3>2. ASSUME NEW i \in {1, 2}, NEW s \in NoiseBytes, lead = InsertAt(f.bytes, i, s)
          PROVE  lead \in {InsertAt(f.bytes, j, x) : j \in {1, 2}, x \in NoiseBytes}
      BY <3>2
    <3> QED
      BY <3>1, <3>2
  <2>2. lead[1] \in StartBytes /\ LengthOf(lead) # Len(f.bytes)
    BY <1>6, <1>7
  <2> QED
    BY <2>1, <2>2 DEF Leads
<1>9. \A lead_ \in Leads(f) : Refused(lead_ \o g.bytes \o h.bytes)
  BY DEF Verified, Unmistakable
<1> QED
  BY <1>8, <1>9, Zenon

\* The first bytes of a word decide how long it is.
LEMMA SameLength ==
  ASSUME conditions \in Conditions, Verified, NEW f \in Frames, NEW z,
         z[1] = f.bytes[1], z[2] = f.bytes[2]
  PROVE  LengthOf(z) = Len(f.bytes)
  BY FrameFacts, LengthOfFacts

\* The byte after n bytes of a frame is lost.
LEMMA LackWord ==
  ASSUME conditions \in Conditions, Verified, NEW f \in Frames,
         NEW n \in 1 .. Len(f.bytes) - 1, NEW y, y = Prefix(f.bytes, n)
  PROVE  Lost(y, f.bytes, n + 1)
<1>1. PICK a : a = f.bytes
  OBVIOUS
<1>2. PICK N \in Nat : N = Len(a)
  BY <1>1, FrameFacts
<1>3. /\ a \in Seq(Bytes) /\ N > 4 /\ a[1] \in StartBytes /\ Right(a)
      /\ \A k \in 2 .. N : a[k] # a[1]
  BY <1>1, <1>2, FrameFacts
<1>4. n \in Nat /\ 1 <= n /\ n <= N - 1
  BY <1>1, <1>2
<1>5. y \in Seq(Bytes) /\ Len(y) = n /\ \A i \in 1 .. n : y[i] = a[i]
  BY <1>1, <1>2, <1>3, <1>4 DEF Prefix
<1>6. y # <<>> /\ y[1] \in StartBytes
  <2>1. y[1] = a[1]
    BY <1>4, <1>5
  <2> QED
    BY <1>3, <1>4, <1>5, <2>1
<1>7. ASSUME NEW g \in Frames, NEW h \in Frames, NEW z, z = Future(y, a, n + 1, g, h)
      PROVE  Refused(z) /\ Len(y) <= LengthOf(z)
  <2>1. /\ g.bytes \in Seq(Bytes) /\ Len(g.bytes) = N /\ g.bytes[1] = a[1]
        /\ h.bytes \in Seq(Bytes) /\ Len(h.bytes) = N
    BY <1>1, <1>2, FrameFacts, AlikeFrames
  <2>2. PICK r \in Nat : N = (n + 1) + r
    <3>1. N - (n + 1) \in Nat /\ N = (n + 1) + (N - (n + 1))
      BY <1>4
    <3> QED
      BY <3>1
  <2>3. /\ z \in Seq(Bytes) /\ Len(z) = n + r + N + N
        /\ \A i \in 1 .. n : z[i] = y[i]
        /\ \A i \in 1 .. r : z[n + i] = a[(n + 1) + i]
        /\ \A i \in 1 .. N : z[n + r + i] = g.bytes[i]
    <3>1. n + 1 \in 0 .. Len(a) /\ Len(a) = (n + 1) + r
      BY <1>2, <1>4, <2>2
    <3>2. Spliced(z, y, n, a, n + 1, r, g.bytes, N, h.bytes, N)
      BY <1>3, <1>4, <1>5, <1>7, <2>1, <3>1, FutureFacts, Zenon
    <3> QED
      BY <3>2, Zenon DEF Spliced
  <2>4. z[1] = a[1] /\ (n > 1 => z[2] = a[2])
    <3>1. 1 \in 1 .. n /\ (n > 1 => 2 \in 1 .. n)
      BY <1>4
    <3> QED
      BY <1>5, <2>3, <3>1
  <2>5. CASE LengthOf(z) = N
    <3>1. PICK raw : raw = SubSeq(z, 1, N)
      OBVIOUS
    <3>2. raw \in Seq(Bytes) /\ Len(raw) = N /\ \A i \in 1 .. N : raw[i] = z[i]
      BY <1>3, <2>2, <2>3, <3>1
    <3>3. PICK k \in 2 .. N : k = n + 1
      BY <1>4
    <3>4. ASSUME NEW i \in 1 .. N - 1 PROVE raw[i] = a[IF i < k THEN i ELSE i + 1]
      <4>1. CASE i < k
        <5>1. i \in 1 .. n /\ i \in 1 .. N
          BY <1>4, <3>3, <4>1
        <5> QED
          BY <1>5, <2>3, <3>2, <4>1, <5>1
      <4>2. CASE ~(i < k)
        <5>1. i - n \in 1 .. r /\ n + (i - n) = i /\ (n + 1) + (i - n) = i + 1 /\ i \in 1 .. N
          BY <1>4, <2>2, <3>3, <4>2
        <5>2. z[i] = a[i + 1]
          BY <2>3, <5>1
        <5> QED
          BY <3>2, <4>2, <5>1, <5>2
      <4> QED
        BY <4>1, <4>2
    <3>5. raw[N] = a[1]
      <4>1. 1 \in 1 .. N /\ N \in 1 .. N /\ n + r + 1 = N
        BY <1>3, <2>2
      <4> QED
        BY <2>1, <2>3, <3>2, <4>1
    <3>6. a[k] # a[1]
      BY <1>3
    <3>7. ~Right(raw)
      <4>1. Lacking(raw, a, N, k)
        BY <3>2, <3>4 DEF Lacking
      <4> QED
        BY <1>2, <1>3, <3>2, <3>5, <3>6, <4>1, LackRefused
    <3>8. Refused(z)
      BY <2>5, <3>1, <3>7 DEF Refused
    <3> QED
      BY <1>4, <1>5, <2>5, <3>8
  <2>6. CASE LengthOf(z) # N
    <3>1. n = 1
      BY <1>1, <1>2, <1>4, <2>4, <2>6, SameLength
    <3>2. PICK lead : lead = RemoveAt(a, 2)
      OBVIOUS
    <3>3. lead = SubSeq(a, 1, 1) \o SubSeq(a, 3, N)
      BY <1>2, <3>2 DEF RemoveAt
    <3>4. lead \in Seq(Bytes) /\ Len(lead) > 1
      BY <1>2, <1>3, <3>3
    <3>5. z = lead \o g.bytes \o h.bytes
      <4>1. y = SubSeq(a, 1, 1) /\ (n + 1) + 1 = 3
        BY <1>1, <3>1 DEF Prefix
      <4> QED
        BY <1>2, <1>7, <3>3, <4>1 DEF Future
    <3>6. z[1] \in StartBytes
      BY <1>3, <2>4
    <3>7. Refused(z)
      BY <1>1, <1>2, <2>6, <3>2, <3>4, <3>5, <3>6, LeadRefused
    <3>8. LengthOf(z) \in Nat /\ LengthOf(z) > 2
      BY LengthOfFacts
    <3> QED
      BY <1>5, <3>1, <3>7, <3>8
  <2> QED
    BY <2>5, <2>6
<1> QED
  BY <1>1, <1>6, <1>7, Zenon DEF Lost

LEMMA FirstBytes ==
  ASSUME NEW z \in Seq(Bytes), NEW N \in Nat, N <= Len(z), NEW raw, raw = SubSeq(z, 1, N)
  PROVE  raw \in Seq(Bytes) /\ Len(raw) = N /\ \A i \in 1 .. N : raw[i] = z[i]
  OBVIOUS

\* A spurious byte follows n bytes of a frame.
LEMMA GainWord ==
  ASSUME conditions \in Conditions, Verified, NEW f \in Frames,
         NEW n \in 1 .. Len(f.bytes) - 1, NEW s \in NoiseBytes,
         NEW y, y = Append(Prefix(f.bytes, n), s)
  PROVE  Lost(y, f.bytes, n)
<1>1. PICK a : a = f.bytes
  OBVIOUS
<1>2. PICK N \in Nat : N = Len(a)
  BY <1>1, FrameFacts
<1>3. /\ a \in Seq(Bytes) /\ N > 4 /\ a[1] \in StartBytes /\ Right(a) /\ s \in Bytes
      /\ a[N] # s
  BY <1>1, <1>2, FrameFacts, LineFacts
<1>4. n \in Nat /\ 1 <= n /\ n <= N - 1 /\ n + 1 \in Nat
  BY <1>1, <1>2
<1>5. y \in Seq(Bytes) /\ Len(y) = n + 1 /\ (\A i \in 1 .. n : y[i] = a[i]) /\ y[n + 1] = s
  <2>1. PICK x : x = Prefix(a, n)
    OBVIOUS
  <2>2. x \in Seq(Bytes) /\ Len(x) = n /\ \A i \in 1 .. n : x[i] = a[i]
    BY <1>1, <1>2, <1>3, <1>4, <2>1 DEF Prefix
  <2>3. y = Append(x, s)
    BY <1>1, <2>1
  <2> QED
    BY <1>3, <1>4, <2>2, <2>3
<1>6. y # <<>> /\ y[1] \in StartBytes
  <2>1. y[1] = a[1]
    BY <1>4, <1>5
  <2> QED
    BY <1>3, <1>4, <1>5, <2>1
<1>7. ASSUME NEW g \in Frames, NEW h \in Frames, NEW z, z = Future(y, a, n, g, h)
      PROVE  Refused(z) /\ Len(y) <= LengthOf(z)
  <2>1. /\ g.bytes \in Seq(Bytes) /\ Len(g.bytes) = N
        /\ h.bytes \in Seq(Bytes) /\ Len(h.bytes) = N
    BY <1>1, <1>2, FrameFacts, AlikeFrames
  <2>2. PICK r \in Nat : N = n + r
    <3>1. N - n \in Nat /\ N = n + (N - n)
      BY <1>4
    <3> QED
      BY <3>1
  <2>3. /\ z \in Seq(Bytes) /\ Len(z) = (n + 1) + r + N + N
        /\ \A i \in 1 .. n + 1 : z[i] = y[i]
        /\ \A i \in 1 .. r : z[(n + 1) + i] = a[n + i]
    <3>1. n \in 0 .. Len(a) /\ Len(a) = n + r
      BY <1>2, <1>4, <2>2
    <3>2. Spliced(z, y, n + 1, a, n, r, g.bytes, N, h.bytes, N)
      BY <1>3, <1>4, <1>5, <1>7, <2>1, <3>1, FutureFacts, Zenon
    <3> QED
      BY <3>2, Zenon DEF Spliced
  <2>4. z[1] = a[1] /\ (n > 1 => z[2] = a[2])
    <3>1. 1 \in 1 .. n /\ 1 \in 1 .. n + 1 /\ (n > 1 => 2 \in 1 .. n /\ 2 \in 1 .. n + 1)
      BY <1>4
    <3> QED
      BY <1>5, <2>3, <3>1
  <2>5. CASE LengthOf(z) = N
    <3>1. PICK raw : raw = SubSeq(z, 1, N)
      OBVIOUS
    <3>2. raw \in Seq(Bytes) /\ Len(raw) = N /\ \A i \in 1 .. N : raw[i] = z[i]
      <4>1. N <= Len(z)
        BY <1>4, <2>2, <2>3
      <4> QED
        BY <2>3, <3>1, <4>1, FirstBytes
    <3>3. ASSUME NEW i \in 1 .. N
          PROVE  raw[i] = IF i <= n THEN a[i] ELSE IF i = n + 1 THEN s ELSE a[i - 1]
      <4>1. CASE i <= n
        <5>1. i \in 1 .. n /\ i \in 1 .. n + 1
          BY <1>4, <4>1
        <5> QED
          BY <1>5, <2>3, <3>2, <4>1, <5>1
      <4>2. CASE i = n + 1
        <5>1. n + 1 \in 1 .. n + 1 /\ ~(i <= n)
          BY <1>4, <4>2
        <5> QED
          BY <1>5, <2>3, <3>2, <4>2, <5>1
      <4>3. CASE i > n + 1
        <5>1. PICK j \in 1 .. r : i = (n + 1) + j
          <6>1. i - (n + 1) \in 1 .. r /\ i = (n + 1) + (i - (n + 1))
            BY <1>4, <2>2, <4>3
          <6> QED
            BY <6>1
        <5>2. z[i] = a[n + j]
          BY <2>3, <5>1, Zenon
        <5>3. n + j = i - 1 /\ ~(i <= n) /\ i # n + 1
          BY <1>4, <2>2, <4>3, <5>1
        <5> QED
          BY <3>2, <5>2, <5>3
      <4> QED
        BY <1>4, <4>1, <4>2, <4>3
    <3>4. ~Right(raw)
      <4>1. Gaining(raw, a, N, n, s)
        BY <3>2, <3>3 DEF Gaining
      <4>2. n \in 0 .. N - 1 /\ N > 1 /\ n # 0
        BY <1>3, <1>4
      <4>3. /\ a \in Seq(Bytes) /\ N = Len(a) /\ Right(a) /\ s \in Bytes
            /\ raw \in Seq(Bytes)
        BY <1>2, <1>3, <3>2
      <4>4. ASSUME Right(raw) PROVE a[N] = IF n = 0 THEN a[1] ELSE s
        BY <4>1, <4>2, <4>3, <4>4, GainRefused, Zenon
      <4> QED
        BY <1>3, <4>2, <4>4, Zenon
    <3>5. Refused(z)
      BY <2>5, <3>1, <3>4 DEF Refused
    <3> QED
      BY <1>4, <1>5, <2>5, <3>5
  <2>6. CASE LengthOf(z) # N
    <3>1. n = 1
      BY <1>1, <1>2, <1>4, <2>4, <2>6, SameLength
    <3>2. PICK lead : lead = InsertAt(a, 2, s)
      OBVIOUS
    <3>3. lead = SubSeq(a, 1, 1) \o <<s>> \o SubSeq(a, 2, N)
      BY <1>2, <3>2 DEF InsertAt
    <3>4. lead \in Seq(Bytes) /\ Len(lead) > 1
      BY <1>2, <1>3, <3>3
    <3>5. z = lead \o g.bytes \o h.bytes
      <4>1. y = SubSeq(a, 1, 1) \o <<s>>
        <5>1. SubSeq(a, 1, 1) \in Seq(Bytes)
          BY <1>2, <1>3
        <5>2. Append(SubSeq(a, 1, 1), s) = SubSeq(a, 1, 1) \o <<s>>
          BY <1>3, <5>1, AppendIsConcat
        <5> QED
          BY <1>1, <3>1, <5>2 DEF Prefix
      <4>2. n + 1 = 2
        BY <3>1
      <4> QED
        BY <1>2, <1>7, <3>3, <4>1, <4>2 DEF Future
    <3>6. z[1] \in StartBytes
      BY <1>3, <2>4
    <3>7. Refused(z)
      BY <1>1, <1>2, <2>6, <3>2, <3>4, <3>5, <3>6, LeadRefused
    <3>8. LengthOf(z) \in Nat /\ LengthOf(z) > 2
      BY LengthOfFacts
    <3> QED
      BY <1>5, <3>1, <3>7, <3>8
  <2> QED
    BY <2>5, <2>6
<1> QED
  BY <1>1, <1>6, <1>7, Zenon DEF Lost

\* A spurious start byte, before a frame.
LEMMA SpuriousWord ==
  ASSUME conditions \in Conditions, Verified, NEW f \in Frames,
         NEW s \in NoiseBytes, s \in StartBytes
  PROVE  Lost(<<s>>, f.bytes, 0)
<1>1. PICK a : a = f.bytes
  OBVIOUS
<1>2. PICK N \in Nat : N = Len(a)
  BY <1>1, FrameFacts
<1>3. /\ a \in Seq(Bytes) /\ N > 4 /\ Right(a) /\ s \in Bytes
      /\ \A k \in 2 .. N : a[k] # a[1]
  BY <1>1, <1>2, FrameFacts, LineFacts
<1>4. PICK y : y = <<s>>
  OBVIOUS
<1>5. y \in Seq(Bytes) /\ Len(y) = 1 /\ y[1] = s /\ y # <<>>
  BY <1>3, <1>4
<1>6. ASSUME NEW g \in Frames, NEW h \in Frames, NEW z, z = Future(y, a, 0, g, h)
      PROVE  Refused(z) /\ Len(y) <= LengthOf(z)
  <2>1. /\ g.bytes \in Seq(Bytes) /\ Len(g.bytes) = N
        /\ h.bytes \in Seq(Bytes) /\ Len(h.bytes) = N
    BY <1>1, <1>2, FrameFacts, AlikeFrames
  <2>2. /\ z \in Seq(Bytes) /\ Len(z) = 1 + N + N + N
        /\ \A i \in 1 .. 1 : z[i] = y[i]
        /\ \A i \in 1 .. N : z[1 + i] = a[0 + i]
    <3>1. 0 \in 0 .. Len(a) /\ Len(a) = 0 + N /\ 1 \in Nat
      BY <1>2
    <3>2. Spliced(z, y, 1, a, 0, N, g.bytes, N, h.bytes, N)
      BY <1>3, <1>5, <1>6, <2>1, <3>1, FutureFacts, Zenon
    <3> QED
      BY <3>2, Zenon DEF Spliced
  <2>3. z[1] = s
    BY <1>5, <2>2
  <2>4. LengthOf(z) \in Nat /\ LengthOf(z) > 2
    BY LengthOfFacts
  <2>5. CASE LengthOf(z) = N
    <3>1. PICK raw : raw = SubSeq(z, 1, N)
      OBVIOUS
    <3>2. raw \in Seq(Bytes) /\ Len(raw) = N /\ \A i \in 1 .. N : raw[i] = z[i]
      <4>1. N <= Len(z)
        BY <2>2
      <4> QED
        BY <2>2, <3>1, <4>1, FirstBytes
    <3>3. ASSUME NEW i \in 1 .. N
          PROVE  raw[i] = IF i <= 0 THEN a[i] ELSE IF i = 0 + 1 THEN s ELSE a[i - 1]
      <4>1. CASE i = 1
        BY <2>3, <3>2, <4>1
      <4>2. CASE i > 1
        <5>1. PICK j \in 1 .. N : i = 1 + j
          <6>1. i - 1 \in 1 .. N /\ i = 1 + (i - 1)
            BY <4>2
          <6> QED
            BY <6>1
        <5>2. z[i] = a[0 + j] /\ 0 + j = i - 1 /\ ~(i <= 0) /\ i # 0 + 1
          BY <2>2, <4>2, <5>1
        <5> QED
          BY <3>2, <5>2
      <4>3. i = 1 \/ i > 1
        OBVIOUS
      <4> QED
        BY <4>1, <4>2, <4>3
    <3>4. ~Right(raw)
      <4>1. Gaining(raw, a, N, 0, s)
        BY <3>2, <3>3 DEF Gaining
      <4>2. 0 \in 0 .. N - 1 /\ N > 1 /\ N \in 2 .. N
        BY <1>3
      <4>3. a[N] # a[1]
        BY <1>3, <4>2
      <4> QED
        BY <1>2, <1>3, <3>2, <4>1, <4>2, <4>3, GainRefused
    <3>5. Refused(z)
      BY <2>5, <3>1, <3>4 DEF Refused
    <3> QED
      BY <1>5, <2>4, <3>5
  <2>6. CASE LengthOf(z) # N
    <3>1. PICK lead : lead = InsertAt(a, 1, s)
      OBVIOUS
    <3>2. lead = y \o SubSeq(a, 1, N)
      <4>1. SubSeq(a, 1, 0) = <<>> /\ <<>> \o <<s>> = <<s>>
        BY <1>2, <1>3
      <4>2. 1 - 1 = 0
        OBVIOUS
      <4> QED
        BY <1>2, <1>4, <3>1, <4>1, <4>2 DEF InsertAt
    <3>3. lead \in Seq(Bytes) /\ Len(lead) > 1
      BY <1>2, <1>3, <1>5, <3>2
    <3>4. z = lead \o g.bytes \o h.bytes
      <4>1. 0 + 1 = 1
        OBVIOUS
      <4> QED
        BY <1>2, <1>6, <3>2, <4>1 DEF Future
    <3>5. Refused(z)
      BY <1>1, <1>2, <2>3, <2>6, <3>1, <3>3, <3>4, LeadRefused
    <3> QED
      BY <1>5, <2>4, <3>5
  <2> QED
    BY <2>5, <2>6
<1> QED
  BY <1>1, <1>4, <1>5, <1>6, Zenon DEF Lost

\* The same after a frame, before the next one.
LEMMA SpuriousBetween ==
  ASSUME conditions \in Conditions, Verified, NEW bytes \in Seq(Bytes),
         NEW s \in NoiseBytes, s \in StartBytes
  PROVE  Lost(<<s>>, bytes, Len(bytes))
<1>1. PICK y : y = <<s>>
  OBVIOUS
<1>2. y \in Seq(Bytes) /\ Len(y) = 1 /\ y[1] = s /\ y # <<>>
  <2>1. s \in Bytes
    BY LineFacts
  <2> QED
    BY <1>1, <2>1
<1>3. PICK m \in Nat : m = Len(bytes)
  OBVIOUS
<1>4. ASSUME NEW g \in Frames, NEW h \in Frames, NEW z, z = Future(y, bytes, m, g, h)
      PROVE  Refused(z) /\ Len(y) <= LengthOf(z)
  <2>1. PICK N \in Nat : N = Len(g.bytes)
    BY FrameFacts
  <2>2. /\ g.bytes \in Seq(Bytes) /\ h.bytes \in Seq(Bytes) /\ Len(g.bytes) = N
        /\ Len(h.bytes) = N
    BY <2>1, FrameFacts, AlikeFrames
  <2>3. /\ z \in Seq(Bytes) /\ Len(z) = 1 + 0 + N + N
        /\ \A i \in 1 .. 1 : z[i] = y[i]
        /\ \A i \in 1 .. N : z[1 + 0 + i] = g.bytes[i]
        /\ \A i \in 1 .. N : z[1 + 0 + N + i] = h.bytes[i]
    <3>1. m \in 0 .. Len(bytes) /\ Len(bytes) = m + 0 /\ 1 \in Nat /\ 0 \in Nat
      BY <1>3
    <3>2. Spliced(z, y, 1, bytes, m, 0, g.bytes, N, h.bytes, N)
      BY <1>2, <1>4, <2>2, <3>1, FutureFacts, Zenon
    <3> QED
      BY <3>2, Zenon DEF Spliced
  <2>4. PICK w : w = Future(y, g.bytes, 0, h, h)
    OBVIOUS
  <2>5. /\ w \in Seq(Bytes) /\ Len(w) = 1 + N + N + N
        /\ \A i \in 1 .. 1 : w[i] = y[i]
        /\ \A i \in 1 .. N : w[1 + i] = g.bytes[0 + i]
        /\ \A i \in 1 .. N : w[1 + N + i] = h.bytes[i]
    <3>1. 0 \in 0 .. Len(g.bytes) /\ Len(g.bytes) = 0 + N /\ 1 \in Nat
      BY <2>2
    <3>2. Spliced(w, y, 1, g.bytes, 0, N, h.bytes, N, h.bytes, N)
      BY <1>2, <2>2, <2>4, <3>1, FutureFacts, Zenon
    <3> QED
      BY <3>2, Zenon DEF Spliced
  <2>6. Lost(y, g.bytes, 0)
    BY <1>1, SpuriousWord
  <2>7. Refused(w) /\ Len(y) <= LengthOf(w)
    BY <2>4, <2>6, Zenon DEF Lost
  <2>8. PICK L \in Nat : L = LengthOf(w)
    BY LengthOfFacts
  <2>9. L <= 2 * N
    BY <2>1, <2>8, AlikeFrames
  <2>10. ASSUME NEW i \in 1 .. L PROVE z[i] = w[i]
    <3>1. CASE i = 1
      BY <2>3, <2>5, <3>1
    <3>2. CASE i > 1 /\ i <= 1 + N
      <4>1. PICK j \in 1 .. N : i = 1 + j
        <5>1. i - 1 \in 1 .. N /\ i = 1 + (i - 1)
          BY <3>2
        <5> QED
          BY <5>1
      <4>2. z[1 + 0 + j] = g.bytes[j] /\ w[1 + j] = g.bytes[0 + j]
        BY <2>3, <2>5, Zenon
      <4>3. 1 + 0 + j = 1 + j /\ 0 + j = j
        OBVIOUS
      <4> QED
        BY <4>1, <4>2, <4>3
    <3>3. CASE i > 1 + N
      <4>1. PICK j \in 1 .. N : i = 1 + N + j
        <5>1. PICK j \in Nat : j = i - (1 + N)
          <6>1. i - (1 + N) \in Nat
            BY <3>3
          <6> QED
            BY <6>1
        <5>2. j \in 1 .. N /\ i = 1 + N + j
          BY <2>9, <3>3, <5>1
        <5> QED
          BY <5>2
      <4>2. z[1 + 0 + N + j] = h.bytes[j] /\ w[1 + N + j] = h.bytes[j]
        BY <2>3, <2>5, Zenon
      <4>3. 1 + 0 + N + j = 1 + N + j
        OBVIOUS
      <4> QED
        BY <4>1, <4>2, <4>3
    <3>4. i = 1 \/ (i > 1 /\ i <= 1 + N) \/ i > 1 + N
      OBVIOUS
    <3> QED
      BY <3>1, <3>2, <3>3, <3>4
  <2>11. Len(z) >= L /\ Len(w) >= L
    BY <2>3, <2>5, <2>9
  <2>12. LengthOf(z) = LengthOf(w) /\ (Refused(z) <=> Refused(w))
    BY <2>3, <2>5, <2>8, <2>10, <2>11, CutWord
  <2> QED
    BY <2>7, <2>12
<1> QED
  BY <1>1, <1>2, <1>3, <1>4, Zenon DEF Lost

\* A byte in the middle of a frame is taken for the start byte.
LEMMA FalseStartWord ==
  ASSUME conditions \in Conditions, Verified, NEW f \in Frames,
         NEW n \in 1 .. Len(f.bytes) - 1, f.bytes[n + 1] \in StartBytes
  PROVE  Lost(<<f.bytes[n + 1]>>, f.bytes, n + 1)
<1>1. PICK a : a = f.bytes
  OBVIOUS
<1>2. a \in Seq(Bytes) /\ n + 1 \in 2 .. Len(a) /\ n \in 0 .. Len(a) - 1 /\ Len(a) \in Nat
  BY <1>1, FrameFacts
<1>3. PICK y : y = <<a[n + 1]>>
  OBVIOUS
<1>4. y # <<>> /\ Len(y) = 1 /\ y[1] = a[n + 1]
  BY <1>3
<1>5. ASSUME NEW g \in Frames, NEW h \in Frames, NEW z, z = Future(y, a, n + 1, g, h)
      PROVE  Refused(z) /\ Len(y) <= LengthOf(z)
  <2>1. g.bytes \in Seq(Bytes) /\ h.bytes \in Seq(Bytes)
    BY LineFacts
  <2>2. PICK lead : lead = SubSeq(a, n + 1, Len(a))
    OBVIOUS
  <2>3. z = lead \o g.bytes \o h.bytes
    <3>1. Append(<<>>, a[n + 1]) = y /\ <<>> \in Seq(Bytes)
      BY <1>3
    <3>2. z = Future(<<>>, a, n, g, h)
      <4>1. PICK e \in Seq(Bytes) : e = <<>>
        BY <3>1
      <4>2. PICK m \in 0 .. Len(a) - 1 : m = n
        BY <1>2
      <4>3. Future(Append(e, a[m + 1]), a, m + 1, g, h) = Future(e, a, m, g, h)
        BY <1>2, <2>1, FutureArrives, SMTT(30)
      <4> QED
        BY <1>5, <3>1, <4>1, <4>2, <4>3, Zenon
    <3>3. lead \in Seq(Bytes)
      BY <1>2, <2>2
    <3>4. <<>> \o lead = lead
      BY <3>3
    <3> QED
      BY <2>2, <3>2, <3>4 DEF Future
  <2>4. lead \in Leads(f)
    <3>1. n + 1 \in {j \in 2 .. Len(f.bytes) : f.bytes[j] \in StartBytes}
      BY <1>1, <1>2
    <3> QED
      BY <1>1, <2>2, <3>1 DEF Leads
  <2>5. Refused(z)
    BY <2>3, <2>4, Zenon DEF Verified, Unmistakable
  <2>6. LengthOf(z) \in Nat /\ LengthOf(z) > 2
    BY LengthOfFacts
  <2> QED
    BY <1>4, <2>5, <2>6
<1> QED
  BY <1>1, <1>3, <1>4, <1>5, Zenon DEF Lost

-----------------------------------------------------------------------------
(***************************************************************************)
(* What is in the buffer after n bytes of a frame were on the line: none   *)
(* of them, all of them or, once there was a fault, a word that will not   *)
(* become right.                                                           *)
(***************************************************************************)
Partial(y, bytes, n, faulty) ==
  \/ y = <<>> /\ (NoFalseStart \/ faulty \/ n \in {0, Len(bytes)})
  \/ n \in 1 .. Len(bytes) - 1 /\ y = Prefix(bytes, n)
  \/ faulty /\ Doomed(y, bytes, n)

\* A buffer that will not become right is rejected or waits on.
LEMMA LostReads ==
  ASSUME conditions \in Conditions, Verified, NEW bytes \in Seq(Bytes),
         NEW n \in 0 .. Len(bytes), NEW raw \in Seq(Bytes), Lost(raw, bytes, n),
         Len(raw) = 1 \/ Frames # {}
  PROVE  \/ Parsed(raw) = "more" /\ Doomed(raw, bytes, n)
         \/ Parsed(raw) = "reject"
<1>1. PICK m \in Nat : m = Len(raw)
  OBVIOUS
<1>2. m > 0 /\ raw[1] \in StartBytes
  <2>1. raw # <<>> /\ raw[1] \in StartBytes
    BY DEF Lost
  <2> QED
    BY <1>1, <2>1
<1>3. ASSUME NEW g \in Frames, NEW h \in Frames, NEW z, z = Future(raw, bytes, n, g, h)
      PROVE  /\ Refused(z) /\ m <= LengthOf(z) /\ LengthOf(z) \in Nat /\ LengthOf(z) > 2
             /\ z \in Seq(Bytes) /\ m <= Len(z) /\ \A i \in 1 .. m : z[i] = raw[i]
             /\ m > 1 => LengthOf(z) = LengthOf(raw)
  <2>1. Refused(z) /\ m <= LengthOf(z)
    <3>1. m = Len(raw) /\ Lost(raw, bytes, n)
      BY <1>1
    <3>2. /\ Refused(Future(raw, bytes, n, g, h))
          /\ Len(raw) <= LengthOf(Future(raw, bytes, n, g, h))
      BY <3>1, ZenonT(30) DEF Lost
    <3> QED
      BY <1>3, <3>1, <3>2, Zenon
  <2>2. PICK r \in Nat : Len(bytes) = n + r
    <3>1. Len(bytes) - n \in Nat /\ Len(bytes) = n + (Len(bytes) - n)
      OBVIOUS
    <3> QED
      BY <3>1
  <2>3. /\ g.bytes \in Seq(Bytes) /\ h.bytes \in Seq(Bytes)
        /\ Len(g.bytes) \in Nat /\ Len(h.bytes) \in Nat
    BY LineFacts
  <2>4. PICK s \in Nat : s = Len(g.bytes)
    BY <2>3
  <2>5. PICK t \in Nat : t = Len(h.bytes)
    BY <2>3
  <2>6. Spliced(z, raw, m, bytes, n, r, g.bytes, s, h.bytes, t)
    BY <1>1, <1>3, <2>2, <2>3, <2>4, <2>5, FutureFacts, SMTT(30)
  <2>7. z \in Seq(Bytes) /\ Len(z) = m + r + s + t /\ \A i \in 1 .. m : z[i] = raw[i]
    BY <2>6 DEF Spliced
  <2>8. m > 1 => LengthOf(z) = LengthOf(raw)
    <3>1. m > 1 => z[1] = raw[1] /\ z[2] = raw[2]
      BY <2>7
    <3> QED
      BY <3>1, LengthOfFacts
  <2>9. LengthOf(z) \in Nat /\ LengthOf(z) > 2
    BY LengthOfFacts
  <2> QED
    BY <2>1, <2>7, <2>8, <2>9
<1>4. Receiver # "modbus"
  BY DEF Verified
<1>5. CASE m = 1
  <2>1. Parsed(raw) = "more"
    BY <1>1, <1>2, <1>4, <1>5, Parsing
  <2>2. ASSUME NEW g \in Frames, NEW h \in Frames
        PROVE  Len(raw) < LengthOf(Future(raw, bytes, n, g, h))
    <3>1. PICK z : z = Future(raw, bytes, n, g, h)
      OBVIOUS
    <3>2. LengthOf(z) \in Nat /\ LengthOf(z) > 2
      BY LengthOfFacts
    <3>3. m < LengthOf(z)
      BY <1>5, <3>2
    <3>4. Len(raw) < LengthOf(z)
      BY <1>1, <3>3, Zenon
    <3> QED
      BY <3>1, <3>4, Zenon
  <2> QED
    BY <2>1, <2>2 DEF Doomed
<1>6. CASE m > 1 /\ m < LengthOf(raw)
  <2>1. Parsed(raw) = "more"
    BY <1>1, <1>2, <1>4, <1>6, Parsing
  <2>2. ASSUME NEW g \in Frames, NEW h \in Frames
        PROVE  Len(raw) < LengthOf(Future(raw, bytes, n, g, h))
    <3>1. PICK z : z = Future(raw, bytes, n, g, h)
      OBVIOUS
    <3>2. PICK L : L = LengthOf(raw)
      OBVIOUS
    <3>3. m > 1 /\ m < L
      BY <1>6, <3>2
    <3>4. m > 1 => LengthOf(z) = LengthOf(raw)
      BY <1>3, <3>1
    <3>5. LengthOf(z) = L
      BY <3>2, <3>3, <3>4, Zenon
    <3>6. Len(raw) < LengthOf(z)
      BY <1>1, <3>3, <3>5, Zenon
    <3> QED
      BY <3>1, <3>6, Zenon
  <2> QED
    BY <2>1, <2>2 DEF Doomed
<1>7. CASE m > 1 /\ ~(m < LengthOf(raw))
  <2>0. Len(raw) # 1 /\ Frames # {}
    <3>0. m # 1
      BY <1>7
    <3>1. Len(raw) # 1
      BY <1>1, <3>0, Zenon
    <3> QED
      BY <3>1
  <2>1. PICK g : g \in Frames
    BY <2>0, Zenon
  <2>2. PICK z : z = Future(raw, bytes, n, g, g)
    OBVIOUS
  <2>3. /\ Refused(z) /\ z \in Seq(Bytes) /\ m <= Len(z) /\ LengthOf(z) = m
        /\ \A i \in 1 .. m : z[i] = raw[i]
    <3>1. PICK L : L = LengthOf(raw)
      OBVIOUS
    <3>2. PICK K : K = LengthOf(z)
      OBVIOUS
    <3>3. /\ Refused(z) /\ z \in Seq(Bytes) /\ m <= Len(z)
          /\ \A i \in 1 .. m : z[i] = raw[i]
      BY <1>3, <2>1, <2>2
    <3>4. m <= K /\ K \in Nat /\ (m > 1 => K = L)
      BY <1>3, <2>1, <2>2, <3>1, <3>2
    <3>5. m > 1 /\ ~(m < L)
      BY <1>7, <3>1
    <3>6. K = m
      BY <3>4, <3>5
    <3> QED
      BY <3>2, <3>3, <3>6
  <2>4. PICK b : b = SubSeq(z, 1, m)
    OBVIOUS
  <2>5. b \in Seq(Bytes) /\ Len(b) = m /\ \A i \in 1 .. m : b[i] = z[i]
    BY <2>3, <2>4, FirstBytes
  <2>6. b = raw
    BY <1>1, <2>3, <2>5, SeqEqual
  <2>7. ~Right(raw)
    BY <2>3, <2>4, <2>6 DEF Refused
  <2>8. ~(Len(raw) < LengthOf(raw))
    <3>1. PICK L : L = LengthOf(raw)
      OBVIOUS
    <3>2. ~(m < L)
      BY <1>7, <3>1, Zenon
    <3>3. ~(Len(raw) < L)
      BY <1>1, <3>2, Zenon
    <3> QED
      BY <3>1, <3>3, Zenon
  <2> QED
    BY <1>2, <1>4, <2>0, <2>7, <2>8, Parsing
<1> QED
  BY <1>2, <1>5, <1>6, <1>7

\* The next byte of a frame arrives.
LEMMA ByteRead ==
  ASSUME conditions \in Conditions, Verified, NEW f \in Frames,
         NEW n \in 0 .. Len(f.bytes) - 1, NEW faulty \in BOOLEAN,
         NEW y \in Seq(Bytes), Partial(y, f.bytes, n, faulty),
         NEW raw, raw = Append(y, f.bytes[n + 1])
  PROVE  \/ Parsed(raw) = "more" /\ Partial(raw, f.bytes, n + 1, faulty)
         \/ Parsed(raw) = "reject" /\ Partial(<<>>, f.bytes, n + 1, faulty)
         \/ Parsed(raw) = "frame" /\ raw = f.bytes /\ n + 1 = Len(f.bytes)
<1>1. PICK a : a = f.bytes
  OBVIOUS
<1>2. PICK N \in Nat : N = Len(a)
  BY <1>1, FrameFacts
<1>3. /\ a \in Seq(Bytes) /\ N > 4 /\ a[1] \in StartBytes
      /\ NoFalseStart => \A k \in 2 .. N : a[k] \notin StartBytes
  BY <1>1, <1>2, FrameFacts
<1>4. n \in Nat /\ n + 1 \in 1 .. N /\ n < N /\ (n > 0 => n \in 1 .. N - 1 /\ n + 1 \in 2 .. N)
  BY <1>1, <1>2
<1>5. a[n + 1] \in Bytes /\ raw \in Seq(Bytes)
  BY <1>1, <1>2, <1>3, <1>4
<1>6. Receiver # "modbus"
  BY DEF Verified
<1>7. ASSUME y = Prefix(a, n)
      PROVE  \/ Parsed(raw) = "more" /\ Partial(raw, a, n + 1, faulty)
             \/ Parsed(raw) = "frame" /\ raw = a /\ n + 1 = N
  <2>1. raw = Prefix(a, n + 1)
    <3>1. PICK i \in 1 .. Len(a) : i = n + 1
      BY <1>2, <1>4
    <3>2. i - 1 = n
      BY <1>4, <3>1
    <3>3. Append(Prefix(a, i - 1), a[i]) = Prefix(a, i)
      BY <1>3, AppendToPrefix
    <3> QED
      BY <1>1, <1>7, <3>1, <3>2, <3>3
  <2>2. CASE n + 1 = N
    <3>1. Prefix(a, N) = a
      BY <1>2, <1>3 DEF Prefix
    <3>2. Parsed(a) = "frame"
      BY <1>1, FrameParses
    <3> QED
      BY <2>1, <2>2, <3>1, <3>2
  <2>3. CASE n + 1 # N
    <3>1. n + 1 \in 1 .. Len(a) - 1
      BY <1>2, <1>4, <2>3
    <3>2. Parsed(raw) = "more"
      BY <1>1, <2>1, <3>1, FrameParses
    <3> QED
      BY <2>1, <3>1, <3>2 DEF Partial
  <2> QED
    BY <2>2, <2>3
<1>8. CASE y = <<>> /\ n = 0
  <2>1. y = Prefix(a, n)
    BY <1>3, <1>8 DEF Prefix
  <2> QED
    BY <1>1, <1>2, <1>7, <2>1
<1>9. CASE y = <<>> /\ n # 0 /\ (NoFalseStart \/ faulty)
  <2>1. raw = <<a[n + 1]>> /\ raw[1] = a[n + 1] /\ Len(raw) = 1
    BY <1>1, <1>9
  <2>2. Partial(<<>>, a, n + 1, faulty)
    BY <1>9 DEF Partial
  <2>3. CASE a[n + 1] \notin StartBytes
    <3>1. Parsed(raw) = "reject"
      BY <1>6, <2>1, <2>3, Parsing
    <3> QED
      BY <1>1, <2>2, <3>1
  <2>4. CASE a[n + 1] \in StartBytes
    <3>1. n + 1 \in 2 .. N /\ n \in 1 .. Len(a) - 1 /\ n + 1 \in 0 .. Len(a)
      BY <1>2, <1>4, <1>9
    <3>2. faulty
      BY <1>3, <1>9, <2>4, <3>1
    <3>3. Lost(raw, a, n + 1)
      BY <1>1, <2>1, <2>4, <3>1, FalseStartWord
    <3>4. (Parsed(raw) = "more" /\ Doomed(raw, a, n + 1)) \/ Parsed(raw) = "reject"
      BY <1>3, <1>5, <2>1, <3>1, <3>3, LostReads
    <3> QED
      BY <1>1, <2>2, <3>2, <3>4 DEF Partial
  <2> QED
    BY <2>3, <2>4
<1>10. CASE n \in 1 .. N - 1 /\ y = Prefix(a, n)
  BY <1>1, <1>2, <1>7, <1>10
<1>11. CASE faulty /\ Doomed(y, a, n)
  <2>1. Lost(raw, a, n + 1)
    <3>1. y # <<>> /\ y[1] \in StartBytes
      BY <1>11 DEF Doomed, Lost
    <3>2. raw # <<>> /\ raw[1] = y[1] /\ Len(raw) = Len(y) + 1 /\ Len(y) \in Nat
      BY <1>1, <1>5, <3>1
    <3>3. ASSUME NEW g \in Frames, NEW h \in Frames
          PROVE  LET z == Future(raw, a, n + 1, g, h)
                 IN  Refused(z) /\ Len(raw) <= LengthOf(z)
      <4>1. PICK z : z = Future(y, a, n, g, h)
        OBVIOUS
      <4>2. Refused(z) /\ Len(y) < LengthOf(z)
        BY <1>11, <4>1, Zenon DEF Doomed, Lost
      <4>3. Future(raw, a, n + 1, g, h) = z
        <5>1. g.bytes \in Seq(Bytes) /\ h.bytes \in Seq(Bytes)
          BY LineFacts
        <5>2. n \in 0 .. Len(a) - 1
          BY <1>2, <1>4
        <5> QED
          BY <1>1, <1>3, <4>1, <5>1, <5>2, FutureArrives, SMTT(30)
      <4>4. LengthOf(z) \in Nat
        BY LengthOfFacts
      <4> QED
        BY <3>2, <4>2, <4>3, <4>4
    <3> QED
      BY <3>1, <3>2, <3>3 DEF Lost
  <2>2. (Parsed(raw) = "more" /\ Doomed(raw, a, n + 1)) \/ Parsed(raw) = "reject"
    <3>1. n + 1 \in 0 .. Len(a)
      BY <1>2, <1>4
    <3> QED
      BY <1>3, <1>5, <2>1, <3>1, LostReads
  <2> QED
    BY <1>1, <1>11, <2>2 DEF Partial
<1>12. n # N
  BY <1>4
<1> QED
  BY <1>1, <1>2, <1>8, <1>9, <1>10, <1>11, <1>12 DEF Partial

\* The next byte of a frame is lost.
LEMMA LossRead ==
  ASSUME conditions \in Conditions, Verified, NEW f \in Frames,
         NEW n \in 0 .. Len(f.bytes) - 1, NEW y \in Seq(Bytes),
         Partial(y, f.bytes, n, FALSE)
  PROVE  Partial(y, f.bytes, n + 1, TRUE)
<1>1. CASE y = <<>>
  BY <1>1 DEF Partial
<1>2. CASE n \in 1 .. Len(f.bytes) - 1 /\ y = Prefix(f.bytes, n)
  <2>1. Lost(y, f.bytes, n + 1)
    BY <1>2, LackWord
  <2>2. Parsed(y) = "more"
    BY <1>2, FrameParses
  <2>3. n + 1 \in 0 .. Len(f.bytes) /\ f.bytes \in Seq(Bytes)
    BY FrameFacts
  <2>4. Doomed(y, f.bytes, n + 1)
    BY <2>1, <2>2, <2>3, LostReads
  <2> QED
    BY <2>4 DEF Partial
<1> QED
  BY <1>1, <1>2 DEF Partial

\* A spurious byte arrives.
LEMMA NoiseRead ==
  ASSUME conditions \in Conditions, Verified, NEW bytes \in Seq(Bytes),
         bytes \in {<<>>} \cup {f.bytes : f \in Frames},
         NEW n \in 0 .. Len(bytes), NEW y \in Seq(Bytes), Partial(y, bytes, n, FALSE),
         NEW s \in NoiseBytes, NEW raw, raw = Append(y, s)
  PROVE  \/ Parsed(raw) = "more" /\ Partial(raw, bytes, n, TRUE)
         \/ Parsed(raw) = "reject" /\ Partial(<<>>, bytes, n, TRUE)
<1>1. Receiver # "modbus"
  BY DEF Verified
<1>2. s \in Bytes /\ raw \in Seq(Bytes)
  <2>1. s \in Bytes
    BY LineFacts
  <2> QED
    BY <2>1
<1>3. Partial(<<>>, bytes, n, TRUE)
  BY DEF Partial
<1>4. ASSUME Lost(raw, bytes, n), Len(raw) = 1 \/ Frames # {}
      PROVE  \/ Parsed(raw) = "more" /\ Partial(raw, bytes, n, TRUE)
             \/ Parsed(raw) = "reject" /\ Partial(<<>>, bytes, n, TRUE)
  <2>1. (Parsed(raw) = "more" /\ Doomed(raw, bytes, n)) \/ Parsed(raw) = "reject"
    BY <1>2, <1>4, LostReads
  <2> QED
    BY <1>3, <2>1 DEF Partial
<1>5. CASE y = <<>>
  <2>1. raw = <<s>> /\ raw[1] = s /\ Len(raw) = 1
    BY <1>5
  <2>2. CASE s \notin StartBytes
    BY <1>1, <1>3, <2>1, <2>2, Parsing
  <2>3. CASE s \in StartBytes
    <3>1. CASE Frames = {}
      <4>1. Parsed(raw) = "more"
        BY <1>1, <2>1, <2>3, Parsing
      <4>2. Doomed(raw, bytes, n)
        BY <2>1, <2>3, <3>1 DEF Doomed, Lost
      <4> QED
        BY <4>1, <4>2 DEF Partial
    <3>2. CASE Frames # {}
      <4>1. ~NoFalseStart
        BY <2>3, <3>2 DEF NoFalseStart
      <4>2. n = 0 \/ n = Len(bytes)
        <5>1. ~(n \in 1 .. Len(bytes) - 1 /\ y = Prefix(bytes, n))
          BY <1>5 DEF Prefix
        <5> QED
          BY <4>1, <5>1 DEF Partial
      <4>3. CASE n = Len(bytes)
        BY <1>4, <2>1, <2>3, <4>3, SpuriousBetween
      <4>4. CASE n = 0 /\ n # Len(bytes)
        <5>1. PICK f \in Frames : bytes = f.bytes
          BY <4>4
        <5> QED
          BY <1>4, <2>1, <2>3, <4>4, <5>1, SpuriousWord
      <4> QED
        BY <4>2, <4>3, <4>4
    <3> QED
      BY <3>1, <3>2
  <2> QED
    BY <2>2, <2>3
<1>6. CASE n \in 1 .. Len(bytes) - 1 /\ y = Prefix(bytes, n)
  <2>1. PICK f \in Frames : bytes = f.bytes
    BY <1>6
  <2>2. Lost(raw, bytes, n)
    BY <1>6, <2>1, GainWord
  <2> QED
    BY <1>4, <2>1, <2>2
<1> QED
  BY <1>5, <1>6 DEF Partial

\* The next frame starts.
LEMMA StartRead ==
  ASSUME conditions \in Conditions, Verified, NEW bytes \in Seq(Bytes), NEW f \in Frames,
         NEW faulty \in BOOLEAN, NEW y \in Seq(Bytes),
         Partial(y, bytes, Len(bytes), faulty)
  PROVE  Partial(y, f.bytes, 0, faulty)
<1>1. CASE y = <<>>
  BY <1>1 DEF Partial
<1>2. CASE faulty /\ Doomed(y, bytes, Len(bytes))
  <2>1. PICK m \in Nat : m = Len(y)
    OBVIOUS
  <2>2. y # <<>> /\ y[1] \in StartBytes /\ m > 0
    <3>1. y # <<>> /\ y[1] \in StartBytes
      BY <1>2 DEF Doomed, Lost
    <3> QED
      BY <2>1, <3>1
  <2>3. ASSUME NEW g \in Frames, NEW h \in Frames, NEW w, w = Future(y, f.bytes, 0, g, h)
        PROVE  Refused(w) /\ m < LengthOf(w)
    <3>1. PICK N \in Nat : N = Len(f.bytes)
      BY FrameFacts
    <3>2. /\ f.bytes \in Seq(Bytes) /\ g.bytes \in Seq(Bytes) /\ h.bytes \in Seq(Bytes)
          /\ Len(g.bytes) = N /\ Len(h.bytes) = N /\ Len(f.bytes) = N
      BY <3>1, FrameFacts, AlikeFrames
    <3>3. PICK z : z = Future(y, bytes, Len(bytes), f, g)
      OBVIOUS
    <3>4. Refused(z) /\ m < LengthOf(z)
      BY <1>2, <2>1, <3>3, Zenon DEF Doomed, Lost
    <3>5. /\ z \in Seq(Bytes) /\ Len(z) = m + 0 + N + N
          /\ \A i \in 1 .. m : z[i] = y[i]
          /\ \A i \in 1 .. N : z[m + 0 + i] = f.bytes[i]
          /\ \A i \in 1 .. N : z[m + 0 + N + i] = g.bytes[i]
      <4>1. PICK k \in Nat : k = Len(bytes)
        OBVIOUS
      <4>2. k \in 0 .. Len(bytes) /\ Len(bytes) = k + 0 /\ 0 \in Nat
        BY <4>1
      <4>3. Spliced(z, y, m, bytes, k, 0, f.bytes, N, g.bytes, N)
        BY <2>1, <3>2, <3>3, <4>1, <4>2, FutureFacts, SMTT(30)
      <4> QED
        BY <4>3, Zenon DEF Spliced
    <3>6. /\ w \in Seq(Bytes) /\ Len(w) = m + N + N + N
          /\ \A i \in 1 .. m : w[i] = y[i]
          /\ \A i \in 1 .. N : w[m + i] = f.bytes[0 + i]
          /\ \A i \in 1 .. N : w[m + N + i] = g.bytes[i]
      <4>1. 0 \in 0 .. Len(f.bytes) /\ Len(f.bytes) = 0 + N
        BY <3>2
      <4>2. Spliced(w, y, m, f.bytes, 0, N, g.bytes, N, h.bytes, N)
        BY <2>1, <2>3, <3>2, <4>1, FutureFacts, SMTT(30)
      <4> QED
        BY <4>2, Zenon DEF Spliced
    <3>7. PICK L \in Nat : L = LengthOf(z)
      BY LengthOfFacts
    <3>8. L <= 2 * N
      BY <3>1, <3>7, AlikeFrames
    <3>9. ASSUME NEW i \in 1 .. L PROVE w[i] = z[i]
      <4>1. CASE i <= m
        BY <3>5, <3>6, <4>1
      <4>2. CASE i > m /\ i <= m + N
        <5>1. PICK j \in Nat : j = i - m
          <6>1. i - m \in Nat
            BY <4>2
          <6> QED
            BY <6>1
        <5>2. j \in 1 .. N /\ i = m + j /\ m + 0 + j = m + j /\ 0 + j = j
          BY <4>2, <5>1
        <5>3. z[m + 0 + j] = f.bytes[j] /\ w[m + j] = f.bytes[0 + j]
          BY <3>5, <3>6, <5>2, Zenon
        <5> QED
          BY <5>2, <5>3
      <4>3. CASE i > m + N
        <5>1. PICK j \in Nat : j = i - (m + N)
          <6>1. i - (m + N) \in Nat
            BY <4>3
          <6> QED
            BY <6>1
        <5>2. j \in 1 .. N /\ i = m + N + j /\ m + 0 + N + j = m + N + j
          BY <3>8, <4>3, <5>1
        <5>3. z[m + 0 + N + j] = g.bytes[j] /\ w[m + N + j] = g.bytes[j]
          BY <3>5, <3>6, <5>2, Zenon
        <5> QED
          BY <5>2, <5>3
      <4>4. i <= m \/ (i > m /\ i <= m + N) \/ i > m + N
        OBVIOUS
      <4> QED
        BY <4>1, <4>2, <4>3, <4>4
    <3>10. Len(z) >= L /\ Len(w) >= L
      BY <2>2, <3>5, <3>6, <3>8
    <3>11. LengthOf(w) = LengthOf(z) /\ (Refused(w) <=> Refused(z))
      BY <3>5, <3>6, <3>7, <3>9, <3>10, CutWord
    <3> QED
      BY <3>4, <3>11
  <2>4. \A g, h \in Frames : LengthOf(Future(y, f.bytes, 0, g, h)) \in Nat
    BY LengthOfFacts
  <2>5. Lost(y, f.bytes, 0)
    BY <2>1, <2>2, <2>3, <2>4 DEF Lost
  <2>6. Doomed(y, f.bytes, 0)
    BY <2>1, <2>3, <2>5 DEF Doomed
  <2> QED
    BY <1>2, <2>6 DEF Partial
<1>3. Len(bytes) \notin 1 .. Len(bytes) - 1
  OBVIOUS
<1> QED
  BY <1>1, <1>2, <1>3 DEF Partial

-----------------------------------------------------------------------------
(***************************************************************************)
(* The same while loop() reads, whatever it has handled before. A handler  *)
(* has only seen what some frame means.                                    *)
(***************************************************************************)
Answers == {Meaning(f, n) : f \in Frames, n \in Nat}

\* loop() may begin to read with buffer.
Starts(buffer) ==
  [buffer : {buffer}, accepted : {FALSE}, handled : Seq(Answers), counter : Nat]

\* The state t of the receiver after n bytes of a frame.
WellRead(t, bytes, n, faulty) ==
  /\ IsState(t) /\ t.buffer \in Seq(Bytes) /\ t.handled \in Seq(Answers) /\ t.counter \in Nat
  /\ Partial(t.buffer, bytes, n, faulty)

\* If loop() began with buffer now, nothing but frames would be handled.
ReadsWell(buffer) ==
  \A start \in Starts(buffer) : WellRead(ReadAll(start), frame.bytes, sent, faults > 0)

(***************************************************************************)
(* When the receiver might read from the middle of a frame, its buffer     *)
(* must not be forgotten: it is as young as the frame is or, once bytes    *)
(* wait in the UART, as a frame can get.                                   *)
(***************************************************************************)
Young ==
  since_byte <= FrameTime + since_loop /\ (fifo = <<>> => since_byte <= on_line)

(***************************************************************************)
(* Reading on from the buffer is harmless, and so is reading on from an    *)
(* empty one, unless the buffer is too young to be forgotten.              *)
(***************************************************************************)
OnlySentInv ==
  /\ TypeOK
  /\ Verified => /\ handled \in Seq(Answers) /\ ReadsWell(Kept)
                 /\ ReadsWell(<<>>) \/ (NeverCut /\ Young)

LEMMA WellReadStays ==
  ASSUME [Next]_vars
  PROVE  /\ (Verified' <=> Verified) /\ (NeverCut' <=> NeverCut) /\ Answers' = Answers
         /\ MaxFaults' = MaxFaults
         /\ \A t, bytes, n, faulty :
              WellRead(t, bytes, n, faulty)' <=> WellRead(t, bytes, n, faulty)
         /\ \A y, bytes, n, faulty :
              Partial(y, bytes, n, faulty)' <=> Partial(y, bytes, n, faulty)
<1>1. UNCHANGED <<conditions, Receiver, Version, Frames, LoopDelay, NoiseBytes>>
  BY ConditionsStay
<1>2. MaxFaults' = MaxFaults
  BY <1>1 DEF MaxFaults
<1>3. Answers' = Answers
  <2>1. \A f, n : Meaning(f, n)' = Meaning(f, n)
    BY <1>1 DEF Meaning
  <2> QED
    BY <1>1, <2>1 DEF Answers
<1>4. \A z : LengthOf(z)' = LengthOf(z)
  BY <1>1 DEF LengthOf
<1>5. StartBytes' = StartBytes
  BY <1>1 DEF StartBytes
<1>6. \A z : Refused(z)' <=> Refused(z)
  BY <1>4 DEF Refused, Right
<1>7. NoFalseStart' <=> NoFalseStart
  BY <1>1, <1>5 DEF NoFalseStart
<1>8. NeverCut' <=> NeverCut
  BY <1>1 DEF NeverCut
<1>9. \A y, bytes, n : Lost(y, bytes, n)' <=> Lost(y, bytes, n)
  BY <1>1, <1>4, <1>5, <1>6 DEF Lost, Future
<1>10. \A y, bytes, n : Doomed(y, bytes, n)' <=> Doomed(y, bytes, n)
  BY <1>1, <1>4, <1>9 DEF Doomed, Future
<1>11. \A y, bytes, n, faulty :
         Partial(y, bytes, n, faulty)' <=> Partial(y, bytes, n, faulty)
  BY <1>7, <1>10 DEF Partial, Prefix
<1>12. \A t, bytes, n, faulty :
         WellRead(t, bytes, n, faulty)' <=> WellRead(t, bytes, n, faulty)
  BY <1>3, <1>11 DEF WellRead, IsState
<1>13. Verified' <=> Verified
  <2>1. Detectable' <=> Detectable
    BY <1>1, <1>2 DEF Detectable
  <2>2. \A f : Leads(f)' = Leads(f)
    BY <1>1, <1>4, <1>5 DEF Leads
  <2>3. Unmistakable' <=> Unmistakable
    BY <1>1, <1>6, <1>7, <1>8, <2>2 DEF Unmistakable
  <2> QED
    BY <1>1, <2>1, <2>3 DEF Verified
<1> QED
  BY <1>2, <1>3, <1>8, <1>11, <1>12, <1>13

\* One byte of a frame, all that arrived of it, and a spurious byte.
LEMMA OneByteRead ==
  ASSUME ReadAsMeant, conditions \in Conditions, Verified, NEW f \in Frames,
         NEW n \in 0 .. Len(f.bytes) - 1, NEW faulty \in BOOLEAN,
         NEW t, WellRead(t, f.bytes, n, faulty)
  PROVE  WellRead(Received(t, f.bytes[n + 1]), f.bytes, n + 1, faulty)
<1>1. PICK y : y = t.buffer
  OBVIOUS
<1>2. PICK raw : raw = Append(y, f.bytes[n + 1])
  OBVIOUS
<1>3. /\ IsState(t) /\ y \in Seq(Bytes) /\ t.handled \in Seq(Answers) /\ t.counter \in Nat
      /\ Partial(y, f.bytes, n, faulty)
  BY <1>1 DEF WellRead
<1>4. raw \in Seq(Bytes) /\ <<>> \in Seq(Bytes)
  <2>1. f.bytes[n + 1] \in Bytes
    BY FrameFacts
  <2> QED
    BY <1>2, <1>3, <2>1
<1>5. PICK s : s = Received(t, f.bytes[n + 1])
  OBVIOUS
<1>6. CASE Parsed(raw) = "more" /\ Partial(raw, f.bytes, n + 1, faulty)
  <2>1. s = [buffer |-> raw, accepted |-> TRUE, handled |-> t.handled, counter |-> t.counter]
    BY <1>1, <1>2, <1>3, <1>5, <1>6, OneByte
  <2>2. IsState(s) /\ s.buffer = raw /\ s.handled = t.handled /\ s.counter = t.counter
    BY <2>1 DEF IsState
  <2> QED
    BY <1>3, <1>4, <1>5, <1>6, <2>2 DEF WellRead
<1>7. CASE Parsed(raw) = "reject" /\ Partial(<<>>, f.bytes, n + 1, faulty)
  <2>1. s = [buffer |-> <<>>, accepted |-> t.accepted, handled |-> t.handled,
             counter |-> t.counter]
    BY <1>1, <1>2, <1>3, <1>5, <1>7, OneByte
  <2>2. IsState(s) /\ s.buffer = <<>> /\ s.handled = t.handled /\ s.counter = t.counter
    BY <2>1 DEF IsState
  <2> QED
    BY <1>3, <1>4, <1>5, <1>7, <2>2 DEF WellRead
<1>8. CASE Parsed(raw) = "frame" /\ raw = f.bytes /\ n + 1 = Len(f.bytes)
  <2>1. s = [buffer |-> <<>>, accepted |-> t.accepted,
             handled |-> t.handled \o Handled(raw, t.counter),
             counter |-> IF Counts(raw) THEN t.counter + 1 ELSE t.counter]
    BY <1>1, <1>2, <1>3, <1>5, <1>8, OneByte
  <2>2. /\ IsState(s) /\ s.buffer = <<>> /\ s.handled = t.handled \o Handled(raw, t.counter)
        /\ s.counter = IF Counts(raw) THEN t.counter + 1 ELSE t.counter
    BY <2>1 DEF IsState
  <2>3. s.counter \in Nat
    BY <1>3, <2>2
  <2>4. Handled(raw, t.counter) = <<Meaning(f, t.counter)>>
    BY <1>3, <1>8, FrameHandled
  <2>5. <<Meaning(f, t.counter)>> \in Seq(Answers)
    <3>1. Meaning(f, t.counter) \in Answers
      BY <1>3 DEF Answers
    <3> QED
      BY <3>1
  <2>6. s.handled \in Seq(Answers)
    BY <1>3, <2>2, <2>4, <2>5
  <2>7. Partial(<<>>, f.bytes, n + 1, faulty)
    BY <1>8 DEF Partial
  <2> QED
    BY <1>4, <1>5, <2>2, <2>3, <2>6, <2>7 DEF WellRead
<1>9. \/ Parsed(raw) = "more" /\ Partial(raw, f.bytes, n + 1, faulty)
      \/ Parsed(raw) = "reject" /\ Partial(<<>>, f.bytes, n + 1, faulty)
      \/ Parsed(raw) = "frame" /\ raw = f.bytes /\ n + 1 = Len(f.bytes)
  <2>1. y \in Seq(Bytes) /\ Partial(y, f.bytes, n, faulty)
    BY <1>3
  <2> QED
    BY <1>2, <2>1, ByteRead, ZenonT(60)
<1> QED
  BY <1>6, <1>7, <1>8, <1>9, Zenon

LEMMA BytesRead ==
  ASSUME ReadAsMeant, conditions \in Conditions, Verified, NEW f \in Frames,
         NEW n \in 0 .. Len(f.bytes), NEW m \in 0 .. Len(f.bytes), n < m,
         NEW faulty \in BOOLEAN, NEW more, more = SubSeq(f.bytes, n + 1, m),
         NEW g, WellRead(g[0], f.bytes, n, faulty),
         \A i \in 1 .. Len(more) : g[i] = Received(g[i - 1], more[i])
  PROVE  WellRead(g[Len(more)], f.bytes, m, faulty)
<1>1. PICK bytes : bytes = f.bytes
  OBVIOUS
<1>2. PICK N \in Nat : N = Len(bytes)
  BY <1>1, FrameFacts
<1>3. bytes \in Seq(Bytes) /\ n \in Nat /\ m \in Nat /\ m <= N
  BY <1>1, <1>2, FrameFacts
<1>4. PICK k \in Nat : m = n + k
  <2>1. m - n \in Nat /\ m = n + (m - n)
    BY <1>3
  <2> QED
    BY <2>1
<1>5. Len(more) = k /\ \A i \in 1 .. k : more[i] = bytes[n + i]
  <2>1. n + 1 \in 1 .. Len(bytes) + 1 /\ m \in 0 .. Len(bytes)
    BY <1>2, <1>3
  <2>2. Len(more) = k
    BY <1>1, <1>2, <1>3, <1>4, <2>1
  <2>3. ASSUME NEW i \in 1 .. k PROVE more[i] = bytes[n + i]
    BY <1>1, <1>2, <1>3, <1>4, <2>1, <2>2
  <2> QED
    BY <2>2, <2>3
<1> DEFINE Wrong == {i \in 0 .. k : ~WellRead(g[i], bytes, n + i, faulty)}
<1>6. SUFFICES ASSUME Wrong # {} PROVE FALSE
  <2>1. k \in 0 .. k /\ n + k = m
    BY <1>4
  <2> QED
    BY <1>1, <1>5, <2>1
<1>7. PICK i \in Wrong : \A j \in Wrong : i <= j
  <2>1. Wrong \in SUBSET Nat
    OBVIOUS
  <2> QED
    BY <1>6, <2>1, LeastOf
<1>8. i # 0
  <2>1. n + 0 = n
    BY <1>3
  <2> QED
    BY <1>1, <2>1
<1>9. PICK j \in Nat : i = j + 1
  <2>1. i - 1 \in Nat /\ i = (i - 1) + 1
    BY <1>8
  <2> QED
    BY <2>1
<1>10. j \in 0 .. k /\ j \notin Wrong /\ i \in 1 .. k /\ i - 1 = j
  BY <1>7, <1>9
<1>11. PICK p \in Nat : p = n + j
  BY <1>3
<1>12. p \in 0 .. N - 1 /\ p + 1 = n + i
  BY <1>3, <1>4, <1>9, <1>10, <1>11
<1>13. WellRead(g[j], bytes, p, faulty)
  BY <1>10, <1>11
<1>14. g[i] = Received(g[j], bytes[p + 1])
  <2>1. g[i] = Received(g[i - 1], more[i]) /\ more[i] = bytes[n + i]
    BY <1>5, <1>10
  <2> QED
    BY <1>10, <1>12, <2>1
<1>15. WellRead(g[i], bytes, p + 1, faulty)
  BY <1>1, <1>2, <1>12, <1>13, <1>14, OneByteRead
<1> QED
  BY <1>7, <1>12, <1>15

LEMMA NoiseByteRead ==
  ASSUME conditions \in Conditions, Verified, NEW bytes \in Seq(Bytes),
         bytes \in {<<>>} \cup {f.bytes : f \in Frames}, NEW n \in 0 .. Len(bytes),
         NEW s \in NoiseBytes, NEW t, WellRead(t, bytes, n, FALSE)
  PROVE  WellRead(Received(t, s), bytes, n, TRUE)
<1>1. PICK y : y = t.buffer
  OBVIOUS
<1>2. PICK raw : raw = Append(y, s)
  OBVIOUS
<1>3. /\ IsState(t) /\ y \in Seq(Bytes) /\ t.handled \in Seq(Answers) /\ t.counter \in Nat
      /\ Partial(y, bytes, n, FALSE)
  BY <1>1 DEF WellRead
<1>4. raw \in Seq(Bytes) /\ <<>> \in Seq(Bytes)
  <2>1. s \in Bytes
    BY LineFacts
  <2> QED
    BY <1>2, <1>3, <2>1
<1>5. PICK r : r = Received(t, s)
  OBVIOUS
<1>6. CASE Parsed(raw) = "more" /\ Partial(raw, bytes, n, TRUE)
  <2>1. r = [buffer |-> raw, accepted |-> TRUE, handled |-> t.handled, counter |-> t.counter]
    BY <1>1, <1>2, <1>3, <1>5, <1>6, OneByte
  <2>2. IsState(r) /\ r.buffer = raw /\ r.handled = t.handled /\ r.counter = t.counter
    BY <2>1 DEF IsState
  <2> QED
    BY <1>3, <1>4, <1>5, <1>6, <2>2 DEF WellRead
<1>7. CASE Parsed(raw) = "reject" /\ Partial(<<>>, bytes, n, TRUE)
  <2>1. r = [buffer |-> <<>>, accepted |-> t.accepted, handled |-> t.handled,
             counter |-> t.counter]
    BY <1>1, <1>2, <1>3, <1>5, <1>7, OneByte
  <2>2. IsState(r) /\ r.buffer = <<>> /\ r.handled = t.handled /\ r.counter = t.counter
    BY <2>1 DEF IsState
  <2> QED
    BY <1>3, <1>4, <1>5, <1>7, <2>2 DEF WellRead
<1> QED
  BY <1>2, <1>3, <1>6, <1>7, NoiseRead

-----------------------------------------------------------------------------
\* Each step of the line keeps what loop() would read harmless.
LEMMA WellCarried ==
  ASSUME [Next]_vars, NEW b, ReadsWell(b),
         \A start \in Starts(b) :
           WellRead(ReadAll(start), frame.bytes, sent, faults > 0) =>
             WellRead(ReadAll(start)', frame.bytes', sent', faults' > 0)
  PROVE  ReadsWell(b)'
<1>1. Starts(b)' = Starts(b)
  BY WellReadStays DEF Starts
<1>2. SUFFICES ASSUME NEW start \in Starts(b)
               PROVE  WellRead(ReadAll(start), frame.bytes, sent, faults > 0)'
  BY <1>1 DEF ReadsWell
<1>3. WellRead(ReadAll(start)', frame.bytes', sent', faults' > 0)
  BY <1>2 DEF ReadsWell
<1>4. PICK t, bytes, n, faulty :
        t = ReadAll(start)' /\ bytes = frame.bytes' /\ n = sent' /\ faulty = (faults' > 0)
  OBVIOUS
<1>5. WellRead(t, bytes, n, faulty)'
  BY <1>3, <1>4, WellReadStays
<1> QED
  BY <1>4, <1>5

\* When nothing waits in the UART, what is in the buffer is all that counts.
Settled ==
  TypeOK /\ fifo = <<>> =>
    \A b \in Seq(Bytes) : Partial(b, frame.bytes, sent, faults > 0) => ReadsWell(b)

LEMMA SettledNow == Settled
<1> SUFFICES ASSUME TypeOK, fifo = <<>>, NEW b \in Seq(Bytes),
                    Partial(b, frame.bytes, sent, faults > 0), NEW start \in Starts(b)
             PROVE  WellRead(ReadAll(start), frame.bytes, sent, faults > 0)
  BY DEF Settled, ReadsWell
<1>1. ReadAll(start) = start
  <2>1. PICK g : Reading(start, Len(fifo), g) /\ ReadAll(start) = g[Len(fifo)]
    BY ReadAllUnfolds DEF TypeOK
  <2>2. Len(fifo) = 0 /\ 0 \in 0 .. Len(fifo)
    OBVIOUS
  <2> QED
    BY <2>1, <2>2 DEF Reading
<1>2. /\ IsState(start) /\ start.buffer = b /\ start.handled \in Seq(Answers)
      /\ start.counter \in Nat
  BY DEF Starts, IsState
<1> QED
  BY <1>1, <1>2 DEF WellRead

LEMMA SettledNext == Settled'
  BY SettledNow, PTL

LEMMA BetweenFrames ==
  ASSUME TypeOK, fifo = <<>>, ~Sending PROVE ReadsWell(<<>>)
<1>1. Partial(<<>>, frame.bytes, sent, faults > 0)
  BY SendingFacts DEF Partial, Length
<1>2. <<>> \in Seq(Bytes)
  OBVIOUS
<1> QED
  BY <1>1, <1>2, SettledNow, Zenon DEF Settled

\* What TypeOK says of the line.
LEMMA OnLine ==
  ASSUME TypeOK
  PROVE  /\ frame.bytes \in Seq(Bytes) /\ sent \in 0 .. Len(frame.bytes)
         /\ conditions \in Conditions /\ fifo \in Seq(Bytes)
         /\ faults \in Nat /\ faults <= MaxFaults /\ MaxFaults \in Nat
         /\ Sending => sent \in 0 .. Len(frame.bytes) - 1
         /\ Sending => \E f \in Frames : frame.bytes = f.bytes
<1>1. frame.bytes \in Seq(Bytes) /\ sent \in 0 .. Len(frame.bytes) /\ Len(frame.bytes) \in Nat
  BY SendingFacts DEF Length
<1>2. conditions \in Conditions /\ fifo \in Seq(Bytes)
  BY DEF TypeOK
<1>3. faults \in Nat /\ faults <= MaxFaults /\ MaxFaults \in Nat
  BY <1>2, LineFacts DEF TypeOK
<1>4. Sending => sent \in 0 .. Len(frame.bytes) - 1 /\ Len(frame.bytes) > 0
  BY <1>1 DEF Sending, Length
<1>5. Sending => \E f \in Frames : frame.bytes = f.bytes
  <2>1. Sending => frame.bytes # <<>>
    BY <1>4
  <2>2. frame.bytes \in {<<>>} \cup {f.bytes : f \in Frames}
    BY DEF TypeOK
  <2> QED
    BY <2>1, <2>2
<1> QED
  BY <1>1, <1>2, <1>3, <1>4, <1>5

-----------------------------------------------------------------------------
LEMMA StartsWell ==
  ASSUME TypeOK, Verified, [Next]_vars, FrameStarts, NEW b, ReadsWell(b)
  PROVE  ReadsWell(b)'
<1>1. PICK f \in Frames : frame'.bytes = f.bytes
  BY DEF FrameStarts
<1>2. fifo' = fifo /\ sent' = 0 /\ faults' = faults
  BY DEF FrameStarts
<1>3. sent = Len(frame.bytes)
  BY SendingFacts DEF FrameStarts, Length
<1>4. PICK faulty \in BOOLEAN : faulty = (faults > 0)
  <2>1. (faults > 0) \in BOOLEAN
    OBVIOUS
  <2> QED
    BY <2>1, Zenon
<1>5. ASSUME NEW start, WellRead(ReadAll(start), frame.bytes, sent, faults > 0)
      PROVE  WellRead(ReadAll(start)', frame.bytes', sent', faults' > 0)
  <2>1. ReadAll(start)' = ReadAll(start)
    BY <1>2, OnLine, ReadsTheSame
  <2>2. PICK t : t = ReadAll(start)
    OBVIOUS
  <2>3. t.buffer \in Seq(Bytes) /\ Partial(t.buffer, frame.bytes, Len(frame.bytes), faulty)
    BY <1>3, <1>4, <1>5, <2>2 DEF WellRead
  <2>4. Partial(t.buffer, f.bytes, 0, faulty)
    BY <2>3, OnLine, StartRead
  <2>5. WellRead(t, f.bytes, 0, faulty)
    BY <1>5, <2>2, <2>4 DEF WellRead
  <2> QED
    BY <1>1, <1>2, <1>4, <2>1, <2>2, <2>5
<1> QED
  BY <1>5, WellCarried

LEMMA ArrivesWell ==
  ASSUME ReadAsMeant, TypeOK, Verified, [Next]_vars, BytesArrive, NEW b, ReadsWell(b)
  PROVE  ReadsWell(b)'
<1>1. /\ Sending /\ sent' > sent /\ sent' \in Pauses /\ UNCHANGED <<frame, faults>>
      /\ fifo' = fifo \o SubSeq(frame.bytes, sent + 1, sent')
  BY DEF BytesArrive, LineUsed, receiver_vars
<1>2. PICK f \in Frames : frame.bytes = f.bytes
  BY <1>1, OnLine
<1>3. PICK m \in 0 .. Len(f.bytes) : m = sent' /\ m > sent
  BY <1>1, <1>2, FrameOnLine DEF Length
<1>4. PICK n \in 0 .. Len(f.bytes) : n = sent
  BY <1>2, OnLine
<1>5. PICK more : more = SubSeq(f.bytes, n + 1, m)
  OBVIOUS
<1>6. more \in Seq(Bytes) /\ fifo' = fifo \o more /\ n < m
  <2>1. f.bytes \in Seq(Bytes)
    BY <1>2, OnLine
  <2>2. more \in Seq(Bytes)
    BY <1>5, <2>1
  <2>3. n < m
    BY <1>3, <1>4
  <2> QED
    BY <1>1, <1>2, <1>3, <1>4, <1>5, <2>2, <2>3
<1>7. PICK faulty \in BOOLEAN : faulty = (faults > 0)
  <2>1. (faults > 0) \in BOOLEAN
    OBVIOUS
  <2> QED
    BY <2>1, Zenon
<1>8. ASSUME NEW start, WellRead(ReadAll(start), frame.bytes, sent, faults > 0)
      PROVE  WellRead(ReadAll(start)', frame.bytes', sent', faults' > 0)
  <2>1. PICK g : /\ g[0] = ReadAll(start)
                 /\ \A i \in 1 .. Len(more) : g[i] = Received(g[i - 1], more[i])
                 /\ ReadAll(start)' = g[Len(more)]
    BY <1>6, OnLine, ReadsOn
  <2>2. WellRead(g[0], f.bytes, n, faulty)
    BY <1>2, <1>4, <1>7, <1>8, <2>1
  <2>3. WellRead(g[Len(more)], f.bytes, m, faulty)
    BY <1>5, <1>6, <2>1, <2>2, OnLine, BytesRead
  <2> QED
    BY <1>1, <1>2, <1>3, <1>7, <2>1, <2>3
<1> QED
  BY <1>8, WellCarried

LEMMA LossWell ==
  ASSUME TypeOK, Verified, [Next]_vars, ByteLost, NEW b, ReadsWell(b)
  PROVE  ReadsWell(b)'
<1>1. /\ Sending /\ sent' = sent + 1 /\ UNCHANGED <<frame, fifo>>
      /\ faults < MaxFaults /\ faults' = faults + 1
  BY DEF ByteLost, LineUsed
<1>2. faults = 0 /\ faults' > 0
  <2>1. MaxFaults <= 1
    BY DEF Verified, Detectable
  <2> QED
    BY <1>1, <2>1, OnLine
<1>3. PICK f \in Frames : frame.bytes = f.bytes
  BY <1>1, OnLine
<1>4. PICK n \in 0 .. Len(f.bytes) - 1 : n = sent
  BY <1>1, <1>3, OnLine
<1>5. ASSUME NEW start, WellRead(ReadAll(start), frame.bytes, sent, faults > 0)
      PROVE  WellRead(ReadAll(start)', frame.bytes', sent', faults' > 0)
  <2>1. ReadAll(start)' = ReadAll(start)
    BY <1>1, OnLine, ReadsTheSame
  <2>2. PICK t : t = ReadAll(start)
    OBVIOUS
  <2>3. (faults > 0) = FALSE /\ (faults' > 0) = TRUE
    BY <1>2
  <2>4. t.buffer \in Seq(Bytes) /\ Partial(t.buffer, f.bytes, n, FALSE)
    BY <1>3, <1>4, <1>5, <2>2, <2>3 DEF WellRead
  <2>5. Partial(t.buffer, f.bytes, n + 1, TRUE)
    BY <2>4, OnLine, LossRead
  <2>6. WellRead(t, f.bytes, n + 1, TRUE)
    BY <1>5, <2>2, <2>5 DEF WellRead
  <2> QED
    BY <1>1, <1>3, <1>4, <2>1, <2>2, <2>3, <2>6
<1> QED
  BY <1>5, WellCarried

LEMMA NoiseWell ==
  ASSUME TypeOK, Verified, [Next]_vars, Noise, NEW b, ReadsWell(b)
  PROVE  ReadsWell(b)'
<1>1. PICK s \in NoiseBytes : fifo' = Append(fifo, s)
  BY DEF Noise
<1>2. /\ UNCHANGED <<frame, sent>> /\ faults < MaxFaults /\ faults' = faults + 1
  BY DEF Noise
<1>3. (faults > 0) = FALSE /\ (faults' > 0) = TRUE
  <2>1. MaxFaults <= 1
    BY DEF Verified, Detectable
  <2> QED
    BY <1>2, <2>1, OnLine
<1>4. PICK bytes \in Seq(Bytes) : bytes = frame.bytes
  BY OnLine
<1>5. PICK n \in 0 .. Len(bytes) : n = sent
  BY <1>4, OnLine
<1>6. bytes \in {<<>>} \cup {f.bytes : f \in Frames}
  BY <1>4 DEF TypeOK
<1>7. <<s>> \in Seq(Bytes) /\ fifo' = fifo \o <<s>> /\ Len(<<s>>) = 1 /\ <<s>>[1] = s
  <2>1. s \in Bytes /\ fifo \in Seq(Bytes)
    BY OnLine, LineFacts
  <2> QED
    BY <1>1, <2>1
<1>8. ASSUME NEW start, WellRead(ReadAll(start), frame.bytes, sent, faults > 0)
      PROVE  WellRead(ReadAll(start)', frame.bytes', sent', faults' > 0)
  <2>1. PICK g : /\ g[0] = ReadAll(start)
                 /\ \A i \in 1 .. Len(<<s>>) : g[i] = Received(g[i - 1], <<s>>[i])
                 /\ ReadAll(start)' = g[Len(<<s>>)]
    BY <1>7, OnLine, ReadsOn
  <2>2. PICK t : t = ReadAll(start)
    OBVIOUS
  <2>3. ReadAll(start)' = Received(t, s)
    <3>1. 1 \in 1 .. Len(<<s>>) /\ 1 - 1 = 0
      BY <1>7
    <3>2. g[1] = Received(g[0], s)
      BY <1>7, <2>1, <3>1
    <3> QED
      BY <1>7, <2>1, <2>2, <3>2
  <2>4. WellRead(t, bytes, n, FALSE)
    BY <1>3, <1>4, <1>5, <1>8, <2>2
  <2>5. WellRead(Received(t, s), bytes, n, TRUE)
    BY <1>6, <2>4, OnLine, NoiseByteRead
  <2> QED
    BY <1>2, <1>3, <1>4, <1>5, <2>3, <2>5
<1> QED
  BY <1>8, WellCarried

LEMMA StaysWell ==
  ASSUME TypeOK, [Next]_vars, UNCHANGED <<fifo, frame, sent, faults>>, NEW b, ReadsWell(b)
  PROVE  ReadsWell(b)'
<1>1. ASSUME NEW start, WellRead(ReadAll(start), frame.bytes, sent, faults > 0)
      PROVE  WellRead(ReadAll(start)', frame.bytes', sent', faults' > 0)
  <2>1. ReadAll(start)' = ReadAll(start)
    BY OnLine, ReadsTheSame
  <2> QED
    BY <1>1, <2>1
<1> QED
  BY <1>1, WellCarried

\* A byte that stays in the buffer was accepted.
LEMMA LastAccepted ==
  ASSUME conditions \in Conditions, fifo \in Seq(Bytes), fifo # <<>>,
         NEW start, StateTyped(start), ReadAll(start).buffer # <<>>
  PROVE  ReadAll(start).accepted = TRUE
<1>1. PICK N \in Nat : N = Len(fifo) /\ N > 0
  OBVIOUS
<1>2. PICK g : Reading(start, N, g) /\ ReadAll(start) = g[N]
  BY <1>1, ReadAllUnfolds
<1>3. \A i \in 0 .. N : g[i] = IF i = 0 THEN start ELSE Received(g[i - 1], fifo[i])
  BY <1>2 DEF Reading
<1> DEFINE Wrong == {i \in 0 .. N : ~StateTyped(g[i])}
<1>4. Wrong = {}
  <2>1. SUFFICES ASSUME Wrong # {} PROVE FALSE
    OBVIOUS
  <2>2. PICK i \in Wrong : \A j \in Wrong : i <= j
    <3>1. Wrong \in SUBSET Nat
      OBVIOUS
    <3> QED
      BY <2>1, <3>1, LeastOf
  <2>3. i # 0
    BY <1>3
  <2>4. i - 1 \in 0 .. N /\ i - 1 \notin Wrong
    BY <2>2, <2>3
  <2>5. g[i] = Received(g[i - 1], fifo[i]) /\ fifo[i] \in Bytes
    BY <1>1, <1>3, <2>3
  <2> QED
    BY <2>4, <2>5, OneByteTyped
<1>5. N - 1 \in 0 .. N /\ N - 1 \notin Wrong
  BY <1>1, <1>4
<1>6. PICK s : s = g[N - 1]
  OBVIOUS
<1>7. StateTyped(s) /\ ReadAll(start) = Received(s, fifo[N]) /\ fifo[N] \in Bytes
  BY <1>1, <1>2, <1>3, <1>5, <1>6
<1>8. PICK raw : raw = Append(s.buffer, fifo[N])
  OBVIOUS
<1>9. raw \in Seq(Bytes) /\ raw # <<>>
  BY <1>7, <1>8 DEF StateTyped
<1>10. Parsed(raw) \in {"more", "reject", "frame"}
  BY <1>9, ParsedFacts
<1>11. IsState(s)
  BY <1>7 DEF StateTyped
<1>12. PICK r : r = ReadAll(start)
  OBVIOUS
<1>13. r = Received(s, fifo[N]) /\ r.buffer # <<>>
  BY <1>7, <1>12
<1>14. /\ Parsed(raw) = "more" => r.accepted = TRUE
       /\ Parsed(raw) # "more" => r.buffer = <<>>
  <2>1. PICK byte : byte = fifo[N]
    OBVIOUS
  <2>2. /\ Parsed(raw) = "more" =>
             r = [buffer |-> raw, accepted |-> TRUE, handled |-> s.handled,
                  counter |-> s.counter]
        /\ Parsed(raw) = "reject" =>
             r = [buffer |-> <<>>, accepted |-> s.accepted, handled |-> s.handled,
                  counter |-> s.counter]
        /\ Parsed(raw) = "frame" =>
             r = [buffer |-> <<>>, accepted |-> s.accepted,
                  handled |-> s.handled \o Handled(raw, s.counter),
                  counter |-> IF Counts(raw) THEN s.counter + 1 ELSE s.counter]
    BY <1>8, <1>11, <1>13, <2>1, OneByte
  <2>3. CASE Parsed(raw) = "more"
    BY <2>2, <2>3
  <2>4. CASE Parsed(raw) = "reject"
    BY <2>2, <2>4
  <2>5. CASE Parsed(raw) = "frame"
    BY <2>2, <2>5
  <2> QED
    BY <1>10, <2>3, <2>4, <2>5
<1> QED
  BY <1>12, <1>13, <1>14

LEMMA LoopWell ==
  ASSUME TypeOK, Verified, [Next]_vars, Loop, handled \in Seq(Answers), ReadsWell(Kept),
         ReadsWell(<<>>) \/ (NeverCut /\ Young)
  PROVE  /\ handled' \in Seq(Answers) /\ ReadsWell(Kept)'
         /\ ReadsWell(<<>>)' \/ (NeverCut /\ Young')
<1>1. /\ rx_buffer' = ReadAll(Start).buffer /\ handled' = ReadAll(Start).handled
      /\ Kept' = rx_buffer' /\ fifo' = <<>> /\ since_loop' = 0
      /\ ReadAll(Start).accepted = TRUE => since_byte' = 0
      /\ since_byte' \in {0, since_byte}
      /\ fifo = <<>> => ReadAll(Start) = Start
      /\ UNCHANGED <<frame, sent, on_line, faults>>
  BY LoopReads DEF Loop, line_vars
<1>2. PICK b : b = ReadAll(Start).buffer
  OBVIOUS
<1>3. handled' \in Seq(Answers) /\ b \in Seq(Bytes) /\ Partial(b, frame.bytes, sent, faults > 0)
  <2>1. Start \in Starts(Kept)
    BY DEF Start, Starts, TypeOK
  <2>2. WellRead(ReadAll(Start), frame.bytes, sent, faults > 0)
    BY <2>1 DEF ReadsWell
  <2> QED
    BY <1>1, <1>2, <2>2 DEF WellRead
<1>4. TypeOK'
  BY ReceiverNext
<1>5. ASSUME NEW c \in Seq(Bytes), Partial(c, frame.bytes, sent, faults > 0)
      PROVE  ReadsWell(c)'
  <2>1. PICK bytes, n, faulty : bytes = frame.bytes /\ n = sent /\ faulty = (faults > 0)
    OBVIOUS
  <2>2. Partial(c, bytes, n, faulty)'
    BY <1>5, <2>1, WellReadStays
  <2>3. bytes = frame'.bytes /\ n = sent' /\ faulty = (faults' > 0)
    BY <1>1, <2>1
  <2>4. Partial(c, frame.bytes, sent, faults > 0)'
    BY <2>2, <2>3
  <2> QED
    BY <1>1, <1>4, <2>4, SettledNext DEF Settled
<1>6. ReadsWell(Kept)'
  <2>1. ReadsWell(b)'
    BY <1>3, <1>5
  <2>2. Kept' = b
    BY <1>1, <1>2
  <2> QED
    BY <2>1, <2>2
<1>7. ReadsWell(<<>>)' \/ (NeverCut /\ Young')
  <2>1. CASE b = <<>>
    BY <1>3, <1>5, <2>1
  <2>2. CASE NoFalseStart
    <3>1. Partial(<<>>, frame.bytes, sent, faults > 0) /\ <<>> \in Seq(Bytes)
      BY <2>2 DEF Partial
    <3> QED
      BY <1>5, <3>1
  <2>3. CASE b # <<>> /\ ~NoFalseStart
    <3>1. NeverCut
      BY <2>3 DEF Verified, Unmistakable
    <3>2. /\ since_byte \in Nat /\ on_line \in Nat /\ on_line <= FrameTime /\ FrameTime \in Nat
      BY LineFacts DEF TypeOK
    <3>3. CASE fifo # <<>>
      <4>1. ReadAll(Start).accepted = TRUE
        BY <1>2, <2>3, <3>3, LastAccepted, OnLine, StartTyped
      <4>2. since_byte' = 0 /\ on_line' = on_line /\ since_loop' = 0
        BY <1>1, <4>1
      <4> QED
        BY <3>1, <3>2, <4>2 DEF Young
    <3>4. CASE fifo = <<>> /\ ReadsWell(<<>>)
      <4>1. UNCHANGED <<fifo, frame, sent, faults>>
        BY <1>1, <3>4
      <4> QED
        BY <3>4, <4>1, StaysWell
    <3>5. CASE fifo = <<>> /\ Young
      <4>1. since_byte <= on_line
        BY <3>5 DEF Young
      <4>2. since_byte' <= on_line' /\ since_byte' <= FrameTime + since_loop'
        BY <1>1, <3>2, <4>1
      <4> QED
        BY <3>1, <4>2 DEF Young
    <3> QED
      BY <3>3, <3>4, <3>5
  <2> QED
    BY <2>1, <2>2, <2>3
<1> QED
  BY <1>3, <1>6, <1>7

LEMMA TickWell ==
  ASSUME TypeOK, Verified, [Next]_vars, Tick, ReadsWell(Kept),
         ReadsWell(<<>>) \/ (NeverCut /\ Young)
  PROVE  /\ ReadsWell(Kept)'
         /\ ReadsWell(<<>>)' \/ (NeverCut /\ Young')
<1>1. /\ UNCHANGED <<fifo, frame, sent, faults>> /\ since_loop' = since_loop + 1
      /\ since_byte' = IF since_byte <= Gap THEN since_byte + 1 ELSE since_byte
      /\ on_line' = IF Sending THEN on_line + 1 ELSE on_line
      /\ since_loop < LoopDelay
  BY DEF Tick
<1>2. /\ since_byte \in Nat /\ since_loop \in Nat /\ on_line \in Nat /\ FrameTime \in Nat
      /\ Gap \in Nat /\ LoopDelay \in Nat
  BY LineFacts DEF TypeOK
<1>3. ReadsWell(Kept)'
  <2>1. PICK k : k = Kept'
    OBVIOUS
  <2>2. ReadsWell(k)
    <3>1. CASE k = Kept
      BY <3>1
    <3>2. CASE k # Kept
      <4>1. k = <<>> /\ ~(since_byte < Gap)
        BY <2>1, <3>2, KeptInTick
      <4>2. CASE ReadsWell(<<>>)
        BY <4>1, <4>2
      <4>3. CASE NeverCut /\ Young
        <5>1. since_byte < Gap
          BY <1>1, <1>2, <4>3 DEF NeverCut, Young
        <5> QED
          BY <4>1, <5>1
      <4> QED
        BY <4>2, <4>3
    <3> QED
      BY <3>1, <3>2
  <2>3. ReadsWell(k)'
    BY <1>1, <2>2, StaysWell
  <2> QED
    BY <2>1, <2>3
<1>4. ReadsWell(<<>>) => ReadsWell(<<>>)'
  BY <1>1, StaysWell
<1>5. ASSUME NeverCut, Young, ~ReadsWell(<<>>) PROVE Young'
  <2>1. fifo = <<>> => Sending
    BY <1>5, BetweenFrames
  <2>2. since_byte <= FrameTime + since_loop /\ (fifo = <<>> => since_byte <= on_line)
    BY <1>5 DEF Young
  <2>3. since_byte' <= FrameTime + since_loop'
    BY <1>1, <1>2, <2>2
  <2>4. fifo = <<>> => since_byte' <= on_line'
    BY <1>1, <1>2, <2>1, <2>2
  <2> QED
    BY <1>1, <2>3, <2>4 DEF Young
<1> QED
  BY <1>3, <1>4, <1>5

LEMMA YoungStays ==
  ASSUME Young, UNCHANGED <<since_byte, since_loop, on_line>>,
         fifo' # <<>> \/ fifo' = fifo
  PROVE  Young'
  BY DEF Young

LEMMA OnlySentStart == Init => OnlySentInv
<1> SUFFICES ASSUME Init PROVE OnlySentInv
  OBVIOUS
<1>1. TypeOK
  BY ReceiverInit
<1>2. fifo = <<>> /\ handled = <<>> /\ sent = 0 /\ Kept = <<>> /\ Length = 0
  BY DEF Init, Kept, Length, NoFrame
<1>3. ReadsWell(<<>>) /\ <<>> \in Seq(Answers)
  <2>1. ~Sending
    BY <1>2 DEF Sending
  <2> QED
    BY <1>1, <1>2, <2>1, BetweenFrames
<1> QED
  BY <1>1, <1>2, <1>3 DEF OnlySentInv

LEMMA OnlySentNext ==
  ASSUME ReadAsMeant PROVE OnlySentInv /\ [Next]_vars => OnlySentInv'
<1> SUFFICES ASSUME OnlySentInv, [Next]_vars PROVE OnlySentInv'
  OBVIOUS
<1>1. TypeOK /\ TypeOK'
  BY ReceiverNext DEF OnlySentInv
<1>2. (Verified' <=> Verified) /\ (NeverCut' <=> NeverCut) /\ Answers' = Answers
  BY WellReadStays
<1>3. SUFFICES ASSUME Verified
               PROVE  /\ handled' \in Seq(Answers) /\ ReadsWell(Kept)'
                      /\ ReadsWell(<<>>)' \/ (NeverCut /\ Young')
  BY <1>1, <1>2 DEF OnlySentInv
<1>4. /\ handled \in Seq(Answers) /\ ReadsWell(Kept)
      /\ ReadsWell(<<>>) \/ (NeverCut /\ Young)
  BY <1>3 DEF OnlySentInv
<1>5. CASE Loop
  BY <1>1, <1>3, <1>4, <1>5, LoopWell
<1>6. ASSUME FrameStarts \/ BytesArrive \/ ByteLost \/ Noise \/ UNCHANGED vars,
             \A b : ReadsWell(b) => ReadsWell(b)'
      PROVE  ReadsWell(Kept)' /\ (ReadsWell(<<>>) => ReadsWell(<<>>)')
  <2>1. PICK k : k = Kept
    OBVIOUS
  <2>2. Kept' = k
    BY <1>1, <1>6, <2>1, KeptStays
  <2> QED
    BY <1>4, <1>6, <2>1, <2>2
<1>7. CASE FrameStarts
  <2>1. ReadsWell(Kept)' /\ (ReadsWell(<<>>) => ReadsWell(<<>>)')
    BY <1>1, <1>3, <1>6, <1>7, StartsWell
  <2>2. handled' \in Seq(Answers)
    BY <1>7 DEF FrameStarts
  <2>3. ~ReadsWell(<<>>) => Young'
    <3>1. ~Sending /\ UNCHANGED <<since_byte, since_loop, fifo>>
      BY <1>7 DEF FrameStarts
    <3>2. ~ReadsWell(<<>>) => fifo # <<>>
      BY <1>1, <3>1, BetweenFrames
    <3> QED
      BY <1>4, <3>1, <3>2 DEF Young
  <2> QED
    BY <1>4, <2>1, <2>2, <2>3
<1>8. CASE BytesArrive
  <2>1. ReadsWell(Kept)' /\ (ReadsWell(<<>>) => ReadsWell(<<>>)')
    BY <1>1, <1>3, <1>6, <1>8, ArrivesWell
  <2>2. UNCHANGED <<handled, since_byte, since_loop, on_line>>
    BY <1>8 DEF BytesArrive, LineUsed, receiver_vars
  <2>3. fifo' # <<>>
    <3>1. /\ Sending /\ sent' > sent /\ sent' \in Pauses
          /\ fifo' = fifo \o SubSeq(frame.bytes, sent + 1, sent')
      BY <1>8 DEF BytesArrive, LineUsed
    <3>2. PICK n \in 0 .. Length : n = sent' /\ n > sent
      BY <1>1, <3>1, FrameOnLine
    <3>3. PICK more : more = SubSeq(frame.bytes, sent + 1, n)
      OBVIOUS
    <3>4. more \in Seq(Bytes) /\ Len(more) > 0
      BY <1>1, <3>2, <3>3, SendingFacts DEF Length
    <3>5. fifo \in Seq(Bytes)
      BY <1>1, OnLine
    <3>6. fifo \o more # <<>>
      <4>1. \A c \in Seq(Bytes) : c = <<>> => Len(c) = 0
        OBVIOUS
      <4>2. fifo \o more \in Seq(Bytes) /\ Len(fifo \o more) > 0
        BY <3>4, <3>5
      <4> QED
        BY <4>1, <4>2
    <3>7. fifo' = fifo \o more
      BY <3>1, <3>2, <3>3
    <3> QED
      BY <3>6, <3>7, Zenon
  <2> QED
    BY <1>4, <2>1, <2>2, <2>3, YoungStays
<1>9. CASE ByteLost
  <2>1. ReadsWell(Kept)' /\ (ReadsWell(<<>>) => ReadsWell(<<>>)')
    BY <1>1, <1>3, <1>6, <1>9, LossWell
  <2>2. UNCHANGED <<handled, since_byte, since_loop, on_line, fifo>>
    BY <1>9 DEF ByteLost, LineUsed, receiver_vars
  <2> QED
    BY <1>4, <2>1, <2>2, YoungStays
<1>10. CASE Noise
  <2>1. ReadsWell(Kept)' /\ (ReadsWell(<<>>) => ReadsWell(<<>>)')
    BY <1>1, <1>3, <1>6, <1>10, NoiseWell
  <2>2. UNCHANGED <<handled, since_byte, since_loop, on_line>>
    BY <1>10 DEF Noise, receiver_vars
  <2>3. fifo' # <<>>
    BY <1>1, <1>10, OnLine DEF Noise
  <2> QED
    BY <1>4, <2>1, <2>2, <2>3, YoungStays
<1>11. CASE Tick
  <2>1. handled' = handled
    BY <1>11 DEF Tick
  <2> QED
    BY <1>1, <1>3, <1>4, <1>11, <2>1, TickWell
<1>12. CASE UNCHANGED vars
  <2>1. UNCHANGED <<handled, since_byte, since_loop, on_line, fifo, frame, sent, faults>>
    BY <1>12 DEF vars, receiver_vars, line_vars
  <2>2. ReadsWell(Kept)' /\ (ReadsWell(<<>>) => ReadsWell(<<>>)')
    BY <1>1, <1>6, <1>12, <2>1, StaysWell
  <2> QED
    BY <1>4, <2>1, <2>2, YoungStays
<1> QED
  BY <1>5, <1>7, <1>8, <1>9, <1>10, <1>11, <1>12 DEF Next

\* What a handler makes of a frame is what its sender meant.
LEMMA AnswersMeant ==
  ASSUME Receiver # "modbus", conditions \in Conditions, NEW a \in Answers
  PROVE  MeansWhatWasSent(a)
<1>1. PICK f \in Frames, n \in Nat : a = Meaning(f, n)
  BY DEF Answers
<1>2. CASE Receiver = "display"
  BY <1>1, <1>2 DEF Meaning, MeansWhatWasSent
<1>3. CASE Receiver = "emulator"
  <2>1. a.frame = f.means
    <3>1. CASE f.means = "status"
      <4>1. a = StatusMeaning(EmulatedStatus(Version, n))
        BY <1>1, <1>3, <3>1 DEF Meaning
      <4> QED
        BY <3>1, <4>1 DEF StatusMeaning
    <3>2. CASE f.means = "settings"
      <4>1. a = SettingsMeaning(EmulatedSettings(Version))
        BY <1>1, <1>3, <3>2 DEF Meaning
      <4> QED
        BY <3>2, <4>1 DEF SettingsMeaning
    <3>3. CASE f.means # "status" /\ f.means # "settings"
      <4>1. a = [frame |-> f.means]
        BY <1>1, <1>3, <3>3 DEF Meaning
      <4> QED
        BY <4>1
    <3> QED
      BY <3>1, <3>2, <3>3
  <2> QED
    BY <1>3, <2>1 DEF MeansWhatWasSent
<1> QED
  BY <1>2, <1>3, LineFacts DEF Receivers

(***************************************************************************)
(* At a receiver that verifies the checksum, one lost or one spurious byte *)
(* never makes a handler read anything but what was sent, however late     *)
(* loop() is and however closely the frames follow each other: for all     *)
(* frames that are Unmistakable, any number of them and any content.       *)
(***************************************************************************)
THEOREM OnlySentFramesRead ==
  ASSUME ReadAsMeant PROVE Spec => [](Unmistakable => OnlySentFrames)
<1>1. Init => OnlySentInv
  BY OnlySentStart
<1>2. OnlySentInv /\ [Next]_vars => OnlySentInv'
  BY OnlySentNext
<1>3. OnlySentInv => (Unmistakable => OnlySentFrames)
  <2>1. SUFFICES ASSUME OnlySentInv, Unmistakable, Receiver # "modbus", Detectable,
                        NEW i \in DOMAIN handled
                 PROVE  MeansWhatWasSent(handled[i])
    BY DEF OnlySentFrames
  <2>2. handled \in Seq(Answers) /\ conditions \in Conditions
    BY <2>1 DEF OnlySentInv, Verified, TypeOK
  <2>3. handled[i] \in Answers
    BY <2>1, <2>2
  <2> QED
    BY <2>1, <2>2, <2>3, AnswersMeant
<1> QED
  BY <1>1, <1>2, <1>3, PTL DEF Spec

=============================================================================
