------------------------- MODULE DemandSweepProofs -------------------------
(***************************************************************************)
(* Theorems about DemandSweep for every sound or unsound setting, every    *)
(* consumption an int16_t holds and every demand commanded before.         *)
(***************************************************************************)
EXTENDS DemandSweep, PowerDemandProofs

(***************************************************************************)
(* The settings are those of a record of the schema, and the consumption   *)
(* stays within its window.                                                *)
(***************************************************************************)
SweepInv ==
  /\ s \in Settings /\ 0 <= s.min /\ 0 <= s.max
  /\ last \in UInt16Range
  /\ window \in Int16Range \X Int16Range
  /\ consumption \in Int16Range

LEMMA SweepInit == Init => SweepInv
<1> SUFFICES ASSUME Init PROVE SweepInv
  OBVIOUS
<1>1. s \in [min : Mins, max : Maxs, buffer : Buffers, zero : BOOLEAN]
  BY DEF Init
<1>2. s.min \in Mins /\ s.max \in Maxs
  BY <1>1
<1>3. 0 <= s.min /\ 0 <= s.max
  BY <1>2, SweepAssumption
<1>4. s \in Settings
  BY <1>1, SweepAssumption DEF Settings
<1>5. window \in Int16Range \X Int16Range /\ last \in UInt16Range
  BY SweepAssumption DEF Init
<1>6. consumption \in Int16Range
  BY <1>5 DEF Init
<1> QED
  BY <1>1, <1>3, <1>4, <1>5, <1>6 DEF SweepInv

LEMMA SweepNext == SweepInv /\ [Rise]_vars => SweepInv'
<1> SUFFICES ASSUME SweepInv, [Rise]_vars PROVE SweepInv'
  OBVIOUS
<1>1. CASE Rise
  <2>1. window[2] \in Int16Range
    BY DEF SweepInv
  <2>2. consumption' \in Int16Range
    BY <1>1, <2>1 DEF SweepInv, Rise, Int16Range
  <2> QED
    BY <1>1, <2>2 DEF SweepInv, Rise
<1>2. CASE UNCHANGED vars
  BY <1>2 DEF SweepInv, vars
<1> QED
  BY <1>1, <1>2

LEMMA SweepCorrect == Spec => []SweepInv
  BY SweepInit, SweepNext, PTL DEF Spec

(***************************************************************************)
(* The fields of the settings, for the arithmetic.                         *)
(***************************************************************************)
LEMMA SweepTypes ==
  ASSUME SweepInv
  PROVE  /\ s.min \in Int /\ s.max \in Int /\ s.buffer \in Int
         /\ 0 <= s.min /\ s.min <= 32767 /\ 0 <= s.max /\ s.max <= 32767
         /\ consumption \in Int /\ last \in Int
         /\ -32768 <= consumption /\ consumption <= 32767
  BY DEF SweepInv, Settings, Int16Range, UInt16Range

-----------------------------------------------------------------------------
(***************************************************************************)
(* calculate_power_demand_negative_measurements_ computes the table of its *)
(* comment for all settings, as long as its two int16_t do not overflow:   *)
(* the casts of the code then leave every value as it is.                  *)
(***************************************************************************)
LEMMA ClampedSum == SweepInv => NegativeIsClampedSum
<1> SUFFICES ASSUME SweepInv, NoOverflow
             PROVE  NegativeMeasurements(consumption, last, s)
                      = Clamp(consumption - s.buffer + last)
  BY DEF NegativeIsClampedSum
<1>1. Int16(consumption - s.buffer) = consumption - s.buffer
  BY SweepTypes, Int16Cast DEF NoOverflow
<1>2. Int16(consumption - s.buffer + last) = consumption - s.buffer + last
  BY SweepTypes, Int16Cast DEF NoOverflow
<1>3. consumption - s.buffer + last \in Int
  BY SweepTypes
<1> QED
  BY <1>1, <1>2, <1>3, SweepTypes DEF NegativeMeasurements, Clamp

THEOREM NegativeComputesClampedSum == Spec => []NegativeIsClampedSum
  BY SweepCorrect, ClampedSum, PTL

(***************************************************************************)
(* calculate_power_demand_oem_ never demands more than the house draws.    *)
(***************************************************************************)
LEMMA OemBelowConsumption == SweepInv => OemNeverExceedsConsumption
<1> SUFFICES ASSUME SweepInv, OemBuffer(s), 0 <= s.buffer
             PROVE  Oem(consumption, s) <= IF consumption > 0 THEN consumption ELSE 0
  BY DEF OemNeverExceedsConsumption
<1>1. s.buffer <= 2 * s.max
  BY DEF OemBuffer
<1>2. Abs(s.buffer - s.max) \in Int /\ Abs(s.buffer - s.max) \in 0 .. s.max
  BY <1>1, SweepTypes DEF Abs
<1>3. Int16(Abs(s.buffer - s.max)) = Abs(s.buffer - s.max)
  BY <1>2, SweepTypes, Int16Cast DEF Int16Range
<1> DEFINE half == (Abs(consumption - s.buffer) + (consumption - s.buffer)) \div 2
<1>4. half = IF consumption > s.buffer THEN consumption - s.buffer ELSE 0
  BY SweepTypes DEF Abs
<1> HIDE DEF half
<1>5. half \in Int /\ 0 <= half /\ half <= 32767
  BY <1>4, SweepTypes
<1>6. Int16(half) = half
  BY <1>5, Int16Cast DEF Int16Range
<1>7. half <= IF consumption > 0 THEN consumption ELSE 0
  BY <1>4, SweepTypes
<1>8. Oem(consumption, s) =
        IF consumption > s.max + s.buffer THEN s.max
        ELSE IF consumption > s.max THEN Abs(s.buffer - s.max)
        ELSE IF consumption >= s.min THEN half
        ELSE 0
  BY <1>3, <1>6 DEF Oem, half
<1> QED
  BY <1>2, <1>7, <1>8, SweepTypes

THEOREM OemStaysBelowConsumption == Spec => []OemNeverExceedsConsumption
  BY SweepCorrect, OemBelowConsumption, PTL

-----------------------------------------------------------------------------
(***************************************************************************)
(* The split.                                                              *)
(***************************************************************************)
LEMMA DemandNat == SweepInv => Demand \in Nat /\ Demand <= 32767
<1> SUFFICES ASSUME SweepInv PROVE Demand \in Nat /\ Demand <= 32767
  OBVIOUS
<1> DEFINE sum == Int16(Int16(consumption - s.buffer) + last)
<1>1. sum \in Int /\ -32768 <= sum /\ sum <= 32767
  <2>1. Int16(consumption - s.buffer) \in Int
    BY SweepTypes, Int16Cast DEF Int16Range
  <2> QED
    BY <2>1, SweepTypes, Int16Cast DEF Int16Range
<1>2. Demand = IF sum >= s.max THEN s.max
               ELSE IF sum < s.min THEN (IF s.zero THEN 0 ELSE s.min)
               ELSE sum
  BY DEF Demand, CalculatePowerDemand, NegativeMeasurements
<1> HIDE DEF sum
<1> QED
  BY <1>1, <1>2, SweepTypes

-----------------------------------------------------------------------------
(***************************************************************************)
(* Subtracting bytes one after another, as the checksum does.              *)
(***************************************************************************)
Rest(x) == x % 256

LEMMA RestOfRest == \A x, y \in Int : Rest(Rest(x) - y) = Rest(x - y)
  BY DEF Rest

(***************************************************************************)
(* The checksum of a frame with seven bytes before it, unrolled.  A        *)
(* recursive function is what its definition says only if such a function  *)
(* exists, so the steps give one.                                          *)
(***************************************************************************)
LEMMA ChksumOfSeven ==
  ASSUME NEW data, Len(data) = 7, \A i \in 2 .. 7 : data[i] \in Int
  PROVE  Chksum(data)
           = (255 - data[2] - data[3] - data[4] - data[5] - data[6] - data[7]) % 256
<1> DEFINE x1 == 255
           x2 == (x1 - data[2]) % 256
           x3 == (x2 - data[3]) % 256
           x4 == (x3 - data[4]) % 256
           x5 == (x4 - data[5]) % 256
           x6 == (x5 - data[6]) % 256
           x7 == (x6 - data[7]) % 256
           unrolled == <<x1, x2, x3, x4, x5, x6, x7>>
           Sum(sum) == [i \in 1 .. Len(data) |->
                         IF i = 1 THEN 255 ELSE (sum[i - 1] - data[i]) % 256]
           sum == CHOOSE h : h = Sum(h)
<1>1. Chksum(data) = sum[7]
  BY DEF Chksum
<1>2. unrolled = Sum(unrolled)
  <2>1. unrolled = [i \in 1 .. 7 |-> unrolled[i]]
    OBVIOUS
  <2>2. ASSUME NEW i \in 1 .. 7
        PROVE  unrolled[i] = IF i = 1 THEN 255
                             ELSE (unrolled[i - 1] - data[i]) % 256
    <3>1. i = 1 \/ i = 2 \/ i = 3 \/ i = 4 \/ i = 5 \/ i = 6 \/ i = 7
      OBVIOUS
    <3> QED
      BY <3>1
  <2> HIDE DEF unrolled
  <2> QED
    BY <2>1, <2>2
<1>3. sum = Sum(sum)
  <2> HIDE DEF unrolled, Sum
  <2> QED
    BY <1>2
<1>4. \A i \in 1 .. 7 : sum[i] = IF i = 1 THEN 255 ELSE (sum[i - 1] - data[i]) % 256
  <2>1. sum = [i \in 1 .. 7 |-> IF i = 1 THEN 255 ELSE (sum[i - 1] - data[i]) % 256]
    BY <1>3
  <2> HIDE DEF sum
  <2> QED
    BY <2>1, ZenonT(30)
<1> HIDE DEF sum
<1>5. /\ sum[1] = 255
      /\ sum[2] = Rest(sum[1] - data[2])
      /\ sum[3] = Rest(sum[2] - data[3])
      /\ sum[4] = Rest(sum[3] - data[4])
      /\ sum[5] = Rest(sum[4] - data[5])
      /\ sum[6] = Rest(sum[5] - data[6])
      /\ sum[7] = Rest(sum[6] - data[7])
  BY <1>4 DEF Rest
<1>6. PICK b \in Int, c \in Int, d \in Int, e \in Int, f \in Int, g \in Int :
        /\ b = data[2] /\ c = data[3] /\ d = data[4]
        /\ e = data[5] /\ f = data[6] /\ g = data[7]
  <2>1. /\ data[2] \in Int /\ data[3] \in Int /\ data[4] \in Int
        /\ data[5] \in Int /\ data[6] \in Int /\ data[7] \in Int
    OBVIOUS
  <2> QED
    BY <2>1, Zenon
<1>7. sum[7] = Rest(Rest(Rest(Rest(Rest(Rest(255 - b) - c) - d) - e) - f) - g)
  BY <1>5, <1>6
<1>8. sum[7] = Rest(255 - b - c - d - e - f - g)
  <2>1. PICK t2 \in Int : t2 = 255 - b
    OBVIOUS
  <2>2. PICK t3 \in Int, t4 \in Int, t5 \in Int, t6 \in Int :
          t3 = t2 - c /\ t4 = t3 - d /\ t5 = t4 - e /\ t6 = t5 - f
    <3>1. \A x, y \in Int : x - y \in Int
      OBVIOUS
    <3> QED
      BY <3>1, Zenon
  <2>3. sum[7] = Rest(Rest(Rest(Rest(Rest(Rest(t2) - c) - d) - e) - f) - g)
    BY <1>7, <2>1
  <2>4. /\ Rest(Rest(t2) - c) = Rest(t3) /\ Rest(Rest(t3) - d) = Rest(t4)
        /\ Rest(Rest(t4) - e) = Rest(t5) /\ Rest(Rest(t5) - f) = Rest(t6)
        /\ Rest(Rest(t6) - g) = Rest(t6 - g)
    <3>1. Rest(Rest(t2) - c) = Rest(t2 - c)
      BY RestOfRest
    <3>2. Rest(Rest(t3) - d) = Rest(t3 - d)
      BY RestOfRest
    <3>3. Rest(Rest(t4) - e) = Rest(t4 - e)
      BY RestOfRest
    <3>4. Rest(Rest(t5) - f) = Rest(t5 - f)
      BY RestOfRest
    <3>5. Rest(Rest(t6) - g) = Rest(t6 - g)
      BY RestOfRest
    <3> QED
      BY <2>2, <3>1, <3>2, <3>3, <3>4, <3>5, Zenon
  <2>5. sum[7] = Rest(t6 - g)
    BY <2>3, <2>4, Zenon
  <2>6. t6 - g = 255 - b - c - d - e - f - g
    BY <2>1, <2>2
  <2> QED
    BY <2>5, <2>6
<1> QED
  BY <1>1, <1>6, <1>8 DEF Rest

(***************************************************************************)
(* A frame of send() holds the measurement in two bytes, and its checksum  *)
(* is the one of the display protocol.                                     *)
(***************************************************************************)
LEMMA SentFrame ==
  ASSUME NEW share \in UInt16Range
  PROVE  /\ Word(Send(36, share), 4) = share
         /\ Send(36, share) = WithChksum(Front(Send(36, share)))
<1> DEFINE high == share \div 256
           low  == share % 256
           sent == Send(36, share)
           front == <<36, 86, 0, 33, high, low, 128>>
<1>1. share \in Int /\ high \in Int /\ low \in Int /\ 256 * high + low = share
  BY DEF UInt16Range
<1>2. sent = <<36, 86, 0, 33, high, low, 128, (264 - high - low) % 256>>
  BY DEF Send
<1> HIDE DEF high, low, sent
<1>3. sent[5] = high /\ sent[6] = low /\ Len(sent) = 8
  BY <1>2
<1>4. Word(sent, 4) = share
  BY <1>1, <1>3 DEF Word, At
<1>5. Front(sent) = front
  <2>1. Front(sent) = [i \in 1 .. 7 |-> sent[i]]
    BY <1>2, <1>3 DEF Front
  <2>2. front = [i \in 1 .. 7 |-> front[i]]
    BY <1>1
  <2>3. ASSUME NEW i \in 1 .. 7
        PROVE  sent[i] = front[i]
    <3>1. i = 1 \/ i = 2 \/ i = 3 \/ i = 4 \/ i = 5 \/ i = 6 \/ i = 7
      OBVIOUS
    <3> QED
      BY <1>2, <3>1
  <2> HIDE DEF front
  <2> QED
    BY <2>1, <2>2, <2>3
<1>6. Chksum(front) = (255 - 86 - 0 - 33 - high - low - 128) % 256
  <2>1. Len(front) = 7
    OBVIOUS
  <2>2. /\ front[2] = 86 /\ front[3] = 0 /\ front[4] = 33
        /\ front[5] = high /\ front[6] = low /\ front[7] = 128
    OBVIOUS
  <2> HIDE DEF front
  <2>3. \A i \in 2 .. 7 : front[i] \in Int
    BY <1>1, <2>2
  <2>4. Chksum(front) = (255 - front[2] - front[3] - front[4] - front[5]
                           - front[6] - front[7]) % 256
    BY <2>1, <2>3, ChksumOfSeven, Zenon
  <2> QED
    BY <2>2, <2>4
<1>7. (255 - 86 - 0 - 33 - high - low - 128) % 256 = (264 - high - low) % 256
  BY <1>1
<1>8. sent = Append(front, (264 - high - low) % 256)
  BY <1>1, <1>2
<1>9. sent = WithChksum(Front(sent))
  BY <1>5, <1>6, <1>7, <1>8 DEF WithChksum
<1> QED
  BY <1>4, <1>9 DEF sent

LEMMA ShareCarried == SweepInv => FrameCarriesShare
<1> SUFFICES ASSUME SweepInv, NEW n \in 1 .. 6
             PROVE  LET sent == Send(36, PerDevice(Demand, n))
                    IN  /\ Word(sent, 4) = PerDevice(Demand, n)
                        /\ sent = WithChksum(Front(sent))
  BY DEF FrameCarriesShare
<1>1. Demand \in Nat /\ Demand <= 32767 /\ n \in Nat \ {0}
  BY DemandNat
<1>2. PerDevice(Demand, n) \in Nat /\ PerDevice(Demand, n) <= Demand
  BY <1>1, PerDeviceCovers
<1>3. PerDevice(Demand, n) \in UInt16Range
  BY <1>1, <1>2 DEF UInt16Range
<1> QED
  BY <1>3, SentFrame

(***************************************************************************)
(* send(): both bytes of the share arrive, and the inverter finds the      *)
(* checksum right, for every demand the calculation can return.            *)
(***************************************************************************)
THEOREM FrameAlwaysCarriesShare == Spec => []FrameCarriesShare
  BY SweepCorrect, ShareCarried, PTL

-----------------------------------------------------------------------------
(***************************************************************************)
(* Monotony, calculation by calculation.                                   *)
(***************************************************************************)
LEMMA NegativeMonotone ==
  ASSUME SweepInv, SoundSettings(s), NoOverflow, Rise, NoOverflow'
  PROVE  NegativeMeasurements(consumption, last, s)
           <= NegativeMeasurements(consumption', last, s)
<1>1. consumption' = consumption + 1 /\ UNCHANGED <<s, last>>
  BY DEF Rise
<1>2. /\ Int16(consumption - s.buffer) = consumption - s.buffer
      /\ Int16(consumption - s.buffer + last) = consumption - s.buffer + last
  BY SweepTypes, Int16Cast DEF NoOverflow
<1>3. /\ Int16(consumption' - s.buffer) = consumption' - s.buffer
      /\ Int16(consumption' - s.buffer + last) = consumption' - s.buffer + last
  BY <1>1, SweepTypes, Int16Cast DEF NoOverflow
<1> DEFINE sum  == consumption - s.buffer + last
           more == consumption' - s.buffer + last
           Limited(x) == IF x >= s.max THEN s.max
                         ELSE IF x < s.min THEN (IF s.zero THEN 0 ELSE s.min)
                         ELSE x
<1>4. /\ NegativeMeasurements(consumption, last, s) = Limited(sum)
      /\ NegativeMeasurements(consumption', last, s) = Limited(more)
  BY <1>2, <1>3 DEF NegativeMeasurements
<1>5. sum \in Int /\ more = sum + 1
  BY <1>1, SweepTypes
<1> HIDE DEF sum, more
<1>6. Limited(sum) <= Limited(more)
  BY <1>5, SweepTypes DEF SoundSettings
<1> QED
  BY <1>4, <1>6

LEMMA NegativeNotNegative ==
  ASSUME SweepInv, NEW c \in Int
  PROVE  NegativeMeasurements(c, last, s) \in Int /\ 0 <= NegativeMeasurements(c, last, s)
<1> DEFINE sum == Int16(Int16(c - s.buffer) + last)
<1>1. sum \in Int
  BY SweepTypes, Int16Cast DEF Int16Range
<1>2. NegativeMeasurements(c, last, s)
        = IF sum >= s.max THEN s.max
          ELSE IF sum < s.min THEN (IF s.zero THEN 0 ELSE s.min)
          ELSE sum
  BY DEF NegativeMeasurements
<1> HIDE DEF sum
<1> QED
  BY <1>1, <1>2, SweepTypes

LEMMA RestartMonotone ==
  ASSUME SweepInv, SoundSettings(s), NoOverflow, Rise, NoOverflow'
  PROVE  RestartOnCrossingZero(consumption, last, s)
           <= RestartOnCrossingZero(consumption', last, s)
<1>1. consumption' = consumption + 1 /\ consumption \in Int
  BY SweepTypes DEF Rise
<1>2. CASE consumption <= 0
  <2>1. RestartOnCrossingZero(consumption, last, s) = 0
    BY <1>2 DEF RestartOnCrossingZero
  <2>2. /\ NegativeMeasurements(consumption', last, s) \in Int
        /\ 0 <= NegativeMeasurements(consumption', last, s)
    BY <1>1, NegativeNotNegative
  <2> QED
    BY <2>1, <2>2 DEF RestartOnCrossingZero
<1>3. CASE ~(consumption <= 0)
  BY <1>1, <1>3, NegativeMonotone DEF RestartOnCrossingZero
<1> QED
  BY <1>2, <1>3

\* The OEM rules without their casts, which change nothing.
LEMMA OemUncast ==
  ASSUME SweepInv, OemBuffer(s), NEW c \in Int, c - s.buffer \in Int16Range
  PROVE  Oem(c, s) =
           IF c > s.max + s.buffer THEN s.max
           ELSE IF c > s.max THEN Abs(s.buffer - s.max)
           ELSE IF c >= s.min THEN (IF c > s.buffer THEN c - s.buffer ELSE 0)
           ELSE 0
<1>1. s.buffer <= 2 * s.max
  BY DEF OemBuffer
<1> DEFINE half == (Abs(c - s.buffer) + (c - s.buffer)) \div 2
<1>2. half = IF c > s.buffer THEN c - s.buffer ELSE 0
  BY SweepTypes DEF Abs
<1> HIDE DEF half
<1>3. half \in Int16Range /\ half \in Int
  BY <1>2, SweepTypes DEF Int16Range
<1>4. Int16(half) = half
  BY <1>3, Int16Cast
<1>5. CASE c > s.max /\ ~(c > s.max + s.buffer)
  <2>1. Abs(s.buffer - s.max) \in Int /\ Abs(s.buffer - s.max) \in Int16Range
    BY <1>1, <1>5, SweepTypes DEF Abs, Int16Range
  <2>2. Int16(Abs(s.buffer - s.max)) = Abs(s.buffer - s.max)
    BY <2>1, Int16Cast
  <2> QED
    BY <1>5, <2>2 DEF Oem
<1>6. CASE ~(c > s.max /\ ~(c > s.max + s.buffer))
  BY <1>2, <1>4, <1>6 DEF Oem, half
<1> QED
  BY <1>5, <1>6

LEMMA OemMonotone ==
  ASSUME SweepInv, OemBuffer(s), NoOverflow, Rise, NoOverflow'
  PROVE  Oem(consumption, s) <= Oem(consumption', s)
<1>1. consumption' = consumption + 1 /\ UNCHANGED s
  BY DEF Rise
<1>2. /\ consumption - s.buffer \in Int16Range
      /\ consumption' - s.buffer \in Int16Range
      /\ consumption \in Int /\ consumption' \in Int
  BY <1>1, SweepTypes DEF NoOverflow
<1> DEFINE Rules(c) ==
             IF c > s.max + s.buffer THEN s.max
             ELSE IF c > s.max THEN Abs(s.buffer - s.max)
             ELSE IF c >= s.min THEN (IF c > s.buffer THEN c - s.buffer ELSE 0)
             ELSE 0
<1>3. Oem(consumption, s) = Rules(consumption) /\ Oem(consumption', s) = Rules(consumption')
  BY <1>2, OemUncast
<1>4. s.buffer <= 2 * s.max
  BY DEF OemBuffer
<1>5. Rules(consumption) <= Rules(consumption + 1)
  BY <1>4, SweepTypes DEF Abs
<1> QED
  BY <1>1, <1>3, <1>5

(***************************************************************************)
(* calculate_power_demand_: no dip anywhere, for no calculation.           *)
(***************************************************************************)
THEOREM DemandNeverDips == Spec => DemandMonotone
<1>1. SweepInv /\ [Rise]_vars =>
        [\A calculation \in Calculations :
           /\ SoundSettings(s)
           /\ calculation = "DUMB_OEM_BEHAVIOR" => OemBuffer(s)
           /\ NoOverflow /\ NoOverflow'
           => CalculatePowerDemand(calculation, consumption, last, s)
                <= CalculatePowerDemand(calculation, consumption', last, s)]_vars
  <2> SUFFICES ASSUME SweepInv, Rise, NEW calculation \in Calculations,
                      SoundSettings(s), NoOverflow, NoOverflow',
                      calculation = "DUMB_OEM_BEHAVIOR" => OemBuffer(s)
               PROVE  CalculatePowerDemand(calculation, consumption, last, s)
                        <= CalculatePowerDemand(calculation, consumption', last, s)
    OBVIOUS
  <2> QED
    BY NegativeMonotone, RestartMonotone, OemMonotone
    DEF CalculatePowerDemand, Calculations
<1> QED
  BY <1>1, SweepCorrect, PTL DEF Spec, DemandMonotone
=============================================================================
