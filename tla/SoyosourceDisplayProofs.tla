---------------------- MODULE SoyosourceDisplayProofs ----------------------
(***************************************************************************)
(* Theorems about SoyosourceDisplay, for every set of installations, every *)
(* set of values their inverters may have, and queues of any length.       *)
(***************************************************************************)
EXTENDS SoyosourceDisplay, TLAPS

(***************************************************************************)
(* The frames under way.  The mode an inverter reports can only be         *)
(* translated if it has one of the settings there are, so the types of the *)
(* two queues need the mode of every write and of every answer.            *)
(***************************************************************************)
ModeSettings == Values["OperationMode"]

ReportedModes == {mode \in 0 .. 15 : \E m \in ModeSettings : mode \in Reported(m)}

FieldValues(f) == IF f = "OperationMode" THEN ModeSettings ELSE Byte

WriteFrames(register) ==
  {r \in [kind : {"write"}, register : {register},
          settings : [WrittenFields(register) -> Byte]] :
     \A f \in WrittenFields(register) : r.settings[f] \in FieldValues(f)}

RequestFrames ==
  [kind : Kinds \cup {"reboot"}] \cup UNION {WriteFrames(r) : r \in Registers}

AnswerFrames ==
  {a \in [kind : Kinds, empty : BOOLEAN, mode : 0 .. 15, settings : [Fields -> Byte]] :
     ~a.empty => a.mode \in ReportedModes}

DisplayInv ==
  /\ installation \in Installations
  /\ current_settings \in [Fields -> Byte]
  /\ current_settings["OperationMode"] \in ModeSettings \cup {0}
  /\ numbers \in [NumberRegisters -> {None} \cup NumberStates]
  /\ operation_mode \in Labels \cup {None}
  /\ operation_mode_id \in ReportedModes \cup {None}
  /\ requests \in Seq(RequestFrames) /\ Len(requests) <= MaxQueue
  /\ answers \in Seq(AnswerFrames) /\ Len(answers) <= MaxQueue
  /\ device \in [Fields -> Byte]
  /\ device["OperationMode"] \in ModeSettings
  /\ connected \in BOOLEAN

-----------------------------------------------------------------------------
(***************************************************************************)
(* Queues.                                                                 *)
(***************************************************************************)
LEMMA Enqueued ==
  ASSUME NEW X, NEW q \in Seq(X), NEW x \in X
  PROVE  Append(q, x) \in Seq(X) /\ Len(Append(q, x)) = Len(q) + 1
  OBVIOUS

LEMMA Dequeued ==
  ASSUME NEW X, NEW q \in Seq(X), q # <<>>
  PROVE  Head(q) \in X /\ Tail(q) \in Seq(X) /\ Len(Tail(q)) = Len(q) - 1
  OBVIOUS

(***************************************************************************)
(* The installations.                                                      *)
(***************************************************************************)
LEMMA InstallationFacts ==
  ASSUME installation \in Installations
  PROVE  /\ MaxQueue \in Nat \ {0}
         /\ \A f \in Fields : Values[f] \subseteq Byte \ {0}
         /\ ModeSettings \subseteq
              {1, 2, 17, IF Protocol = "DISPLAY" THEN 16 ELSE 18}
         /\ ModeSettings \subseteq Byte /\ 0 \notin ModeSettings
<1>1. /\ MaxQueue \in Nat \ {0}
      /\ \A f \in Fields : Values[f] \subseteq Byte \ {0}
      /\ Values["OperationMode"] \subseteq
           {1, 2, 17, IF Protocol = "DISPLAY" THEN 16 ELSE 18}
  BY DisplayAssumption DEF MaxQueue, Values, Protocol
<1>2. "OperationMode" \in Fields /\ 0 \in Byte
  BY DEF Fields, Registers, Byte
<1> QED
  BY <1>1, <1>2 DEF ModeSettings

LEMMA SameInstallation ==
  ASSUME UNCHANGED installation
  PROVE  /\ MaxQueue' = MaxQueue /\ RequestFrames' = RequestFrames
         /\ AnswerFrames' = AnswerFrames /\ Labels' = Labels
         /\ ModeSettings' = ModeSettings /\ ReportedModes' = ReportedModes
<1>1. ModeSettings' = ModeSettings /\ ReportedModes' = ReportedModes
  BY DEF ModeSettings, ReportedModes, Values
<1> QED
  BY <1>1 DEF MaxQueue, RequestFrames, AnswerFrames, Labels, WriteFrames, Protocol,
              WrittenFields, OptionsMap, FieldValues

LEMMA FieldNames ==
  /\ \A r \in Registers : WrittenFields(r) \subseteq Fields /\ r \in WrittenFields(r)
  /\ NumberRegisters \subseteq Registers /\ Registers \subseteq Fields
  /\ "OperationMode" \in Registers /\ "OperationMode" \notin NumberRegisters
  BY DEF WrittenFields, Fields, Registers, NumberRegisters

(***************************************************************************)
(* The tables.                                                             *)
(***************************************************************************)
LEMMA UnknownType ==
  /\ Unknown \in [Fields -> Byte] /\ Unknown["OperationMode"] = 0
  /\ Unshown \in [NumberRegisters -> {None} \cup NumberStates]
  BY FieldNames DEF Unknown, Unshown, Byte

LEMMA ModeReadBack ==
  ASSUME installation \in Installations, NEW m \in ModeSettings,
         NEW mode \in Reported(m)
  PROVE  OperationModeSetting(mode) = m
<1>1. m \in {1, 2, 17, IF Protocol = "DISPLAY" THEN 16 ELSE 18}
  BY InstallationFacts
<1>2. CASE m = 1
  BY <1>2 DEF Reported, OperationModeSetting
<1>3. CASE m = 2
  BY <1>3 DEF Reported, OperationModeSetting
<1>4. CASE m = 17
  BY <1>4 DEF Reported, OperationModeSetting
<1>5. CASE m = 16 /\ Protocol = "DISPLAY"
  BY <1>5 DEF Reported, OperationModeSetting
<1>6. CASE m = 18 /\ Protocol # "DISPLAY"
  BY <1>6 DEF Reported, OperationModeSetting
<1> QED
  BY <1>1, <1>2, <1>3, <1>4, <1>5, <1>6

LEMMA ReportedType ==
  ASSUME installation \in Installations, NEW m \in ModeSettings
  PROVE  Reported(m) \subseteq ReportedModes
<1>1. m \in {1, 2, 16, 17, 18}
  BY InstallationFacts
<1>2. Reported(m) \subseteq 0 .. 15
  BY <1>1 DEF Reported
<1> QED
  BY <1>2 DEF ReportedModes

LEMMA ModeSettingType ==
  ASSUME installation \in Installations, NEW mode \in ReportedModes
  PROVE  OperationModeSetting(mode) \in ModeSettings
  BY ModeReadBack DEF ReportedModes

LEMMA ShownType ==
  ASSUME NEW r, NEW value \in Byte
  PROVE  ShownValue(r, value) \in NumberStates /\ RegisterValue(r, ShownValue(r, value)) = value
  BY DEF ShownValue, RegisterValue, Byte, NumberStates

LEMMA OptionType ==
  ASSUME operation_mode \in Labels \cup {None}, NEW setting
  PROVE  ReportedOption(setting) \in Labels \cup {None}
  BY DEF ReportedOption, Labels, Range

-----------------------------------------------------------------------------
(***************************************************************************)
(* A request, and a write, are frames.                                     *)
(***************************************************************************)
LEMMA CommandFrame ==
  ASSUME DisplayInv, NEW kind \in Kinds \cup {"reboot"},
         Len(requests) < MaxQueue, SendCommand(kind)
  PROVE  requests' \in Seq(RequestFrames) /\ Len(requests') <= MaxQueue
<1>1. Request(kind) \in RequestFrames
  BY DEF Request, RequestFrames
<1>2. requests \in Seq(RequestFrames) /\ MaxQueue \in Nat
  BY InstallationFacts DEF DisplayInv
<1> QED
  BY <1>1, <1>2, Enqueued DEF SendCommand

\* What update_setting sends.
WriteOf(register, value) ==
  LET new_settings == [current_settings EXCEPT ![register] = value]
  IN  [kind |-> "write", register |-> register,
       settings |-> [f \in WrittenFields(register) |-> new_settings[f]]]

LEMMA WriteIsFrame ==
  ASSUME DisplayInv, NEW register \in Registers, NEW value \in Values[register],
         UpdateSetting(register, value)
  PROVE  /\ requests' = Append(requests, WriteOf(register, value))
         /\ WriteOf(register, value) \in WriteFrames(register)
         /\ WriteOf(register, value) \in RequestFrames
<1> DEFINE new == [current_settings EXCEPT ![register] = value]
           frame == [kind |-> "write", register |-> register,
                     settings |-> [f \in WrittenFields(register) |-> new[f]]]
<1>0. frame = WriteOf(register, value)
  BY DEF WriteOf
<1>1. requests' = Append(requests, frame) /\ new["OperationMode"] # 0
  BY DEF UpdateSetting, MayWrite
<1>2. value \in Byte /\ value \in FieldValues(register)
  BY InstallationFacts, FieldNames DEF DisplayInv, FieldValues, ModeSettings
<1>3. new \in [Fields -> Byte]
  BY <1>2, FieldNames DEF DisplayInv
<1>4. new["OperationMode"] \in ModeSettings
  BY <1>1, <1>2, FieldNames DEF DisplayInv, FieldValues
<1> HIDE DEF new
<1>5. frame.settings \in [WrittenFields(register) -> Byte]
  BY <1>3, FieldNames
<1>6. \A f \in WrittenFields(register) : frame.settings[f] \in FieldValues(f)
  BY <1>3, <1>4, FieldNames DEF FieldValues
<1>7. frame \in WriteFrames(register)
  BY <1>5, <1>6 DEF WriteFrames
<1>8. frame \in RequestFrames
  BY <1>7 DEF RequestFrames
<1> HIDE DEF frame
<1> QED
  BY <1>0, <1>1, <1>7, <1>8

LEMMA WriteFrame ==
  ASSUME DisplayInv, NEW register \in Registers, NEW value \in Values[register],
         Len(requests) < MaxQueue, UpdateSetting(register, value)
  PROVE  requests' \in Seq(RequestFrames) /\ Len(requests') <= MaxQueue
<1>1. requests \in Seq(RequestFrames) /\ MaxQueue \in Nat
  BY InstallationFacts DEF DisplayInv
<1> QED
  BY <1>1, WriteIsFrame, Enqueued

LEMMA AnswerFrame ==
  ASSUME DisplayInv, NEW kind \in Kinds, Len(answers) < MaxQueue, Answer(kind)
  PROVE  answers' \in Seq(AnswerFrames) /\ Len(answers') <= MaxQueue
<1>1. answers \in Seq(AnswerFrames) /\ MaxQueue \in Nat
  BY InstallationFacts DEF DisplayInv
<1>2. Unknown \in [Fields -> Byte]
  BY UnknownType
<1>3. PICK frame \in AnswerFrames : answers' = Append(answers, frame)
  <2>1. EmptyFrame(kind) \in AnswerFrames
    BY <1>2 DEF EmptyFrame, AnswerFrames
  <2>2. ASSUME NEW mode \in Reported(device.OperationMode)
        PROVE  [kind |-> kind, empty |-> FALSE, mode |-> mode,
                settings |-> IF kind = "settings" THEN device ELSE Unknown]
                 \in AnswerFrames
    <3> DEFINE shown == IF kind = "settings" THEN device ELSE Unknown
    <3>1. mode \in ReportedModes /\ mode \in 0 .. 15
      BY ReportedType DEF DisplayInv, ReportedModes
    <3>2. shown \in [Fields -> Byte]
      BY <1>2 DEF DisplayInv
    <3> HIDE DEF shown
    <3>3. [kind |-> kind, empty |-> FALSE, mode |-> mode, settings |-> shown]
            \in AnswerFrames
      BY <3>1, <3>2 DEF AnswerFrames
    <3> QED
      BY <3>3 DEF shown
  <2> QED
    BY <2>1, <2>2 DEF Answer
<1> QED
  BY <1>1, <1>3, Enqueued

-----------------------------------------------------------------------------
(***************************************************************************)
(* Type correctness, one step per action.                                  *)
(***************************************************************************)
LEMMA DisplayInit == Init => DisplayInv
<1> SUFFICES ASSUME Init PROVE DisplayInv
  OBVIOUS
<1>1. /\ installation \in Installations
      /\ current_settings = Unknown /\ numbers = Unshown
      /\ operation_mode = None /\ operation_mode_id = None
      /\ requests = <<>> /\ answers = <<>> /\ device \in Settings
  BY DEF Init
<1>2. connected \in BOOLEAN
  BY DEF Init
<1>3. /\ Unknown \in [Fields -> Byte] /\ Unknown["OperationMode"] = 0
  BY UnknownType
<1>4. numbers \in [NumberRegisters -> {None} \cup NumberStates]
  BY <1>1 DEF Unshown
<1>5. /\ requests \in Seq(RequestFrames) /\ Len(requests) <= MaxQueue
      /\ answers \in Seq(AnswerFrames) /\ Len(answers) <= MaxQueue
  BY <1>1, InstallationFacts
<1>6. /\ device \in [Fields -> Byte]
      /\ device["OperationMode"] \in ModeSettings
  <2>1. /\ device = [f \in Fields |-> device[f]]
        /\ \A f \in Fields : device[f] \in Values[f]
    BY <1>1 DEF Settings, Fields, Registers
  <2>2. \A f \in Fields : device[f] \in Byte
    BY <1>1, <2>1, InstallationFacts
  <2>3. device["OperationMode"] \in ModeSettings
    BY <2>1, FieldNames DEF ModeSettings
  <2> QED
    BY <2>1, <2>2, <2>3
<1> QED
  BY <1>1, <1>2, <1>3, <1>4, <1>5, <1>6 DEF DisplayInv

LEMMA StatusFrameType ==
  ASSUME DisplayInv, UNCHANGED installation, NEW frame \in AnswerFrames,
         StatusFrame(frame)
  PROVE  /\ requests' \in Seq(RequestFrames)' /\ Len(requests') <= MaxQueue'
         /\ operation_mode_id' \in (ReportedModes \cup {None})'
         /\ UNCHANGED <<current_settings, numbers, operation_mode>>
<1>1. requests' \in Seq(RequestFrames) /\ Len(requests') <= MaxQueue
  <2>1. CASE AsksForSettings
    <3>1. SendCommand("settings") /\ Len(requests) < MaxQueue
      BY <2>1 DEF StatusFrame
    <3>2. "settings" \in Kinds \cup {"reboot"}
      BY DEF Kinds
    <3> QED
      BY <3>1, <3>2, CommandFrame
  <2>2. CASE ~AsksForSettings
    BY <2>2 DEF StatusFrame, DisplayInv
  <2> QED
    BY <2>1, <2>2
<1>2. operation_mode_id' \in ReportedModes \cup {None}
  BY DEF StatusFrame, AnswerFrames, DisplayInv
<1> QED
  BY <1>1, <1>2, SameInstallation DEF StatusFrame

LEMMA SettingsFrameType ==
  ASSUME DisplayInv, UNCHANGED installation, NEW frame \in AnswerFrames,
         SettingsFrame(frame)
  PROVE  /\ current_settings' \in [Fields -> Byte]
         /\ current_settings'["OperationMode"] \in ModeSettings \cup {0}
         /\ numbers' \in [NumberRegisters -> {None} \cup NumberStates]
         /\ operation_mode' \in (Labels \cup {None})'
         /\ UNCHANGED <<operation_mode_id, requests>>
<1>1. CASE ~Accepts(frame)
  BY <1>1, SameInstallation DEF SettingsFrame, DisplayInv
<1>2. CASE Accepts(frame)
  <2> DEFINE mode == OperationModeSetting(frame.mode)
             new == [f \in Fields |->
                       IF f = "OperationMode" THEN mode
                       ELSE IF f \in KnownFields THEN frame.settings[f]
                       ELSE current_settings[f]]
  <2>1. /\ current_settings' = new /\ operation_mode' = ReportedOption(mode)
        /\ numbers' = [r \in NumberRegisters |-> ShownValue(r, frame.settings[r])]
    BY <1>2 DEF SettingsFrame
  <2>2. mode \in ModeSettings \cup {0} /\ mode \in Byte
    BY <1>2, ModeSettingType, InstallationFacts DEF Accepts, AnswerFrames, DisplayInv
  <2> HIDE DEF mode
  <2>3. frame.settings \in [Fields -> Byte]
    BY DEF AnswerFrames
  <2>4. new \in [Fields -> Byte] /\ new["OperationMode"] = mode
    BY <2>2, <2>3, FieldNames DEF DisplayInv
  <2>5. \A r \in NumberRegisters : ShownValue(r, frame.settings[r]) \in NumberStates
    BY <2>3, FieldNames, ShownType
  <2>6. operation_mode' \in Labels \cup {None}
    BY <2>1, OptionType DEF DisplayInv
  <2>7. numbers' \in [NumberRegisters -> {None} \cup NumberStates]
    BY <2>1, <2>5
  <2> HIDE DEF new
  <2> QED
    BY <2>1, <2>2, <2>4, <2>6, <2>7, SameInstallation DEF SettingsFrame
<1> QED
  BY <1>1, <1>2

\* A number entity writes the value of its register that it shows as its state.
LEMMA NumberWrites ==
  ASSUME DisplayInv, NumberControl
  PROVE  \E register \in NumberRegisters : \E v \in Values[register] :
           UserActs(register, v) /\ UpdateSetting(register, v)
<1>1. PICK register \in NumberRegisters : \E v \in Values[register] :
        /\ UserActs(register, RegisterValue(register, ShownValue(register, v)))
        /\ UpdateSetting(register, RegisterValue(register, ShownValue(register, v)))
  BY DEF NumberControl
<1>2. \A v \in Values[register] : v \in Byte
  BY InstallationFacts, FieldNames DEF DisplayInv
<1> QED
  BY <1>1, <1>2, ShownType

LEMMA WriteApplied ==
  ASSUME DisplayInv, requests # <<>>, Head(requests).kind = "write",
         device' = [f \in Fields |->
                      IF f \in DOMAIN Head(requests).settings
                      THEN Head(requests).settings[f] ELSE device[f]]
  PROVE  /\ device' \in [Fields -> Byte]
         /\ device'["OperationMode"] \in ModeSettings
<1>1. Head(requests) \in RequestFrames
  BY Dequeued DEF DisplayInv
<1>2. PICK r \in Registers : Head(requests) \in WriteFrames(r)
  BY <1>1 DEF RequestFrames, Kinds
<1> DEFINE written == Head(requests).settings
<1>3. /\ written \in [WrittenFields(r) -> Byte]
      /\ \A f \in WrittenFields(r) : written[f] \in FieldValues(f)
  BY <1>2 DEF WriteFrames
<1> HIDE DEF written
<1>4. device' = [f \in Fields |-> IF f \in WrittenFields(r) THEN written[f] ELSE device[f]]
  BY <1>3 DEF written
<1>5. device' \in [Fields -> Byte]
  BY <1>3, <1>4 DEF DisplayInv
<1>6. device'["OperationMode"] \in ModeSettings
  BY <1>3, <1>4, FieldNames DEF DisplayInv, FieldValues
<1> QED
  BY <1>5, <1>6

LEMMA DisplayNext == DisplayInv /\ [Next]_vars => DisplayInv'
<1> SUFFICES ASSUME DisplayInv, [Next]_vars PROVE DisplayInv'
  OBVIOUS
<1>1. /\ UNCHANGED installation
      /\ MaxQueue' = MaxQueue /\ RequestFrames' = RequestFrames
      /\ AnswerFrames' = AnswerFrames /\ Labels' = Labels
      /\ ModeSettings' = ModeSettings /\ ReportedModes' = ReportedModes
  <2>1. UNCHANGED installation
    BY DEF Next, vars, link, Update, NumberControl, SelectControl, PressButton,
           Restart, Receive, DeviceHandles, DeviceReboots, DisplayAsks,
           DongleConnects, LoseRequest, LoseAnswer
  <2> QED
    BY <2>1, SameInstallation
<1>2. MaxQueue \in Nat
  BY InstallationFacts DEF DisplayInv
<1>3. CASE Update
  <2>1. requests' \in Seq(RequestFrames) /\ Len(requests') <= MaxQueue
    <3>1. "status" \in Kinds \cup {"reboot"}
      BY DEF Kinds
    <3> QED
      BY <1>3, <3>1, CommandFrame DEF Update
  <2> QED
    BY <1>1, <1>3, <2>1 DEF Update, DisplayInv, entity_vars, link
<1>4. CASE NumberControl
  <2>1. PICK register \in NumberRegisters : \E v \in Values[register] :
          UserActs(register, v) /\ UpdateSetting(register, v)
    BY <1>4, NumberWrites
  <2>2. PICK v \in Values[register] :
          UserActs(register, v) /\ UpdateSetting(register, v)
    BY <2>1
  <2>3. requests' \in Seq(RequestFrames) /\ Len(requests') <= MaxQueue
    BY <2>2, FieldNames, WriteFrame DEF UserActs
  <2> QED
    BY <1>1, <1>4, <2>3 DEF NumberControl, DisplayInv, entity_vars, link
<1>5. CASE SelectControl
  <2>1. PICK setting \in Values["OperationMode"] :
          UserActs("OperationMode", setting) /\ UpdateSetting("OperationMode", setting)
    BY <1>5 DEF SelectControl
  <2>2. requests' \in Seq(RequestFrames) /\ Len(requests') <= MaxQueue
    BY <2>1, FieldNames, WriteFrame DEF UserActs
  <2> QED
    BY <1>1, <1>5, <2>2 DEF SelectControl, DisplayInv, entity_vars, link
<1>6. CASE PressButton
  <2>1. requests' \in Seq(RequestFrames) /\ Len(requests') <= MaxQueue
    BY <1>6, CommandFrame DEF PressButton
  <2> QED
    BY <1>1, <1>6, <2>1 DEF PressButton, DisplayInv, entity_vars, link
<1>7. CASE Restart
  <2>1. /\ Unknown \in [Fields -> Byte] /\ Unknown["OperationMode"] = 0
        /\ Unshown \in [NumberRegisters -> {None} \cup NumberStates]
    BY UnknownType
  <2>2. answers' \in Seq(AnswerFrames) /\ Len(answers') <= MaxQueue
    BY <1>2, <1>7 DEF Restart
  <2> QED
    BY <1>1, <1>7, <2>1, <2>2 DEF Restart, DisplayInv, link
<1>8. ASSUME NEW kind \in Kinds, Receive(kind)
      PROVE  DisplayInv'
  <2>1. /\ Head(answers) \in AnswerFrames /\ Tail(answers) \in Seq(AnswerFrames)
        /\ Len(Tail(answers)) <= MaxQueue
    BY <1>2, <1>8, Dequeued DEF Receive, DisplayInv
  <2>2. answers' = Tail(answers) /\ UNCHANGED <<device, connected>>
    BY <1>8 DEF Receive, link
  <2>3. CASE kind = "status"
    <3>1. StatusFrame(Head(answers))
      BY <1>8, <2>3 DEF Receive
    <3> QED
      BY <1>1, <2>1, <2>2, <3>1, StatusFrameType DEF DisplayInv
  <2>4. CASE kind # "status"
    <3>1. SettingsFrame(Head(answers))
      BY <1>8, <2>4 DEF Receive
    <3> QED
      BY <1>1, <2>1, <2>2, <3>1, SettingsFrameType DEF DisplayInv
  <2> QED
    BY <2>3, <2>4
<1>9. ASSUME NEW kind \in Kinds \cup {"write"}, DeviceHandles(kind)
      PROVE  DisplayInv'
  <2>1. /\ requests' \in Seq(RequestFrames) /\ Len(requests') <= MaxQueue
    BY <1>2, <1>9, Dequeued DEF DeviceHandles, DisplayInv
  <2>2. UNCHANGED <<current_settings, entity_vars, connected>>
    BY <1>9 DEF DeviceHandles, link
  <2>3. CASE kind = "write"
    <3>1. /\ device' \in [Fields -> Byte]
          /\ device'["OperationMode"] \in ModeSettings /\ UNCHANGED answers
      BY <1>9, <2>3, WriteApplied DEF DeviceHandles
    <3> QED
      BY <1>1, <2>1, <2>2, <3>1 DEF DisplayInv, entity_vars
  <2>4. CASE kind # "write"
    <3>1. Len(answers) < MaxQueue /\ Answer(kind) /\ UNCHANGED device
      BY <1>9, <2>4 DEF DeviceHandles
    <3>2. answers' \in Seq(AnswerFrames) /\ Len(answers') <= MaxQueue
      BY <2>4, <3>1, AnswerFrame
    <3> QED
      BY <1>1, <2>1, <2>2, <3>1, <3>2 DEF DisplayInv, entity_vars
  <2> QED
    BY <2>3, <2>4
<1>10. CASE DeviceReboots
  <2>1. requests' \in Seq(RequestFrames) /\ Len(requests') <= MaxQueue
    BY <1>2, <1>10, Dequeued DEF DeviceReboots, DisplayInv
  <2>2. connected' \in BOOLEAN
    BY <1>10 DEF DeviceReboots
  <2> QED
    BY <1>1, <1>10, <2>1, <2>2 DEF DeviceReboots, DisplayInv, entity_vars
<1>11. CASE DisplayAsks
  <2>1. answers' \in Seq(AnswerFrames) /\ Len(answers') <= MaxQueue
    BY <1>11, AnswerFrame DEF DisplayAsks, Kinds
  <2> QED
    BY <1>1, <1>11, <2>1 DEF DisplayAsks, DisplayInv, entity_vars, link
<1>12. CASE DongleConnects
  BY <1>1, <1>12 DEF DongleConnects, DisplayInv, entity_vars
<1>13. CASE LoseRequest
  <2>1. requests' \in Seq(RequestFrames) /\ Len(requests') <= MaxQueue
    BY <1>2, <1>13, Dequeued DEF LoseRequest, DisplayInv
  <2> QED
    BY <1>1, <1>13, <2>1 DEF LoseRequest, DisplayInv, entity_vars, link
<1>14. CASE LoseAnswer
  <2>1. answers' \in Seq(AnswerFrames) /\ Len(answers') <= MaxQueue
    BY <1>2, <1>14, Dequeued DEF LoseAnswer, DisplayInv
  <2> QED
    BY <1>1, <1>14, <2>1 DEF LoseAnswer, DisplayInv, entity_vars, link
<1>15. CASE UNCHANGED vars
  BY <1>1, <1>15 DEF vars, DisplayInv, entity_vars, link
<1> QED
  BY <1>3, <1>4, <1>5, <1>6, <1>7, <1>8, <1>9, <1>10, <1>11, <1>12, <1>13,
     <1>14, <1>15 DEF Next

LEMMA DisplayCorrect == Spec => []DisplayInv
  BY DisplayInit, DisplayNext, PTL DEF Spec

(***************************************************************************)
(* What the entities show and what is sent and received has the types of   *)
(* the frames and of the entities, whatever is lost and whoever restarts;  *)
(* a write always carries the register it is for.                          *)
(***************************************************************************)
THEOREM DisplayTypeCorrect == Spec => []TypeOK
<1>1. DisplayInv => TypeOK
  <2> SUFFICES ASSUME DisplayInv PROVE TypeOK
    OBVIOUS
  <2>1. ASSUME NEW i \in DOMAIN requests
        PROVE  WellFormed(requests[i])
    <3>1. requests[i] \in RequestFrames
      BY DEF DisplayInv
    <3>2. CASE requests[i] \in [kind : Kinds \cup {"reboot"}]
      BY <3>2 DEF WellFormed, Kinds
    <3>3. ASSUME NEW r \in Registers, requests[i] \in WriteFrames(r)
          PROVE  WellFormed(requests[i])
      BY <3>3, FieldNames DEF WellFormed, WriteFrames
    <3> QED
      BY <3>1, <3>2, <3>3 DEF RequestFrames
  <2> QED
    BY <2>1 DEF DisplayInv, TypeOK, ReportedModes
<1> QED
  BY <1>1, DisplayCorrect, PTL

-----------------------------------------------------------------------------
(***************************************************************************)
(* The two names of the operation mode: the select has that of the last    *)
(* settings frame, the text sensor that of the last status frame.          *)
(***************************************************************************)
NamesInv ==
  /\ operation_mode_id # None =>
       operation_mode_text = OperationModeText(operation_mode_id)
  /\ operation_mode # None =>
       /\ current_settings["OperationMode"] \in ModeSettings
       /\ operation_mode = OptionsMap[current_settings["OperationMode"]]

(***************************************************************************)
(* The options map has the names of the text sensor, as in the example     *)
(* configurations.  An inverter at the display port has no PV limit mode.  *)
(***************************************************************************)
ModeLabel(setting) ==
  CASE setting = 1 -> "PV"
    [] setting = 2 -> "Battery Constant Power"
    [] setting = 17 -> "PV Limit"
    [] setting \in {16, 18} -> "Battery Limit"

StandardLabels ==
  \A i \in Installations :
    /\ i.protocol = "DISPLAY" => i.dongle = "SOYO" /\ 17 \notin i.values["OperationMode"]
    /\ \A m \in i.values["OperationMode"] :
         m \in DOMAIN i.options /\ i.options[m] = ModeLabel(m)

LEMMA StandardInstallation ==
  ASSUME StandardLabels, installation \in Installations
  PROVE  /\ Protocol = "DISPLAY" => Dongle = "SOYO" /\ 17 \notin ModeSettings
         /\ \A m \in ModeSettings : m \in DOMAIN OptionsMap /\ OptionsMap[m] = ModeLabel(m)
  BY DEF StandardLabels, Protocol, Dongle, OptionsMap, ModeSettings, Values

LEMMA ReportedName ==
  ASSUME StandardLabels, installation \in Installations,
         NEW m \in ModeSettings, NEW mode \in Reported(m)
  PROVE  OperationModeText(mode) = OptionsMap[m]
<1>1. /\ m \in {1, 2, 17, IF Protocol = "DISPLAY" THEN 16 ELSE 18}
      /\ OptionsMap[m] = ModeLabel(m)
      /\ Protocol = "DISPLAY" => DisplayNames /\ m # 17
      /\ Protocol # "DISPLAY" => ~DisplayNames
  BY InstallationFacts, StandardInstallation DEF DisplayNames
<1>2. CASE m = 1
  <2>1. mode \in {2, 6}
    BY <1>2 DEF Reported
  <2>2. /\ mode \in {2, 6}
        /\ mode \notin {1, 5} /\ mode \notin LimitModes /\ mode \notin PVLimitModes
    BY <1>1, <1>2, <2>1 DEF LimitModes, PVLimitModes
  <2>3. OperationModeText(mode) = "PV"
    BY <2>2, Zenon DEF OperationModeText
  <2>4. ModeLabel(m) = "PV"
    BY <1>2 DEF ModeLabel
  <2> QED
    BY <1>1, <2>3, <2>4
<1>3. CASE m = 2
  <2>1. mode \in {1, 5}
    BY <1>3 DEF Reported
  <2>2. /\ mode \in {1, 5}
        /\ mode \notin {2, 6} /\ mode \notin LimitModes /\ mode \notin PVLimitModes
    BY <1>1, <1>3, <2>1 DEF LimitModes, PVLimitModes
  <2>3. OperationModeText(mode) = "Battery Constant Power"
    BY <2>2, Zenon DEF OperationModeText
  <2>4. ModeLabel(m) = "Battery Constant Power"
    BY <1>3 DEF ModeLabel
  <2> QED
    BY <1>1, <2>3, <2>4
<1>4. CASE m = 17
  <2>1. mode \in {10, 14}
    BY <1>4 DEF Reported
  <2>2. /\ mode \in PVLimitModes
        /\ mode \notin {1, 5} /\ mode \notin {2, 6} /\ mode \notin LimitModes
    BY <1>1, <1>4, <2>1 DEF LimitModes, PVLimitModes
  <2>3. OperationModeText(mode) = "PV Limit"
    BY <2>2, Zenon DEF OperationModeText
  <2>4. ModeLabel(m) = "PV Limit"
    BY <1>4 DEF ModeLabel
  <2> QED
    BY <1>1, <2>3, <2>4
<1>5. CASE m = 16 /\ Protocol = "DISPLAY"
  <2>1. mode \in {8, 9, 12, 13}
    BY <1>5 DEF Reported
  <2>2. /\ mode \in LimitModes
        /\ mode \notin {1, 5} /\ mode \notin {2, 6} /\ mode \notin PVLimitModes
    BY <1>1, <1>5, <2>1 DEF LimitModes, PVLimitModes
  <2>3. OperationModeText(mode) = "Battery Limit"
    BY <2>2, Zenon DEF OperationModeText
  <2>4. ModeLabel(m) = "Battery Limit"
    BY <1>5 DEF ModeLabel
  <2> QED
    BY <1>1, <2>3, <2>4
<1>6. CASE m = 18 /\ Protocol # "DISPLAY"
  <2>1. mode \in {9, 13}
    BY <1>6 DEF Reported
  <2>2. /\ mode \in LimitModes
        /\ mode \notin {1, 5} /\ mode \notin {2, 6} /\ mode \notin PVLimitModes
    BY <1>1, <1>6, <2>1 DEF LimitModes, PVLimitModes
  <2>3. OperationModeText(mode) = "Battery Limit"
    BY <2>2, Zenon DEF OperationModeText
  <2>4. ModeLabel(m) = "Battery Limit"
    BY <1>6 DEF ModeLabel
  <2> QED
    BY <1>1, <2>3, <2>4
<1> QED
  BY <1>1, <1>2, <1>3, <1>4, <1>5, <1>6

LEMMA SameNames ==
  ASSUME UNCHANGED installation
  PROVE  /\ OptionsMap' = OptionsMap
         /\ \A mode : OperationModeText(mode)' = OperationModeText(mode)
<1>1. OptionsMap' = OptionsMap /\ DisplayNames' = DisplayNames
  BY DEF OptionsMap, DisplayNames, Protocol, Dongle
<1> QED
  BY <1>1 DEF OperationModeText, LimitModes, PVLimitModes

LEMMA NamesNext == StandardLabels /\ DisplayInv /\ NamesInv /\ [Next]_vars => NamesInv'
<1> SUFFICES ASSUME StandardLabels, DisplayInv, NamesInv, [Next]_vars PROVE NamesInv'
  OBVIOUS
<1>1. UNCHANGED installation
  BY DEF Next, vars, link, Update, NumberControl, SelectControl, PressButton,
         Restart, Receive, DeviceHandles, DeviceReboots, DisplayAsks,
         DongleConnects, LoseRequest, LoseAnswer
<1>2. ModeSettings' = ModeSettings
  BY <1>1, SameInstallation
<1>3. CASE Restart
  BY <1>3 DEF Restart, NamesInv
<1>4. ASSUME NEW kind \in Kinds, Receive(kind)
      PROVE  NamesInv'
  <2>1. Head(answers) \in AnswerFrames
    BY <1>4, Dequeued DEF Receive, DisplayInv
  <2>2. CASE kind = "status"
    <3>1. StatusFrame(Head(answers))
      BY <1>4, <2>2 DEF Receive
    <3>2. \/ UNCHANGED <<operation_mode_id, operation_mode_text>>
          \/ operation_mode_text' = OperationModeText(operation_mode_id')
      BY <3>1 DEF StatusFrame
    <3>3. UNCHANGED <<current_settings, operation_mode>>
      BY <3>1 DEF StatusFrame
    <3>4. operation_mode_id' # None =>
            operation_mode_text' = OperationModeText(operation_mode_id')
      BY <3>2 DEF NamesInv
    <3>5. (OperationModeText(operation_mode_id))' = OperationModeText(operation_mode_id')
      BY <1>1, SameNames DEF OperationModeText, LimitModes, PVLimitModes, DisplayNames,
                             Protocol, Dongle
    <3> QED
      BY <1>1, <1>2, <3>3, <3>4, <3>5, SameNames DEF NamesInv
  <2>3. CASE kind # "status"
    <3>1. SettingsFrame(Head(answers))
      BY <1>4, <2>3 DEF Receive
    <3>2. UNCHANGED <<operation_mode_id, operation_mode_text>>
      BY <3>1 DEF SettingsFrame
    <3>3. CASE ~Accepts(Head(answers))
      <4>1. UNCHANGED <<current_settings, operation_mode>>
        BY <3>1, <3>3 DEF SettingsFrame
      <4> QED
        BY <1>1, <1>2, <3>2, <4>1, SameNames DEF NamesInv
    <3>4. CASE Accepts(Head(answers))
      <4> DEFINE mode == OperationModeSetting(Head(answers).mode)
      <4>1. mode \in ModeSettings
        BY <2>1, <3>4, ModeSettingType DEF Accepts, AnswerFrames, DisplayInv
      <4>2. /\ operation_mode' = ReportedOption(mode)
            /\ current_settings'["OperationMode"] = mode
        BY <3>1, <3>4, FieldNames DEF SettingsFrame
      <4> HIDE DEF mode
      <4>3. operation_mode' = OptionsMap[mode]
        BY <4>1, <4>2, StandardInstallation DEF ReportedOption, DisplayInv
      <4> QED
        BY <1>1, <1>2, <3>2, <4>1, <4>2, <4>3, SameNames DEF NamesInv
    <3> QED
      BY <3>3, <3>4
  <2> QED
    BY <2>2, <2>3
<1>5. CASE UNCHANGED <<current_settings, entity_vars>>
  BY <1>1, <1>2, <1>5, SameNames DEF NamesInv, entity_vars
<1>6. ASSUME [Next]_vars, ~Restart, \A kind \in Kinds : ~Receive(kind)
      PROVE  UNCHANGED <<current_settings, entity_vars>>
  BY <1>6 DEF Next, vars, Update, NumberControl, SelectControl, PressButton,
         DeviceHandles, DeviceReboots, DisplayAsks, DongleConnects,
         LoseRequest, LoseAnswer
<1> QED
  BY <1>3, <1>4, <1>5, <1>6

(***************************************************************************)
(* operation_mode_to_operation_mode_setting_ and the text of the operation *)
(* mode are two tables over the same nibble: with the labels of the        *)
(* examples they never disagree on a mode an inverter reports, in          *)
(* operation or in standby.                                                *)
(***************************************************************************)
THEOREM ModeNamesAgree ==
  ASSUME StandardLabels
  PROVE  Spec => []ModeHasOneName
<1>1. Init => NamesInv
  BY DEF Init, NamesInv
<1>2. DisplayInv /\ NamesInv /\ [Next]_vars => NamesInv'
  BY NamesNext
<1>3. DisplayInv /\ NamesInv => ModeHasOneName
  <2> SUFFICES ASSUME DisplayInv, NamesInv, operation_mode # None,
                      operation_mode_id # None,
                      OperationModeSetting(operation_mode_id)
                        = current_settings["OperationMode"]
               PROVE  operation_mode_text = operation_mode
    BY DEF ModeHasOneName
  <2>1. PICK m \in ModeSettings : operation_mode_id \in Reported(m)
    BY DEF DisplayInv, ReportedModes
  <2>2. current_settings["OperationMode"] = m
    BY <2>1, ModeReadBack DEF DisplayInv
  <2> QED
    BY <2>1, <2>2, ReportedName DEF NamesInv, DisplayInv
<1> QED
  BY <1>1, <1>2, <1>3, DisplayCorrect, PTL DEF Spec

-----------------------------------------------------------------------------
(***************************************************************************)
(* Nothing unknown is written.  Frames that tell the truth: an answer      *)
(* tells settings the inverter may have, and a write gives it such.        *)
(***************************************************************************)
KnownAnswers ==
  {a \in AnswerFrames :
     ~a.empty /\ a.kind = "settings" => a.settings \in Settings}

KnownRequests ==
  {r \in RequestFrames :
     r.kind = "write" => \A f \in DOMAIN r.settings : r.settings[f] \in Values[f]}

(***************************************************************************)
(* The settings a write is built from are those of a settings frame or     *)
(* none at all, and once a number entity shows a state they are known.     *)
(***************************************************************************)
KnownInv ==
  /\ DisplayInv
  /\ NothingUnknownWritten
  /\ answers \in Seq(KnownAnswers)
  /\ requests \in Seq(KnownRequests)
  /\ current_settings = Unknown \/ current_settings \in Settings
  /\ numbers # Unshown => current_settings \in Settings

(***************************************************************************)
(* The installations in which the refusal of update_setting does what it   *)
(* says: every settings frame tells all fields, and either the user waits  *)
(* for the entities to show something, or a write of the mode carries      *)
(* nothing but the mode.                                                   *)
(***************************************************************************)
RefusalWorks ==
  \A i \in Installations :
    i.dongle # "MS51_V2" /\ (i.patient \/ i.protocol = "DISPLAY")

LEMMA SettingsByField ==
  ASSUME NEW d
  PROVE  d \in Settings <=>
           d = [f \in Fields |-> d[f]] /\ \A f \in Fields : d[f] \in Values[f]
  BY DEF Settings, Fields, Registers

LEMMA SameKnown ==
  ASSUME UNCHANGED installation
  PROVE  /\ KnownAnswers' = KnownAnswers /\ KnownRequests' = KnownRequests
         /\ Settings' = Settings
<1>1. /\ Values' = Values /\ AnswerFrames' = AnswerFrames
      /\ RequestFrames' = RequestFrames /\ Protocol' = Protocol
  BY SameInstallation DEF Values, Protocol
<1>2. Settings' = Settings
  BY <1>1 DEF Settings
<1>3. \A mode : OperationModeSetting(mode)' = OperationModeSetting(mode)
  BY <1>1 DEF OperationModeSetting
<1>4. KnownAnswers' = KnownAnswers
  BY <1>1, <1>2, <1>3 DEF KnownAnswers
<1>5. KnownRequests' = KnownRequests
  BY <1>1 DEF KnownRequests
<1> QED
  BY <1>2, <1>4, <1>5

LEMMA KnownCommand ==
  ASSUME KnownInv, NEW kind \in Kinds \cup {"reboot"}, SendCommand(kind)
  PROVE  requests' \in Seq(KnownRequests)
<1>1. Request(kind) \in KnownRequests
  BY DEF Request, RequestFrames, KnownRequests, Kinds
<1>2. requests \in Seq(KnownRequests)
  BY DEF KnownInv
<1> QED
  BY <1>1, <1>2, Enqueued DEF SendCommand

LEMMA KnownWrite ==
  ASSUME RefusalWorks, KnownInv, NEW register \in Registers,
         NEW value \in Values[register],
         UserActs(register, value), UpdateSetting(register, value)
  PROVE  requests' \in Seq(KnownRequests)
<1> DEFINE new == [current_settings EXCEPT ![register] = value]
           frame == WriteOf(register, value)
<1>0. DisplayInv /\ requests \in Seq(KnownRequests)
  BY DEF KnownInv
<1>1. requests' = Append(requests, frame) /\ frame \in RequestFrames
  BY <1>0, WriteIsFrame
<1>2. /\ DOMAIN frame.settings = WrittenFields(register)
      /\ \A f \in WrittenFields(register) : frame.settings[f] = new[f]
  BY DEF WriteOf
<1>3. new["OperationMode"] # 0
  BY DEF UpdateSetting, MayWrite
<1>4. ASSUME NEW f \in WrittenFields(register)
      PROVE  new[f] \in Values[f]
  <2>1. f \in Fields
    BY FieldNames
  <2>2. CASE f = register
    BY <1>0, <2>1, <2>2 DEF DisplayInv
  <2>3. CASE f # register /\ current_settings \in Settings
    BY <2>1, <2>3, SettingsByField
  <2>4. CASE current_settings \notin Settings
    <3>1. numbers = Unshown /\ current_settings = Unknown
      BY <2>4 DEF KnownInv
    <3>2. Protocol = "DISPLAY"
      BY <1>0, <3>1 DEF UserActs, RefusalWorks, Patient, Protocol, DisplayInv
    <3>3. register = "OperationMode"
      BY <1>0, <1>3, <3>1, UnknownType, FieldNames DEF DisplayInv
    <3>4. f = register
      BY <3>2, <3>3 DEF WrittenFields
    <3> QED
      BY <2>2, <3>4
  <2> QED
    BY <2>2, <2>3, <2>4
<1> HIDE DEF new, frame
<1>5. frame \in KnownRequests
  BY <1>1, <1>2, <1>4 DEF KnownRequests
<1> QED
  BY <1>0, <1>1, <1>5, Enqueued

LEMMA KnownAnswer ==
  ASSUME KnownInv, NEW kind \in Kinds, Answer(kind)
  PROVE  answers' \in Seq(KnownAnswers)
<1>0. DisplayInv /\ answers \in Seq(KnownAnswers) /\ device \in Settings
  BY DEF KnownInv, NothingUnknownWritten
<1>1. EmptyFrame(kind) \in KnownAnswers
  BY UnknownType DEF EmptyFrame, AnswerFrames, KnownAnswers
<1>2. ASSUME NEW mode \in Reported(device.OperationMode)
      PROVE  [kind |-> kind, empty |-> FALSE, mode |-> mode,
              settings |-> IF kind = "settings" THEN device ELSE Unknown]
               \in KnownAnswers
  <2> DEFINE shown == IF kind = "settings" THEN device ELSE Unknown
  <2>1. mode \in 0 .. 15 /\ mode \in ReportedModes /\ shown \in [Fields -> Byte]
    BY <1>0, UnknownType, ReportedType DEF DisplayInv, ReportedModes
  <2>2. kind = "settings" => shown \in Settings
    BY <1>0
  <2> HIDE DEF shown
  <2>3. [kind |-> kind, empty |-> FALSE, mode |-> mode, settings |-> shown]
          \in AnswerFrames
    BY <2>1 DEF AnswerFrames
  <2>4. [kind |-> kind, empty |-> FALSE, mode |-> mode, settings |-> shown]
          \in KnownAnswers
    BY <2>2, <2>3 DEF KnownAnswers
  <2> QED
    BY <2>4 DEF shown
<1>3. PICK frame \in KnownAnswers : answers' = Append(answers, frame)
  BY <1>1, <1>2 DEF Answer
<1> QED
  BY <1>0, <1>3, Enqueued

LEMMA KnownSettingsFrame ==
  ASSUME RefusalWorks, KnownInv, NEW frame \in KnownAnswers,
         frame.kind = "settings", ~frame.empty, SettingsFrame(frame)
  PROVE  current_settings' \in Settings
<1>1. DisplayInv
  BY DEF KnownInv
<1>2. KnownFields = Fields
  BY <1>1 DEF RefusalWorks, KnownFields, Dongle, DisplayInv
<1> DEFINE mode == OperationModeSetting(frame.mode)
<1>3. mode \in Values["OperationMode"] /\ frame.settings \in Settings
  BY <1>1, ModeSettingType DEF KnownAnswers, AnswerFrames, DisplayInv, ModeSettings
<1>4. current_settings' =
        [f \in Fields |-> IF f = "OperationMode" THEN mode
                          ELSE IF f \in KnownFields THEN frame.settings[f]
                          ELSE current_settings[f]]
  BY DEF SettingsFrame, Accepts
<1> HIDE DEF mode
<1>5. \A f \in Fields : current_settings'[f] \in Values[f]
  BY <1>2, <1>3, <1>4, SettingsByField
<1>6. current_settings' = [f \in Fields |-> current_settings'[f]]
  BY <1>4
<1> QED
  BY <1>5, <1>6, SettingsByField

LEMMA KnownWriteApplied ==
  ASSUME KnownInv, requests # <<>>, Head(requests).kind = "write",
         device' = [f \in Fields |->
                      IF f \in DOMAIN Head(requests).settings
                      THEN Head(requests).settings[f] ELSE device[f]]
  PROVE  device' \in Settings
<1>1. Head(requests) \in KnownRequests /\ device \in Settings
  BY Dequeued DEF KnownInv, NothingUnknownWritten
<1>2. \A f \in Fields : device'[f] \in Values[f]
  BY <1>1, SettingsByField DEF KnownRequests
<1>3. device' = [f \in Fields |-> device'[f]]
  OBVIOUS
<1> QED
  BY <1>2, <1>3, SettingsByField

LEMMA KnownInit == Init => KnownInv
<1> SUFFICES ASSUME Init PROVE KnownInv
  OBVIOUS
<1>1. /\ current_settings = Unknown /\ numbers = Unshown
      /\ requests = <<>> /\ answers = <<>> /\ device \in Settings
  BY DEF Init
<1>2. answers \in Seq(KnownAnswers) /\ requests \in Seq(KnownRequests)
  BY <1>1
<1> QED
  BY <1>1, <1>2, DisplayInit DEF KnownInv, NothingUnknownWritten

LEMMA KnownNext == RefusalWorks /\ KnownInv /\ [Next]_vars => KnownInv'
<1> SUFFICES ASSUME RefusalWorks, KnownInv, [Next]_vars PROVE KnownInv'
  OBVIOUS
<1>0. /\ DisplayInv /\ DisplayInv' /\ device \in Settings
      /\ answers \in Seq(KnownAnswers) /\ requests \in Seq(KnownRequests)
      /\ current_settings = Unknown \/ current_settings \in Settings
      /\ numbers # Unshown => current_settings \in Settings
  BY DisplayNext DEF KnownInv, NothingUnknownWritten
<1>1. /\ KnownAnswers' = KnownAnswers /\ KnownRequests' = KnownRequests
      /\ Settings' = Settings /\ Unknown' = Unknown /\ Unshown' = Unshown
  <2>1. UNCHANGED installation
    BY DEF Next, vars, link, Update, NumberControl, SelectControl, PressButton,
           Restart, Receive, DeviceHandles, DeviceReboots, DisplayAsks,
           DongleConnects, LoseRequest, LoseAnswer
  <2> QED
    BY <2>1, SameKnown DEF Unknown, Unshown
<1> DEFINE Known ==
      /\ device' \in Settings
      /\ answers' \in Seq(KnownAnswers) /\ requests' \in Seq(KnownRequests)
      /\ current_settings' = Unknown \/ current_settings' \in Settings
      /\ numbers' # Unshown => current_settings' \in Settings
<1>2. Known => KnownInv'
  BY <1>0, <1>1 DEF KnownInv, NothingUnknownWritten
<1>3. SUFFICES Known
  BY <1>2
<1>4. CASE Update
  <2>1. requests' \in Seq(KnownRequests)
    BY <1>4, KnownCommand DEF Update, Kinds
  <2> QED
    BY <1>0, <1>4, <2>1 DEF Update, entity_vars
<1>5. CASE NumberControl
  <2>1. requests' \in Seq(KnownRequests)
    BY <1>0, <1>5, NumberWrites, KnownWrite, FieldNames
  <2> QED
    BY <1>0, <1>5, <2>1 DEF NumberControl, entity_vars
<1>6. CASE SelectControl
  <2>1. requests' \in Seq(KnownRequests)
    BY <1>6, KnownWrite, FieldNames DEF SelectControl
  <2> QED
    BY <1>0, <1>6, <2>1 DEF SelectControl, entity_vars
<1>7. CASE PressButton
  <2>1. requests' \in Seq(KnownRequests)
    BY <1>7, KnownCommand DEF PressButton
  <2> QED
    BY <1>0, <1>7, <2>1 DEF PressButton, entity_vars
<1>8. CASE Restart
  <2>1. answers' \in Seq(KnownAnswers)
    BY <1>8 DEF Restart
  <2> QED
    BY <1>0, <1>8, <2>1 DEF Restart
<1>9. ASSUME NEW kind \in Kinds, Receive(kind)
      PROVE  Known
  <2>1. Head(answers) \in KnownAnswers /\ Tail(answers) \in Seq(KnownAnswers)
    BY <1>0, <1>9, Dequeued DEF Receive
  <2>2. answers' = Tail(answers) /\ UNCHANGED device /\ Head(answers).kind = kind
    BY <1>9 DEF Receive
  <2>3. CASE kind = "status"
    <3>1. StatusFrame(Head(answers))
      BY <1>9, <2>3 DEF Receive
    <3>2. requests' \in Seq(KnownRequests)
      BY <1>0, <3>1, KnownCommand DEF StatusFrame, Kinds
    <3> QED
      BY <1>0, <2>1, <2>2, <3>1, <3>2 DEF StatusFrame
  <2>4. CASE kind # "status"
    <3>1. SettingsFrame(Head(answers)) /\ kind = "settings"
      BY <1>9, <2>4 DEF Receive, Kinds
    <3>2. UNCHANGED requests
      BY <3>1 DEF SettingsFrame
    <3>3. CASE Head(answers).empty
      BY <1>0, <2>1, <2>2, <3>1, <3>2, <3>3 DEF SettingsFrame, Accepts
    <3>4. CASE ~Head(answers).empty
      BY <1>0, <2>1, <2>2, <3>1, <3>2, <3>4, KnownSettingsFrame
    <3> QED
      BY <3>3, <3>4
  <2> QED
    BY <2>3, <2>4
<1>10. ASSUME NEW kind \in Kinds \cup {"write"}, DeviceHandles(kind)
       PROVE  Known
  <2>1. requests' \in Seq(KnownRequests)
    BY <1>0, <1>10, Dequeued DEF DeviceHandles
  <2>2. UNCHANGED <<current_settings, numbers>>
    BY <1>10 DEF DeviceHandles, entity_vars
  <2>3. CASE kind = "write"
    <3>1. device' \in Settings /\ UNCHANGED answers
      BY <1>10, <2>3, KnownWriteApplied DEF DeviceHandles
    <3> QED
      BY <1>0, <2>1, <2>2, <3>1
  <2>4. CASE kind # "write"
    <3>1. answers' \in Seq(KnownAnswers) /\ UNCHANGED device
      BY <1>10, <2>4, KnownAnswer DEF DeviceHandles
    <3> QED
      BY <1>0, <2>1, <2>2, <3>1
  <2> QED
    BY <2>3, <2>4
<1>11. CASE DeviceReboots
  <2>1. requests' \in Seq(KnownRequests)
    BY <1>0, <1>11, Dequeued DEF DeviceReboots
  <2> QED
    BY <1>0, <1>11, <2>1 DEF DeviceReboots, entity_vars
<1>12. CASE DisplayAsks
  <2>1. answers' \in Seq(KnownAnswers)
    BY <1>12, KnownAnswer DEF DisplayAsks, Kinds
  <2> QED
    BY <1>0, <1>12, <2>1 DEF DisplayAsks, entity_vars
<1>13. CASE DongleConnects
  BY <1>0, <1>13 DEF DongleConnects, entity_vars
<1>14. CASE LoseRequest
  <2>1. requests' \in Seq(KnownRequests)
    BY <1>0, <1>14, Dequeued DEF LoseRequest
  <2> QED
    BY <1>0, <1>14, <2>1 DEF LoseRequest, entity_vars
<1>15. CASE LoseAnswer
  <2>1. answers' \in Seq(KnownAnswers)
    BY <1>0, <1>15, Dequeued DEF LoseAnswer
  <2> QED
    BY <1>0, <1>15, <2>1 DEF LoseAnswer, entity_vars
<1>16. CASE UNCHANGED vars
  BY <1>0, <1>16 DEF vars, entity_vars
<1> QED
  BY <1>4, <1>5, <1>6, <1>7, <1>8, <1>9, <1>10, <1>11, <1>12, <1>13, <1>14,
     <1>15, <1>16 DEF Next

(***************************************************************************)
(* update_setting: in these installations nothing unknown is written,      *)
(* whatever is lost and whenever the controller or the inverter restarts.  *)
(* The runs display_unknown and display_frequency show that neither        *)
(* condition of RefusalWorks can be dropped.                               *)
(***************************************************************************)
THEOREM OnlyKnownWritten ==
  ASSUME RefusalWorks
  PROVE  Spec => []NothingUnknownWritten
<1>1. KnownInv /\ [Next]_vars => KnownInv'
  BY KnownNext
<1>2. KnownInv => NothingUnknownWritten
  BY DEF KnownInv
<1> QED
  BY <1>1, <1>2, KnownInit, PTL DEF Spec

-----------------------------------------------------------------------------
(***************************************************************************)
(* A write changes only what it is for.                                    *)
(*                                                                         *)
(* The value of a field is followed through all the places it can be in,   *)
(* from the newest to the oldest: the writes on their way, the last one    *)
(* first, the inverter, the answers on their way, the last one first, and  *)
(* current_settings_.                                                      *)
(***************************************************************************)
Told == {i \in 1 .. Len(answers) : answers[i].kind = "settings" /\ ~answers[i].empty}

Writing(f) ==
  {j \in 1 .. Len(requests) :
     requests[j].kind = "write" /\ f \in DOMAIN requests[j].settings}

Reports(i, f) == answers[i].settings[f]
Writes(j, f)  == requests[j].settings[f]

\* A field nobody asked to change has one value everywhere.
Steady(f) ==
  /\ current_settings = Unknown \/ current_settings[f] = device[f]
  /\ \A i \in Told : Reports(i, f) = device[f]
  /\ \A j \in Writing(f) : Writes(j, f) = device[f]

\* Wherever the value asked for has arrived, it is in all the newer places.
Arriving(f, v) ==
  /\ current_settings[f] = v =>
       (\A i \in Told : Reports(i, f) = v) /\ device[f] = v
  /\ \A i \in Told : Reports(i, f) = v =>
       (\A k \in Told : i < k => Reports(k, f) = v) /\ device[f] = v
  /\ device[f] = v => \A j \in Writing(f) : Writes(j, f) = v
  /\ \A j \in Writing(f) : Writes(j, f) = v =>
       \A k \in Writing(f) : j < k => Writes(k, f) = v
  /\ \A j \in Writing(f) : Writes(j, f) = v \/ Writes(j, f) = device[f]

Asked(f) == f \in Registers /\ asked[f] # None

FieldInv(f) ==
  /\ Asked(f) => Arriving(f, asked[f])
  /\ ~Asked(f) => Steady(f)
  /\ \A j \in Writing(f) : Writes(j, f) # device[f] => requests[j].register = f

(***************************************************************************)
(* The entities show current_settings_, and the two fields of an answer    *)
(* that tell the mode agree.                                               *)
(***************************************************************************)
ShownInv ==
  /\ numbers # Unshown =>
       numbers = [r \in NumberRegisters |-> ShownValue(r, current_settings[r])]
  /\ operation_mode # None =>
       operation_mode = OptionsMap[current_settings["OperationMode"]]
  /\ \A i \in Told :
       OperationModeSetting(answers[i].mode) = Reports(i, "OperationMode")
  /\ asked \in [Registers -> Byte \cup {None}]
  /\ \A r \in Registers : asked[r] \in Values[r] \cup {None}

PatientInv ==
  Patient => ShownInv /\ \A f \in Fields : FieldInv(f)

(***************************************************************************)
(* The options of the select give every mode of the inverter a name of its *)
(* own.                                                                    *)
(***************************************************************************)
LabelsDistinct ==
  \A i \in Installations :
    \A m, n \in i.values["OperationMode"] :
      m \in DOMAIN i.options /\ (i.options[m] = i.options[n] => m = n)

(***************************************************************************)
(* How the places move when a frame leaves or joins a queue.               *)
(***************************************************************************)
LEMMA TailIndex ==
  ASSUME NEW X, NEW q \in Seq(X), q # <<>>
  PROVE  /\ Head(q) = q[1] /\ 1 \in 1 .. Len(q)
         /\ \A i \in 1 .. Len(Tail(q)) : i + 1 \in 1 .. Len(q) /\ Tail(q)[i] = q[i + 1]
  OBVIOUS

LEMMA AppendIndex ==
  ASSUME NEW X, NEW q \in Seq(X), NEW x \in X
  PROVE  /\ Append(q, x)[Len(q) + 1] = x
         /\ \A i \in 1 .. Len(Append(q, x)) :
              \/ i \in 1 .. Len(q) /\ Append(q, x)[i] = q[i]
              \/ i = Len(q) + 1
  OBVIOUS

LEMMA AnswersTail ==
  ASSUME DisplayInv, answers # <<>>, answers' = Tail(answers)
  PROVE  \A i \in Told' :
           /\ i \in Int /\ i + 1 \in Told /\ answers'[i] = answers[i + 1]
<1>1. answers \in Seq(AnswerFrames)
  BY DEF DisplayInv
<1>2. \A i \in 1 .. Len(Tail(answers)) :
        i + 1 \in 1 .. Len(answers) /\ Tail(answers)[i] = answers[i + 1]
  BY <1>1, TailIndex
<1> QED
  BY <1>2 DEF Told

LEMMA AnswersAppend ==
  ASSUME DisplayInv, NEW x \in AnswerFrames, answers' = Append(answers, x)
  PROVE  \A i \in Told' :
           /\ i \in Int
           /\ \/ i \in Told /\ i < Len(answers) + 1 /\ answers'[i] = answers[i]
              \/ i = Len(answers) + 1 /\ answers'[i] = x
                 /\ x.kind = "settings" /\ ~x.empty
<1>1. answers \in Seq(AnswerFrames)
  BY DEF DisplayInv
<1>2. /\ answers'[Len(answers) + 1] = x
      /\ \A i \in 1 .. Len(answers') :
           \/ i \in 1 .. Len(answers) /\ answers'[i] = answers[i]
           \/ i = Len(answers) + 1
  BY <1>1, AppendIndex
<1>3. Len(answers) \in Nat
  BY <1>1
<1> QED
  BY <1>2, <1>3 DEF Told

LEMMA RequestsTail ==
  ASSUME DisplayInv, requests # <<>>, requests' = Tail(requests), NEW f
  PROVE  \A j \in Writing(f)' :
           j \in Int /\ j + 1 \in Writing(f) /\ requests'[j] = requests[j + 1]
<1>1. requests \in Seq(RequestFrames)
  BY DEF DisplayInv
<1>2. \A j \in 1 .. Len(Tail(requests)) :
        j + 1 \in 1 .. Len(requests) /\ Tail(requests)[j] = requests[j + 1]
  BY <1>1, TailIndex
<1> QED
  BY <1>2 DEF Writing

LEMMA RequestsAppend ==
  ASSUME DisplayInv, NEW x \in RequestFrames, requests' = Append(requests, x), NEW f
  PROVE  \A j \in Writing(f)' :
           /\ j \in Int
           /\ \/ /\ j \in Writing(f) /\ j < Len(requests) + 1
                 /\ requests'[j] = requests[j]
              \/ /\ j = Len(requests) + 1 /\ requests'[j] = x
                 /\ x.kind = "write" /\ f \in DOMAIN x.settings
<1>1. requests \in Seq(RequestFrames)
  BY DEF DisplayInv
<1>2. /\ requests'[Len(requests) + 1] = x
      /\ \A j \in 1 .. Len(requests') :
           \/ j \in 1 .. Len(requests) /\ requests'[j] = requests[j]
           \/ j = Len(requests) + 1
  BY <1>1, AppendIndex
<1>3. Len(requests) \in Nat
  BY <1>1
<1> QED
  BY <1>2, <1>3 DEF Writing

(***************************************************************************)
(* One field through each kind of step.  In most steps frames only leave   *)
(* the queues, or join them and say nothing of the field.                  *)
(***************************************************************************)
FewerTold ==
  \E d \in {0, 1} : \A i \in Told' :
    i \in Int /\ i + d \in Told /\ answers'[i] = answers[i + d]

FewerWrites(f) ==
  \E d \in {0, 1} : \A j \in Writing(f)' :
    j \in Int /\ j + d \in Writing(f) /\ requests'[j] = requests[j + d]

LEMMA SameTold ==
  ASSUME DisplayInv, UNCHANGED answers
  PROVE  FewerTold
<1>1. \A i \in Told' : i \in Int /\ i + 0 \in Told /\ answers'[i] = answers[i + 0]
  BY DEF Told
<1> QED
  BY <1>1 DEF FewerTold

LEMMA SameWrites ==
  ASSUME DisplayInv, UNCHANGED requests, NEW f
  PROVE  FewerWrites(f)
<1>1. \A j \in Writing(f)' :
        j \in Int /\ j + 0 \in Writing(f) /\ requests'[j] = requests[j + 0]
  BY DEF Writing
<1> QED
  BY <1>1 DEF FewerWrites

LEMMA AnswerGone ==
  ASSUME DisplayInv, answers # <<>>, answers' = Tail(answers)
  PROVE  FewerTold
<1>1. \A i \in Told' : i \in Int /\ i + 1 \in Told /\ answers'[i] = answers[i + 1]
  BY AnswersTail
<1> QED
  BY <1>1 DEF FewerTold

LEMMA RequestGone ==
  ASSUME DisplayInv, requests # <<>>, requests' = Tail(requests), NEW f
  PROVE  FewerWrites(f)
<1>1. \A j \in Writing(f)' :
        j \in Int /\ j + 1 \in Writing(f) /\ requests'[j] = requests[j + 1]
  BY RequestsTail
<1> QED
  BY <1>1 DEF FewerWrites

LEMMA AnswerTellsNothing ==
  ASSUME DisplayInv, NEW x \in AnswerFrames, answers' = Append(answers, x),
         x.kind # "settings" \/ x.empty
  PROVE  FewerTold
<1>1. \A i \in Told' : i \in Int /\ i \in Told /\ answers'[i] = answers[i]
  BY AnswersAppend
<1>2. \A i \in Int : i + 0 = i
  OBVIOUS
<1>3. \A i \in Told' : i \in Int /\ i + 0 \in Told /\ answers'[i] = answers[i + 0]
  BY <1>1, <1>2, Zenon
<1> QED
  BY <1>3 DEF FewerTold

LEMMA CommandWritesNothing ==
  ASSUME DisplayInv, NEW kind \in Kinds \cup {"reboot"}, SendCommand(kind), NEW f
  PROVE  FewerWrites(f)
<1>1. Request(kind) \in RequestFrames /\ Request(kind).kind # "write"
  BY DEF Request, RequestFrames, Kinds
<1>2. \A j \in Writing(f)' : j \in Int /\ j \in Writing(f) /\ requests'[j] = requests[j]
  BY <1>1, RequestsAppend DEF SendCommand
<1>3. \A j \in Writing(f)' :
        j \in Int /\ j + 0 \in Writing(f) /\ requests'[j] = requests[j + 0]
  BY <1>2
<1> QED
  BY <1>3 DEF FewerWrites

LEMMA FieldLess ==
  ASSUME NEW f \in Fields, FieldInv(f), FewerTold, FewerWrites(f),
         UNCHANGED <<current_settings, asked>>, device'[f] = device[f]
  PROVE  FieldInv(f)'
<1>1. PICK d \in {0, 1} : \A i \in Told' :
        i \in Int /\ i + d \in Told /\ Reports(i, f)' = Reports(i + d, f)
  BY DEF FewerTold, Reports
<1>2. PICK e \in {0, 1} : \A j \in Writing(f)' :
        /\ j \in Int /\ j + e \in Writing(f) /\ Writes(j, f)' = Writes(j + e, f)
        /\ requests'[j].register = requests[j + e].register
  BY DEF FewerWrites, Writes
<1>3. Steady(f) => Steady(f)'
  BY <1>1, <1>2 DEF Steady, Unknown
<1>4. /\ \A i, k \in Told' : i < k => i + d < k + d
      /\ \A j, k \in Writing(f)' : j < k => j + e < k + e
  BY <1>1, <1>2
<1>5. ASSUME NEW v, Arriving(f, v) PROVE Arriving(f, v)'
  BY <1>1, <1>2, <1>4, <1>5 DEF Arriving
<1> QED
  BY <1>2, <1>3, <1>5 DEF FieldInv, Asked

LEMMA FieldSettingsRead ==
  ASSUME DisplayInv, NEW f \in Fields, FieldInv(f),
         answers # <<>>, answers' = Tail(answers), 1 \in Told,
         current_settings'[f] = Reports(1, f),
         UNCHANGED <<requests, device, asked>>
  PROVE  FieldInv(f)'
<1>1. \A i \in Told' :
        i \in Int /\ 1 < i + 1 /\ i + 1 \in Told /\ Reports(i, f)' = Reports(i + 1, f)
  <2>1. \A i \in Told' : 1 < i + 1
    BY DEF Told
  <2> QED
    BY <2>1, AnswersTail DEF Reports
<1>2. Writing(f)' = Writing(f) /\ \A j : Writes(j, f)' = Writes(j, f)
  BY DEF Writing, Writes
<1>3. Steady(f) => Steady(f)'
  BY <1>1, <1>2 DEF Steady
<1>4. \A i, k \in Told' : i < k => i + 1 < k + 1
  BY <1>1
<1>5. ASSUME NEW v, Arriving(f, v) PROVE Arriving(f, v)'
  BY <1>1, <1>2, <1>4, <1>5 DEF Arriving
<1> QED
  BY <1>2, <1>3, <1>5 DEF FieldInv, Asked

LEMMA FieldAnswered ==
  ASSUME DisplayInv, NEW f \in Fields, FieldInv(f), FewerWrites(f),
         NEW x \in AnswerFrames, answers' = Append(answers, x),
         x.settings[f] = device[f],
         UNCHANGED <<current_settings, device, asked>>
  PROVE  FieldInv(f)'
<1> DEFINE last == Len(answers) + 1
<1>1. \A i \in Told' :
        /\ i \in Int
        /\ \/ i \in Told /\ i < last /\ Reports(i, f)' = Reports(i, f)
           \/ i = last /\ Reports(i, f)' = device[f]
  <2>1. \A i \in Told' :
          /\ i \in Int
          /\ \/ i \in Told /\ i < last /\ answers'[i] = answers[i]
             \/ i = last /\ answers'[i] = x
    BY AnswersAppend
  <2> QED
    BY <2>1 DEF Reports
<1>2. PICK e \in {0, 1} : \A j \in Writing(f)' :
        /\ j \in Int /\ j + e \in Writing(f) /\ Writes(j, f)' = Writes(j + e, f)
        /\ requests'[j].register = requests[j + e].register
  BY DEF FewerWrites, Writes
<1>3. last \in Int
  BY DEF DisplayInv
<1> HIDE DEF last
<1>4. Steady(f) => Steady(f)'
  BY <1>1, <1>2 DEF Steady, Unknown
<1>5. /\ \A i, k \in Told' : i < k => i # last
      /\ \A j, k \in Writing(f)' : j < k => j + e < k + e
  BY <1>1, <1>2, <1>3
<1>6. ASSUME NEW v, Arriving(f, v) PROVE Arriving(f, v)'
  BY <1>1, <1>2, <1>5, <1>6 DEF Arriving
<1> QED
  BY <1>2, <1>4, <1>6 DEF FieldInv, Asked

LEMMA FieldWriteDone ==
  ASSUME DisplayInv, NEW f \in Fields, FieldInv(f),
         requests # <<>>, requests' = Tail(requests), 1 \in Writing(f),
         device'[f] = Writes(1, f),
         UNCHANGED <<current_settings, answers, asked>>
  PROVE  FieldInv(f)'
<1>1. CASE device'[f] = device[f]
  BY <1>1, FieldLess, SameTold, RequestGone
<1>2. CASE device'[f] # device[f]
  <2>1. PICK v : Asked(f) /\ v = asked[f] /\ Arriving(f, v) /\ device'[f] = v
    BY <1>2 DEF FieldInv, Steady, Arriving
  <2>2. \A j \in Writing(f)' :
          j \in Int /\ 1 < j + 1 /\ j + 1 \in Writing(f) /\ Writes(j, f)' = Writes(j + 1, f)
    <3>1. \A j \in Writing(f)' : 1 < j + 1
      BY DEF Writing
    <3> QED
      BY <3>1, RequestsTail DEF Writes
  <2>3. \A j \in Writing(f)' : Writes(j, f)' = v
    BY <2>1, <2>2 DEF Arriving
  <2>4. Told' = Told /\ \A i : Reports(i, f)' = Reports(i, f)
    BY DEF Told, Reports
  <2>5. current_settings[f] # v /\ \A i \in Told : Reports(i, f) # v
    BY <1>2, <2>1 DEF Arriving
  <2>6. Arriving(f, v)'
    BY <2>1, <2>3, <2>4, <2>5 DEF Arriving
  <2> QED
    BY <2>1, <2>3, <2>6 DEF FieldInv, Asked
<1> QED
  BY <1>1, <1>2

(***************************************************************************)
(* A request joins the queue.                                              *)
(***************************************************************************)
\* A write for another register carries the field as the settings frame told it.
LEMMA FieldCarried ==
  ASSUME DisplayInv, NEW f \in Fields, FieldInv(f),
         NEW x \in RequestFrames, requests' = Append(requests, x),
         f \in DOMAIN x.settings =>
           /\ x.settings[f] = current_settings[f] /\ current_settings # Unknown
           /\ Asked(f) => current_settings[f] = asked[f],
         f \in Registers => asked'[f] = asked[f],
         UNCHANGED <<current_settings, answers, device>>
  PROVE  FieldInv(f)'
<1> DEFINE last == Len(requests) + 1
<1>1. Told' = Told /\ \A i : Reports(i, f)' = Reports(i, f)
  BY DEF Told, Reports
<1>2. \A j \in Writing(f)' :
        /\ j \in Int
        /\ \/ /\ j \in Writing(f) /\ j < last /\ Writes(j, f)' = Writes(j, f)
              /\ requests'[j].register = requests[j].register
           \/ /\ j = last /\ f \in DOMAIN x.settings
              /\ Writes(j, f)' = current_settings[f]
  BY RequestsAppend DEF Writes
<1>3. last \in Int
  BY DEF DisplayInv
<1> HIDE DEF last
<1>4. \A j, k \in Writing(f)' : j < k => j # last
  BY <1>2, <1>3
<1>5. Asked(f)' = Asked(f) /\ (Asked(f) => asked'[f] = asked[f])
  BY DEF Asked
<1>6. Steady(f) => Steady(f)'
  BY <1>1, <1>2 DEF Steady, Unknown
<1>7. ASSUME NEW v, Arriving(f, v), v = asked[f], Asked(f)
      PROVE  Arriving(f, v)'
  BY <1>1, <1>2, <1>4, <1>7 DEF Arriving
<1>8. ASSUME NEW j \in Writing(f)', Writes(j, f)' # device[f]
      PROVE  requests'[j].register = f
  <2>1. f \in DOMAIN x.settings => current_settings[f] = device[f]
    BY DEF FieldInv, Steady, Arriving
  <2> QED
    BY <1>2, <1>8, <2>1 DEF FieldInv
<1> QED
  BY <1>5, <1>6, <1>7, <1>8 DEF FieldInv

\* The user asks for the value he has asked for before.
LEMMA FieldAskedAgain ==
  ASSUME DisplayInv, NEW f \in Registers, FieldInv(f), Asked(f),
         NEW x \in RequestFrames, requests' = Append(requests, x),
         x.register = f, x.settings[f] = asked[f], asked'[f] = asked[f],
         UNCHANGED <<current_settings, answers, device>>
  PROVE  FieldInv(f)'
<1> DEFINE last == Len(requests) + 1
<1>1. Told' = Told /\ \A i : Reports(i, f)' = Reports(i, f)
  BY DEF Told, Reports
<1>2. \A j \in Writing(f)' :
        /\ j \in Int
        /\ \/ /\ j \in Writing(f) /\ j < last /\ Writes(j, f)' = Writes(j, f)
              /\ requests'[j].register = requests[j].register
           \/ /\ j = last /\ Writes(j, f)' = asked[f] /\ requests'[j].register = f
  <2>1. \A j \in Writing(f)' :
          /\ j \in Int
          /\ \/ j \in Writing(f) /\ j < last /\ requests'[j] = requests[j]
             \/ j = last /\ requests'[j] = x
    BY RequestsAppend
  <2> QED
    BY <2>1 DEF Writes
<1>3. last \in Int
  BY DEF DisplayInv
<1> HIDE DEF last
<1>4. \A j, k \in Writing(f)' : j < k => j # last
  BY <1>2, <1>3
<1>5. Asked(f)' /\ Arriving(f, asked[f])
  BY DEF Asked, FieldInv
<1>6. Arriving(f, asked[f])'
  <2> DEFINE v == asked[f]
  <2>1. Arriving(f, v) /\ v' = v
    BY <1>5
  <2>2. \A j \in Writing(f)' : j = last => Writes(j, f)' = v
    BY <1>2, <1>3
  <2> HIDE DEF v
  <2>3. Arriving(f, v)'
    BY <1>1, <1>2, <1>4, <2>1, <2>2 DEF Arriving
  <2> QED
    BY <2>3 DEF v
<1> QED
  BY <1>2, <1>5, <1>6 DEF FieldInv

\* The user asks for something new: until now the field has one value everywhere.
LEMMA FieldAskedNew ==
  ASSUME DisplayInv, NEW f \in Registers, FieldInv(f), current_settings # Unknown,
         Asked(f) => current_settings[f] = asked[f],
         NEW x \in RequestFrames, requests' = Append(requests, x),
         x.register = f, x.settings[f] = asked'[f], asked'[f] # None,
         UNCHANGED <<current_settings, answers, device>>
  PROVE  FieldInv(f)'
<1> DEFINE last == Len(requests) + 1
<1>0. PICK v : v = asked'[f]
  OBVIOUS
<1>1. Told' = Told /\ \A i : Reports(i, f)' = Reports(i, f)
  BY DEF Told, Reports
<1>2. \A j \in Writing(f)' :
        /\ j \in Int
        /\ \/ /\ j \in Writing(f) /\ j < last /\ Writes(j, f)' = Writes(j, f)
              /\ requests'[j].register = requests[j].register
           \/ /\ j = last /\ Writes(j, f)' = v /\ requests'[j].register = f
  <2>1. \A j \in Writing(f)' :
          /\ j \in Int
          /\ \/ j \in Writing(f) /\ j < last /\ requests'[j] = requests[j]
             \/ j = last /\ requests'[j] = x
    BY RequestsAppend
  <2> QED
    BY <1>0, <2>1 DEF Writes
<1>3. last \in Int
  BY DEF DisplayInv
<1> HIDE DEF last
<1>4. \A j, k \in Writing(f)' : j < k => j # last
  BY <1>2, <1>3
<1>5. /\ current_settings[f] = device[f]
      /\ \A i \in Told : Reports(i, f) = device[f]
      /\ \A j \in Writing(f) : Writes(j, f) = device[f]
  BY DEF FieldInv, Steady, Arriving
<1>6. Asked(f)' /\ v # None
  BY <1>0 DEF Asked
<1>7. Arriving(f, v)'
  BY <1>1, <1>2, <1>4, <1>5 DEF Arriving
<1>8. \A j \in Writing(f)' : Writes(j, f)' # device'[f] => requests'[j].register = f
  BY <1>2, <1>5
<1> QED
  BY <1>0, <1>6, <1>7, <1>8 DEF FieldInv

(***************************************************************************)
(* What the entities show, through each kind of step.                      *)
(***************************************************************************)
LEMMA SameTables ==
  ASSUME UNCHANGED installation
  PROVE  /\ Patient' = Patient /\ OptionsMap' = OptionsMap /\ Values' = Values
         /\ \A mode : OperationModeSetting(mode)' = OperationModeSetting(mode)
<1>1. Protocol' = Protocol
  BY DEF Protocol
<1> QED
  BY <1>1 DEF Patient, OptionsMap, Values, OperationModeSetting

LEMMA ShownKept ==
  ASSUME ShownInv, FewerTold,
         UNCHANGED <<installation, current_settings, numbers, operation_mode, asked>>
  PROVE  ShownInv'
<1>1. \A i \in Told' :
        OperationModeSetting(answers'[i].mode) = answers'[i].settings["OperationMode"]
  BY DEF FewerTold, ShownInv, Reports
<1>2. \A i \in Told' :
        OperationModeSetting(answers[i].mode)' = Reports(i, "OperationMode")'
  BY <1>1, SameTables DEF Reports
<1>3. Unshown' = Unshown
  BY DEF Unshown
<1> QED
  BY <1>2, <1>3, SameTables DEF ShownInv

LEMMA AnswerGiven ==
  ASSUME KnownInv, ShownInv, \A f \in Fields : FieldInv(f) /\ FewerWrites(f),
         NEW kind \in Kinds, Answer(kind),
         UNCHANGED <<installation, current_settings, numbers, operation_mode,
                     device, asked>>
  PROVE  ShownInv' /\ \A f \in Fields : FieldInv(f)'
<1>0. DisplayInv /\ device \in Settings
  BY DEF KnownInv, NothingUnknownWritten
<1>1. ASSUME FewerTold
      PROVE  ShownInv' /\ \A f \in Fields : FieldInv(f)'
  BY <1>1, ShownKept, FieldLess
<1>2. CASE answers' = Append(answers, EmptyFrame(kind))
  <2>1. EmptyFrame(kind) \in AnswerFrames /\ EmptyFrame(kind).empty
    BY UnknownType DEF EmptyFrame, AnswerFrames
  <2> QED
    BY <1>0, <1>1, <1>2, <2>1, AnswerTellsNothing
<1>3. ASSUME NEW mode \in Reported(device.OperationMode),
             answers' = Append(answers,
               [kind |-> kind, empty |-> FALSE, mode |-> mode,
                settings |-> IF kind = "settings" THEN device ELSE Unknown])
      PROVE  ShownInv' /\ \A f \in Fields : FieldInv(f)'
  <2> DEFINE shown == IF kind = "settings" THEN device ELSE Unknown
             x == [kind |-> kind, empty |-> FALSE, mode |-> mode, settings |-> shown]
  <2>1. mode \in 0 .. 15 /\ mode \in ReportedModes /\ shown \in [Fields -> Byte]
    BY <1>0, UnknownType, ReportedType DEF DisplayInv, ReportedModes
  <2>2. kind = "settings" => shown = device
    OBVIOUS
  <2> HIDE DEF shown
  <2>3. /\ x \in AnswerFrames /\ x.kind = kind /\ x.mode = mode
        /\ kind = "settings" => x.settings = device
    BY <2>1, <2>2 DEF AnswerFrames
  <2>4. answers' = Append(answers, x)
    BY <1>3 DEF shown
  <2> HIDE DEF x
  <2>5. CASE kind # "settings"
    BY <1>0, <1>1, <2>3, <2>4, <2>5, AnswerTellsNothing
  <2>6. CASE kind = "settings"
    <3>1. \A f \in Fields : FieldInv(f)'
      BY <1>0, <2>3, <2>4, <2>6, FieldAnswered
    <3>2. OperationModeSetting(mode) = device["OperationMode"]
      <4>1. device["OperationMode"] \in ModeSettings
        BY <1>0 DEF DisplayInv
      <4> QED
        BY <1>0, <4>1, ModeReadBack DEF DisplayInv
    <3>3. \A i \in Told' :
            OperationModeSetting(answers'[i].mode) = answers'[i].settings["OperationMode"]
      <4>1. \A i \in Told' : \/ i \in Told /\ answers'[i] = answers[i]
                             \/ answers'[i] = x
        BY <1>0, <2>3, <2>4, AnswersAppend
      <4>2. \A i \in Told :
              OperationModeSetting(answers[i].mode) = answers[i].settings["OperationMode"]
        BY DEF ShownInv, Reports
      <4>3. OperationModeSetting(x.mode) = x.settings["OperationMode"]
        BY <2>3, <2>6, <3>2
      <4> QED
        BY <4>1, <4>2, <4>3
    <3>4. \A i \in Told' :
            OperationModeSetting(answers[i].mode)' = Reports(i, "OperationMode")'
      BY <3>3, SameTables DEF Reports
    <3>5. Unshown' = Unshown
      BY DEF Unshown
    <3> QED
      BY <3>1, <3>4, <3>5, SameTables DEF ShownInv
  <2> QED
    BY <2>5, <2>6
<1> QED
  BY <1>2, <1>3 DEF Answer

LEMMA SettingsTaken ==
  ASSUME RefusalWorks, LabelsDistinct, KnownInv, ShownInv,
         \A f \in Fields : FieldInv(f),
         answers # <<>>, answers' = Tail(answers),
         Head(answers).kind = "settings", ~Head(answers).empty,
         SettingsFrame(Head(answers)),
         UNCHANGED <<installation, device, asked>>
  PROVE  ShownInv' /\ \A f \in Fields : FieldInv(f)'
<1>0. DisplayInv /\ answers \in Seq(KnownAnswers) /\ answers \in Seq(AnswerFrames)
  BY DEF KnownInv, DisplayInv
<1> DEFINE frame == Head(answers)
           mode == OperationModeSetting(frame.mode)
<1>1. /\ 1 \in Told /\ frame = answers[1]
      /\ mode = Reports(1, "OperationMode")
  BY <1>0, TailIndex DEF Told, ShownInv, Reports
<1>2. KnownFields = Fields
  BY <1>0 DEF RefusalWorks, KnownFields, Dongle, DisplayInv
<1>3. /\ current_settings' =
           [f \in Fields |-> IF f = "OperationMode" THEN mode
                             ELSE IF f \in KnownFields THEN frame.settings[f]
                             ELSE current_settings[f]]
      /\ operation_mode' = ReportedOption(mode)
      /\ numbers' = [r \in NumberRegisters |-> ShownValue(r, frame.settings[r])]
      /\ UNCHANGED requests
  BY DEF SettingsFrame, Accepts
<1>4. mode \in Values["OperationMode"]
  <2>1. frame \in AnswerFrames /\ ~frame.empty
    BY <1>0, Dequeued
  <2> QED
    BY <1>0, <2>1, ModeSettingType DEF AnswerFrames, DisplayInv, ModeSettings
<1>5. frame.settings = answers[1].settings
  BY <1>1
<1> HIDE DEF mode, frame
<1>6. \A f \in Fields : current_settings'[f] = Reports(1, f)
  BY <1>1, <1>2, <1>3, <1>5 DEF Reports
<1>7. \A f \in Fields : FieldInv(f)'
  BY <1>0, <1>1, <1>3, <1>6, FieldSettingsRead
<1>8. operation_mode' = OptionsMap[current_settings'["OperationMode"]]
  <2>1. mode \in DOMAIN OptionsMap
    BY <1>0, <1>4 DEF LabelsDistinct, Values, OptionsMap, DisplayInv
  <2> QED
    BY <1>3, <2>1, FieldNames DEF ReportedOption
<1>9. numbers' = [r \in NumberRegisters |-> ShownValue(r, current_settings'[r])]
  BY <1>3, <1>5, <1>6, FieldNames DEF Reports
<1>10. \A i \in Told' :
         OperationModeSetting(answers[i].mode)' = Reports(i, "OperationMode")'
  <2>1. \A i \in Told' :
          OperationModeSetting(answers'[i].mode) = answers'[i].settings["OperationMode"]
    BY <1>0, AnswersTail DEF ShownInv, Reports
  <2> QED
    BY <2>1, SameTables DEF Reports
<1> QED
  BY <1>7, <1>8, <1>9, <1>10, SameTables DEF ShownInv, ShownValue

(***************************************************************************)
(* A patient user changes an entity: all his earlier changes are shown,    *)
(* so current_settings_ has them, and so has everything newer.             *)
(***************************************************************************)
LEMMA SettledKnown ==
  ASSUME LabelsDistinct, KnownInv, ShownInv, numbers # Unshown, operation_mode # None,
         NEW q \in Registers, Settled(q), asked[q] # None
  PROVE  current_settings[q] = asked[q]
<1>1. DisplayInv /\ current_settings \in Settings
  BY DEF KnownInv
<1>2. asked[q] \in Values[q] /\ current_settings[q] \in Values[q]
  BY <1>1, SettingsByField, FieldNames DEF ShownInv
<1>3. Shows(q, asked[q])
  BY DEF Settled
<1>4. CASE q = "OperationMode"
  <2>1. OptionsMap[asked[q]] = OptionsMap[current_settings[q]]
    BY <1>3, <1>4 DEF Shows, ShownInv
  <2> QED
    BY <1>1, <1>2, <1>4, <2>1 DEF LabelsDistinct, Values, OptionsMap, DisplayInv
<1>5. CASE q # "OperationMode"
  <2>1. q \in NumberRegisters
    BY <1>5 DEF NumberRegisters
  <2>2. numbers[q] = ShownValue(q, current_settings[q])
    BY <2>1 DEF ShownInv
  <2>3. ShownValue(q, current_settings[q]) = ShownValue(q, asked[q])
    BY <1>3, <1>5, <2>2 DEF Shows
  <2>4. asked[q] \in Byte /\ current_settings[q] \in Byte
    BY <1>1, <1>2, InstallationFacts, FieldNames DEF DisplayInv
  <2> QED
    BY <2>3, <2>4, ShownType
<1> QED
  BY <1>4, <1>5

LEMMA PatientUserActs ==
  ASSUME LabelsDistinct, KnownInv, ShownInv, \A f \in Fields : FieldInv(f), Patient,
         NEW register \in Registers, NEW value \in Values[register],
         UserActs(register, value), UpdateSetting(register, value),
         UNCHANGED <<installation, current_settings, numbers, operation_mode,
                     answers, device>>
  PROVE  ShownInv' /\ \A f \in Fields : FieldInv(f)'
<1>0. /\ DisplayInv /\ numbers # Unshown /\ operation_mode # None
      /\ asked' = [asked EXCEPT ![register] = value]
      /\ \A r \in Registers : Settled(r) \/ (r = register /\ asked[r] = value)
  BY DEF KnownInv, UserActs
<1>1. current_settings # Unknown
  <2>1. current_settings["OperationMode"] \in Values["OperationMode"]
    BY <1>0, SettingsByField, FieldNames DEF KnownInv
  <2> QED
    BY <1>0, <2>1, InstallationFacts, UnknownType DEF DisplayInv, ModeSettings
<1>2. value # None /\ value \in Byte
  BY <1>0, InstallationFacts, FieldNames, NoneAssumption DEF DisplayInv
<1>3. /\ asked'[register] = value
      /\ \A r \in Registers : r # register => asked'[r] = asked[r]
      /\ asked' \in [Registers -> Byte \cup {None}]
  BY <1>0, <1>2 DEF ShownInv
<1>4. ShownInv'
  <2>1. \A r \in Registers : asked'[r] \in Values[r] \cup {None}
    BY <1>3 DEF ShownInv
  <2>2. \A i \in Told' :
          OperationModeSetting(answers[i].mode)' = Reports(i, "OperationMode")'
    BY SameTables DEF ShownInv, Told, Reports
  <2>3. Unshown' = Unshown
    BY DEF Unshown
  <2> QED
    BY <1>3, <2>1, <2>2, <2>3, SameTables DEF ShownInv
<1>5. PICK x \in RequestFrames : x = WriteOf(register, value)
  BY <1>0, WriteIsFrame
<1>6. /\ requests' = Append(requests, x) /\ x.register = register
      /\ x.settings[register] = value
      /\ DOMAIN x.settings = WrittenFields(register)
      /\ \A f \in WrittenFields(register) \ {register} :
           x.settings[f] = current_settings[f]
  <2>1. requests' = Append(requests, x)
    BY <1>0, <1>5, WriteIsFrame
  <2>2. current_settings \in [Fields -> Byte]
    BY <1>0 DEF DisplayInv
  <2> QED
    BY <1>5, <2>1, <2>2, FieldNames DEF WriteOf
<1>7. ASSUME NEW f \in Fields, f # register
      PROVE  FieldInv(f)'
  <2>1. Asked(f) => current_settings[f] = asked[f]
    BY <1>0, <1>7, SettledKnown DEF Asked
  <2>2. f \in Registers => asked'[f] = asked[f]
    BY <1>3, <1>7
  <2> QED
    BY <1>0, <1>1, <1>6, <1>7, <2>1, <2>2, FieldCarried
<1>8. FieldInv(register)'
  <2>1. CASE asked[register] = value
    BY <1>0, <1>2, <1>3, <1>6, <2>1, FieldAskedAgain, FieldNames DEF Asked
  <2>2. CASE Settled(register)
    <3>1. Asked(register) => current_settings[register] = asked[register]
      BY <1>0, <2>2, SettledKnown DEF Asked
    <3> QED
      BY <1>0, <1>1, <1>2, <1>3, <1>6, <3>1, FieldAskedNew, FieldNames
  <2> QED
    BY <1>0, <2>1, <2>2
<1> QED
  BY <1>4, <1>7, <1>8

LEMMA PatientInit == Init => PatientInv
<1> SUFFICES ASSUME Init PROVE PatientInv
  OBVIOUS
<1>1. /\ current_settings = Unknown /\ numbers = Unshown /\ operation_mode = None
      /\ requests = <<>> /\ answers = <<>> /\ asked = Unasked
  BY DEF Init
<1>2. Told = {} /\ \A f : Writing(f) = {}
  BY <1>1 DEF Told, Writing
<1>3. ShownInv
  BY <1>1, <1>2 DEF ShownInv, Unasked
<1>4. \A f \in Fields : FieldInv(f)
  BY <1>1, <1>2 DEF FieldInv, Steady, Asked, Unasked
<1> QED
  BY <1>3, <1>4 DEF PatientInv

LEMMA PatientNext ==
  RefusalWorks /\ LabelsDistinct /\ KnownInv /\ PatientInv /\ [Next]_vars => PatientInv'
<1> SUFFICES ASSUME RefusalWorks, LabelsDistinct, KnownInv, PatientInv, [Next]_vars
             PROVE  PatientInv'
  OBVIOUS
<1>1. UNCHANGED installation
  BY DEF Next, vars, link, Update, NumberControl, SelectControl, PressButton,
         Restart, Receive, DeviceHandles, DeviceReboots, DisplayAsks,
         DongleConnects, LoseRequest, LoseAnswer
<1> SUFFICES ASSUME Patient
             PROVE  ShownInv' /\ \A f \in Fields : FieldInv(f)'
  BY <1>1, SameTables DEF PatientInv
<1>2. /\ DisplayInv /\ ShownInv /\ \A f \in Fields : FieldInv(f)
      /\ \A f \in Fields : UNCHANGED requests => FewerWrites(f)
      /\ UNCHANGED answers => FewerTold
  BY SameWrites, SameTold DEF KnownInv, PatientInv
\* Steps in which the queues get shorter, or longer by a frame of no matter.
<1>3. ASSUME FewerTold, \A f \in Fields : FewerWrites(f),
             UNCHANGED <<current_settings, numbers, operation_mode, device, asked>>
      PROVE  ShownInv' /\ \A f \in Fields : FieldInv(f)'
  BY <1>1, <1>2, <1>3, ShownKept, FieldLess
<1>4. CASE Update
  <2>1. \A f \in Fields : FewerWrites(f)
    BY <1>2, <1>4, CommandWritesNothing DEF Update, Kinds
  <2> QED
    BY <1>2, <1>3, <1>4, <2>1 DEF Update, entity_vars
<1>5. CASE NumberControl
  <2>1. PICK register \in NumberRegisters : \E v \in Values[register] :
          UserActs(register, v) /\ UpdateSetting(register, v)
    BY <1>2, <1>5, NumberWrites
  <2>2. PICK v \in Values[register] :
          UserActs(register, v) /\ UpdateSetting(register, v)
    BY <2>1
  <2>3. UNCHANGED <<current_settings, numbers, operation_mode, answers, device>>
    BY <1>5 DEF NumberControl, entity_vars
  <2> QED
    BY <1>1, <1>2, <2>2, <2>3, PatientUserActs, FieldNames
<1>6. CASE SelectControl
  <2>1. PICK setting \in Values["OperationMode"] :
          UserActs("OperationMode", setting) /\ UpdateSetting("OperationMode", setting)
    BY <1>6 DEF SelectControl
  <2>2. UNCHANGED <<current_settings, numbers, operation_mode, answers, device>>
    BY <1>6 DEF SelectControl, entity_vars
  <2> QED
    BY <1>1, <1>2, <2>1, <2>2, PatientUserActs, FieldNames
<1>7. CASE PressButton
  <2>1. \A f \in Fields : FewerWrites(f)
    BY <1>2, <1>7, CommandWritesNothing DEF PressButton
  <2> QED
    BY <1>2, <1>3, <1>7, <2>1 DEF PressButton, entity_vars
<1>8. CASE Restart
  <2>1. /\ current_settings' = Unknown /\ numbers' = Unshown /\ operation_mode' = None
        /\ requests' = <<>> /\ answers' = <<>> /\ asked' = Unasked
    BY <1>8 DEF Restart
  <2>2. Told' = {} /\ \A f \in Fields : Writing(f)' = {}
    BY <2>1 DEF Told, Writing
  <2>3. ShownInv'
    BY <2>1, <2>2 DEF ShownInv, Unasked, Unshown
  <2>4. \A f \in Fields : FieldInv(f)'
    BY <2>1, <2>2 DEF FieldInv, Steady, Asked, Unasked, Unknown
  <2> QED
    BY <2>3, <2>4
<1>9. ASSUME NEW kind \in Kinds, Receive(kind)
      PROVE  ShownInv' /\ \A f \in Fields : FieldInv(f)'
  <2>1. /\ answers # <<>> /\ answers' = Tail(answers) /\ Head(answers).kind = kind
        /\ UNCHANGED <<device, asked>>
    BY <1>9 DEF Receive
  <2>2. FewerTold
    BY <1>2, <2>1, AnswerGone
  <2>3. CASE kind = "status"
    <3>1. StatusFrame(Head(answers))
      BY <1>9, <2>3 DEF Receive
    <3>2. \A f \in Fields : FewerWrites(f)
      BY <1>2, <3>1, CommandWritesNothing DEF StatusFrame, Kinds
    <3> QED
      BY <1>3, <2>1, <2>2, <3>1, <3>2 DEF StatusFrame
  <2>4. CASE kind # "status"
    <3>1. SettingsFrame(Head(answers)) /\ kind = "settings"
      BY <1>9, <2>4 DEF Receive, Kinds
    <3>2. CASE Head(answers).empty
      BY <1>2, <1>3, <2>1, <2>2, <3>1, <3>2 DEF SettingsFrame, Accepts
    <3>3. CASE ~Head(answers).empty
      BY <1>1, <1>2, <2>1, <3>1, <3>3, SettingsTaken
    <3> QED
      BY <3>2, <3>3
  <2> QED
    BY <2>3, <2>4
<1>10. ASSUME NEW kind \in Kinds \cup {"write"}, DeviceHandles(kind)
       PROVE  ShownInv' /\ \A f \in Fields : FieldInv(f)'
  <2>1. /\ requests # <<>> /\ requests' = Tail(requests)
        /\ UNCHANGED <<current_settings, numbers, operation_mode, asked>>
    BY <1>10 DEF DeviceHandles, entity_vars
  <2>2. \A f \in Fields : FewerWrites(f)
    BY <1>2, <2>1, RequestGone
  <2>3. CASE kind = "write"
    <3>1. /\ Head(requests).kind = "write" /\ UNCHANGED answers
          /\ device' = [f \in Fields |->
               IF f \in DOMAIN Head(requests).settings
               THEN Head(requests).settings[f] ELSE device[f]]
      BY <1>10, <2>3 DEF DeviceHandles
    <3>2. /\ Head(requests) = requests[1] /\ 1 \in 1 .. Len(requests)
      BY <1>2, <2>1, TailIndex DEF DisplayInv
    <3>3. ASSUME NEW f \in Fields PROVE FieldInv(f)'
      <4>1. CASE f \in DOMAIN requests[1].settings
        <5>1. 1 \in Writing(f) /\ device'[f] = Writes(1, f)
          BY <3>1, <3>2, <4>1 DEF Writing, Writes
        <5> QED
          BY <1>2, <2>1, <3>1, <5>1, FieldWriteDone
      <4>2. CASE f \notin DOMAIN requests[1].settings
        <5>1. device'[f] = device[f]
          BY <3>1, <3>2, <4>2
        <5> QED
          BY <1>2, <2>1, <2>2, <3>1, <5>1, FieldLess
      <4> QED
        BY <4>1, <4>2
    <3> QED
      BY <1>1, <1>2, <2>1, <3>1, <3>3, ShownKept
  <2>4. CASE kind # "write"
    <3>1. Answer(kind) /\ UNCHANGED device /\ kind \in Kinds
      BY <1>10, <2>4 DEF DeviceHandles
    <3> QED
      BY <1>1, <1>2, <2>1, <2>2, <3>1, AnswerGiven
  <2> QED
    BY <2>3, <2>4
<1>11. CASE DeviceReboots
  <2>1. \A f \in Fields : FewerWrites(f)
    BY <1>2, <1>11, RequestGone DEF DeviceReboots
  <2> QED
    BY <1>2, <1>3, <1>11, <2>1 DEF DeviceReboots, entity_vars
<1>12. CASE DisplayAsks
  <2>1. Answer("settings") /\ "settings" \in Kinds
    BY <1>12 DEF DisplayAsks, Kinds
  <2> QED
    BY <1>1, <1>2, <1>12, <2>1, AnswerGiven DEF DisplayAsks, entity_vars
<1>13. CASE DongleConnects
  BY <1>2, <1>3, <1>13 DEF DongleConnects, entity_vars
<1>14. CASE LoseRequest
  <2>1. \A f \in Fields : FewerWrites(f)
    BY <1>2, <1>14, RequestGone DEF LoseRequest
  <2> QED
    BY <1>2, <1>3, <1>14, <2>1 DEF LoseRequest, entity_vars
<1>15. CASE LoseAnswer
  <2>1. FewerTold
    BY <1>2, <1>15, AnswerGone DEF LoseAnswer
  <2> QED
    BY <1>2, <1>3, <1>15, <2>1 DEF LoseAnswer, entity_vars
<1>16. CASE UNCHANGED vars
  BY <1>2, <1>3, <1>16 DEF vars, entity_vars
<1> QED
  BY <1>4, <1>5, <1>6, <1>7, <1>8, <1>9, <1>10, <1>11, <1>12, <1>13, <1>14,
     <1>15, <1>16 DEF Next

(***************************************************************************)
(* update_setting: the write of a register carries the other settings as   *)
(* the last settings frame told them.  If the user waits until his last    *)
(* change is shown they are never stale, however long frames are under     *)
(* way and whichever of them are lost: a write changes only its register.  *)
(* Without distinct labels in the options map an old mode can look like    *)
(* the new one, and the user waits for nothing.                            *)
(***************************************************************************)
THEOREM WritesChangeOnlyTheirSetting ==
  ASSUME RefusalWorks, LabelsDistinct
  PROVE  Spec => WritesOnlyTheirSetting
<1> DEFINE OnlyTheirs ==
      Patient => \A f \in Fields :
        device'[f] # device[f] => Head(requests).register = f
<1>1. KnownInv /\ PatientInv /\ [Next]_vars => KnownInv' /\ PatientInv'
  BY KnownNext, PatientNext
<1>2. KnownInv /\ PatientInv /\ [Next]_vars => [OnlyTheirs]_vars
  <2> SUFFICES ASSUME KnownInv, PatientInv, Next, Patient, NEW f \in Fields,
                      device'[f] # device[f]
               PROVE  Head(requests).register = f
    BY DEF OnlyTheirs
  <2>1. DeviceHandles("write")
    BY DEF Next, Update, NumberControl, SelectControl, PressButton, Restart,
           Receive, DeviceHandles, DeviceReboots, DisplayAsks, DongleConnects,
           LoseRequest, LoseAnswer, Kinds
  <2>2. /\ requests # <<>> /\ Head(requests).kind = "write"
        /\ device'[f] = IF f \in DOMAIN Head(requests).settings
                        THEN Head(requests).settings[f] ELSE device[f]
    BY <2>1 DEF DeviceHandles
  <2>3. /\ DisplayInv /\ FieldInv(f)
        /\ Head(requests) = requests[1] /\ 1 \in 1 .. Len(requests)
    BY <2>2, TailIndex DEF KnownInv, PatientInv, DisplayInv
  <2>4. 1 \in Writing(f) /\ device'[f] = Writes(1, f)
    BY <2>2, <2>3 DEF Writing, Writes
  <2> QED
    BY <2>3, <2>4 DEF FieldInv
<1>3. Init => KnownInv /\ PatientInv
  BY KnownInit, PatientInit
<1> HIDE DEF OnlyTheirs
<1>4. Spec => [][OnlyTheirs]_vars
  BY <1>1, <1>2, <1>3, PTL DEF Spec
<1> QED
  BY <1>4 DEF OnlyTheirs, WritesOnlyTheirSetting

=============================================================================
