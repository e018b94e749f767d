------------------------- MODULE SoyosourceDisplay -------------------------
(***************************************************************************)
(* The settings of the inverter as the soyosource_display component keeps  *)
(* them: it polls the status, asks for the settings after every status,    *)
(* shows them in its number and select entities, and writes them when a    *)
(* user changes an entity.  A write is built from current_settings_, the   *)
(* settings of the last settings frame.                                    *)
(*                                                                         *)
(* Frames are records here; DisplayProtocol has their bytes.  External:    *)
(* the inverter, behind a dongle or the display port, which handles one    *)
(* request after another; frames get lost on the way; the user.            *)
(***************************************************************************)
EXTENDS Integers, Sequences, SequencesExt

CONSTANTS
  Installations,  \* the inverters and configurations considered, see below
  None

Registers ==
  {"StartVoltage", "ShutdownVoltage", "OutputPowerLimit", "StartDelay",
   "OperationMode"}
NumberRegisters == Registers \ {"OperationMode"}
Fields == Registers \cup {"GridFrequency"}

Versions == {"WIFI", "DISPLAY", "DISPLAY_AND_WIFI"}

Byte == 0 .. 255

(***************************************************************************)
(* What differs between installations and never changes in one: the        *)
(* protocol_version_; the dongle that answers; the select's options, from  *)
(* an operation mode setting to its label; for each field the values the   *)
(* inverter may have; whether the user is patient, that is, waits until    *)
(* his last change is shown; and a bound on the frames under way in one    *)
(* direction.  The inverter has the operation mode settings that the       *)
(* protocol knows: the limiter in battery mode is 16 or 18.                *)
(***************************************************************************)
ASSUME DisplayAssumption ==
  \A i \in Installations :
    /\ i.protocol \in Versions
    /\ i.dongle \in {"SOYO", "MS51", "MS51_V2"}
    /\ DOMAIN i.values = Fields
    /\ \A f \in Fields : i.values[f] \subseteq Byte \ {0}
    /\ i.values["OperationMode"] \subseteq
         {1, 2, 17, IF i.protocol = "DISPLAY" THEN 16 ELSE 18}
    /\ i.patient \in BOOLEAN
    /\ i.max_queue \in Nat \ {0}

ASSUME NoneAssumption == None \notin Byte

VARIABLES
  installation,         \* one of Installations
  current_settings,     \* current_settings_, all zero after a start
  numbers,              \* the states of the number entities
  operation_mode,       \* the state of the select
  operation_mode_id,    \* the sensor of the last status frame
  operation_mode_text,  \* its text sensor
  requests,             \* external: frames on their way to the inverter
  answers,              \* external: frames on their way back
  device,               \* external: the settings of the inverter
  connected,            \* external: the dongle has data of the inverter
  asked                 \* history: what a patient user last asked for

entity_vars == <<numbers, operation_mode, operation_mode_id, operation_mode_text>>
link == <<installation, connected>>
vars == <<current_settings, entity_vars, requests, answers, device, link, asked>>

Protocol   == installation.protocol
Dongle     == installation.dongle
OptionsMap == installation.options
Values     == installation.values
Patient    == installation.patient
MaxQueue   == installation.max_queue

Settings ==
  [StartVoltage : Values.StartVoltage, ShutdownVoltage : Values.ShutdownVoltage,
   OutputPowerLimit : Values.OutputPowerLimit, StartDelay : Values.StartDelay,
   OperationMode : Values.OperationMode, GridFrequency : Values.GridFrequency]

Unknown == [f \in Fields |-> 0]
Unshown == [r \in NumberRegisters |-> None]
Unasked == [r \in Registers |-> None]

Init ==
  /\ installation \in Installations
  /\ current_settings = Unknown
  /\ numbers = Unshown
  /\ operation_mode = None /\ operation_mode_id = None /\ operation_mode_text = None
  /\ requests = <<>> /\ answers = <<>>
  /\ device \in Settings
  /\ connected = (Dongle = "SOYO")
  /\ asked = Unasked

-----------------------------------------------------------------------------
(***************************************************************************)
(* The operation mode as a nibble of every answer, as the setting that is  *)
(* written, and as text.                                                   *)
(***************************************************************************)
\* Mutant: PV and battery are mixed up.
OperationModeSettingSwapped(mode) ==
  CASE mode \in {1, 5} -> 1
    [] mode \in {2, 6} -> 2
    [] mode \in {8, 9, 12, 13} -> IF Protocol = "DISPLAY" THEN 16 ELSE 18
    [] mode \in {10, 14} -> 17
    [] OTHER -> 0

OperationModeSetting(mode) ==
  CASE mode \in {1, 5} -> 2
    [] mode \in {2, 6} -> 1
    [] mode \in {8, 9, 12, 13} -> IF Protocol = "DISPLAY" THEN 16 ELSE 18
    [] mode \in {10, 14} -> 17
    [] OTHER -> 0

DisplayNames == Protocol = "DISPLAY" /\ Dongle = "SOYO"
LimitModes == IF DisplayNames THEN {8, 9, 12, 13} ELSE {9, 13}
PVLimitModes == IF DisplayNames THEN {} ELSE {10, 14}

OperationModeText(mode) ==
  CASE mode \in {1, 5} -> "Battery Constant Power"
    [] mode \in {2, 6} -> "PV"
    [] mode \in LimitModes -> "Battery Limit"
    [] mode \in PVLimitModes -> "PV Limit"
    [] OTHER -> "Unknown"

(***************************************************************************)
(* External: the modes an inverter with this setting reports, in operation *)
(* and in standby.                                                         *)
(***************************************************************************)
Reported(setting) ==
  CASE setting = 1 -> {2, 6}
    [] setting = 2 -> {1, 5}
    [] setting = 16 -> {8, 9, 12, 13}
    [] setting = 18 -> {9, 13}
    [] setting = 17 -> {10, 14}

-----------------------------------------------------------------------------
(***************************************************************************)
(* Requests.                                                               *)
(***************************************************************************)
Request(kind) == [kind |-> kind]

SendCommand(kind) == requests' = Append(requests, Request(kind))

\* update
Update ==
  /\ Len(requests) < MaxQueue
  /\ SendCommand("status")
  /\ UNCHANGED <<current_settings, entity_vars, answers, device, link, asked>>

(***************************************************************************)
(* on_soyosource_status_data_ and on_ms51_status_data_, and the request    *)
(* for the settings that follows.  An empty frame of the dongle is not     *)
(* published, but is followed by the request too.                          *)
(***************************************************************************)
AsksForSettings == Dongle # "SOYO" \/ Protocol # "DISPLAY_AND_WIFI"

StatusFrame(frame) ==
  /\ AsksForSettings => Len(requests) < MaxQueue
  /\ IF frame.empty
     THEN UNCHANGED <<operation_mode_id, operation_mode_text>>
     ELSE /\ operation_mode_id' = frame.mode
          /\ operation_mode_text' = OperationModeText(frame.mode)
  /\ IF AsksForSettings THEN SendCommand("settings") ELSE UNCHANGED requests
  /\ UNCHANGED <<current_settings, numbers, operation_mode>>

(***************************************************************************)
(* on_soyosource_settings_data_, on_ms51_settings_data_ and                *)
(* on_ms51_v2_settings_data_, which leaves the grid frequency alone.       *)
(***************************************************************************)
\* SoyosourceSelect::setup, the listener
ReportedOption(setting) ==
  IF setting \in DOMAIN OptionsMap THEN OptionsMap[setting] ELSE operation_mode

ShownValue(register, value) ==
  IF register = "OutputPowerLimit" THEN value * 10 ELSE value

\* Mutant: the settings are taken once and kept.
AcceptsFirst(frame) == current_settings = Unknown

Accepts(frame) == ~frame.empty

\* Mutant: no settings frame fills in the grid frequency.
KnownFieldsNoFrequency == Registers

KnownFields == IF Dongle = "MS51_V2" THEN Registers ELSE Fields

SettingsFrame(frame) ==
  /\ IF Accepts(frame)
     THEN LET mode == OperationModeSetting(frame.mode)
          IN  /\ current_settings' =
                   [f \in Fields |->
                      IF f = "OperationMode" THEN mode
                      ELSE IF f \in KnownFields THEN frame.settings[f]
                      ELSE current_settings[f]]
              /\ operation_mode' = ReportedOption(mode)
              /\ numbers' = [r \in NumberRegisters |->
                               ShownValue(r, frame.settings[r])]
     ELSE UNCHANGED <<current_settings, operation_mode, numbers>>
  /\ UNCHANGED <<operation_mode_id, operation_mode_text, requests>>

Receive(kind) ==
  /\ answers # <<>> /\ Head(answers).kind = kind
  /\ answers' = Tail(answers)
  /\ IF kind = "status" THEN StatusFrame(Head(answers)) ELSE SettingsFrame(Head(answers))
  /\ UNCHANGED <<device, link, asked>>

-----------------------------------------------------------------------------
(***************************************************************************)
(* update_setting: the write of one register carries, in the display       *)
(* version, the fields of its command, and otherwise all fields.           *)
(***************************************************************************)
WrittenFields(register) ==
  IF Protocol # "DISPLAY" THEN Fields
  ELSE CASE register \in {"StartVoltage", "ShutdownVoltage"}
              -> {"StartVoltage", "ShutdownVoltage"}
         [] register = "OutputPowerLimit" -> {"OutputPowerLimit", "GridFrequency"}
         [] OTHER -> {register}

\* Mutant: nothing is refused.
MayWriteAnything(settings) == TRUE

MayWrite(settings) == settings.OperationMode # 0

UpdateSetting(register, value) ==
  LET new_settings == [current_settings EXCEPT ![register] = value]
  IN  /\ MayWrite(new_settings)
      /\ requests' = Append(requests,
           [kind |-> "write", register |-> register,
            settings |-> [f \in WrittenFields(register) |-> new_settings[f]]])

(***************************************************************************)
(* External: what the entities show of a register, and when the user uses  *)
(* them.  A patient user changes nothing before his last change is shown,  *)
(* but may try it again.                                                   *)
(***************************************************************************)
Shows(register, value) ==
  IF register = "OperationMode"
  THEN operation_mode # None /\ operation_mode = OptionsMap[value]
  ELSE numbers[register] = ShownValue(register, value)

Settled(register) ==
  asked[register] # None => Shows(register, asked[register])

UserActs(register, value) ==
  /\ Len(requests) < MaxQueue
  /\ Patient =>
       /\ numbers # Unshown /\ operation_mode # None
       /\ \A r \in Registers : Settled(r) \/ (r = register /\ asked[r] = value)
  /\ asked' = IF Patient THEN [asked EXCEPT ![register] = value] ELSE asked

\* Mutant: the output power limit is written in watts.
RegisterValueInWatts(register, state) == state

\* update_setting, the value of a register
RegisterValue(register, state) ==
  IF register = "OutputPowerLimit" THEN state \div 10 ELSE state

\* SoyosourceNumber::control
NumberControl ==
  \E register \in NumberRegisters :
    \E state \in {ShownValue(register, v) : v \in Values[register]} :
      LET value == RegisterValue(register, state)
      IN  /\ UserActs(register, value)
          /\ UpdateSetting(register, value)
          /\ UNCHANGED <<current_settings, entity_vars, answers, device,
                         link>>

\* SoyosourceSelect::control
SelectControl ==
  \E setting \in DOMAIN OptionsMap \cap Values["OperationMode"] :
    /\ UserActs("OperationMode", setting)
    /\ UpdateSetting("OperationMode", setting)
    /\ UNCHANGED <<current_settings, entity_vars, answers, device, link>>

\* SoyosourceButton::press_action
PressButton ==
  /\ Len(requests) < MaxQueue
  /\ SendCommand("reboot")
  /\ UNCHANGED <<current_settings, entity_vars, answers, device, link, asked>>

-----------------------------------------------------------------------------
(***************************************************************************)
(* The inverter.  Before the dongle has its data, and again after a reboot,*)
(* it answers with empty frames.  In the version with display and WiFi the *)
(* display asks for the settings, and the answers are overheard.           *)
(***************************************************************************)
EmptyFrame(kind) == [kind |-> kind, empty |-> TRUE, mode |-> 0, settings |-> Unknown]

Answer(kind) ==
  \/ /\ ~connected
     /\ answers' = Append(answers, EmptyFrame(kind))
  \/ /\ connected
     /\ \E mode \in Reported(device.OperationMode) :
          answers' = Append(answers,
            [kind |-> kind, empty |-> FALSE, mode |-> mode,
             settings |-> IF kind = "settings" THEN device ELSE Unknown])

DeviceHandles(kind) ==
  /\ requests # <<>> /\ Head(requests).kind = kind
  /\ requests' = Tail(requests)
  /\ IF kind = "write"
     THEN LET frame == Head(requests)
          IN  /\ connected
              /\ device' = [f \in Fields |->
                   IF f \in DOMAIN frame.settings THEN frame.settings[f] ELSE device[f]]
              /\ UNCHANGED answers
     ELSE /\ Len(answers) < MaxQueue
          /\ Answer(kind)
          /\ UNCHANGED device
  /\ UNCHANGED <<current_settings, entity_vars, link, asked>>

DeviceReboots ==
  /\ requests # <<>> /\ Head(requests).kind = "reboot"
  /\ requests' = Tail(requests)
  /\ connected' = (Dongle = "SOYO")
  /\ UNCHANGED <<installation, current_settings, entity_vars, answers, device, asked>>

DisplayAsks ==
  /\ Protocol = "DISPLAY_AND_WIFI"
  /\ Len(answers) < MaxQueue
  /\ Answer("settings")
  /\ UNCHANGED <<current_settings, entity_vars, requests, device, link, asked>>

DongleConnects ==
  /\ ~connected
  /\ connected' = TRUE
  /\ UNCHANGED <<installation, current_settings, entity_vars, requests, answers,
                 device, asked>>

LoseRequest ==
  /\ requests # <<>>
  /\ requests' = Tail(requests)
  /\ UNCHANGED <<current_settings, entity_vars, answers, device, link, asked>>

LoseAnswer ==
  /\ answers # <<>>
  /\ answers' = Tail(answers)
  /\ UNCHANGED <<current_settings, entity_vars, requests, device, link, asked>>

(***************************************************************************)
(* A reboot of the controller, which takes longer than a request is under  *)
(* way.                                                                    *)
(***************************************************************************)
Restart ==
  /\ requests = <<>>
  /\ current_settings' = Unknown
  /\ numbers' = Unshown
  /\ operation_mode' = None
  /\ operation_mode_id' = None /\ operation_mode_text' = None
  /\ answers' = <<>>
  /\ asked' = Unasked
  /\ UNCHANGED <<requests, device, link>>

Kinds == {"status", "settings"}

Next ==
  \/ Update \/ NumberControl \/ SelectControl \/ PressButton \/ Restart
  \/ \E kind \in Kinds : Receive(kind)
  \/ \E kind \in Kinds \cup {"write"} : DeviceHandles(kind)
  \/ DeviceReboots \/ DisplayAsks \/ DongleConnects \/ LoseRequest \/ LoseAnswer

(***************************************************************************)
(* The poller keeps polling, and no kind of frame is lost for ever.        *)
(***************************************************************************)
Fairness ==
  /\ WF_vars(Update) /\ WF_vars(DongleConnects) /\ SF_vars(DisplayAsks)
  /\ \A kind \in Kinds : SF_vars(Receive(kind)) /\ SF_vars(DeviceHandles(kind))
  /\ SF_vars(DeviceHandles("write")) /\ SF_vars(DeviceReboots)

Spec == Init /\ [][Next]_vars /\ Fairness
-----------------------------------------------------------------------------
Labels == Range(OptionsMap)

\* The states of a number entity: a byte, or ten times a byte.
NumberStates == 0 .. 2550

WellFormed(request) ==
  /\ request.kind \in Kinds \cup {"write", "reboot"}
  /\ request.kind = "write" =>
       /\ request.register \in DOMAIN request.settings
       /\ request.settings \in [WrittenFields(request.register) -> Byte]

TypeOK ==
  /\ installation \in Installations
  /\ current_settings \in [Fields -> Byte]
  /\ numbers \in [NumberRegisters -> {None} \cup NumberStates]
  /\ operation_mode \in Labels \cup {None}
  /\ operation_mode_id \in 0 .. 15 \cup {None}
  /\ \A i \in DOMAIN requests : WellFormed(requests[i])
  /\ Len(requests) <= MaxQueue /\ Len(answers) <= MaxQueue
  /\ device \in [Fields -> Byte]
  /\ connected \in BOOLEAN

(***************************************************************************)
(* A setting that was never read is never written: update_setting refuses  *)
(* "because the current settings are unknown".  The inverter keeps values  *)
(* it may have.                                                            *)
(***************************************************************************)
NothingUnknownWritten == device \in Settings

(***************************************************************************)
(* If the user waits until his last change is shown, a write changes no    *)
(* setting but the one he changed, although its frame carries all of them: *)
(* stale current_settings_ never revert an earlier change.                 *)
(***************************************************************************)
WritesOnlyTheirSetting ==
  [][Patient => \A f \in Fields :
       device'[f] # device[f] => Head(requests).register = f]_vars

(***************************************************************************)
(* The select and the text sensor never give two names to one operation    *)
(* mode.                                                                   *)
(***************************************************************************)
ModeHasOneName ==
  /\ operation_mode # None /\ operation_mode_id # None
  /\ OperationModeSetting(operation_mode_id) = current_settings.OperationMode
  => operation_mode_text = operation_mode

(***************************************************************************)
(* Once the settings of the inverter stay as they are, the entities come   *)
(* to show them, whatever was lost.                                        *)
(***************************************************************************)
EntitiesShowInverter ==
  /\ numbers = [r \in NumberRegisters |-> ShownValue(r, device[r])]
  /\ operation_mode = OptionsMap[device.OperationMode]

EntitiesFollowInverter ==
  <>[][device' = device]_vars => []<>EntitiesShowInverter
=============================================================================
