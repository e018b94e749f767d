# TLA+ models of the Soyosource GTN virtual meter

This directory holds TLA+ models of the ESPHome components in `src/components`, the
TLC runs that check them on small instances, and proofs about them for the TLA+ proof
system. File and line references are to the repository (`cpp:59` is line 59 of the
component's `.cpp`).

1. [The system](#1-the-system)
2. [The modules and the code](#2-the-modules-and-the-code)
3. [The runs](#3-the-runs)
4. [Fairness](#4-fairness)
5. [The proofs](#5-the-proofs)
6. [Disagreements found](#6-disagreements-found)
7. [What is not modelled](#7-what-is-not-modelled)
8. [Plan](#8-plan)

## 1. The system

A controller (ESP32 or ESP8266) makes a Soyosource grid-tie inverter follow the
consumption of a house. All components run on ESPHome's single main loop: a handler
runs to completion before the next, so concurrency is the order of handlers, the
lateness of the loop, reboots at any point between handlers, and what happens on the
wire meanwhile.

| Component | State | Operations | Correct when |
| --- | --- | --- | --- |
| `soyosource_virtual_meter` | pending demand, demand commanded last, time of the last reading, the settings | power sensor callback, `update()`, setters | the demand stays within the limit; a silent sensor stops the inverters; what it remembers is what it sent |
| its number and switch entities | their value, a preference in flash | `setup` with restore, `control`, `write_state` | a restart never leaves a saved emergency power off |
| `soyosource_inverter` | missing answers, published sensors | `update()` (poll), `on_soyosource_modbus_data`, going offline | offline is reported exactly when it is so |
| `soyosource_modbus` | receive buffer, time of the last byte | `loop()`, byte parser, `send`, `query_status` | an undisturbed answer is delivered once, two are never mixed |
| `soyosource_display` and its entities | settings read last, published values, receive buffer | poll, frames of three dongles, writes in three protocol versions | a write changes what the user changed and nothing else |
| `soyosource_inverter_emulator` | receive buffer, count of statuses | `loop()`, byte parser, status and settings | a display reads from its answers what it was told to send |

How they interact:

- A smart meter publishes to the power sensor; its callback computes `power_demand_`
  from `last_power_demand_`, the demand commanded last. Every update interval
  `update()` chooses a demand (emergency off, standby, manual, timeout, automatic),
  divides it by the number of inverters, and calls `send` of each virtual meter's bus.
- `soyosource_inverter` polls the same bus (`query_status`), and publishes the status
  of the inverter, or -1 when it is offline. The virtual meter reads that sensor as
  its `operation_status_id` and commands 0 W unless it is 0.
- `soyosource_inverter_emulator` stands in for the inverter at the other end of the
  display's bus.
- `soyosource_display` talks over a bus of its own. It shows the settings in entities
  and writes them when a user changes one; its status may be the virtual meter's
  `operation_status_id` too.
- Physics closes the loop: the house draws less from the grid the more the inverters
  deliver, which is what the next reading measures.

What is hard to get right, and hard to test: the inactivity timeout against readings,
NaN readings, manual mode and the wrap of `millis()`; one feedback value that must
agree with what was sent whatever override was in force; settings changed between a
reading and the update; reboots before preferences reach the flash; answers that are
lost, late or dropped; the inter-frame timeout measured by a loop that may be late;
writes built from settings read some time ago. `PROJECT.json` lists these hazards
with their lines and the properties that cover each.

## 2. The modules and the code

| Module | Models | Abstracts |
| --- | --- | --- |
| `PowerDemand` | the three calculations, the rounding of a reading, the split over inverters, C++ integer widths | - |
| `DemandSweep` | the same operators over a rising consumption, and the frame that carries the result | - |
| `VirtualMeter` | `soyosource_virtual_meter.cpp/.h`, its `number/` and `switch/` | preferences sync at any time; texts; power sensors in tenths of a watt |
| `Inverter` | `soyosource_inverter.cpp/.h` | the frame as a record of raw fields; the wire as a count of answers |
| `Limiter` | both on one bus, as in the `*-limiter-*` examples | the bus loses answers |
| `Watchdog` | abstract: what a safety cut-off promises | - |
| `ClosedLoop` | the virtual meter in a house | the inverters obey a frame at once |
| `SoyosourceModbus` | the frames of `soyosource_modbus.cpp`: what it sends, what it takes for an answer | the flow control pin |
| `DisplayProtocol` | the frames of `soyosource_display.cpp`: requests, byte parser, status and settings of three dongles | output power, energy, device type, texts |
| `InverterEmulator` | the frames of `soyosource_inverter_emulator.cpp` | - |
| `FrameReceiver` | `loop()` of all three | positions where the line pauses |
| `SoyosourceDisplay` | the settings path of `soyosource_display.cpp`, its `number/`, `select/` and `button/` | frames are records; measurements |
| `PowerDemandProofs`, `DemandSweepProofs`, `VirtualMeterProofs`, `InverterProofs`, `LimiterProofs`, `ClosedLoopProofs`, `FrameReceiverProofs`, `SoyosourceDisplayProofs` | theorems about the module of that name | - |
| `MC*` | constants of the runs | - |

**VirtualMeter.** The variables are the members of the class (`power_demand`,
`last_power_demand`, `last_power_demand_received`), the entities' values in `settings`
and `switches`, the flash (`number_pref`, `switch_pref`), the frame on the bus and the
time. `since_update` is the poller's timer. Actions:

| Action | Code |
| --- | --- |
| `PowerReading`, `NaNReading` | the lambda of `setup()` (cpp:14-29) |
| `Update` | `update()` (cpp:39-98), with all overrides in their order |
| `NumberControl`, `WriteState` | `control` and the setters' casts; `write_state` |
| `OperationStatus` | a new state of the operation status sensor |
| `SyncPreferences` | ESPHome writes what the entities saved |
| `Restart` | a reboot: members are reset, `setup()` of the entities runs from the flash |
| `Tick` | time; the loop may call `update()` up to `LoopSlack` ticks late |

`silence`, `limit` and `latched` are history variables that no action reads. They are
needed to state the properties, since the code's own clock wraps around and its limit
may change after a reading.

**Limiter** composes `VirtualMeter` (by `EXTENDS`) and `Inverter` (by `INSTANCE`). The
two share the operation status sensor, the reboot and the time; every step of one is,
by the way the actions are put together, a step of the other or leaves it alone.
`IsInverterWatchdog` checks that the two implement `Watchdog`, with the time since the last normal
status as its age and a frame above 0 W as its output. `StopTime` is the deadline that
the code's numbers give: `NO_RESPONSE_THRESHOLD` + 1 polls and one update, each as late
as the loop may be.

**ClosedLoop** adds the house. `Measure` takes what the meter will publish, 10 times
`Grid`, the load less what the inverters deliver; `MeterReading` publishes it later,
when load and output may have changed. `fresh` and `settled` tell whether the present
output was computed from a reading of the present load and output.

**FrameReceiver** moves the bytes of real frames over a line to one of the receivers.
`soyosource_modbus`, `soyosource_display` and the emulator have the same `loop()`; what
they take for a frame and what they make of it comes from `SoyosourceModbus`,
`DisplayProtocol` and `InverterEmulator`, whose operators are the parsers and handlers
as functions of the bytes (`ModbusParsed`, `DisplayParsed` and `EmulatorParsed` tell
whether bytes are the beginning of a frame, a frame, or neither; `OnDisplayData` returns
what is published). Lost and spurious bytes are faults of the line. Which receiver,
which frames and which bounds come with `conditions`, chosen in `Init` for ever, so that
one run compares a noisy line under a punctual loop with a blocked loop and with frames
that follow each other closely. The frames of the inverter and its dongles are those
captured in comments of the code; the requests are those `DisplayProtocol` builds, and
the emulator's answers go through the display's handlers: `IntactFrameHandled` then
says that a display reads the values the emulator was told to send.

**SoyosourceDisplay** has two queues of frames, from and to the inverter, from which
frames get lost. `UpdateSetting` is `update_setting()` with the guard of cpp:683, and
`WrittenFields` says which fields each of the protocol versions puts in a write. The
inverter and its dongle are external; a V2 dongle reports no grid frequency. The button
(`PressButton`) reboots the inverter; its dongle then answers with empty frames for a
while, which `Accepts` leaves out. A
"patient" user changes nothing before his last change is shown. The protocol version,
the dongle, the options of the select and the user come with `installation`, which is
chosen in `Init` and never changes.

## 3. The runs

Values are scaled down: watts, ticks and the clock's period are small numbers that
keep the order of the thresholds, so that every branch is still taken.

| Run | Checks | Shows |
| --- | --- | --- |
| `vm_outage` | `TypeOK`, `DemandWithinLimit`, `SilentSensorShutsDownBeforeWrap`, `FeedbackMatchesFrame`, `EmergencySurvivesRestart` | outages, NaN, overflowing readings, a maximum lowered below the minimum, overrides and a restart in every order: the cut-off comes in time, the demand exceeds the maximum only where the minimum does, the feedback value is what was sent, a saved emergency off survives |
| `vm_settings` | `DemandWithinLimit`, `EmergencyStops`, `LoweredMaximumTakesEffect` | the OEM rules with settings changed and in part restored: the demand exceeds the maximum only through a buffer of more than twice the maximum, and emergency off and a lower maximum reach the inverters |
| `inverter` | `TypeOK`, `OfflineExactlyWhenSilent`, `SensorsAgree`, `CutOffReported` | the offline report is exact at the threshold of the code |
| `limiter` | `LimiterTypeOK`, `UnheardInverterIsStopped`, `StandbyOnlyWithCause`, `IsInverterWatchdog` | the two components are a watchdog of the inverter |
| `closed_loop` | `LoopTypeOK`, `SettledOnTarget`, `SettledNeverExports`, `LoadIsFollowed` | the loop follows a load although readings may be late, settles within the rounding of the split and does not export |
| `demand_sweep` | `NegativeIsClampedSum`, `OemNeverExceedsConsumption`, `DemandMonotone`, `FrameCarriesShare` | the calculations agree with their definitions, and have no dips; an inverter can read its share from the frame |
| `receivers` | `TypeOK`, `IntactFrameHandled`, `NoMixedFrame`, `OnlySentFrames` | with a punctual loop an undisturbed frame is handled once and means what its sender meant, whatever came before; with a loop blocked for 150 ms frames get lost, but are never mixed; where a checksum is verified, one fault never changes what is read |
| `display_writes` | `TypeOK`, `NothingUnknownWritten`, `ModeHasOneName`, `WritesOnlyTheirSetting` | behind a dongle, on the display port and overhearing the display, with reboots: nothing is written that was not read, and nothing reverted if the user waits until his last change is shown |
| `display_follow` | `EntitiesFollowInverter` | entities come to show the settings of the inverter |
| `vm_wrap`, `display_unknown`, `display_frequency` | one property each | are violated: see [section 6](#6-disagreements-found) |

Bounds, and why they are enough:

- `MaxRestarts = 1`: a restart resets everything but the flash, the last frame and
  `latched`, none of which depends on how many restarts there were; before the restart
  the flash takes every value the entities can store.
- `ClockMod = 8` with a timeout of 2 ticks: the clock wraps several times in a run, with
  readings at every phase of it. `LoopSlack = 1` makes an update late. The settings runs
  have no slack, since their properties set no deadline.
- `vm_outage`: the minimum is 2 W and the maximum 5 or 1 W, so that the entity takes it
  below the minimum. The readings of -4 and 32765 W fall below the minimum and reach
  the maximum; on top of a demand of 4 W or more the latter overflows an `int16_t`, and the
  demand falls to the minimum. 5 W do not divide by two inverters. Demands between
  the limits are in `closed_loop` and `demand_sweep`.
- `vm_settings`: the maximum is 6 or 1 W and the buffer -2 or 3 W, one negative and one
  beyond twice the lower maximum. The readings of -4, 3.1 and 9.5 W fall under the
  rules of the OEM calculation in turn; 3.1 W also rounds. Only the maximum is restored
  from the flash; the other entities are reset.
- `demand_sweep` has the ends of `int16_t`, a maximum below two of the minima, and buffers
  beyond twice the maximum.
- `inverter` uses the real threshold of 15. `limiter` uses 2, because the counter only
  delays; one answer under way is enough, since a later answer is like a lost one and a
  prompt one. The inverter's counters saturate one above the largest value compared.
- `closed_loop` has three inverters, so that the split rounds by up to 2 W, a buffer of
  2 W, which is the least that prevents exports, and loads below, within and above what
  the inverters deliver, with two neighbours to see a correction of 1 W. One measurement
  is under way at a time, for as long as the loop takes.
- `demand_sweep`: windows at the thresholds, at the ends of `int16_t`, and from 250 to
  265 W with a maximum of 600 W, where a share needs the second byte of the frame.
- `receivers`: ticks of 25 ms. On a noisy line one fault happens in a behaviour, the loop
  is at most one tick late, and the spurious bytes are the start bytes of the receiver (or
  a byte that chooses another frame length) and 0. The blocked loop comes up to 6 ticks
  late, with three lost bytes. Frames that follow each other closely leave 25 ms between
  them, less than the timeout, so that only the checksum separates them. Bursts end
  within the header, in the middle and before the checksum. The emulator answers two
  statuses; the display receives its 55th and 56th, one on either side of 45 degrees.
  The pause of 9 ticks for the blocked loop is the least: with 8, loop may sleep through
  it and `NoMixedFrame` fails. The frames of the MS51 dongles, which have two lengths in
  one protocol, meet the blocked loop with two lost bytes; the theorem `FramesNotMixed`
  covers those of the first version alone, not the longer ones of the second.
- `display_*`: two values for the settings that take part in a property, one for the
  others. Two frames may be under way behind the dongle, where polls and writes queue up
  behind each other; one on the display port, whose guard looks only at the settings read
  last, and in `display_follow`, where a queue can only delay.

`demand_sweep` has no deadlock check, as it ends with its window. Every other run
checks for deadlock.

Each property is paired in `PROJECT.json` with a mutant: a definition with a plausible
slip (marked by a comment in the modules) under which TLC finds the property violated.

## 4. Fairness

- `VirtualMeter!FairSpec`: weak fairness of `Update` and `Tick`. The component is a
  `PollingComponent` whose interval ESPHome's scheduler serves from the main loop;
  time passes. Readings and users are not fair: the liveness properties hold with none.
- `Inverter!FairSpec`: `Poll` for the same reason; an answer under way arrives or is
  lost. `CutOffReported` assumes that restarts stop.
- `ClosedLoop!FairLoopSpec`: also the smart meter, which measures and publishes again and
  again, and now and then before the output it measured has changed (strong fairness of
  `FreshReading`). This last assumption is needed: if every reading is one update old,
  the loop corrects what it has corrected already, and `LoadIsFollowed` is violated by an
  oscillation. A meter that publishes more often than every update interval (3 s by
  default) gives such readings.
- `SoyosourceDisplay!Spec`: the poller, a dongle that finds its inverter, and strong
  fairness of reception and handling of each kind of frame, which says that no kind of
  frame is lost for ever; a reboot the user asked for takes place. Users and losses are
  not fair.

## 5. The proofs

| Theorem | Module | Says, for every value of the constants |
| --- | --- | --- |
| `CalculatedDemandBounds` | `PowerDemandProofs` | for every reading and last demand, overflowing or not, all calculations return a demand that is not negative, and above the maximum only in the two cases of `AboveMaximum` |
| `NegativeComputesClampedSum` | `DemandSweepProofs` | `Spec => []NegativeIsClampedSum`, for all settings and readings |
| `OemStaysBelowConsumption` | | `Spec => []OemNeverExceedsConsumption` |
| `FrameAlwaysCarriesShare` | | `Spec => []FrameCarriesShare`: the bytes and the checksum of the power frame |
| `DemandNeverDips` | | `Spec => DemandMonotone`, for all three calculations |
| `TypeCorrect` | `VirtualMeterProofs` | `Spec => []TypeOK`: all values fit their C++ types |
| `DemandLimited` | | `Spec => []DemandWithinLimit`, if no maximum is negative |
| `SilenceShutsDown` | | `Spec => []SilentSensorShutsDownBeforeWrap` |
| `FeedbackCorrect` | | `Spec => []FeedbackMatchesFrame` |
| `EmergencyHolds` | | `Spec => EmergencySurvivesRestart` |
| `InverterTypeCorrect` | `InverterProofs` | `Spec => []TypeOK`, for every threshold, set of frames and number of answers under way |
| `OfflineCorrect` | | `Spec => []OfflineExactlyWhenSilent` |
| `SensorsCorrect` | | `Spec => []SensorsAgree` |
| `LimiterTypeCorrect` | `LimiterProofs` | `LimiterSpec => []LimiterTypeOK` |
| `UnheardStopped` | | `LimiterSpec => []UnheardInverterIsStopped`, for every threshold, interval and lateness of the loop |
| `LimiterImplementsWatchdog` | | `LimiterSpec => IsInverterWatchdog`: it refines the abstract watchdog |
| `StandbyHasCause` | | `LimiterSpec => StandbyOnlyWithCause` |
| `LimiterKeepsMeter`, `LimiterOfflineCorrect` | | what the components promise alone they promise on one bus: silence, feedback and emergency stop of the virtual meter, the offline report of the inverter |
| `LoopTypeCorrect` | `ClosedLoopProofs` | `LoopSpec => []LoopTypeOK` |
| `SettledLoopIsOnTarget` | | `LoopSpec => []SettledOnTarget`, for any number of inverters, any loads and all settings of the schema |
| `SettledLoopNeverExports` | | `LoopSpec => []SettledNeverExports` |
| `ReceiverTypeCorrect` | `FrameReceiverProofs` | `Spec => []TypeOK`, for all three receivers |
| `IntactFramesHandled` | | `Spec => []IntactFrameHandled`, for any frames, faults and delays |
| `FramesNotMixed` | | `Spec => [](ShortFrames => NoMixedFrame)` |
| `OnlySentFramesRead` | | `Spec => [](Unmistakable => OnlySentFrames)`: what one lost or spurious byte makes of a frame is refused, for frames of any number, length and content |
| `DisplayTypeCorrect` | `SoyosourceDisplayProofs` | `Spec => []TypeOK`, for all installations |
| `OnlyKnownWritten` | | `Spec => []NothingUnknownWritten`, where the refusal works |
| `WritesChangeOnlyTheirSetting` | | `Spec => WritesOnlyTheirSetting`, there too |
| `ModeNamesAgree` | | `Spec => []ModeHasOneName`, with standard labels |

### Assumptions

The assumptions about constants stand in the modules that declare them, and TLC
evaluates them in every run.

| Assumption | Module | Says |
| --- | --- | --- |
| `ConfigAssumption`, `EntityAssumption`, `EnvironmentAssumption` | `VirtualMeter` | what the schema in `__init__.py` accepts; the values of the number entities fit the casts of their setters, and the divider is never 0; the time |
| `InverterAssumption` | `Inverter` | the threshold is positive and fits a `uint8_t` |
| `LimiterAssumption` | `Limiter` | the same of the composition, and that its operation status sensor is the inverter's |
| `LoopAssumption` | `ClosedLoop` | the calculation for signed readings, fixed settings, and loads up to 27 kW, so that no reading leaves `int16_t` |
| `SweepAssumption` | `DemandSweep` | settings and readings fit their C++ types, and neither the minimum nor the maximum is negative |
| `LineAssumption`, `FramesAssumption` | `FrameReceiver` | a frame takes no longer than 50 ms on the line; the frames sent have the start, length and checksum of their protocol |
| `DisplayAssumption`, `NoneAssumption` | `SoyosourceDisplay` | settings are bytes other than 0, and the inverter has the operation modes that the protocol knows |

Some theorems have a hypothesis of their own, because the property does not hold of
everything the code can be configured to be:

- `NoNegativeMaximum` (`DemandLimited`): neither the configuration nor the number entity can
  make the maximum negative. The schema asks for at least 1, and the entity starts at 0
  by default; only a configured `min_value` below 0 is excluded, with which a calculation
  returns a negative demand. Any maximum below the minimum and any buffer are allowed.
- `RefusalWorks` (`OnlyKnownWritten`, `WritesChangeOnlyTheirSetting`): no V2 dongle, and
  either a patient user or the display port, where a write carries only the fields of its
  command. The runs `display_unknown` and `display_frequency` show that both parts are
  needed.
- `LabelsDistinct` (`WritesChangeOnlyTheirSetting`): the options map names every mode of
  the inverter, each differently. Otherwise a user may take one mode for the other.
- `StandardLabels` (`ModeNamesAgree`): the options map has the labels of the text sensor.
  One example of the repository has others: see [section 6](#6-disagreements-found).
- `ReadAsMeant` (`IntactFramesHandled`, `FramesNotMixed`, `OnlySentFramesRead`): the handler
  reads from the bytes of a frame what its sender meant. `MCFrameReceiver` assumes it of the captured frames and
  the requests, so that TLC evaluates it. Of the emulator's answers it is proved: by
  `StatusRead` and `SettingsRead` the display decodes them to the values they were made
  from, for every value of `status_counter_`.
- `ShortFrames` (`FramesNotMixed`): all frames have the least length that the receiver can
  take some of their bytes for. So have the frames of the bus, the requests, the answers
  of the inverter and of the emulator, and those of an MS51 dongle of the first version
  unless the start byte of the former, 0xA6, occurs in them.
- `Unmistakable` (`OnlySentFramesRead`): what a plain sum needs to tell a frame from all
  that one fault can make of it. The frames have one length. A word that begins with a
  lead is refused, whichever frames follow it; a lead is the rest of a frame from a later
  start byte on, or what a fault in the first two bytes makes of a frame if these then
  promise another length. And either `loop()` is never so late that it forgets the first
  half of a frame (`NeverCut`), or no frame contains a start byte behind its first
  (`NoFalseStart`). The second part is needed because start bytes do occur inside frames:
  the settings of an inverter limited to 900 W contain 0x5A, that of the other protocol.

Every condition of the run `receivers` whose frames are summed up and satisfy `Detectable`,
the premise of `OnlySentFrames`, also satisfies `Unmistakable`: the display with frames of
the emulator (one of them with that 0x5A), the display with frames of a V2 dongle, on a
noisy line and without pauses, and the emulator with noisy requests.
`display_writes` satisfies `RefusalWorks`, `LabelsDistinct` and `StandardLabels` with all
of its installations.

### How they go

`DemandSweep`: the calculations are compared on integers once `Int16Cast` has removed the
casts. `DemandNeverDips` compares two readings a watt apart, rule by rule; where the OEM
rules change over at the maximum it needs `OemBuffer`, and the two other calculations need a maximum that is not below
the minimum (`SoundSettings`). The
checksum of the power frame is unrolled (`ChksumOfSeven`), as the frame has seven bytes
before it; a recursive function means what its definition says only if such a function
exists, so the proof gives one.

`VirtualMeter`:

- `TypeCorrect`: `TypeOK` is inductive, since it also says that settings and flash hold
  only `PossibleValues`; without that the divider could become 0 in a later step. The
  lemmas `CalculationType`, `FrameOfUpdate` and `NumberSetupType` carry the casts.
- `SilenceShutsDown`: the property is about the frame, and a step that lets time pass
  does not know why the frame is what it is. `ClockInv` connects the history variable
  `silence` with the code's wrapped difference of clock values, up to the period of the
  clock. `TimedOutAtLastUpdate` says that an update at a time the timeout had expired
  left 0 W or manual mode; together with `since_update <= UpdateInterval + LoopSlack`
  it yields the property.
- `DemandLimited`: `Bounded` states the limits of one calculation, with the two ways
  beyond the maximum; `CalculatedDemandBounds` proves it for each of the three, where the
  casts hold whatever overflows. The history variable `limit` keeps the maximum of the
  reading, which the settings may have left behind.
- `FeedbackCorrect`: from the split alone (`PerDeviceCovers`): the shares add up to the
  demand or less than one watt per inverter more.
- `EmergencyHolds`: `LatchInv` says that while `latched` holds the flash and the switch
  are on and the switch's restore mode reads the flash, so that no restart turns it off.

`Inverter`:

- `OfflineCorrect`: `no_response_count` starts again at every offline report and no longer
  tells how long the inverter has been silent. `CountInv` says that it agrees with
  `unanswered` before the first report, and that afterwards the published status does.
- `SensorsCorrect`: `SensorsAgree` is inductive once it is known that no text of the table
  reads "Offline" (`StatusTextType`) and that a frame has a value for each sensor
  (`MeasuredType`).

`Limiter`: the invariant `LimiterInv` has three parts beside the types. `CountInv` is that
of the inverter. `HeardInv`: while the status shown is normal, the polls that went
unanswered, each at most `PollInterval + LoopSlack` after the last, account for the time
the inverter was not heard. With `CountInv` that bounds this time by `OfflineTime`. `StopInv`
is about the age the status had at the last update, `unheard - since_update`: if it was
beyond `OfflineTime`, that update commanded 0 W. No part is inductive alone, and the
property, which has a deadline counted from now, says too little about the last update.
The step of the watchdog follows from `StopInv` before the step. Of the inverter's
variables the module proves the types again: the theorem of `InverterProofs` is about the
variables of that module, and the prover does not instantiate it.

`ClosedLoop`: `settled` says that demand and output come from a fresh reading, nothing of
what they are. `FreshDemand` says that a demand computed from a fresh reading is the target
less an excess of the rounding, clamped; the calculation adds the demand commanded last,
which is below the output by that excess (`OutputFollows`). An update then turns `FreshDemand`
into `OnTarget`, whichever output the reading was taken at. The number of inverters
enters as `Slack`, what their shares add to the demand (`SplitSlack`).

`FrameReceiver`: `Loop` reads any number of bytes, by a recursive function over them. What
it does to a buffer that is a fragment of a frame is shown by the least position at which
it would fail (`LeastOf`), since the induction theorems of the library are out of reach:
`ReadFrame` for the last bytes of a frame, `ReadFragment` for bytes that are too few for
one.

- `IntactFramesHandled`: time is what separates frames. `BytesAreRecent` says that bytes in
  the UART are no older than the last call of `loop()`, and bytes in the buffer no older than
  `since_byte` and a late call tell. After a pause longer than both, the UART is empty and
  the next call forgets the buffer (`PauseClears`). `IntactInv` adds that an undisturbed
  frame is either waiting, with the bytes kept and the bytes in the UART together its
  first `sent` bytes, or was delivered. `BufferIsYoung` keeps `loop()` from forgetting
  the frame while it arrives.
- `FramesNotMixed`: with losses only, the bytes that have arrived since the pause are at most
  as many as were sent, and if they are as many, they are these. A part of a frame is
  thus shorter than any frame that can begin with one of its bytes, and is never handled.
- `OnlySentFramesRead`: the running sum of a frame ends at 0 with its checksum, and the same
  bytes summed at shifted places keep the difference the sums began with. A frame with
  one byte less (`LackRefused`) or one more (`GainRefused`) therefore ends at 0 only if that
  byte was equal to one it is taken for, which `Detectable` excludes or which makes no
  difference. `Partial` says what a buffer may hold: nothing, the beginning
  of the frame that is arriving, or, after a fault, bytes that are `Doomed`, that is,
  refused whichever frames complete them. `OneByteRead` carries this over a byte, `BytesRead`
  over the bytes of the UART. A late call of `loop()` reads many bytes at once, and may forget
  the buffer before or keep it, so the invariant `OnlySentInv` is about what it would read
  now: reading on from the buffer is harmless, and reading on from an empty one too, unless
  the buffer is too `Young` to be forgotten. What it would read changes byte by byte as
  bytes arrive or get lost (`ReadsOn`). An invariant about the buffer alone would not be
  inductive, since a late call forgets half a frame and may take a later byte for its start.
  TLC checked `OnlySentInv` on all conditions of the run before it was proved.

`SoyosourceDisplay`:

- `DisplayTypeCorrect`: `DisplayInv` gives the types of the frames in both queues, from which
  everything else is filled.
- `OnlyKnownWritten`: `KnownInv` says that the answers and writes under way, and
  `current_settings_` once anything is shown, hold values of the inverter.
- `WritesChangeOnlyTheirSetting`: the frames of both queues and the settings read last form
  a line of copies of the inverter's settings, each older than the one before. `FieldInv`
  describes one field of that line. While no change of it is under way, all copies agree
  (`Steady`); after a change they agree with the new value from some place on (`Arriving`).
  A write that changes the field without having been asked to would need an old copy
  behind a new one. A patient user asks for nothing else before the copy that is shown is new.
- `ModeNamesAgree`: `NamesInv` connects the entities with the frames they were published
  from.

Two attempts at a proof failed because the model was wrong. `Punctual` did not ask that
a frame and a call of `loop()` together take no longer than 50 ms: a frame that arrives
as slowly as the line allows may else be forgotten while `loop()` is late by less than the
timeout, with numbers no run had. And `Meaning` had overlapping guards, so that the meaning
of an inverter's answer was left open where it equals the name of a request.

### Model-checked only

- All liveness properties (`EmergencyStops`, `LoweredMaximumTakesEffect`, `CutOffReported`,
  `LoadIsFollowed`, `EntitiesFollowInverter`): the provers know neither fairness nor
  `ENABLED`.
- `OnlySentFrames` where the frames are not `Unmistakable`; no condition of the run is such
  one.
- `NoMixedFrame` for the frames of the MS51 dongles of the second version: a lost byte can
  make a frame of 25 bytes look like one of 17, and then only the checksum refuses it. That
  it does is what `Unmistakable` says of single frames, and `OnlySentFramesRead` then that
  nothing but frames is read, but with any number of losses the sums can agree.

## 6. Disagreements found

Each of these is a run that expects a violation:

1. `vm_wrap`: 49.7 days into an outage the difference of clock values starts at 0 again
   (cpp:195); for the length of the timeout the last demand is commanded again,
   although the code has announced "Shutting down for safety reasons." (cpp:56).
2. `display_unknown`: the guard against unknown settings looks at the operation mode
   after the new one was stored (`soyosource_display.cpp:676,683`), so selecting a mode
   before the first settings frame writes 0 for all other settings.
3. `display_frequency`: behind a V2 dongle the grid frequency is never read
   (`soyosource_display.cpp:490`), and every write sets it to 0.

Others met while modelling, which no run repeats:

- The `max_power_demand` number may go below `min_power_demand`; the demand is then the
  minimum, above the maximum, unless zero output is on. The schema refuses such settings
  (`__init__.py:63`). `DemandWithinLimit` allows for it in `AboveMaximum`, and `vm_outage`
  goes there.
- For a buffer of more than twice the maximum the OEM rules return `abs(buffer - max)`
  (cpp:176), more than the house consumes, whereas the example says a positive buffer
  "tries to avoid exporting power" (`esp32-limiter-example.yaml:79`).
  The demand is then above the maximum by up to the buffer: `DemandWithinLimit` allows for
  it in `AboveMaximum`, and `vm_settings` goes there. `OemNeverExceedsConsumption`,
  `DemandMonotone` and `LoweredMaximumTakesEffect` exclude it by `OemBuffer`.
- Near the ends of `int16_t` the calculation for signed readings overflows: a house that
  draws 32765 W on top of 6 W is given the minimum. The demand stays within its limits
  (`DemandWithinLimit`), but is not the one the reading calls for; `NegativeIsClampedSum` and
  `DemandMonotone` exclude it by `NoOverflow`.
- The frames captured from the original meter, listed in the comment of `send()`, have
  `0D`, 13 W, for 40 W and 3 inverters (`soyosource_modbus.cpp:107-109`), which is rounded
  down: 39 W in all. `update()` rounds up with `ceilf` (`soyosource_virtual_meter.cpp:78`)
  and sends 14 W, 42 W in all. `FeedbackMatchesFrame` states what the code does, and the
  closed loop settles within that rounding.
- The table of status texts is indexed with the raw status, so "AC voltage too low"
  belongs to 0x0A; its comment says 0x10 (`soyosource_inverter.cpp:34`).
- The options map of `esp8266-display-display-version-limiter-example.yaml:150` names PV
  and battery constant power the other way round than the code
  (`soyosource_display.cpp:848-854`) and than the other example; `ModeHasOneName` fails
  with it. `ModeNamesAgree` proves it for the labels of the code, its hypothesis
  `StandardLabels`.
- The emulator passes 0x83 as the operation mode of its settings in the display version
  (`soyosource_inverter_emulator.cpp:254`), the whole mode byte of a captured frame, where
  only the mode 8 belongs; shifted and cut it becomes 3, a mode no table knows, so that a
  controller refuses to write any setting but the mode to the emulator. `SettingsMeaning` takes the
  nibble the frame can carry.
- In the display version the operation mode is written with function 0x03
  (`soyosource_display.cpp:749`), which the emulator takes for a request of the settings
  and answers (`soyosource_inverter_emulator.cpp:252`).
- `docs/wifi-version-display-pdus.txt:22` shows the reboot command with the settings in
  it; the code sends zeros (`soyosource_display.cpp:614-640`).
- The sum that guards the display's frames has gaps, which `Detectable` leaves out: a
  spurious byte equal to the checksum before the end of a frame completes it one byte
  early, with all values behind the byte shifted; a lost byte equal to the start byte of
  the next frame is replaced by it; and two faults can cancel out.

## 7. What is not modelled

- The flow control pin of the RS485 bus, which is raised and lowered within one call; that
  the controller talks over an answer is a lost byte of `FrameReceiver`.
- Of a display's status the output power (of which two protocol versions show an estimate)
  and the total energy, of its settings the device type, and all texts of errors.
- `status_counter_` of the emulator beyond the bound of the run; the temperature starts
  again after 80 statuses.
- A limiter that takes its operation status from the display: that status never goes
  offline, and nothing in the code promises that it does.
- A divider of 0 and an output power limit above 2550 W, which the schemas of the numbers
  do not refuse: the casts are then undefined (`EntityAssumption` excludes the first).
- The schemas and code generation; the ranges they enforce are assumptions.
- How long the inverters take to follow a frame: `ClosedLoop` has the delay of the meter.
- Logging, MQTT, the web server and ESPHome itself, except for its poller, its
  preferences and its restart.

## 8. Plan

Done, in this order: calculation, virtual meter, inverter, both composed, closed loop,
bus receiver, display settings, proofs about calculation and virtual meter; frames of bus,
display and emulator with their receivers, late readings in the closed loop, reboots of
the inverter, proofs about the inverter; proofs about the limiter, the closed loop, the
calculations against their definitions, the display and the receivers.

Every invariant and action property of the runs is now a theorem, under the hypotheses of
section 5. What remains:

1. `NoMixedFrame` for the frames of an MS51 dongle of the second version and few losses.
2. An abstract specification of the settings path, a register that is read and written,
   which `SoyosourceDisplay` implements for a patient user.
