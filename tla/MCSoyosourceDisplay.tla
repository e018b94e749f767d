------------------------ MODULE MCSoyosourceDisplay ------------------------
(***************************************************************************)
(* Constants of the TLC runs of SoyosourceDisplay: installations with the  *)
(* options maps of the example configurations and a few settings.          *)
(***************************************************************************)
EXTENDS SoyosourceDisplay

\* esp8266-display-wifi-version-example.yaml
WifiOptions ==
  1 :> "PV" @@ 2 :> "Battery Constant Power" @@ 17 :> "PV Limit" @@ 18 :> "Battery Limit"

\* esp8266-display-display-version-example.yaml
DisplayOptions ==
  1 :> "PV" @@ 2 :> "Battery Constant Power" @@ 16 :> "Battery Limit"

WithModes(modes) ==
  [StartVoltage |-> {48, 49}, ShutdownVoltage |-> {45}, OutputPowerLimit |-> {90},
   StartDelay |-> {6}, GridFrequency |-> {100}, OperationMode |-> modes]

Wifi(dongle, patient, max_queue) ==
  [protocol |-> "WIFI", dongle |-> dongle, options |-> WifiOptions,
   values |-> [WithModes({18}) EXCEPT !.ShutdownVoltage = {45, 46}],
   patient |-> patient, max_queue |-> max_queue]

DisplayPort ==
  [protocol |-> "DISPLAY", dongle |-> "SOYO", options |-> DisplayOptions,
   values |-> [WithModes({2, 16}) EXCEPT !.OutputPowerLimit = {35, 90}],
   patient |-> FALSE, max_queue |-> 1]

Overheard ==
  [protocol |-> "DISPLAY_AND_WIFI", dongle |-> "SOYO", options |-> WifiOptions,
   values |-> WithModes({1, 18}), patient |-> TRUE, max_queue |-> 1]

MCSafetyInstallations == {Wifi("MS51", TRUE, 2), DisplayPort, Overheard}
MCFollowInstallations == {Overheard}
MCUnknownInstallations == {Wifi("SOYO", FALSE, 1)}
MCFrequencyInstallations == {Wifi("MS51_V2", TRUE, 1)}
=============================================================================
