\* The virtual meter and the inverter on one bus.
SPECIFICATION LimiterSpec
CONSTANTS
  NaN = NaN
  Unset = Unset
  PowerDemandCalculation = "NEGATIVE_MEASUREMENTS_REQUIRED"
  MinPowerDemand = 2
  MaxPowerDemand = 6
  Buffer = 1
  PowerDemandDivider = 2
  ZeroOutputOnMinPowerDemand = FALSE
  PowerSensorInactivityTimeout = 0
  UpdateInterval = 1
  HasOperationStatus = TRUE
  Entities = {"manual_mode", "manual_power_demand"}
  NumberValues <- MCNumberValues
  InitialValue <- MCInitialValue
  RestoreValue = {}
  RestoreMode <- MCRestoreMode
  Readings <- MCReadings
  OperationStatusIds <- MCOperationStatusIds
  Second = 1
  ClockMod = 1
  LoopSlack = 0
  MaxRestarts = 1
  NoResponseThreshold = 2
  StatusFrames <- MCStatusFrames
  MaxInFlight = 1
  PollInterval = 2
INVARIANTS
  LimiterTypeOK
  UnheardInverterIsStopped
PROPERTIES
  StandbyOnlyWithCause
  IsInverterWatchdog
