\* Sensor outages, overrides and restarts; the clock wraps after 8 ticks.
SPECIFICATION Spec
CONSTANTS
  NaN = NaN
  Unset = Unset
  PowerDemandCalculation = "NEGATIVE_MEASUREMENTS_REQUIRED"
  MinPowerDemand = 2
  MaxPowerDemand = 6
  Buffer = 1
  PowerDemandDivider = 2
  ZeroOutputOnMinPowerDemand = FALSE
  PowerSensorInactivityTimeout = 2
  UpdateInterval = 2
  HasOperationStatus = TRUE
  Entities = {"max_power_demand", "manual_mode", "emergency_power_off"}
  NumberValues <- MCNumberValues
  InitialValue <- MCInitialValue
  RestoreValue = {}
  RestoreMode <- MCRestoreMode
  Readings <- MCReadings
  OperationStatusIds = {0, 2}
  Second = 1
  ClockMod = 8
  LoopSlack = 1
  MaxRestarts = 1
  MaxValues = {1, 5}
  BufferValues = {}
  DividerValues = {}
  ManualValues = {}
  SwitchRestoreMode = "RESTORE_DEFAULT_OFF"
INVARIANTS
  TypeOK
  DemandWithinLimit
  SilentSensorShutsDownBeforeWrap
  FeedbackMatchesFrame
PROPERTIES
  EmergencySurvivesRestart
