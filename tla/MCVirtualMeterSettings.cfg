\* The OEM calculation with settings changed at run time and restored.
SPECIFICATION FairSpec
CONSTANTS
  NaN = NaN
  Unset = Unset
  PowerDemandCalculation = "DUMB_OEM_BEHAVIOR"
  MinPowerDemand = 2
  MaxPowerDemand = 6
  Buffer <- MCNegativeBuffer
  PowerDemandDivider = 2
  ZeroOutputOnMinPowerDemand = TRUE
  PowerSensorInactivityTimeout = 1
  UpdateInterval = 1
  HasOperationStatus = FALSE
  Entities = {"max_power_demand", "buffer", "power_demand_divider",
              "manual_power_demand", "manual_mode", "emergency_power_off"}
  NumberValues <- MCNumberValues
  InitialValue <- MCInitialValue
  RestoreValue = {"max_power_demand"}
  RestoreMode <- MCRestoreMode
  Readings <- MCOemReadings
  OperationStatusIds = {0}
  Second = 1
  ClockMod = 4
  LoopSlack = 0
  MaxRestarts = 1
  MaxValues = {1, 6}
  BufferValues <- MCBufferValues
  DividerValues = {1, 2}
  ManualValues = {8}
  SwitchRestoreMode = "ALWAYS_OFF"
INVARIANTS
  DemandWithinLimit
PROPERTIES
  EmergencyStops
  LoweredMaximumTakesEffect
