\* Three inverters follow a house that draws up to 18 W.
SPECIFICATION FairLoopSpec
CONSTANTS
  NaN = NaN
  Unset = Unset
  PowerDemandCalculation = "NEGATIVE_MEASUREMENTS_REQUIRED"
  MinPowerDemand = 3
  MaxPowerDemand = 14
  Buffer = 2
  PowerDemandDivider = 3
  ZeroOutputOnMinPowerDemand = TRUE
  PowerSensorInactivityTimeout = 0
  UpdateInterval = 1
  HasOperationStatus = FALSE
  Entities = {"emergency_power_off"}
  NumberValues <- MCNumberValues
  InitialValue <- MCInitialValue
  RestoreValue = {}
  RestoreMode <- MCRestoreMode
  Readings = {}
  OperationStatusIds = {}
  Second = 1
  ClockMod = 1
  LoopSlack = 0
  MaxRestarts = 1
  Loads = {0, 7, 8, 18}
INVARIANTS
  LoopTypeOK
  SettledOnTarget
  SettledNeverExports
PROPERTIES
  LoadIsFollowed
