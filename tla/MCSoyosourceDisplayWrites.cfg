\* A dongle, the display port with any user, and an overheard display.
SPECIFICATION Spec
CONSTANTS
  None = None
  Installations <- MCSafetyInstallations
INVARIANTS
  TypeOK
  NothingUnknownWritten
  ModeHasOneName
PROPERTIES
  WritesOnlyTheirSetting
