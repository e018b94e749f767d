\* A user who selects a mode before the settings are read.
SPECIFICATION Spec
CONSTANTS
  None = None
  Installations <- MCUnknownInstallations
INVARIANTS
  NothingUnknownWritten
