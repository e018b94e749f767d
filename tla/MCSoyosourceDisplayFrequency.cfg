\* A patient user behind a V2 dongle.
SPECIFICATION Spec
CONSTANTS
  None = None
  Installations <- MCFrequencyInstallations
INVARIANTS
  NothingUnknownWritten
