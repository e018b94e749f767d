\* Lost, late, dropped and missing answers.
SPECIFICATION FairSpec
CONSTANTS
  NaN = NaN
  NoResponseThreshold = 15
  StatusFrames <- MCStatusFrames
  StatusCodes = {0, 2, 4, 16}
  MaxInFlight = 2
INVARIANTS
  TypeOK
  OfflineExactlyWhenSilent
  SensorsAgree
PROPERTIES
  CutOffReported
