\* Settings with a maximum of 1 W, which is below two of the minima, to 600 W.
SPECIFICATION Spec
CONSTANTS
  Mins = {0, 2, 5}
  Maxs = {1, 5, 10, 600}
  Buffers <- MCBuffers
  Lasts = {0, 4, 10}
  Windows <- MCWindows
CHECK_DEADLOCK FALSE
INVARIANTS
  NegativeIsClampedSum
  OemNeverExceedsConsumption
  FrameCarriesShare
PROPERTIES
  DemandMonotone
