\* Noisy lines, a blocked main loop, and frames that follow each other; ticks of 25 ms.
SPECIFICATION Spec
CONSTANTS
  Conditions <- MCConditions
  Devices = {35, 36}
  Gap = 2
  FrameTime = 1
  MaxStatuses = 2
INVARIANTS
  TypeOK
  IntactFrameHandled
  NoMixedFrame
  OnlySentFrames
