\* A call may run while a tick runs.
SPECIFICATION FairSpec
CONSTANTS
  Capacity = 6
  MaxGestures = 1
  Overlap = TRUE
PROPERTY PressBeforeRelease
