\* One finger, calls and ticks that take turns, compositor runs that come and go.
SPECIFICATION Spec
CONSTANTS
  Capacity = 6
  MaxGestures = 1
  Overlap = FALSE
PROPERTY PressOfThisRun
