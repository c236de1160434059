\* Calls and ticks take turns; compositor runs come and go.
SPECIFICATION FairSpec
CONSTANTS
  Capacity = 6
  MaxGestures = 3
  Overlap = FALSE
INVARIANT TypeOK
PROPERTIES
  NoDoublePress PressBeforeRelease HoverBeforeClick PressAtGesture
  GestureClicks ButtonComesUp
