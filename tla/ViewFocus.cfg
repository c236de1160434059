\* Two addresses for three views: a closed view leaves its address to the next.
CONSTANTS
  Addresses = {a1, a2}
  NULL = NULL
  MaxViews = 3
SPECIFICATION Spec
INVARIANTS
  TypeOK
  FrontIsEntered
PROPERTIES
  KeepsFocus
