\* Calls run while a tick runs; devices fail and the compositor restarts.
SPECIFICATION Spec
CONSTANTS
  Physical <- Portrait
  Visible <- Nothing
  Zooms <- NoPinch
  DefaultMode <- Headless
  Padding <- Aligned
  MaxSurfaces = 3
  Overlap = TRUE
  Restarts = TRUE
  DeviceFails = TRUE
INVARIANTS WindowHeld PresenterOfWindow
