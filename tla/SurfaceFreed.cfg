\* A surface is cleared while a tick is about to hand a frame over.
SPECIFICATION Spec
CONSTANTS
  Physical <- Portrait
  Visible <- Nothing
  Zooms <- NoPinch
  DefaultMode <- Headless
  Padding <- Aligned
  MaxSurfaces = 2
  Overlap = TRUE
  Restarts = FALSE
  DeviceFails = FALSE
INVARIANT PresenterLives
