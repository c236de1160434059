\* A size is stored while a tick takes the one before.
SPECIFICATION Spec
CONSTANTS
  Physical <- Portrait
  Visible <- Nothing
  Zooms <- Pinch
  DefaultMode <- Headless
  Padding <- Aligned
  MaxSurfaces = 2
  Overlap = TRUE
  Restarts = FALSE
  DeviceFails = FALSE
INVARIANT RendersAtSize
