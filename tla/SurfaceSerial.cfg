\* Calls and ticks take turns.
SPECIFICATION FairSpec
CONSTANTS
  Physical <- Portrait
  Visible <- Areas
  Zooms <- Pinch
  DefaultMode <- Headless
  Padding <- Aligned
  MaxSurfaces = 2
  Overlap = FALSE
  Restarts = FALSE
  DeviceFails = FALSE
INVARIANTS TypeOK RendersAtSize
PROPERTIES RequestApplied WindowShowsFrame
