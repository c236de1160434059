\* Three buffers; every format of the tables, and two that Android does not have.
CONSTANTS
  MaxBuffers = 3
  Formats = {"ABGR8888", "XBGR8888", "ARGB8888", "XRGB8888", "BGR888", "RGB565",
             "ABGR16161616F", "ABGR2101010", "RGBX1010102", "RGBA1010102"}
\* A crash ends the process.
CHECK_DEADLOCK FALSE
SPECIFICATION Spec
INVARIANTS
  TypeOK
  FallbackIsClean
  ListHoldsBuffers
  HandlesBalanced
  FormatAgrees
PROPERTIES
  CrashOnlyWhen
