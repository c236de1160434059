\* One buffer, in any format of the tables.
CONSTANTS
  MaxBuffers = 1
  Formats = {"ABGR8888", "XBGR8888", "ARGB8888", "XRGB8888", "BGR888", "RGB565",
             "ABGR16161616F", "ABGR2101010", "RGBX1010102", "RGBA1010102"}
CHECK_DEADLOCK FALSE
SPECIFICATION Spec
INVARIANTS
  StrideInBytes
