\* A window without a size of its own, or larger than the default; an old
\* benchmark, a new one and a server at once.
CONSTANTS
  Sizes = {0, 3}
  Default = 2
  MaxSizes = 2
  MaxPids = 3
SPECIFICATION Spec
INVARIANTS
  TypeOK
  NoneForgotten
  OneFrameUnderWay
  ReadbackFits
PROPERTIES
  ClientEnds
