\* A nativeStop() between the flag and the event loop.
SPECIFICATION FairSpec
CONSTANTS
  k1 = k1
  Callers = {k1}
  MaxThreads = 3
  Patience = "flag"
PROPERTY CallsReturn
