\* labwc ends by itself while a call is about to end it.
SPECIFICATION Spec
CONSTANTS
  k1 = k1
  Callers = {k1}
  MaxThreads = 2
  Patience = "loop"
INVARIANT TerminatesLiveDisplay
