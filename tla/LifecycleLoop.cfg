\* A caller that waits for the event loop; the compositor may end by itself.
SPECIFICATION FairSpec
CONSTANTS
  k1 = k1
  Callers = {k1}
  MaxThreads = 4
  Patience = "loop"
INVARIANTS
  TypeOK OneCompositor StopStops JoinsOnce
PROPERTIES TerminatesItsOwn CallsReturn
