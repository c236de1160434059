\* A nativeStart() during the startup of the compositor before.
SPECIFICATION Spec
CONSTANTS
  k1 = k1
  Callers = {k1}
  MaxThreads = 3
  Patience = "nothing"
INVARIANT OneCompositor
