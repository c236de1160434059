\* One JNI thread, stores seen in program order, quiet start.
SPECIFICATION FairSpec
CONSTANTS
  Jni = Jni
  Comp = Comp
  e1 = e1
  e2 = e2
  NoEvent = NoEvent
  Producers = {Jni}
  Event = {e1, e2}
  INPUT_QUEUE_SIZE = 4
  OrderedStores = TRUE
  QuietStart = TRUE
INVARIANTS TypeOK NoSlotRace
PROPERTIES FifoSpec HeadIsTaken
