\* Both threads queue events, as frame_timer_cb() makes them.
SPECIFICATION Spec
CONSTANTS
  Jni = Jni
  Comp = Comp
  e1 = e1
  e2 = e2
  NoEvent = NoEvent
  Producers = {Jni, Comp}
  Event = {e1, e2}
  INPUT_QUEUE_SIZE = 4
  OrderedStores = TRUE
  QuietStart = TRUE
PROPERTY FifoSpec
