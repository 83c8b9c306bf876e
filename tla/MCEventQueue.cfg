CONSTANTS
  Producers = {p1, p2}
  Consumers = {c1, c2}
  Events = {e1, e2}
  NoEvent = NoEvent
  Capacity = 2
  MaxPushes = 4
SPECIFICATION FairSpec
INVARIANTS TypeOK RingConsistent NoLostWakeup NoSleeperAfterClose
PROPERTIES CallsReturnAfterClose ImplementsFifo
