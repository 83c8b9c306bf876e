CONSTANTS
  Event = Event
  NoEvent = NoEvent
  Capacity = 2
  MaxEvents = 4
SPECIFICATION FairSpec
INVARIANTS TypeOK QueueOutlivesThreads NoPushRefused SummaryConsistent
PROPERTIES ShutdownCompletes PushReturns
