CONSTANTS
  Capacity = 2
  BATCH_SIZE = 2
  MaxEvents = 3
  MaxFaults = 2
SPECIFICATION FairSpec
INVARIANTS TypeOK EventsAccounted ExactlyOnce NoSilentLoss DuplicatesBounded OverrunNeedsFailedFlush CleanShutdownKeepsAll
PROPERTIES PersistedEventually StopCompletes
