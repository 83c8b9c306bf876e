CONSTANTS
  Capacity = 2
  BATCH_SIZE = 2
  MaxEvents = 3
  MaxFaults = 0
SPECIFICATION Spec
INVARIANT DrainedOnShutdown
