CONSTANTS
  Capacity = 2
  BATCH_SIZE = 2
  MaxEvents = 3
  MaxFaults = 1
SPECIFICATION Spec
INVARIANT BatchWithinBound
