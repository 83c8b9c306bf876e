CONSTANTS
  CQ_CACHE_MAX_EVENTS = 4
  MAX_BACKOFF = 32
  MaxMessages = 2
SPECIFICATION FairSpec
INVARIANTS TypeOK OneCompletionPerTag NoWaitForNothing NothingOutlivesTheCall RefusalHonoured BackoffMatchesFailures
PROPERTIES EndedCallIsRetried StopReturnsAfterEnd
