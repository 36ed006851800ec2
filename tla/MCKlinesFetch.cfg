SPECIFICATION FairFetch
CONSTANTS
  Horizon = 4
  MaxRows = 3
  MaxCandles = 3
  MaxAttempts = 2
  MaxDelay = 3
  RetryAfters <- MCRetryAfters
INVARIANTS
  ClosedHistoryOnly
  PagesExplainCandles
PROPERTIES
  FetchEnds
CHECK_DEADLOCK FALSE
