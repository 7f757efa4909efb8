SPECIFICATION TSpec
CONSTANTS
  Retries = 2
  RetryDelay = 1
  Asks = {0, 2, 6}
  PostTimeout = 1
  RoundBudget = 4
  MaxCalls = 3
  MaxCrashes = 0
INVARIANT RetryAfterHonoured
CHECK_DEADLOCK FALSE
