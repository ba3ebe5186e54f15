\* Login attempts and LLM requests against their sliding windows.
SPECIFICATION Spec
CONSTANTS
  e1 = e1
  ip = ip
  user = user
  Buckets <- MCBuckets
  Charges <- MCCharges
  Resettable = {e1}
  Limit <- MCLimit
  Window <- MCWindow
  PerSecond = 2
  MaxNow = 6
  MaxGranted = 5
  MaxRestarts = 1
CHECK_DEADLOCK FALSE
INVARIANTS
  Throttled
  ForgivenOnce
  RetryAfterHonest
