CONSTANTS
  Slugs = {s1}
  Requests = {r1, r2}
  MaxAddr = 2
  MaxChanges = 2
  MaxPermits = 1
  BacklogMax = 1
SPECIFICATION Spec
INVARIANTS LimitPerMint BilledAtMostOnce
PROPERTIES RequestsEnd CacheConverges
CHECK_DEADLOCK FALSE
