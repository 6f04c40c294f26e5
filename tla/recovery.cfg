CONSTANTS
  MaxTapIndex = 1
  Services = {s1}
  MaxAttempts = 2
  MaxEvents = 2
  MaxDeliver = 2
  MaxConcurrent = 2
  Ops = {"deploy", "delete", "restart", "rollback"}
  Faults = {"restart", "maintenance", "suspend", "audit", "redeliver", "acklost"}
SPECIFICATION Spec
INVARIANTS IndexAccounted LiveAccounted
 
CHECK_DEADLOCK FALSE
