CONSTANTS
  MaxTapIndex = 1
  Services = {s1, s2}
  MaxAttempts = 2
  MaxEvents = 3
  MaxDeliver = 1
  MaxConcurrent = 1
  Ops = {"deploy", "stop"}
  Faults = {"timeout"}
SPECIFICATION Spec
PROPERTIES Settled TeardownCompletes StopReaches
CHECK_DEADLOCK FALSE
