CONSTANTS
  MaxTapIndex = 1
  Services = {s1, s2}
  MaxAttempts = 2
  MaxEvents = 3
  MaxDeliver = 2
  MaxConcurrent = 2
  Ops = {"deploy", "stop"}
  Faults = {"dbfail", "vmcrash"}
SPECIFICATION Spec
INVARIANTS TapExclusive EveryIndexOwned DeviceAccounted StoppedHasTeardown
PROPERTY HandleConsumed
CHECK_DEADLOCK FALSE
