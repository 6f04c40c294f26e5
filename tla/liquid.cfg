CONSTANTS
  Services = {s1, s2}
  Cold = {s1}
  Ports = {p1, p2}
  Tasks = {1, 2}
  MaxEvents = 2
  MaxDeliver = 1
  MaxConcurrent = 2
  MaxCalls = 1
  BacklogMax = 1
  Ops = {"start", "stop"}
  Faults = {"fail", "idle", "restart"}
  NoSvc = NoSvc
  NoPort = NoPort
SPECIFICATION Spec
INVARIANTS PortInv BilledOnce
PROPERTIES UsageKept StaleSwept LeakOnlyByProvision
CHECK_DEADLOCK FALSE
