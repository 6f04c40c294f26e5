CONSTANTS
  Names = {n1}
  Services = {a, b}
  Requests = {r1}
  Lookups = {q1}
  Managers = {m1}
  MaxRows = 2
  MaxDns = 1
  CacheMax = 1
  NoSvc = NoSvc
  NoName = NoName
SPECIFICATION Spec
INVARIANTS OnlyProved ActiveHasCert
PROPERTIES DomainsPruned
CHECK_DEADLOCK FALSE
