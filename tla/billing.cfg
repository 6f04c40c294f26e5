CONSTANTS
  Sessions = {s1, s2}
  Services = {a}
  Metal = {a}
  Handlers = {h1, h2}
  Amount = 2
  Price = 1
  MaxCreating = 2
  MaxSetbacks = 1
  MaxFaults = 1
SPECIFICATION Spec
INVARIANTS CreditedOnce LedgerAccounts 
PROPERTIES PaymentCredited DrainEnds
CHECK_DEADLOCK FALSE
