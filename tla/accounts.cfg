CONSTANTS
  Names = {n1}
  Emails = {e1, e2}
  Signups = {p1, p2}
  Codes = {c1}
  MaxKeys = 1
  Services = {s1}
  Projects = {j1}
  Owner = e1
  Variables = {x, y}
  Writers = {w1, w2}
  None = None
SPECIFICATION Spec
INVARIANTS WorkspacePerName AdmittedTogether SerialPerPath
CHECK_DEADLOCK FALSE
SYMMETRY Interchangeable
