CONSTANTS
  Projects = {p1}
  Slugs = {a, b}
  Requests = {r1, r2}
  MaxRows = 2
  MaxServices = 1
  NoSlug = NoSlug
SPECIFICATION Spec
INVARIANTS SlugUnambiguous QuotaBounded
PROPERTIES  StreamEnds
CHECK_DEADLOCK FALSE
