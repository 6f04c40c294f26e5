CONSTANTS
  Pollers = {p1, p2}
  MaxRows = 3
  BatchSize = 2
  MaxOpen = 2
  MaxFailures = 2
  Stale = TRUE
SPECIFICATION Spec
INVARIANTS NoEventLost OnceWithoutErrors
PROPERTY ChannelRefinement
CHECK_DEADLOCK FALSE
