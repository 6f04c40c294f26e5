CONSTANTS
  Instances = {i1, i2}
  MaxRows = 1
  MaxRestarts = 1
SPECIFICATION Spec
PROPERTY DueSettled
CHECK_DEADLOCK FALSE
