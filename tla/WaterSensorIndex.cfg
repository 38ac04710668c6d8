CONSTANTS
  PPM_COUNT = 3
  WATER_PERIOD = 1
  Readings <- MCReadings
SPECIFICATION Spec
CHECK_DEADLOCK FALSE
INVARIANTS IndexInBounds
