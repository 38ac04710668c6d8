CONSTANTS
  PPM_COUNT = 3
  WATER_PERIOD = 1
  Readings <- MCReadings
SPECIFICATION FairSpec
CHECK_DEADLOCK FALSE
INVARIANTS TypeOK OneSlotPast MeanIsFresh
PROPERTY MeanReported
