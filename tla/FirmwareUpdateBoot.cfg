CONSTANTS
  WAIT_MINUTES = 2
  MAX_FILES = 2
  MaxContent = 2
  MaxFaults = 0
SPECIFICATION FairSpec
CHECK_DEADLOCK FALSE
PROPERTIES BootCompletes
