CONSTANTS
  WAIT_MINUTES = 2
  MAX_FILES = 2
  MaxContent = 2
  MaxFaults = 2
SPECIFICATION FairSpec
CHECK_DEADLOCK FALSE
INVARIANTS TypeOK BootSlotValid ModemHandedOver
PROPERTIES RunningUntouched BootSettles DownloadSettles
