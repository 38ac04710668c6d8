CONSTANTS
  NVS_MAX_DATA_COUNTER = 2
  MaxRecords = 2
  MaxFaults = 1
  Size <- MCSize
  EraseAtBoot = FALSE
  SdWorks = TRUE
  NvsErrors = FALSE
SPECIFICATION FairSpec
CHECK_DEADLOCK FALSE
PROPERTIES Drained RestartOutCompletes
