CONSTANTS
  NVS_MAX_DATA_COUNTER = 1
  MaxRecords = 1
  MaxFaults = 1
  Size <- MCSize
  EraseAtBoot = TRUE
  SdWorks = TRUE
  NvsErrors = FALSE
SPECIFICATION FairSpec
CHECK_DEADLOCK FALSE
PROPERTY RestartCompletes
