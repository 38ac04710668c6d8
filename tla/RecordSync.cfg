CONSTANTS
  NVS_MAX_DATA_COUNTER = 1
  MaxRecords = 3
  MaxFaults = 1
  Size <- MCSize
  EraseAtBoot = FALSE
  SdWorks = TRUE
  NvsErrors = TRUE
SPECIFICATION Spec
CHECK_DEADLOCK FALSE
INVARIANTS TypeOK MutexUnlessIgnored NoSilentLoss DisplacedOnlyAfterWrap
