CONSTANTS
  NVS_MAX_DATA_COUNTER = 1
  MaxRecords = 1
  MaxFaults = 0
  Size <- MCSize
  EraseAtBoot = TRUE
  SdWorks = TRUE
  NvsErrors = FALSE
SPECIFICATION Spec
CHECK_DEADLOCK FALSE
INVARIANT MutualExclusion
