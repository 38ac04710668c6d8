CONSTANTS
  MaxRecords = 2
  MaxLines = 2
  MaxUrcs = 0
  MaxOverdue = 2
  MaxBehind = 4
  MaxFaults = 1
SPECIFICATION HttpSpec
CHECK_DEADLOCK FALSE
INVARIANT AcceptedIsStored
