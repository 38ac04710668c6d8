CONSTANTS
  Cap = 2
  MaxBytes = 5
  MaxLate = 1
  MaxRecords = 2
  MaxLines = 2
  MaxUrcs = 1
  MaxOverdue = 1
  MaxBehind = 1
  MaxFaults = 1
  RegisterTries = 2
  PowerTries = 2
  MaxMissed = 2
  MaxSilences = 2
SPECIFICATION DriversSpec
CHECK_DEADLOCK FALSE
INVARIANTS DriversTypeOK InOrder ExactAnswer NothingLost
INVARIANTS AcceptedIsStored Undisturbed
PROPERTIES Fetched CallsReturn CloseSeen CallEnds GsmInitEnds
