CONSTANTS
  MaxDay = 4
  MonthLength = 3
  MaxRecords = 2
SPECIFICATION FairSpec
INVARIANTS TypeOK Kept SynWasPosted NextDayPosted
PROPERTIES OncePerRun DayPosted
CHECK_DEADLOCK FALSE
