CONSTANTS
  Default = 2
  SignalPeriod = 1
  RebootPeriod = 1
  DbPeriod = 1
  DayLength = 2
  MaxTime = 6
SPECIFICATION FairSpec
INVARIANTS TypeOK StampsPast
PROPERTIES ClockForward Polled CalendarSpec
CHECK_DEADLOCK FALSE
