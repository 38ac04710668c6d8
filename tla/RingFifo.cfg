CONSTANTS
  N = 3
  MaxItems = 5
SPECIFICATION Spec
CHECK_DEADLOCK FALSE
INVARIANT NoOverlap
PROPERTY StreamSpec
