CONSTANTS
  Outputs = {o1, o2, o3}
  None = None
SPECIFICATION FairSpec
INVARIANTS AllOrNothing NeverLeftDark
PROPERTY LoginAppears
CHECK_DEADLOCK FALSE
