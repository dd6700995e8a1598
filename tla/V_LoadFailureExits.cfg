CONSTANTS
  Outputs = {o1, o2, o3}
  None = None
SPECIFICATION Spec
INVARIANT LoadFailureExits
CHECK_DEADLOCK FALSE
