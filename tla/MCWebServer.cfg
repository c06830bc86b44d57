SPECIFICATION Spec
CONSTANTS
  r1 = r1
  r2 = r2
  Requests = {r1, r2}
  MaxRequests = 2
  MaxErrors = 2
INVARIANT ServerInv
PROPERTY ShutdownEnds
CHECK_DEADLOCK FALSE
