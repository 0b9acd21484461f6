CONSTANTS
  u1 = u1
  u2 = u2
  Updates <- MCUpdates
  Confirmed <- MCConfirmed
  Version <- MCVersion
  Original = Original
  None = None
  MaxQueue = 1
  MaxFaults = 0
SPECIFICATION Spec
INVARIANT StoppedWasApproved
CHECK_DEADLOCK FALSE
