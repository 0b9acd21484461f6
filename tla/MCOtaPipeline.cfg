CONSTANTS
  u1 = u1
  u2 = u2
  Updates <- MCUpdates
  Confirmed <- MCConfirmed
  Version <- MCVersion
  Original = Original
  None = None
  MaxQueue = 1
  MaxFaults = 1
SPECIFICATION LiveSpec
INVARIANT TypeOK
INVARIANT InstalledWasApproved
PROPERTY AskedAgain
PROPERTY ApprovedIsInstalled
CHECK_DEADLOCK FALSE
