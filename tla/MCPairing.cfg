CONSTANTS
  Sessions = {s1, s2}
  Expiring = {s1}
  Keys = {k}
  None = None
SPECIFICATION LiveSpec
CONSTRAINT Ordinary
INVARIANT TypeOK
INVARIANT ActiveIsWatched
INVARIANT AcknowledgedSurvives
INVARIANT KeyHasOrigin
INVARIANT PairingStaysClosed
PROPERTY ActiveEnds
