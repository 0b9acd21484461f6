CONSTANTS
  u1 = u1
  u2 = u2
  Updates <- MCUpdates
  Confirmed <- MCConfirmed
  Version <- MCVersion
  Original = Original
  Damaged = Damaged
  None = None
SPECIFICATION Spec
INVARIANT TypeOK
INVARIANT ProgramSurvives
INVARIANT RecordedIsInstalled
PROPERTY RefinesInstall
