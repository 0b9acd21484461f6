CONSTANTS
  Joys <- MCJoys
  Samples <- MCSamples
  Stick <- MCStick
  ChirpCycles = 1
  MaxNet = 6
  MaxChanges = 4
  MaxLost = 1
  Restarts = TRUE
  None = None
  NoReply = NoReply
  Intervals = {}
  Frequencies = {}
  Sticks = {}
  Horizon = 0
SPECIFICATION Spec
INVARIANT TypeOK
INVARIANT SentIsDone
INVARIANT BuzzerOnlyInAlert
