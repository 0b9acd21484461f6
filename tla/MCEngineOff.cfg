CONSTANTS
  Joys <- MCJoys
  Samples <- MCSamples
  Stick <- MCStick
  ChirpCycles = 1
  MaxNet = 6
  MaxChanges = 4
  MaxLost = 0
  Restarts = FALSE
  None = None
  NoReply = NoReply
  Intervals = {}
  Frequencies = {}
  Sticks = {}
  Horizon = 0
SPECIFICATION LiveSpec
PROPERTY EngineOffStopsWheels
