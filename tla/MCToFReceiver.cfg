CONSTANTS
  Items <- Bytes
  Capacity = 5
  MaxPush = 10
  Blank = Blank
  PacketLength = 2
  MaxLost = 1
SPECIFICATION ToFSpec
INVARIANT ToFTypeOK
INVARIANT StampIsHeaderArrival
INVARIANT ResyncWithinOneFrame
INVARIANT AlignedStaysAligned
PROPERTY FramesAdvance
CHECK_DEADLOCK FALSE
