CONSTANTS
  Items <- Edges
  Capacity = 4
  MaxPush = 7
  Blank = Blank
  FilterSize = 2
  MaxEvents = 2
SPECIFICATION EchoSpec
INVARIANT EchoTypeOK
INVARIANT RingInv
INVARIANT PairsNeighbours
INVARIANT MeanOfLast
PROPERTY RefinesFifo
