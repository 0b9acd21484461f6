CONSTANTS
  Items = {a, b}
  Capacity = 4
  MaxPush = 8
  Blank = Blank
SPECIFICATION Spec
PROPERTY PopRemovesOne
