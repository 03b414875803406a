SPECIFICATION Spec
CONSTANTS
  Ids = {r1, r2}
  Tokens = {x, y}
  NoToken = NoToken
  Numbers <- SomeNumbers
  Capacity = 3
SYMMETRY Symmetry
INVARIANTS
  RingIsWindow
PROPERTIES
  ImplementsLog
