SPECIFICATION Spec
CONSTANTS
  Readers = {r1, r2}
  Old = old
  Sensors = {"center", "left"}
  Order <- CenterLeft
  Blocks <- LeftCenter
SYMMETRY Symmetry
INVARIANTS
  TypeOK
  OwnEchoes
