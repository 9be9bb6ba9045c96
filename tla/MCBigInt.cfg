\* Three variables that share numbers.
CONSTANTS
  Holder = {x, y, z}
  Number = {0, 7}
  Nil = Nil
  MaxCells = 3
SPECIFICATION Spec
PROPERTIES
  ReadBack
