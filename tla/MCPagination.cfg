\* Ints of three bits.
SPECIFICATION Spec
CONSTANTS
  MaxInt = 3
  defaultListLimit = 2
  MaxRows = 3
PROPERTIES PageIsWindow
