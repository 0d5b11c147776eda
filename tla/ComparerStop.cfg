SPECIFICATION Spec
CONSTANTS
  Bytes = {a, b}
  MaxOld = 2
  MaxNew = 2
  BlockSize = 2
  NewBlockSizes = {1, 2, 4}
PROPERTY ProcessReturns
CHECK_DEADLOCK FALSE
