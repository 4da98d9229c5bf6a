\* The distance the storage claims, on the entry of this core.
SPECIFICATION Spec
CONSTANTS
  Widths = {640}
  RowBits = 4
  TopMask = 15
  MaxFlips <- OneFlip
INVARIANTS
  SingleFlipNoticed
CHECK_DEADLOCK FALSE
