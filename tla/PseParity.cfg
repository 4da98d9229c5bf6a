SPECIFICATION Spec
CONSTANTS
  Widths <- ManyWidths
  RowBits = 4
  TopMask = 15
  MaxFlips <- ManyFlips
INVARIANTS
  BlockSizeIsOptimal
  CoveredBlockNoticed
  BlindColumns
CHECK_DEADLOCK FALSE
