SPECIFICATION Spec
CONSTANTS
  IntBits = 16
  ByteBits = 2
  WordBytes = 2
  MntBits = 8
  QuarterTurn = 8
  N_PMP_REGIONS = 16
  AddressBits = 4
  Naturals16 <- MCNaturals16
  SomeInts <- MCSomeInts
  Widths <- MCWidths
  Texts <- MCTexts
  MemoryWords = 2
  Memories <- MCMemories
  Floats <- MCFloats
  Eighths <- MCEighths
  Coordinates <- MCCoordinates
  Triangles <- MCTriangles
  Angles <- MCAngles
  Grid <- MCGrid
  SomeLayouts <- MCLayouts
INVARIANTS
  PrintfAgrees
  StringsCompared
  ReductionsExact
  ApproximationsClose
  TasksIsolated
CHECK_DEADLOCK FALSE
