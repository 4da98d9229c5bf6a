SPECIFICATION Spec
CONSTANTS
  DWays = 2
  IWays = 1
  Words = 2
  LATENCY_IN_CYCLES = 1
  NoTag = NoTag
  NoLine = NoLine
  None = None
  Sets <- MCSets
  Uncached <- MCUncached
  Initial <- MCInitial
  Accesses <- MCAccesses
  Fetches <- MCFetches
INVARIANT NoUnexpectedAnswer
PROPERTY EveryAccessAnswered
PROPERTY ImplementsMemory
