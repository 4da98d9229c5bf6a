\* Words of three bits, a tick of five clocks, six words of time.
SPECIFICATION Spec
CONSTANTS
  WordMod = 8
  Increment = 5
  Horizon = 45
INVARIANTS
  DeadlinesOnGrid
  NoEarlyTick
  NoGlitch
PROPERTIES
  EveryTickCounted
