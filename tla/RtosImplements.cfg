\* The build without the PSE, task 2 privileged, faults; three tasks besides
\* idle, until tick 9.
SPECIFICATION NoWrapSpec
CONSTANTS
  MaxTasks = 4
  NSlots = 4
  PSE = FALSE
  Privileged = {0, 2}
  WordMod = 10
  TickRate = 1
  MsPerSecond = 2
  Delays = {0, 1, 4}
  Faults = TRUE
  Attacked = {}
PROPERTIES
  ImplementsScheduler
CHECK_DEADLOCK FALSE
