\* Three tasks besides idle, PSE on, delays of one and two ticks, ticks that
\* wrap at 3, faults in the PMP CSRs and the slots.
SPECIFICATION FairSpec
CONSTANTS
  MaxTasks = 4
  NSlots = 4
  PSE = TRUE
  Privileged = {0}
  WordMod = 3
  TickRate = 1
  MsPerSecond = 1
  Delays = {1, 2}
  Faults = TRUE
  Attacked = {1, 2}
INVARIANTS
  IndInv
  CurrentTaskOwnsCore
  ContextsPreserved
  OwnPmpSettings
  AlertUnlessHidden
  IdleOnlyWhenDrained
PROPERTIES
  WakeOnlyWhenDrained
  IdleTickWakesAllDue
  ReturnRestoresPmp
  CorruptionStopsTask
  ReadyTaskRuns
CHECK_DEADLOCK FALSE
