\* The timer's own comment on mtime, against what a read returns.
SPECIFICATION Spec
CONSTANTS
  WordMod = 8
  Increment = 5
  Horizon = 45
INVARIANTS
  ReadsMtime
