\* Two tasks, three faults anywhere after the configuration.
SPECIFICATION Spec
CONSTANTS
  t1 = t1
  t2 = t2
  Task = {t1, t2}
  Idle = Idle
  Nobody = Nobody
  Bits <- EntryBits
  Guards <- EntryGuards
  SettingsOf <- EntrySettings
  Checks <- EntryChecks
  Covers <- EntryCovers
  MaxFlips = 3
INVARIANTS
  IndInv
  OwnSettingsOrAlert
  NoFalseAlert
  NoStrayWrite
  SlotsAreOwn
PROPERTIES
  ImplementsContract
