SPECIFICATION FairSpec
CONSTANTS
  Tasks = {t1, t2, t3}
  Idle = Idle
  TickDelays = {0, 1, 3}
PROPERTIES
  SleepersRunAgain
