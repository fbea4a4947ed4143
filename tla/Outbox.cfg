SPECIFICATION FairSpec
CONSTANTS
  w1 = w1
  w2 = w2
  Emails = {1, 2, 3}
  Hanging = {2}
  Workers = {w1, w2}
  NOTIFY_BATCH = 2
  MaxRollbacks = 1
CHECK_DEADLOCK FALSE
INVARIANTS
  CopiesExplained
PROPERTIES
  SettlesUnlessHanging
