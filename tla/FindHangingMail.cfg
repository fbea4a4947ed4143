SPECIFICATION FairSpec
CONSTANTS
  w1 = w1
  w2 = w2
  Emails = {1, 2}
  Hanging = {1}
  Workers = {w1}
  NOTIFY_BATCH = 2
  MaxRollbacks = 0
CHECK_DEADLOCK FALSE
PROPERTIES
  EveryMailSettles
