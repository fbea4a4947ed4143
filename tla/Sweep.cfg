SPECIFICATION FairSpec
CONSTANTS
  NoRow = NoRow
  Incidents = {i1, i2}
  Handlers = {h1}
  Sweepers = {s1}
  Grades <- UrgentGrades
  MaxAge = 1
  MaxFailures = 1
PROPERTIES
  OverdueIsTold
  FinishedIsCleared
