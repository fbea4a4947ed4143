SPECIFICATION MCSpec
CONSTANTS
  h1 = h1
  h2 = h2
  s1 = s1
  s2 = s2
  NoRow = NoRow
  Incidents = {i1}
  Handlers = {h1, h2}
  Sweepers = {s1, s2}
  Grades <- MCGrades
  MaxAge = 2
  MaxFailures = 1
SYMMETRY MCSymmetry
INVARIANTS
  ToldOncePerSweep
  StampsAlone
PROPERTIES
  FrozenAlone
  TransitionsAlone
