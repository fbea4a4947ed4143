SPECIFICATION MCSpec
CONSTANTS
  ada = ada
  bob = bob
  gus = gus
  h1 = h1
  h2 = h2
  NoRow = NoRow
  Demands = {d1}
  Users = {ada, bob, gus}
  Internal = {ada, bob}
  Handlers = {h1, h2}
  HatsOf <- MCHats
SYMMETRY HandlerSymmetry
INVARIANTS
  TypeOK
  AssessedIsComplete
  StatusMatchesDecision
  SegregationKept
PROPERTIES
  TransitionsAlone
