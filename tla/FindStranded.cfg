SPECIFICATION Spec
CONSTANTS
  ada = ada
  bob = bob
  h1 = h1
  h2 = h2
  NoRow = NoRow
  Changes = {c1}
  Users = {ada, bob}
  Handlers = {h1, h2}
  MaxStamp = 1
  NewChanges <- MCStandalone
  HatsOf <- MCBuilderApprover
  EditInputs <- MCLowEdit
SYMMETRY HandlerSymmetry
INVARIANTS
  NotStranded
