SPECIFICATION Spec
CONSTANTS
  ada = ada
  bob = bob
  h1 = h1
  h2 = h2
  NoRow = NoRow
  Changes = {c1}
  Users = {ada, bob}
  Handlers = {h1}
  MaxStamp = 2
  NewChanges <- MCNew
  HatsOf <- MCHats
  EditInputs <- MCEdits
INVARIANTS
  TypeOK
  PolicyMatchesRisk
  AnnouncedOnce
PROPERTIES
  ImplementsLifecycle
  ResolvedIsImmutable
