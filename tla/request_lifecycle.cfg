SPECIFICATION Spec
CONSTANTS
  w1 = w1
  w2 = w2
  NoProvider = NoProvider
  Providers = {a, b, c}
  SelfProfiles = {a}
  StaffProfiles = {b}
  Responses = {note}
  Workers = {w1, w2}
  RequestTypes = {"normal", "competitive", "urgent"}
  Crashes = TRUE
  AccountDeletion = TRUE
SYMMETRY WorkerSymmetry
CHECK_DEADLOCK FALSE
INVARIANTS
  TypeOK
  AssignedWhenEngaged
  StagesInOrder
PROPERTIES
  ExclusiveAssignment
  NeverBackToPool
  ImplementsContract
