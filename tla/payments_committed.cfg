SPECIFICATION PaySpec
CONSTANTS
  NoProvider = NoProvider
  Providers = {a, b}
  SelfProfiles = {}
  StaffProfiles = {b}
  Responses = {}
  Workers = {w1}
  RequestTypes = {"normal"}
  Crashes = FALSE
  AccountDeletion = TRUE
  MaxAmount = 3
  MaxInstallments = 3
  ReceiptsRejected = FALSE
CHECK_DEADLOCK FALSE
INVARIANTS
  Committed
