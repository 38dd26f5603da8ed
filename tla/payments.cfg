SPECIFICATION PaySpec
CONSTANTS
  NoProvider = NoProvider
  Providers = {a, b}
  SelfProfiles = {}
  StaffProfiles = {}
  Responses = {}
  Workers = {w1}
  RequestTypes = {"normal", "competitive"}
  Crashes = FALSE
  AccountDeletion = FALSE
  MaxAmount = 2
  MaxInstallments = 2
  ReceiptsRejected = TRUE
CHECK_DEADLOCK FALSE
INVARIANTS
  MirrorsPlan
  PayTypeOK
  ConfirmedIsSum
PROPERTY
  ConfirmedStands
