SPECIFICATION HistorySpec
CONSTANTS
  NoProvider = NoProvider
  Providers = {a, b}
  SelfProfiles = {a}
  StaffProfiles = {b}
  Responses = {note}
  Workers = {w1, w2}
  RequestTypes = {"normal", "competitive", "urgent"}
  Crashes = FALSE
  AccountDeletion = FALSE
CHECK_DEADLOCK FALSE
INVARIANT
  ExecutionAgreed
