SPECIFICATION DispatchSpec
CONSTANTS
  NoProvider = NoProvider
  Providers = {a, b}
  Crashes = TRUE
  Tiers = {pro, basic}
  Eligible = {a, b}
  Web = {r1}
  Beat = beat
  TierChanges = FALSE
CHECK_DEADLOCK FALSE
INVARIANTS
  DispatchTypeOK
  PoolInvited
PROPERTY
  OneInvitation
