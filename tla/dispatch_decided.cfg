SPECIFICATION FairDispatchSpec
CONSTANTS
  NoProvider = NoProvider
  Providers = {a}
  Crashes = TRUE
  Tiers = {pro, basic}
  Eligible = {a}
  Web = {r1}
  Beat = beat
  TierChanges = TRUE
CHECK_DEADLOCK FALSE
PROPERTY
  WindowsDecided
