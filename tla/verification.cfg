SPECIFICATION FairVerificationSpec
CONSTANTS
  MaxRequests = 2
  MaxKills = 1
CHECK_DEADLOCK FALSE
INVARIANTS
  VerificationTypeOK
  BadgeBacked
  ActiveOnce
PROPERTIES
  BadgeSteps
  BadgeEnds
