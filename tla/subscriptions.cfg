SPECIFICATION FairSubscriptionsSpec
CONSTANTS
  MaxSubs = 2
  Plans = {0, 1}
  Workers = {w1, w2}
CHECK_DEADLOCK FALSE
INVARIANTS
  SubscriptionsTypeOK
  AccessPaid
  OneCurrent
PROPERTIES
  EndsOnce
  NotLeftWithout
  LatestExpires
