SPECIFICATION ServicesSpec
CONSTANTS
  MaxAttempts = 2
  Keys = {k}
  NoKey = NoKey
  Prices = {0, 1}
  Tabs = {t}
  Deliveries = {1}
  PageActions = {"success", "cancelled"}
  MaxPurchases = 2
  Credits = 2
  Clerks = {k1, k2}
  Completed = {q1, q2}
  Savers = {a1, a2}
  NoAward = NoAward
  Award = 1
  MaxPoints = 3
  MaxCycles = 2
  MaxAwards = 2
  ReviewIds = {v1}
  Editors = {e1, e2}
  Desks = {h1, h2}
  Staff = {m}
  Unassigned = Unassigned
  Participants = {u1, u2}
  Provider = u1
  Readers = {u2}
  MaxMessages = 2
  Subcategories = {s1, s2}
  Devices = {p1, p2}
  MaxDecisions = 1
  Uploaders = {i1, i2}
  Limits = {1, 4}
  MaxItems = 4
  MaxPictures = 4
  Posters = {p1, p2}
  Quotas = {1, 2}
  MaxPosts = 4
  MaxPlans = 1
  MaxCrashes = 1
CHECK_DEADLOCK FALSE
INVARIANTS
  ServicesTypeOK
  PaymentsSound
  LoyaltySound
  AwardBacked
  ReviewsSound
  ServedAndShown
PROPERTIES
  ImplementsSettlement
  NothingTakenBack
