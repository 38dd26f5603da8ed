SPECIFICATION JobsSpec
CONSTANTS
  Clients = {c1, c2}
  Senders = {s1, s2}
  MaxPool = 2
  Batch = 1
  Dispatchers = {d1, d2}
  MaxRelists = 1
  MaxLostRuns = 1
  Clerks = {k1}
  MaxCycles = 2
  MaxAwards = 1
CHECK_DEADLOCK FALSE
INVARIANTS
  CampaignSound
  OnceEach
PROPERTIES
  JobsDone
