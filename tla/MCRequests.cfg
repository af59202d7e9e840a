CONSTANTS
  Txns = {t1, t2, t3}
  Nobody = nobody
  MaxAppends = 2
  MaxBatch = 2
  Horizon <- MCHorizon
  OpenTicks <- MCOpenTicks
  ResolutionWindow = 2
  Requests = {r1, r2}
  MaxPauses = 2
  MaxTime = 3
  Handlers = {"h1", "h2"}
  Keys = {"k1", "k2"}
  Identities = {"ann", "bob"}
  Calls <- MCCalls
  DefaultCategory = "other"
  Incidents <- MCIncidents
  Customers = {"c1"}
  Complaints <- MCComplaints
  Browsers = {"b1", "b2"}
  MaxRows = 2
  MaxCases = 2
  MaxPosts = 2
SPECIFICATION MCSpec
INVARIANTS
  ChainIntact
  RowsFollowPauses
  OneEffectPerKey
  StrangersStayOut
  RowsTellWhatHappened
  DeflectionsAreCounted
PROPERTIES
  FiredStaysFired
  ImplementsLog
CHECK_DEADLOCK FALSE
