CONSTANTS
  LastMonth = 2
  MaxAttemptsPerPeriod = 2
  MaxPeriodsPerRun = 2
  MaxAttempts = 2
  LastEdition = 1
  Oversized = {}
  First = "d1"
  Second = "d2"
  Dispatchers = {"d1", "d2"}
  MaxAccidents = 1
  Disputes = {"x"}
  EventTypes = {"created", "resolved"}
  Endpoints = {"ledger", "ops"}
  Wants <- MCWants
  Enqueuers = {"e1", "e2"}
  Beside = "e2"
  MaxPostAttempts = 2
  LastSequence = 2
  MaxReplays = 1
  MaxLosses = 1
SPECIFICATION OutboundSpec
INVARIANTS
  LastPeriodWasMailed
  RepeatsNeedAnAccident
  FirstAttemptsInOrder
PROPERTIES
  OwedMonthsSettle
  QueuedEventsSettle
CHECK_DEADLOCK FALSE
