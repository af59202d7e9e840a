CONSTANTS
  Deadlines <- MCDeadlines
  Clocks <- MCClocks
  ClockOf <- MCClockOf
  Workers = {w1, w2}
  Requests = {r1, r2}
  Limit = 2
  Nobody = nobody
  MaxDeaths = 1
  Events = {e1, e2}
  Original = e1
  Anchorers = {a1, a2}
  Tokens = {tst1, tst2}
  NoToken = none
  MAX_ATTEMPTS = 2
  PassLimit = 1
  MaxRecords = 3
  MaxJobDeaths = 1
SPECIFICATION BackgroundSpec
INVARIANTS
  ClaimsHold
  CheckpointCatchesAlteration
PROPERTIES
  SweepStepsAreLedgerSteps
  DueIsFired
  EveryRecordIsAttested
  StampsChangeOnlyInRaces
