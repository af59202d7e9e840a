CONSTANTS
  DayLength = 6
  ChangeHour = 2
  ChangeSpan = 2
  WeekLength = 2
  MAX_DAYS = 3
  MAX_CLOSED = 2
  Windows = {1, 2, 3, 5, 6}
  Officers = {"o1", "o2"}
  Positive = {"hours"}
  Emptied = {"thresholds"}
  Kept = {"reference"}
  Values = {0, 1, 2}
  Bodies <- MCBodies
  Calendars = {1, 2}
  Seeded <- MCSeeded
  MaxPublished = 3
  c1 = c1
  c2 = c2
  Cases = {c1, c2}
  Filings <- MCFilings
  Decisions <- MCDecisions
  Determinations = {"upheld"}
  Periods <- MCPeriods
  Targets = {"investigating", "reopened"}
  LastDay = 1
  AGE_BANDS <- MCBands
  Lookback = 1
  References = {"p1"}
  Payments = {2}
  s1 = s1
  s2 = s2
  Supervisors = {s1, s2}
  Percents = {50}
  TopBand = 3
  People = {s1, s2}
  Templates <- MCTemplates
  MaxVersions = 2
  MaxReturns = 1
  Importers = {"i1", "i2"}
  Files <- MCFiles
  MaxImports = 3
  Deciders = {"ann", "ben"}
  CATEGORY_HINTS <- MCHints
  Texts <- MCTexts
  SizeBands = {"top", "small"}
  ValuesChosen = {"card", "high"}
  MaxSuggestions = 2
  MaxDecisions = 3
SPECIFICATION MCSpec
PROPERTIES
  FiledReturnsRegenerate
CHECK_DEADLOCK FALSE
