CONSTANTS
  Horizon <- MCHorizon
  OpenTicks <- MCOpenTicks
  AcknowledgementWindow = 1
  ResolutionWindow = 2
  WarningThresholds <- MCWarningThresholds
  ResponseWindows = {}
  SchemeWarningThresholds = {}
  Bodies = {}
  MassEvents = {}
  Actors <- MCActors
  MaxPauses = 2
  MaxTime = 5
  MaxEvents = 6
SPECIFICATION MCSpec
INVARIANTS
  RowsMatchArithmetic
  ReplayRestoresTheClock
PROPERTIES
  PauseIsNeutral
CHECK_DEADLOCK FALSE
