CONSTANTS
  Horizon <- MCHorizon
  OpenTicks <- MCOpenTicks
  AcknowledgementWindow = 1
  ResolutionWindow = 2
  WarningThresholds <- MCWarningThresholds
  ResponseWindows = {2}
  SchemeWarningThresholds <- MCSchemeWarningThresholds
  Bodies = {"ombudsman"}
  MassEvents = {"outage"}
  Actors <- MCActors
  MaxPauses = 1
  MaxTime = 3
SPECIFICATION FairSpec
INVARIANTS
  StatusMatchesClock
PROPERTIES
  DueRowsFire
  FiredIsHistory
  ImplementsLedger
CHECK_DEADLOCK FALSE
