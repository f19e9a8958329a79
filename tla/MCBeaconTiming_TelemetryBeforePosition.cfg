CONSTANTS
  TickWrap <- MCTickWrap
  InitDelay <- MCInitDelay
  Cycle <- MCCycle
  TelEncCycle <- MCTelEncCycle
  Spacing <- MCSpacing
  PositionWait <- MCPositionWait
  CollectorDelays <- MCCollectorDelays
  NumTelemGroups <- MCNumTelemGroups

INIT Init
NEXT Next

INVARIANT TelemetryBeforePosition

\* A run_once thread really ends with chThdExit.
CHECK_DEADLOCK FALSE
