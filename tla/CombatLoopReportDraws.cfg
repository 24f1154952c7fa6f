SPECIFICATION Spec
CONSTANTS
  Threads <- OneThread
  Requests <- EarlyEnds
  Duration <- MCDuration
  Throwing = {"bad"}
  ReportDraws = 1
  MaxTicks = 7
  Capacities = {2}
  None = None
INVARIANT Reproducible
