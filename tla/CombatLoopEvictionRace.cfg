SPECIFICATION Spec
CONSTANTS
  Threads <- TwoThreads
  Requests <- Contended
  Duration <- MCDuration
  Throwing = {"bad"}
  ReportDraws = 0
  MaxTicks = 7
  Capacities = {1}
  None = None
INVARIANT Reproducible
