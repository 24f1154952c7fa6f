SPECIFICATION MCSpec
CONSTANTS
  Threads <- TwoThreads
  Requests <- AnyKind
  Duration <- MCDuration
  Throwing = {"bad"}
  ReportDraws = 0
  MaxTicks = 7
  Capacities = {2, 4}
  None = None
INVARIANT TypeOK
INVARIANT Reproducible
INVARIANT CanonicalEntries
PROPERTY Answered
