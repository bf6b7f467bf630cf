\* One /health request beside three tasks that call start() and shutdown().
CONSTANTS
  Callers = {c1, c2, c3}
  Probers = {p1}
  Transports <- MCTransports
SPECIFICATION HSpec
INVARIANT SettledStatus
INVARIANT RunningReportHasUptime
