\* Two /health requests beside a daemon that starts and stops the manager.
CONSTANTS
  Callers = {daemon}
  Probers = {p1, p2}
  Transports <- MCTransports
SPECIFICATION HSerialSpec
INVARIANT HTypeOK
INVARIANT StoppedIsQuiet
INVARIANT RunningIsBacked
INVARIANT OkMeansBacked
INVARIANT OkMeansNoFailure
INVARIANT UnavailableHasCause
