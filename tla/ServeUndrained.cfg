CONSTANTS
  Callers = {daemon}
  Daemon = daemon
SPECIFICATION ServeSafety
INVARIANT OkMeansDrained
