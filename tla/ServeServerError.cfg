CONSTANTS
  Callers = {daemon}
  Daemon = daemon
SPECIFICATION ServeSpec
PROPERTY ServerErrorReturns
