\* A 200 over an unhealthy ingress or a failing lifecycle monitor.
CONSTANTS
  Callers = {daemon}
  Probers = {p1}
  Transports <- MCTransports
SPECIFICATION HSerialSpec
INVARIANT OkMeansHealthy
