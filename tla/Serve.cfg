\* serve() over every subset of its four stoppable tasks, the sampler with
\* the metrics server.
CONSTANTS
  Callers = {daemon}
  Daemon = daemon
SPECIFICATION ServeSpec
INVARIANT STypeOK
INVARIANT ResultTruthful
INVARIANT ManagerStopsFirst
INVARIANT SchedulerOutlivesServers
INVARIANT LeftOnlyAbandoned
PROPERTY ImplementsTaskGroup
PROPERTY SignalReturns
PROPERTY NoneServesForever
