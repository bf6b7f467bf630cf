CONSTANTS
  Requests = {r1, r2}
  HttpHandlers = {"home", "any", "other", "blank", "broken"}
  GrpcHandlers = {"home", "any", "odd"}
  IdOf <- MCIdOf
  PatternOf <- MCPatternOf
  Malformed = {"/{"}
  Conflicts <- MCConflicts
  Matching <- MCMatching
  Settings <- MCSettings
  Methods = {"a", "b", "/grpc.reflection.info", "/grpc.reflection.odd"}
  ReflectionInfo = "/grpc.reflection.info"
  ReflectionPrefixed = {"/grpc.reflection.info", "/grpc.reflection.odd"}
SPECIFICATION ObserverSpec
SYMMETRY MCSymmetry
CHECK_DEADLOCK FALSE
INVARIANT OTypeOK
INVARIANT WholeRoutes
INVARIANT RefusedOnlyUnrouted
INVARIANT OwnPatternOrSharedId
INVARIANT MonitorSeesTheJob
INVARIANT HealthCoversServing
INVARIANT LoggedIsDurable
PROPERTY GrpcNeverRebound
PROPERTY ImplementsDispatcher
