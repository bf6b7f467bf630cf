--------------------------- MODULE RouteRegistry ----------------------------
(***************************************************************************)
(* DefaultHttpJob and DefaultGrpcJob as RuntimeBuilder fills them: a route *)
(* is written to several tables, one after the other, and a refusal of any *)
(* of them panics the builder (`.expect("duplicate ... route")').  Once    *)
(* serve() has taken the jobs the tables no longer change.                 *)
(***************************************************************************)
EXTENDS Naturals, Sequences, Functions

CONSTANTS
  HttpHandlers,  \* handlers the program may pass to http_route
  GrpcHandlers,  \* and to grpc_route
  IdOf,          \* what a handler's id() is, "" or "error" included
  PatternOf,     \* and its pattern()
  Malformed,     \* the patterns matchit refuses by themselves
  Conflicts,     \* the pairs of patterns it will not hold together
  Matching       \* [Paths -> Seq(Patterns)]: those that match, best first

Bad == {"", "error"}   \* what register_route refuses of id() and pattern()

Handlers == HttpHandlers \cup GrpcHandlers
Ids      == {IdOf[h] : h \in Handlers} \ Bad
Patterns == {PatternOf[h] : h \in Handlers} \ Bad
Paths    == DOMAIN Matching

\* No id and no handler: Option::None.
None == "none"

ASSUME NoneApart == None \notin Ids \cup Handlers

ASSUME RegistryAssumption ==
  /\ IdOf \in [Handlers -> STRING]
  /\ PatternOf \in [Handlers -> STRING]
  /\ \A path \in Paths : Matching[path] \in Seq(Patterns)
  /\ \A h \in HttpHandlers : PatternOf[h] \in Bad \/ {PatternOf[h]} \in Conflicts

VARIABLES
  builder,      \* "building", "panicked" or "serving"
  prebuilt,     \* transports served by a handler of the program's own
  keepsFirst,   \* HandlerRegistry::register refuses an id it already has
  router,       \* HTTP: pattern -> id
  http,         \* HTTP: id -> handler, the registry
  httpHealth,   \* HTTP: id -> handler, health_handlers
  grpc,         \* gRPC: id -> handler, the registry
  grpcHealth    \* gRPC: id -> handler, health_handlers

httpTables == <<router, http, httpHealth>>
grpcTables == <<grpc, grpcHealth>>
rtvars     == <<builder, prebuilt, keepsFirst, httpTables, grpcTables>>

Empty == [k \in {} |-> k]

RegistryInit ==
  /\ builder = "building"
  /\ prebuilt = {}
  /\ keepsFirst \in BOOLEAN
  /\ router = Empty /\ http = Empty /\ httpHealth = Empty
  /\ grpc = Empty /\ grpcHealth = Empty

\* HashMap::insert
Put(f, k, v) == [x \in DOMAIN f \cup {k} |-> IF x = k THEN v ELSE f[x]]

\* The first of a set of positions.
Least(S) == CHOOSE i \in S : \A j \in S : i <= j

Valid(h) == IdOf[h] \notin Bad /\ PatternOf[h] \notin Bad

\* The external registry takes h under its id.
Accepts(table, h) == ~keepsFirst \/ IdOf[h] \notin DOMAIN table

\* matchit's insert: h's pattern parses and conflicts with none it holds.
Routable(h) ==
  /\ PatternOf[h] \notin Malformed
  /\ \A p \in DOMAIN router : {p, PatternOf[h]} \notin Conflicts

-----------------------------------------------------------------------------
(* http_route_with / DefaultHttpJob::register_route *)

\* Nothing has been written when the handler's own answers are refused.
Rejected(h) ==
  /\ builder = "building"
  /\ ~Valid(h)
  /\ builder' = "panicked"
  /\ UNCHANGED <<prebuilt, keepsFirst, httpTables, grpcTables>>

\* health_handlers has the new handler when the registry refuses it.
HttpRefused(h) ==
  /\ builder = "building"
  /\ Valid(h)
  /\ ~Accepts(http, h)
  /\ httpHealth' = Put(httpHealth, IdOf[h], h)
  /\ builder' = "panicked"
  /\ UNCHANGED <<prebuilt, keepsFirst, router, http, grpcTables>>

\* A bug: a refused pattern is skipped with a warning.
HttpConflictSkipped(h) ==
  /\ builder = "building"
  /\ Valid(h)
  /\ Accepts(http, h)
  /\ ~Routable(h)
  /\ httpHealth' = Put(httpHealth, IdOf[h], h)
  /\ http' = Put(http, IdOf[h], h)
  /\ UNCHANGED <<builder, prebuilt, keepsFirst, router, grpcTables>>

\* Both maps have the new handler when the router refuses its pattern.
HttpConflict(h) ==
  /\ builder = "building"
  /\ Valid(h)
  /\ Accepts(http, h)
  /\ ~Routable(h)
  /\ httpHealth' = Put(httpHealth, IdOf[h], h)
  /\ http' = Put(http, IdOf[h], h)
  /\ builder' = "panicked"
  /\ UNCHANGED <<prebuilt, keepsFirst, router, grpcTables>>

\* A bug: the router is given pattern and id the wrong way round.
HttpRouteSwapped(h) ==
  /\ builder = "building"
  /\ Valid(h)
  /\ Accepts(http, h)
  /\ Routable(h)
  /\ httpHealth' = Put(httpHealth, IdOf[h], h)
  /\ http' = Put(http, IdOf[h], h)
  /\ router' = Put(router, IdOf[h], PatternOf[h])
  /\ UNCHANGED <<builder, prebuilt, keepsFirst, grpcTables>>

\* A bug: health_handlers keeps the first handler of an id.
HttpRouteHealthKept(h) ==
  /\ builder = "building"
  /\ Valid(h)
  /\ Accepts(http, h)
  /\ Routable(h)
  /\ httpHealth' = IF IdOf[h] \in DOMAIN httpHealth THEN httpHealth
                   ELSE Put(httpHealth, IdOf[h], h)
  /\ http' = Put(http, IdOf[h], h)
  /\ router' = Put(router, PatternOf[h], IdOf[h])
  /\ UNCHANGED <<builder, prebuilt, keepsFirst, grpcTables>>

\* A bug: the jobs are shared with the builder and go on taking routes.
HttpRouteLate(h) ==
  /\ builder # "panicked"
  /\ Valid(h)
  /\ Accepts(http, h)
  /\ Routable(h)
  /\ httpHealth' = Put(httpHealth, IdOf[h], h)
  /\ http' = Put(http, IdOf[h], h)
  /\ router' = Put(router, PatternOf[h], IdOf[h])
  /\ UNCHANGED <<builder, prebuilt, keepsFirst, grpcTables>>

\* A handler under an id that is taken replaces the earlier one in both maps.
HttpRoute(h) ==
  /\ builder = "building"
  /\ Valid(h)
  /\ Accepts(http, h)
  /\ Routable(h)
  /\ httpHealth' = Put(httpHealth, IdOf[h], h)
  /\ http' = Put(http, IdOf[h], h)
  /\ router' = Put(router, PatternOf[h], IdOf[h])
  /\ UNCHANGED <<builder, prebuilt, keepsFirst, grpcTables>>

-----------------------------------------------------------------------------
(* grpc_route_with / DefaultGrpcJob::register_route *)

\* The id is looked up before anything is written.
GrpcDuplicate(h) ==
  /\ builder = "building"
  /\ Valid(h)
  /\ IdOf[h] \in DOMAIN grpc
  /\ builder' = "panicked"
  /\ UNCHANGED <<prebuilt, keepsFirst, httpTables, grpcTables>>

\* A bug: the id is not looked up.
GrpcRouteUnchecked(h) ==
  /\ builder = "building"
  /\ Valid(h)
  /\ Accepts(grpc, h)
  /\ grpcHealth' = Put(grpcHealth, IdOf[h], h)
  /\ grpc' = Put(grpc, IdOf[h], h)
  /\ UNCHANGED <<builder, prebuilt, keepsFirst, httpTables>>

GrpcRoute(h) ==
  /\ builder = "building"
  /\ Valid(h)
  /\ IdOf[h] \notin DOMAIN grpc
  /\ grpcHealth' = Put(grpcHealth, IdOf[h], h)
  /\ grpc' = Put(grpc, IdOf[h], h)
  /\ UNCHANGED <<builder, prebuilt, keepsFirst, httpTables>>

\* serve() takes the jobs; http_handler() and grpc_handler() count only for a
\* transport without routes.  It refuses to run with no ingress at all.
Serve ==
  /\ builder = "building"
  /\ prebuilt' \in SUBSET {t \in {"http", "grpc"} : (IF t = "http" THEN http ELSE grpc) = Empty}
  /\ http # Empty \/ grpc # Empty \/ prebuilt' # {}
  /\ builder' = "serving"
  /\ UNCHANGED <<keepsFirst, httpTables, grpcTables>>

Registration ==
  \/ \E h \in Handlers : Rejected(h)
  \/ \E h \in HttpHandlers : HttpRefused(h) \/ HttpConflict(h) \/ HttpRoute(h)
  \/ \E h \in GrpcHandlers : GrpcDuplicate(h) \/ GrpcRoute(h)
  \/ Serve

-----------------------------------------------------------------------------
(* Router::route and the registry lookup of Job::run *)

\* A bug: only the best pattern there could be is tried.
RouteHttpBestOnly(path) ==
  IF Matching[path] # << >> /\ Head(Matching[path]) \in DOMAIN router
    THEN router[Head(Matching[path])] ELSE None

\* The id of the best registered pattern that matches the path.
RouteHttp(path) ==
  LET held == {i \in DOMAIN Matching[path] : Matching[path][i] \in DOMAIN router}
  IN  IF held = {} THEN None ELSE router[Matching[path][Least(held)]]

\* gRPC routes on the registered id itself.
RouteGrpc(method) == IF method \in DOMAIN grpc THEN method ELSE None

-----------------------------------------------------------------------------
RTypeOK ==
  /\ builder \in {"building", "panicked", "serving"}
  /\ prebuilt \subseteq {"http", "grpc"}
  /\ keepsFirst \in BOOLEAN
  /\ DOMAIN router \subseteq Patterns /\ Range(router) \subseteq Ids
  /\ \A table \in {http, httpHealth, grpc, grpcHealth} :
       DOMAIN table \subseteq Ids /\ Range(table) \subseteq Handlers

\* A builder that has not panicked holds whole routes only, although a route
\* is written table by table and replaces what it finds: an id is routable,
\* registered and health-checked together, with one and the same handler.
WholeRoutes ==
  builder # "panicked" =>
    /\ Range(router) = DOMAIN http
    /\ http = httpHealth
    /\ grpc = grpcHealth

\* No gRPC method ever changes hands: the handler that registered it first
\* answers it.
GrpcNeverRebound ==
  [][\A m \in DOMAIN grpc : m \in DOMAIN grpc' /\ grpc'[m] = grpc[m]]_rtvars
=============================================================================
