---------------------------- MODULE RequestPath -----------------------------
(***************************************************************************)
(* A request from the wire to its answer: the layers serve() wraps around  *)
(* the job, the job's routing and the handler.  The layers and the routing *)
(* run in one poll; the handler is awaited, and the request's future may   *)
(* be dropped there.                                                       *)
(***************************************************************************)
EXTENDS RouteRegistry, FiniteSets

CONSTANTS
  Requests,          \* each made once, over either transport
  Settings,          \* sets of Layers a runtime may be configured with
  Methods,           \* gRPC methods clients ask for
  ReflectionInfo,    \* REFLECTION_INFO_METHOD
  ReflectionPrefixed \* ids that start with "/grpc.reflection."

Layers == {"guard", "reflection", "monitor"}

ASSUME PathAssumption ==
  /\ Settings \subseteq SUBSET Layers
  /\ ReflectionInfo \in ReflectionPrefixed
  /\ ReflectionPrefixed \subseteq Methods

VARIABLES
  layers,   \* the layers this runtime has
  req,      \* [Requests -> its state]
  counted,  \* requests on_start() has counted
  probe     \* the health check of a job

pvars == <<layers, req, counted, probe>>
allvars == <<rtvars, pvars>>

NoRequest == [via |-> "none", target |-> "", handler |-> None, answer |-> "none"]

NoProbe == [via |-> "none", asked |-> {}, verdict |-> "none"]

PathInit ==
  /\ RegistryInit
  /\ layers \in Settings
  /\ req = [r \in Requests |-> NoRequest]
  /\ counted = {}
  /\ probe = NoProbe

-----------------------------------------------------------------------------
(* The layers, outermost first; a runtime wraps those it has around the job *)

Wrapped(layer) == layer \in layers \cup {"job"}

\* A bug: the load monitor is the outermost layer.
HttpStackMonitorFirst == <<"monitor", "guard", "job">>

HttpStack == <<"guard", "monitor", "job">>

\* A bug: the reflection service is wrapped together with the job.
GrpcStackMonitorAll == <<"guard", "monitor", "reflection", "job">>

GrpcStack == <<"guard", "reflection", "monitor", "job">>

\* The layer answers the request itself.
Stops(layer, target, blocked) ==
  CASE layer = "guard"      -> blocked
    [] layer = "reflection" -> target \in ReflectionPrefixed
    [] layer = "monitor"    -> FALSE
    [] layer = "job"        -> TRUE

\* Position of the layer that answers.
StopAt(stack, target, blocked) ==
  Least({i \in DOMAIN stack : Wrapped(stack[i]) /\ Stops(stack[i], target, blocked)})

\* A handler of the program's own in place of the job.
Prebuilt == "prebuilt"

ASSUME PrebuiltApart == Prebuilt \notin Handlers

Lookup(table, id) == IF id \in DOMAIN table THEN table[id] ELSE None

\* A bug: one registry serves both transports.
HandlerForOneRegistry(via, target) ==
  IF via \in prebuilt THEN Prebuilt
  ELSE Lookup(grpc, IF via = "http" THEN RouteHttp(target) ELSE RouteGrpc(target))

\* Job::run up to execute(): the handler the route's id is registered to, or
\* the program's own in place of the job.
HandlerFor(via, target) ==
  IF via \in prebuilt THEN Prebuilt
  ELSE IF via = "http" THEN Lookup(http, RouteHttp(target))
                       ELSE Lookup(grpc, RouteGrpc(target))

Unrouted == [http |-> "NotFound", grpc |-> "Unimplemented"]

\* The request goes through the layers down to the one that answers it; in the
\* job it finds its handler, which then executes.
Enter(r, via, stack, target, blocked) ==
  LET i == StopAt(stack, target, blocked)
      h == IF stack[i] = "job" THEN HandlerFor(via, target) ELSE None
      answer == CASE stack[i] = "guard"      -> "PermissionDenied"
                  [] stack[i] = "reflection" -> "reflection"
                  [] stack[i] = "job"        -> IF h = None THEN Unrouted[via]
                                                ELSE "none"
  IN  /\ req' = [req EXCEPT ![r] = [via |-> via, target |-> target,
                                  handler |-> h, answer |-> answer]]
      /\ counted' = IF \E j \in 1..i : stack[j] = "monitor" /\ Wrapped(stack[j])
                     THEN counted \cup {r} ELSE counted

New(r) == builder = "serving" /\ req[r] = NoRequest

HttpArrives(r) ==
  /\ New(r)
  /\ http # Empty \/ "http" \in prebuilt
  /\ \E path \in Paths, blocked \in BOOLEAN : Enter(r, "http", HttpStack, path, blocked)
  /\ UNCHANGED <<rtvars, layers, probe>>

\* The gRPC server passes on only the methods serve() has given a streaming
\* kind: those of the job.  Without a job there is no reflection layer, and no
\* method reaches a handler of the program's own.
Declared ==
  DOMAIN grpc \cup
    (IF "reflection" \in layers /\ grpc # Empty THEN {ReflectionInfo} ELSE {})

GrpcArrives(r) ==
  /\ New(r)
  /\ grpc # Empty \/ "grpc" \in prebuilt
  /\ \E method \in Methods, blocked \in BOOLEAN :
       IF method \in Declared
         THEN Enter(r, "grpc", GrpcStack, method, blocked)
         ELSE /\ req' = [req EXCEPT ![r] = [via |-> "grpc", target |-> method,
                                          handler |-> None, answer |-> "Unimplemented"]]
              /\ UNCHANGED counted
  /\ UNCHANGED <<rtvars, layers, probe>>

-----------------------------------------------------------------------------
(* The handler *)

Executing(r) == req[r].handler # None /\ req[r].answer = "none"

\* The handler has answered.  A request that does not decode and a handler's
\* error are Internal; over HTTP a response that does not encode is a 500
\* inside an Ok, over gRPC it is an empty body.
Responds(r) ==
  /\ Executing(r)
  /\ \E answer \in {"ok", "Internal", "unencodable"} :
       req' = [req EXCEPT ![r].answer = answer]
  /\ UNCHANGED <<rtvars, layers, counted, probe>>

\* The client goes away: the request's future is dropped at the await.
Dropped(r) ==
  /\ Executing(r)
  /\ req' = [req EXCEPT ![r].answer = "dropped"]
  /\ UNCHANGED <<rtvars, layers, counted, probe>>

-----------------------------------------------------------------------------
(* DefaultHttpJob::health_check and DefaultGrpcJob::health_check *)

ProbeStarts ==
  /\ builder = "serving"
  /\ probe.via = "none"
  /\ \E via \in {"http", "grpc"} : probe' = [probe EXCEPT !.via = via]
  /\ UNCHANGED <<rtvars, layers, req, counted>>

Probed ==
  IF probe.via \in prebuilt THEN {Prebuilt}
  ELSE Range(IF probe.via = "http" THEN httpHealth ELSE grpcHealth)

\* The handlers are asked one after the other, until one is not healthy.
Polls(h) ==
  /\ probe.via # "none" /\ probe.verdict = "none"
  /\ h \in Probed \ probe.asked
  /\ \/ probe' = [probe EXCEPT !.asked = @ \cup {h}]
     \/ probe' = [probe EXCEPT !.verdict = "unhealthy"]
  /\ UNCHANGED <<rtvars, layers, req, counted>>

ProbeEnds ==
  /\ probe.via # "none" /\ probe.verdict = "none"
  /\ probe.asked = Probed
  /\ probe' = [probe EXCEPT !.verdict = "healthy"]
  /\ UNCHANGED <<rtvars, layers, req, counted>>

Probe == ProbeStarts \/ (\E h \in Handlers \cup {Prebuilt} : Polls(h)) \/ ProbeEnds

Request(r) ==
  \/ HttpArrives(r)
  \/ GrpcArrives(r)
  \/ Responds(r)
  \/ Dropped(r)

PathNext ==
  \/ Registration /\ UNCHANGED <<pvars>>
  \/ \E r \in Requests : Request(r)
  \/ Probe

PathSpec == PathInit /\ [][PathNext]_allvars

-----------------------------------------------------------------------------
\* The path's state and that of the registries have their types.
PathTypeOK ==
  /\ RTypeOK
  /\ layers \in Settings
  /\ counted \subseteq Requests
  /\ req \in [Requests ->
       [via : {"none", "http", "grpc"}, target : Paths \cup Methods \cup {""},
        handler : Handlers \cup {None, Prebuilt},
        answer : {"none", "PermissionDenied", "reflection", "NotFound",
                  "Unimplemented", "ok", "Internal", "unencodable", "dropped"}]]
  /\ probe \in [via : {"none", "http", "grpc"}, asked : SUBSET (Handlers \cup {Prebuilt}),
                verdict : {"none", "healthy", "unhealthy"}]

\* A request is told that it has no handler only if no registered route
\* matches it: routing never finds an id the registry has lost, and the layers
\* above hide no registered gRPC method but those under the reflection prefix.
RefusedOnlyUnrouted ==
  \A r \in Requests :
    /\ req[r].answer = "NotFound" =>
         \A p \in DOMAIN router : p \notin Range(Matching[req[r].target])
    /\ req[r].answer = "Unimplemented" => req[r].target \notin DOMAIN grpc
    /\ req[r].answer = "reflection" => req[r].target \in ReflectionPrefixed

\* The handler that executes an HTTP request is one whose own pattern matches
\* the path.  The one exception is a registry that replaces what an id holds:
\* registering the id again under another pattern then moves the first
\* pattern's requests to the second handler, and both patterns route to the id.
OwnPatternOrSharedId ==
  \A r \in Requests :
    req[r].via = "http" /\ req[r].handler \in Handlers =>
      \/ PatternOf[req[r].handler] \in Range(Matching[req[r].target])
      \/ /\ ~keepsFirst
         /\ Cardinality({p \in DOMAIN router : router[p] = IdOf[req[r].handler]}) > 1

\* runtime_builder_serve.rs: the guard "runs before load-monitor recording, so
\* rejected requests aren't counted".  What the monitor counts is exactly what
\* reaches a job, whatever layers there are.
MonitorSeesTheJob ==
  "monitor" \in layers =>
    \A r \in Requests :
      r \in counted <=> /\ req[r].via # "none"
                        /\ req[r].via = "grpc" => req[r].target \in Declared
                        /\ req[r].answer \notin {"PermissionDenied", "reflection"}

\* A job that reports healthy has asked every handler it can dispatch to: the
\* table the health check reads never falls behind the registry.
HealthCoversServing ==
  probe.verdict = "healthy" =>
    \A r \in Requests :
      req[r].via = probe.via /\ req[r].handler # None => req[r].handler \in probe.asked

\* Who serves a target: nobody, if the server does not let its method in.
Responsible(via, target) ==
  IF via = "grpc" /\ target \notin Declared THEN None ELSE HandlerFor(via, target)

Targets == ({"http"} \X Paths) \cup ({"grpc"} \X Methods)

\* What Dispatcher sees of a request.
StageOf(q) ==
  IF q.via = "none" THEN "new"
  ELSE IF q.answer \in {"PermissionDenied", "reflection"} THEN "turned"
  ELSE IF q.handler = None THEN "unserved"
  ELSE IF q.answer = "none" THEN "running" ELSE "over"

Dispatch == INSTANCE Dispatcher WITH
  Executors <- Handlers \cup {Prebuilt},
  Nobody    <- None,
  NoTarget  <- <<"none", "">>,
  open      <- builder = "serving",
  serves    <- [t \in Targets |->
                  IF builder = "serving" THEN Responsible(t[1], t[2]) ELSE None],
  stage     <- [r \in Requests |-> StageOf(req[r])],
  target    <- [r \in Requests |-> <<req[r].via, req[r].target>>],
  by        <- [r \in Requests |-> req[r].handler]

\* The layers and the jobs keep the promise of Dispatcher, however routes were
\* registered: who serves a target is fixed before the first request, and the
\* tables the jobs look it up in agree on it for every request.
ImplementsDispatcher == Dispatch!Spec
=============================================================================
