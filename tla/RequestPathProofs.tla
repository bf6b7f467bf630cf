------------------------- MODULE RequestPathProofs --------------------------
(***************************************************************************)
(* The tables of the two jobs, for any handlers, ids and patterns, and the *)
(* health check over them beside any number of requests.  Once serve() has *)
(* taken the jobs the tables are fixed, so what a request was routed by is *)
(* what a later health check reads, and whether it was answered, refused   *)
(* and counted stays in agreement with them.  Then the log drain, which    *)
(* the handlers share.                                                     *)
(***************************************************************************)
EXTENDS ObserverBridge, FiniteSetTheorems, WellFoundedInduction, TLAPS

LEMMA PutDomain ==
  ASSUME NEW f, NEW k, NEW v
  PROVE  DOMAIN Put(f, k, v) = DOMAIN f \cup {k}
BY DEF Put

LEMMA PutRange ==
  ASSUME NEW f, NEW k, NEW v
  PROVE  Range(Put(f, k, v)) \subseteq Range(f) \cup {v}
BY DEF Put, Range

\* A new key loses nothing.
LEMMA PutNewRange ==
  ASSUME NEW f, NEW k, NEW v, k \notin DOMAIN f
  PROVE  Range(Put(f, k, v)) = Range(f) \cup {v}
BY DEF Put, Range

LEMMA HandlerTyped ==
  ASSUME NEW h \in Handlers, Valid(h)
  PROVE  IdOf[h] \in Ids /\ PatternOf[h] \in Patterns
BY DEF Valid, Ids, Patterns

Serving == builder = "serving"

RegistryInv == RTypeOK /\ WholeRoutes

LEMMA RegistryInvInit == RegistryInit => RegistryInv
<1> SUFFICES ASSUME RegistryInit PROVE RegistryInv
  OBVIOUS
<1>1. DOMAIN Empty = {} /\ Range(Empty) = {}
  BY DEF Empty, Range
<1> QED  BY <1>1 DEF RegistryInit, RegistryInv, RTypeOK, WholeRoutes

LEMMA TableTyped ==
  ASSUME NEW table, DOMAIN table \subseteq Ids, Range(table) \subseteq Handlers,
         NEW h \in Handlers, Valid(h)
  PROVE  /\ DOMAIN Put(table, IdOf[h], h) \subseteq Ids
         /\ Range(Put(table, IdOf[h], h)) \subseteq Handlers
<1>1. DOMAIN Put(table, IdOf[h], h) = DOMAIN table \cup {IdOf[h]}
  BY PutDomain
<1>2. Range(Put(table, IdOf[h], h)) \subseteq Range(table) \cup {h}
  BY PutRange
<1>3. IdOf[h] \in Ids
  BY HandlerTyped
<1> QED  BY <1>1, <1>2, <1>3

LEMMA HttpStep ==
  ASSUME RegistryInv, NEW h \in HttpHandlers, HttpRefused(h) \/ HttpConflict(h) \/ HttpRoute(h)
  PROVE  RegistryInv'
<1>1. h \in Handlers /\ Valid(h)
  BY DEF Handlers, HttpRefused, HttpConflict, HttpRoute
<1>2. IdOf[h] \in Ids /\ PatternOf[h] \in Patterns
  BY <1>1, HandlerTyped
<1>3. UNCHANGED <<prebuilt, keepsFirst, grpc, grpcHealth>>
  BY DEF HttpRefused, HttpConflict, HttpRoute, grpcTables
<1>4. /\ http' = http \/ http' = Put(http, IdOf[h], h)
      /\ httpHealth' = Put(httpHealth, IdOf[h], h)
      /\ router' = router \/ router' = Put(router, PatternOf[h], IdOf[h])
      /\ builder' = builder \/ builder' = "panicked"
  BY DEF HttpRefused, HttpConflict, HttpRoute
<1>5. RTypeOK'
  <2>1. /\ DOMAIN http' \subseteq Ids /\ Range(http') \subseteq Handlers
        /\ DOMAIN httpHealth' \subseteq Ids /\ Range(httpHealth') \subseteq Handlers
    BY <1>1, <1>4, TableTyped DEF RegistryInv, RTypeOK
  <2>2. DOMAIN router' \subseteq Patterns /\ Range(router') \subseteq Ids
    <3>1. DOMAIN Put(router, PatternOf[h], IdOf[h]) = DOMAIN router \cup {PatternOf[h]}
      BY PutDomain
    <3>2. Range(Put(router, PatternOf[h], IdOf[h])) \subseteq Range(router) \cup {IdOf[h]}
      BY PutRange
    <3>3. DOMAIN router \subseteq Patterns /\ Range(router) \subseteq Ids
      BY DEF RegistryInv, RTypeOK
    <3> QED  BY <1>2, <1>4, <3>1, <3>2, <3>3
  <2> QED  BY <1>3, <1>4, <2>1, <2>2 DEF RegistryInv, RTypeOK
<1>6. CASE HttpRefused(h) \/ HttpConflict(h)
  <2>1. builder' = "panicked"
    BY <1>6 DEF HttpRefused, HttpConflict
  <2> QED  BY <1>5, <2>1 DEF RegistryInv, WholeRoutes
<1>7. CASE HttpRoute(h)
  <2>1. /\ builder = "building" /\ Routable(h)
        /\ httpHealth' = Put(httpHealth, IdOf[h], h)
        /\ http' = Put(http, IdOf[h], h)
        /\ router' = Put(router, PatternOf[h], IdOf[h])
    BY <1>7 DEF HttpRoute
  <2>2. PatternOf[h] \notin DOMAIN router
    <3>1. {PatternOf[h]} \in Conflicts
      BY <1>1, RegistryAssumption DEF Valid
    <3> QED  BY <2>1, <3>1 DEF Routable
  <2>3. Range(router) = DOMAIN http /\ http = httpHealth /\ grpc = grpcHealth
    BY <2>1 DEF RegistryInv, WholeRoutes
  <2>4. Range(router') = DOMAIN http'
    <3>1. Range(Put(router, PatternOf[h], IdOf[h])) = Range(router) \cup {IdOf[h]}
      BY <2>2, PutNewRange
    <3>2. DOMAIN Put(http, IdOf[h], h) = DOMAIN http \cup {IdOf[h]}
      BY PutDomain
    <3> QED  BY <2>1, <2>3, <3>1, <3>2
  <2> QED  BY <1>3, <1>5, <2>1, <2>3, <2>4 DEF RegistryInv, WholeRoutes
<1> QED  BY <1>6, <1>7

LEMMA OtherRegistration ==
  ASSUME RegistryInv,
         \/ \E h \in Handlers : Rejected(h)
         \/ \E h \in GrpcHandlers : GrpcDuplicate(h) \/ GrpcRoute(h)
         \/ Serve
  PROVE  RegistryInv'
<1>1. CASE \E h \in Handlers : Rejected(h)
  BY <1>1 DEF Rejected, RegistryInv, RTypeOK, WholeRoutes, httpTables, grpcTables
<1>2. CASE Serve
  <2>1. prebuilt' \subseteq {"http", "grpc"}
    BY <1>2 DEF Serve
  <2>2. UNCHANGED <<keepsFirst, router, http, httpHealth, grpc, grpcHealth>>
    BY <1>2 DEF Serve, httpTables, grpcTables
  <2>3. builder = "building" /\ builder' = "serving"
    BY <1>2 DEF Serve
  <2> QED  BY <2>1, <2>2, <2>3 DEF RegistryInv, RTypeOK, WholeRoutes
<1>3. ASSUME NEW h \in GrpcHandlers, GrpcDuplicate(h) PROVE RegistryInv'
  BY <1>3 DEF GrpcDuplicate, RegistryInv, RTypeOK, WholeRoutes, httpTables, grpcTables
<1>4. ASSUME NEW h \in GrpcHandlers, GrpcRoute(h) PROVE RegistryInv'
  <2>1. /\ h \in Handlers /\ Valid(h) /\ builder = "building"
        /\ UNCHANGED <<builder, prebuilt, keepsFirst, router, http, httpHealth>>
        /\ grpcHealth' = Put(grpcHealth, IdOf[h], h)
        /\ grpc' = Put(grpc, IdOf[h], h)
    BY <1>4 DEF GrpcRoute, Handlers, httpTables
  <2>2. /\ DOMAIN grpc' \subseteq Ids /\ Range(grpc') \subseteq Handlers
        /\ DOMAIN grpcHealth' \subseteq Ids /\ Range(grpcHealth') \subseteq Handlers
    BY <2>1, TableTyped DEF RegistryInv, RTypeOK
  <2> QED  BY <2>1, <2>2 DEF RegistryInv, RTypeOK, WholeRoutes
<1> QED  BY <1>1, <1>2, <1>3, <1>4

LEMMA RegistryStutter == RegistryInv /\ UNCHANGED rtvars => RegistryInv'
BY DEF RegistryInv, RTypeOK, WholeRoutes, rtvars, httpTables, grpcTables

\* Requests and health checks leave the tables alone.
LEMMA TrafficReadsTables ==
  ASSUME (\E r \in Requests : Request(r)) \/ Probe
  PROVE  UNCHANGED <<rtvars, layers>>
BY DEF Request, HttpArrives, GrpcArrives, Responds, Dropped, Probe, ProbeStarts,
       Polls, ProbeEnds

LEMMA RegistryInductive == PathSpec => []RegistryInv
<1>1. PathInit => RegistryInv
  BY RegistryInvInit DEF PathInit
<1>2. RegistryInv /\ [PathNext]_allvars => RegistryInv'
  <2> SUFFICES ASSUME RegistryInv, [PathNext]_allvars PROVE RegistryInv'
    OBVIOUS
  <2>1. CASE Registration
    BY <2>1, HttpStep, OtherRegistration DEF Registration
  <2>2. CASE UNCHANGED rtvars
    BY <2>2, RegistryStutter
  <2> QED  BY <2>1, <2>2, TrafficReadsTables DEF PathNext, allvars
<1> QED  BY <1>1, <1>2, PTL DEF PathSpec

\* A builder that has not panicked holds whole routes only.
THEOREM PathWholeRoutes == PathSpec => []WholeRoutes
<1>1. RegistryInv => WholeRoutes
  BY DEF RegistryInv
<1> QED  BY <1>1, RegistryInductive, PTL

\* No gRPC method ever changes hands.
THEOREM PathGrpcNeverRebound == PathSpec => GrpcNeverRebound
<1>1. [PathNext]_allvars =>
        [\A m \in DOMAIN grpc : m \in DOMAIN grpc' /\ grpc'[m] = grpc[m]]_rtvars
  <2> SUFFICES ASSUME [PathNext]_allvars, NEW m \in DOMAIN grpc
               PROVE  (m \in DOMAIN grpc' /\ grpc'[m] = grpc[m]) \/ UNCHANGED rtvars
    OBVIOUS
  <2>1. ASSUME NEW h \in GrpcHandlers, GrpcRoute(h)
        PROVE  m \in DOMAIN grpc' /\ grpc'[m] = grpc[m]
    BY <2>1 DEF GrpcRoute, Put
  <2>2. CASE UNCHANGED grpc
    BY <2>2
  <2>3. CASE Registration
    BY <2>1, <2>2, <2>3 DEF Registration, Rejected, HttpRefused, HttpConflict,
         HttpRoute, GrpcDuplicate, Serve, grpcTables
  <2>4. Registration \/ UNCHANGED rtvars
    BY TrafficReadsTables DEF PathNext, allvars
  <2> QED  BY <2>3, <2>4
<1>2. [][PathNext]_allvars =>
        [][\A m \in DOMAIN grpc : m \in DOMAIN grpc' /\ grpc'[m] = grpc[m]]_rtvars
  BY <1>1, PTL
<1> QED  BY <1>2, PTL DEF PathSpec, GrpcNeverRebound
-----------------------------------------------------------------------------
(***************************************************************************)
(* The health check covers what is served.  A request's handler comes from *)
(* the table of its transport and a check asks the same table's handlers,  *)
(* which WholeRoutes makes equal; neither changes once requests arrive.    *)
(***************************************************************************)
ServedBy(via) ==
  IF via \in prebuilt THEN {Prebuilt} ELSE Range(IF via = "http" THEN http ELSE grpc)

Fields == {"via", "target", "handler", "answer"}

RequestShape == DOMAIN req = Requests /\ \A r \in Requests : DOMAIN req[r] = Fields

HandlerServed ==
  \A r \in Requests :
    req[r].handler # None =>
      /\ Serving
      /\ req[r].via \in {"http", "grpc"}
      /\ req[r].handler \in ServedBy(req[r].via)

ProbeShape ==
  /\ probe \in [via : {"none", "http", "grpc"}, asked : SUBSET (Handlers \cup {Prebuilt}),
                verdict : {"none", "healthy", "unhealthy"}]
  /\ probe.via # "none" => Serving
  /\ probe.verdict = "healthy" => probe.via # "none" /\ probe.asked = Probed

CoverInv == RequestShape /\ HandlerServed /\ ProbeShape

LEMMA LookupServed ==
  ASSUME NEW table, NEW id
  PROVE  Lookup(table, id) = None \/ Lookup(table, id) \in Range(table)
BY DEF Lookup, Range

LEMMA HandlerForServed ==
  ASSUME NEW via \in {"http", "grpc"}, NEW target
  PROVE  HandlerFor(via, target) = None \/ HandlerFor(via, target) \in ServedBy(via)
<1>1. CASE via \in prebuilt
  BY <1>1 DEF HandlerFor, ServedBy
<1>2. CASE via \notin prebuilt /\ via = "http"
  BY <1>2, LookupServed DEF HandlerFor, ServedBy
<1>3. CASE via \notin prebuilt /\ via = "grpc"
  BY <1>3, LookupServed DEF HandlerFor, ServedBy
<1> QED  BY <1>1, <1>2, <1>3

LEMMA CoverInit == PathInit => CoverInv
<1> SUFFICES ASSUME PathInit PROVE CoverInv
  OBVIOUS
<1>1. req = [r \in Requests |-> NoRequest] /\ probe = NoProbe
  BY DEF PathInit
<1>2. DOMAIN NoRequest = Fields /\ NoRequest.handler = None
  BY DEF NoRequest, Fields
<1>3. RequestShape /\ HandlerServed
  BY <1>1, <1>2 DEF RequestShape, HandlerServed
<1>4. ProbeShape
  BY <1>1 DEF NoProbe, ProbeShape
<1> QED  BY <1>3, <1>4 DEF CoverInv

\* A request arrives: its handler, if it gets one, is served.
LEMMA ArrivesStep ==
  ASSUME CoverInv, NEW r \in Requests, HttpArrives(r) \/ GrpcArrives(r)
  PROVE  RequestShape' /\ HandlerServed'
<1>1. Serving /\ UNCHANGED <<builder, prebuilt, http, grpc>>
  BY DEF Serving, HttpArrives, GrpcArrives, New, rtvars, httpTables, grpcTables
<1>2. PICK rec :
        /\ req' = [req EXCEPT ![r] = rec]
        /\ DOMAIN rec = Fields
        /\ rec.via \in {"http", "grpc"}
        /\ rec.handler = None \/ rec.handler \in ServedBy(rec.via)
  <2>1. ASSUME NEW via \in {"http", "grpc"}, NEW stack, NEW target, NEW blocked,
               Enter(r, via, stack, target, blocked)
        PROVE  \E rec : /\ req' = [req EXCEPT ![r] = rec]
                        /\ DOMAIN rec = Fields
                        /\ rec.via \in {"http", "grpc"}
                        /\ rec.handler = None \/ rec.handler \in ServedBy(rec.via)
    <3> DEFINE i == StopAt(stack, target, blocked)
               h == IF stack[i] = "job" THEN HandlerFor(via, target) ELSE None
    <3>1. PICK answer : req' = [req EXCEPT ![r] = [via |-> via, target |-> target,
                    handler |-> h, answer |-> answer]]
      BY <2>1 DEF Enter
    <3>2. h = None \/ h \in ServedBy(via)
      BY HandlerForServed
    <3> HIDE DEF h
    <3> DEFINE rec == [via |-> via, target |-> target, handler |-> h, answer |-> answer]
    <3>3. DOMAIN rec = Fields /\ rec.via = via /\ rec.handler = h
      BY DEF Fields
    <3> QED  BY <3>1, <3>2, <3>3
  <2>2. CASE HttpArrives(r)
    BY <2>1, <2>2 DEF HttpArrives
  <2>3. CASE GrpcArrives(r)
    <3>1. PICK method \in Methods, blocked \in BOOLEAN :
            \/ Enter(r, "grpc", GrpcStack, method, blocked)
            \/ req' = [req EXCEPT ![r] = [via |-> "grpc", target |-> method,
                         handler |-> None,
                         answer |-> "Unimplemented"]]
      BY <2>3 DEF GrpcArrives
    <3> DEFINE rec == [via |-> "grpc", target |-> method,
                       handler |-> None, answer |-> "Unimplemented"]
    <3>2. DOMAIN rec = Fields /\ rec.via = "grpc" /\ rec.handler = None
      BY DEF Fields
    <3> QED  BY <2>1, <3>1, <3>2
  <2> QED  BY <2>2, <2>3
<1>3. DOMAIN req' = Requests /\ req'[r] = rec /\ \A q \in Requests \ {r} : req'[q] = req[q]
  BY <1>2 DEF CoverInv, RequestShape
<1>4. \A via : ServedBy(via)' = ServedBy(via)
  BY <1>1 DEF ServedBy
<1> QED  BY <1>1, <1>2, <1>3, <1>4 DEF CoverInv, RequestShape, HandlerServed, Serving

\* A handler answers, or its request is dropped: it stays the same handler.
LEMMA AnswerStep ==
  ASSUME CoverInv, NEW r \in Requests, Responds(r) \/ Dropped(r)
  PROVE  RequestShape' /\ HandlerServed'
<1>1. PICK answer : req' = [req EXCEPT ![r].answer = answer]
  BY DEF Responds, Dropped
<1>2. UNCHANGED <<builder, prebuilt, http, grpc>>
  BY DEF Responds, Dropped, rtvars, httpTables, grpcTables
<1>3. /\ DOMAIN req' = Requests
      /\ \A q \in Requests : /\ DOMAIN req'[q] = Fields
                             /\ req'[q].via = req[q].via
                             /\ req'[q].handler = req[q].handler
  BY <1>1 DEF CoverInv, RequestShape, Fields
<1>4. \A via : ServedBy(via)' = ServedBy(via)
  BY <1>2 DEF ServedBy
<1> QED  BY <1>2, <1>3, <1>4 DEF CoverInv, RequestShape, HandlerServed, Serving

LEMMA ProbeStep ==
  ASSUME CoverInv, Probe
  PROVE  ProbeShape'
<1>1. UNCHANGED <<builder, prebuilt, httpHealth, grpcHealth>>
  BY DEF Probe, ProbeStarts, Polls, ProbeEnds, rtvars, httpTables, grpcTables
<1>2. probe \in [via : {"none", "http", "grpc"}, asked : SUBSET (Handlers \cup {Prebuilt}),
                 verdict : {"none", "healthy", "unhealthy"}]
  BY DEF CoverInv, ProbeShape
<1>3. CASE ProbeStarts
  <2>1. PICK via \in {"http", "grpc"} : probe' = [probe EXCEPT !.via = via]
    BY <1>3 DEF ProbeStarts
  <2>2. builder = "serving" /\ probe.verdict # "healthy"
    BY <1>3 DEF ProbeStarts, CoverInv, ProbeShape
  <2> QED  BY <1>1, <1>2, <2>1, <2>2 DEF ProbeShape, Serving
<1>4. ASSUME NEW h \in Handlers \cup {Prebuilt}, Polls(h) PROVE ProbeShape'
  <2>1. probe.via # "none" /\ probe.verdict = "none" /\ Serving
    BY <1>4 DEF Polls, CoverInv, ProbeShape
  <2>2. \/ probe' = [probe EXCEPT !.asked = probe.asked \cup {h}]
        \/ probe' = [probe EXCEPT !.verdict = "unhealthy"]
    BY <1>4 DEF Polls
  <2>3. probe'.via = probe.via /\ probe'.verdict \in {"none", "unhealthy"}
        /\ probe'.asked \in SUBSET (Handlers \cup {Prebuilt})
    BY <1>2, <2>1, <2>2
  <2>4. probe' \in [via : {"none", "http", "grpc"}, asked : SUBSET (Handlers \cup {Prebuilt}),
                    verdict : {"none", "healthy", "unhealthy"}]
    BY <1>2, <2>2
  <2> QED  BY <1>1, <2>1, <2>3, <2>4 DEF ProbeShape, Serving
<1>5. CASE ProbeEnds
  <2>1. /\ probe.via # "none" /\ probe.asked = Probed
        /\ probe' = [probe EXCEPT !.verdict = "healthy"]
    BY <1>5 DEF ProbeEnds
  <2>2. probe'.via = probe.via /\ probe'.asked = probe.asked
    BY <1>2, <2>1
  <2>3. Probed' = Probed
    BY <1>1, <2>2 DEF Probed
  <2>4. Serving'
    BY <1>1, <2>1 DEF CoverInv, ProbeShape, Serving
  <2> QED  BY <1>2, <2>1, <2>2, <2>3, <2>4 DEF ProbeShape
<1> QED  BY <1>3, <1>4, <1>5 DEF Probe

LEMMA CoverStep ==
  ASSUME CoverInv, [PathNext]_allvars
  PROVE  CoverInv'
\* Registration is over before there is a handler or a health check.
<1>1. CASE Registration /\ UNCHANGED pvars
  <2>1. ~Serving
    BY <1>1 DEF Serving, Registration, Rejected, HttpRefused, HttpConflict, HttpRoute,
                GrpcDuplicate, GrpcRoute, Serve
  <2> QED  BY <1>1, <2>1 DEF CoverInv, RequestShape, HandlerServed, ProbeShape, pvars
<1>2. ASSUME NEW r \in Requests, Request(r) PROVE CoverInv'
  <2>1. UNCHANGED <<builder, prebuilt, httpHealth, grpcHealth, probe>>
    BY <1>2 DEF Request, HttpArrives, GrpcArrives, Responds, Dropped, rtvars,
                httpTables, grpcTables
  <2>2. ProbeShape'
    BY <2>1 DEF CoverInv, ProbeShape, Serving, Probed
  <2> QED  BY <1>2, <2>2, ArrivesStep, AnswerStep DEF CoverInv, Request
<1>3. CASE Probe
  <2>1. UNCHANGED <<builder, prebuilt, http, grpc, req>>
    BY <1>3 DEF Probe, ProbeStarts, Polls, ProbeEnds, rtvars, httpTables, grpcTables
  <2>2. RequestShape' /\ HandlerServed'
    BY <2>1 DEF CoverInv, RequestShape, HandlerServed, Serving, ServedBy
  <2> QED  BY <1>3, <2>2, ProbeStep DEF CoverInv
<1>4. CASE UNCHANGED allvars
  BY <1>4 DEF allvars, rtvars, pvars, httpTables, grpcTables, CoverInv, RequestShape,
              HandlerServed, ProbeShape, Serving, ServedBy, Probed
<1> QED  BY <1>1, <1>2, <1>3, <1>4 DEF PathNext

LEMMA CoverInductive == PathSpec => []CoverInv
BY CoverInit, CoverStep, PTL DEF PathSpec

\* A job that reports healthy has asked every handler it can dispatch to.
THEOREM PathHealthCovers == PathSpec => []HealthCoversServing
<1>1. RegistryInv /\ CoverInv => HealthCoversServing
  <2> SUFFICES ASSUME RegistryInv, CoverInv, probe.verdict = "healthy", NEW r \in Requests,
                      req[r].via = probe.via, req[r].handler # None
               PROVE  req[r].handler \in probe.asked
    BY DEF HealthCoversServing
  <2>1. Serving /\ req[r].via \in {"http", "grpc"} /\ req[r].handler \in ServedBy(req[r].via)
    BY DEF CoverInv, HandlerServed
  <2>2. http = httpHealth /\ grpc = grpcHealth
    BY <2>1 DEF RegistryInv, WholeRoutes, Serving
  <2>3. ServedBy(probe.via) = Probed
    BY <2>2 DEF ServedBy, Probed
  <2> QED  BY <2>1, <2>3 DEF CoverInv, ProbeShape
<1> QED  BY <1>1, CoverInductive, RegistryInductive, PTL

-----------------------------------------------------------------------------
(***************************************************************************)
(* Whose route is whose.  A builder that has not panicked finds, under the *)
(* pattern of each handler it has registered, the handler's own id; only a *)
(* handler that an id was taken from may have lost its route.  A registry  *)
(* that keeps the first handler of an id takes none from any.              *)
(***************************************************************************)

OwnRoute(id) ==
  /\ IdOf[http[id]] = id
  /\ PatternOf[http[id]] \in DOMAIN router
  /\ router[PatternOf[http[id]]] = id

\* The handler a pattern leads to has that pattern.
OwnPattern(p) == router[p] \in DOMAIN http /\ PatternOf[http[router[p]]] = p

RoutesInv ==
  /\ IsFiniteSet(DOMAIN router)
  /\ builder # "panicked" => \A id \in DOMAIN http : OwnRoute(id)
  /\ builder # "panicked" /\ keepsFirst => \A p \in DOMAIN router : OwnPattern(p)

\* A gRPC method is the id of the handler registered for it.
MethodsInv == \A id \in DOMAIN grpc : IdOf[grpc[id]] = id

LEMMA RoutesInit == RegistryInit => RoutesInv
BY FS_EmptySet DEF RegistryInit, RoutesInv, Empty

LEMMA HttpRouteOwn ==
  ASSUME RoutesInv, NEW h \in HttpHandlers, HttpRoute(h)
  PROVE  RoutesInv'
<1>1. /\ builder = "building" /\ builder' = builder /\ Valid(h) /\ Routable(h)
      /\ http' = Put(http, IdOf[h], h)
      /\ router' = Put(router, PatternOf[h], IdOf[h])
      /\ keepsFirst' = keepsFirst
      /\ keepsFirst => IdOf[h] \notin DOMAIN http
  BY DEF HttpRoute, Accepts
<1>2. PatternOf[h] \notin DOMAIN router
  BY <1>1, RegistryAssumption DEF Valid, Routable
<1>3. DOMAIN router' = DOMAIN router \cup {PatternOf[h]}
  BY <1>1, PutDomain
<1>4. IsFiniteSet(DOMAIN router')
  BY <1>3, FS_AddElement DEF RoutesInv
<1>5. ASSUME NEW id \in DOMAIN http' PROVE OwnRoute(id)'
  <2>1. CASE id = IdOf[h]
    <3>1. http'[id] = h
      BY <1>1, <1>5, <2>1 DEF Put
    <3>2. router'[PatternOf[h]] = IdOf[h]
      BY <1>1 DEF Put
    <3> QED  BY <1>3, <2>1, <3>1, <3>2 DEF OwnRoute
  <2>2. CASE id # IdOf[h]
    <3>1. id \in DOMAIN http /\ http'[id] = http[id]
      BY <1>1, <1>5, <2>2 DEF Put
    <3>2. OwnRoute(id)
      BY <1>1, <3>1 DEF RoutesInv
    <3>3. router'[PatternOf[http[id]]] = router[PatternOf[http[id]]]
      BY <1>1, <1>2, <3>2 DEF Put, OwnRoute
    <3> QED  BY <1>3, <3>1, <3>2, <3>3 DEF OwnRoute
  <2> QED  BY <2>1, <2>2
<1>6. ASSUME keepsFirst, NEW p \in DOMAIN router' PROVE OwnPattern(p)'
  <2>1. CASE p = PatternOf[h]
    BY <1>1, <2>1 DEF Put, OwnPattern
  <2>2. CASE p # PatternOf[h]
    <3>1. p \in DOMAIN router /\ router'[p] = router[p]
      BY <1>1, <1>3, <1>6, <2>2 DEF Put
    <3>2. OwnPattern(p)
      BY <1>1, <1>6, <3>1 DEF RoutesInv
    <3>3. router[p] # IdOf[h]
      BY <1>1, <1>6, <3>2 DEF OwnPattern
    <3>4. router[p] \in DOMAIN http' /\ http'[router[p]] = http[router[p]]
      BY <1>1, <3>2, <3>3 DEF Put, OwnPattern
    <3> QED  BY <3>1, <3>2, <3>4 DEF OwnPattern
  <2> QED  BY <2>1, <2>2
<1> QED  BY <1>1, <1>4, <1>5, <1>6 DEF RoutesInv

LEMMA RoutesStep ==
  ASSUME RoutesInv, [PathNext]_allvars
  PROVE  RoutesInv'
<1>1. CASE UNCHANGED <<keepsFirst, router, http>> /\ builder' \in {builder, "panicked"}
  BY <1>1 DEF RoutesInv, OwnRoute, OwnPattern
<1>2. CASE Serve
  BY <1>2 DEF Serve, RoutesInv, OwnRoute, OwnPattern, httpTables
<1>3. ASSUME NEW h \in Handlers, Rejected(h) PROVE RoutesInv'
  BY <1>1, <1>3 DEF Rejected, httpTables
<1>4. ASSUME NEW h \in HttpHandlers, HttpRefused(h) \/ HttpConflict(h) PROVE RoutesInv'
  BY <1>4 DEF HttpRefused, HttpConflict, RoutesInv
<1>5. ASSUME NEW h \in GrpcHandlers, GrpcDuplicate(h) \/ GrpcRoute(h) PROVE RoutesInv'
  BY <1>1, <1>5 DEF GrpcDuplicate, GrpcRoute, httpTables
<1>6. CASE Registration
  BY <1>2, <1>3, <1>4, <1>5, <1>6, HttpRouteOwn DEF Registration
<1>7. CASE UNCHANGED rtvars
  BY <1>1, <1>7 DEF rtvars, httpTables
<1> QED  BY <1>6, <1>7, TrafficReadsTables DEF PathNext, allvars

LEMMA MethodsStep ==
  ASSUME MethodsInv, [PathNext]_allvars
  PROVE  MethodsInv'
<1>1. CASE UNCHANGED grpc
  BY <1>1 DEF MethodsInv
<1>2. ASSUME NEW h \in GrpcHandlers, GrpcRoute(h) PROVE MethodsInv'
  BY <1>2 DEF GrpcRoute, MethodsInv, Put
<1>3. CASE Registration
  BY <1>1, <1>2, <1>3 DEF Registration, Rejected, HttpRefused, HttpConflict, HttpRoute,
       GrpcDuplicate, Serve, grpcTables
<1>4. CASE UNCHANGED rtvars
  BY <1>1, <1>4 DEF rtvars, grpcTables
<1> QED  BY <1>3, <1>4, TrafficReadsTables DEF PathNext, allvars

-----------------------------------------------------------------------------
(***************************************************************************)
(* What routing finds, for any patterns and any order among them.  Least   *)
(* positions exist because < is well-founded on the natural numbers: that  *)
(* is where the proofs about sequences of any length come from.            *)
(***************************************************************************)

LEMMA LeastElement ==
  ASSUME NEW S, S \subseteq Nat, S # {}
  PROVE  Least(S) \in S /\ \A n \in S : Least(S) <= n
<1> DEFINE LessThan == OpToRel(<, Nat)
<1>1. PICK m \in S : \A n \in S : ~(<<n, m>> \in LessThan)
  <2>1. IsWellFoundedOn(LessThan, Nat)
    BY NatLessThanWellFounded
  <2> HIDE DEF LessThan
  <2> QED  BY <2>1, WFMin
<1>2. ASSUME NEW n \in S PROVE m <= n
  <2>1. ~(n < m)
    BY <1>1 DEF OpToRel
  <2> QED  BY <2>1
<1> QED  BY <1>2 DEF Least

\* An HTTP request is routed to the id of the best registered pattern that
\* matches its path, and to none only if no registered pattern does.
LEMMA BestPattern ==
  ASSUME NEW path \in Paths
  PROVE  \/ /\ RouteHttp(path) = None
            /\ \A p \in DOMAIN router : p \notin Range(Matching[path])
         \/ \E i \in DOMAIN Matching[path] :
              /\ Matching[path][i] \in DOMAIN router
              /\ RouteHttp(path) = router[Matching[path][i]]
              /\ \A j \in DOMAIN Matching[path] :
                   Matching[path][j] \in DOMAIN router => i <= j
<1> DEFINE held == {i \in DOMAIN Matching[path] : Matching[path][i] \in DOMAIN router}
<1>1. DOMAIN Matching[path] \subseteq Nat
  <2>1. Matching[path] \in Seq(Patterns)
    BY RegistryAssumption
  <2> QED  BY <2>1
<1>2. CASE held = {}
  <2>1. RouteHttp(path) = None
    BY <1>2 DEF RouteHttp
  <2> QED  BY <1>2, <2>1 DEF Range
<1>3. CASE held # {}
  <2>1. Least(held) \in held /\ \A j \in held : Least(held) <= j
    BY <1>1, <1>3, LeastElement
  <2>2. RouteHttp(path) = router[Matching[path][Least(held)]]
    BY <1>3 DEF RouteHttp
  <2> QED  BY <2>1, <2>2
<1> QED  BY <1>2, <1>3

-----------------------------------------------------------------------------
(***************************************************************************)
(* The layers.  A request goes down to the first one that answers it; the  *)
(* monitor stands below the layers that may and just above the job.        *)
(***************************************************************************)

MonitorAboveJob(stack, i) ==
  /\ i \in DOMAIN stack
  /\ stack[i] \in {"guard", "reflection", "job"}
  /\ (\E j \in 1..i : stack[j] = "monitor") <=> stack[i] = "job"

LEMMA StopFacts ==
  ASSUME NEW stack \in {HttpStack, GrpcStack}, NEW target, NEW blocked \in BOOLEAN
  PROVE  LET i == StopAt(stack, target, blocked)
         IN  /\ MonitorAboveJob(stack, i)
             /\ Stops(stack[i], target, blocked)
<1> DEFINE stops == {i \in DOMAIN stack : Wrapped(stack[i]) /\ Stops(stack[i], target, blocked)}
<1>1. stack = <<"guard", "monitor", "job">> \/ stack = <<"guard", "reflection", "monitor", "job">>
  BY DEF HttpStack, GrpcStack
<1>2. DOMAIN stack \subseteq Nat /\ \E n \in DOMAIN stack : stack[n] = "job"
  BY <1>1
<1>3. stops \subseteq Nat /\ stops # {}
  BY <1>2 DEF Wrapped, Stops
<1>4. StopAt(stack, target, blocked) \in stops
  BY <1>3, LeastElement DEF StopAt
<1>5. ASSUME NEW i \in stops PROVE stack[i] \in {"guard", "reflection", "job"}
  <2>1. stack[i] \in {"guard", "reflection", "monitor", "job"}
    BY <1>1, <1>5
  <2>2. ~Stops("monitor", target, blocked)
    BY DEF Stops
  <2> QED  BY <1>5, <2>1, <2>2
<1>6. ASSUME NEW i \in stops PROVE MonitorAboveJob(stack, i)
  <2> HIDE DEF stops
  <2>1. i \in DOMAIN stack /\ stack[i] \in {"guard", "reflection", "job"}
    BY <1>5, <1>6 DEF stops
  <2>2. CASE stack = <<"guard", "monitor", "job">>
    BY <2>1, <2>2 DEF MonitorAboveJob
  <2>3. CASE stack = <<"guard", "reflection", "monitor", "job">>
    BY <2>1, <2>3 DEF MonitorAboveJob
  <2> QED  BY <1>1, <2>2, <2>3
<1> QED  BY <1>4, <1>6

-----------------------------------------------------------------------------
(***************************************************************************)
(* What a request is told.  AnswerInv says of each request that its answer *)
(* and its handler agree with the tables, and that it has been counted if  *)
(* and only if it went down to the job.  Requests come when the tables are *)
(* fixed, so what was true as one arrived stays true of it.                *)
(***************************************************************************)

Recorded ==
  [via : {"none", "http", "grpc"}, target : Paths \cup Methods \cup {""},
   handler : Handlers \cup {None, Prebuilt},
   answer : {"none", "PermissionDenied", "reflection", "NotFound",
             "Unimplemented", "ok", "Internal", "unencodable", "dropped"}]

\* h is registered under the id of the best registered pattern that matches.
Dispatched(path, h) ==
  \E i \in DOMAIN Matching[path] :
    /\ Matching[path][i] \in DOMAIN router
    /\ \A j \in DOMAIN Matching[path] : Matching[path][j] \in DOMAIN router => i <= j
    /\ router[Matching[path][i]] \in DOMAIN http
    /\ http[router[Matching[path][i]]] = h

Agrees(q) ==
  /\ q.via = "none" => q = NoRequest
  /\ q.via = "http" => q.target \in Paths
  /\ q.via = "grpc" => q.target \in Methods
  /\ q.via # "none" /\ q.answer \notin {"PermissionDenied", "reflection"} =>
       q.handler = Responsible(q.via, q.target)
  /\ q.answer \in {"PermissionDenied", "reflection"} => q.handler = None
  /\ q.via = "http" /\ q.handler \in Handlers => Dispatched(q.target, q.handler)
  /\ q.via = "grpc" /\ q.handler \in Handlers =>
       q.target \in DOMAIN grpc /\ q.handler = grpc[q.target]
  /\ q.answer = "NotFound" => \A p \in DOMAIN router : p \notin Range(Matching[q.target])
  /\ q.answer = "Unimplemented" => q.target \notin DOMAIN grpc
  /\ q.answer = "reflection" => q.target \in ReflectionPrefixed

WentDown(q) ==
  /\ q.via # "none"
  /\ q.via = "grpc" => q.target \in Declared
  /\ q.answer \notin {"PermissionDenied", "reflection"}

AnswerInv ==
  /\ layers \in Settings
  /\ counted \subseteq Requests
  /\ req \in [Requests -> Recorded]
  /\ \A r \in Requests :
       /\ req[r].via # "none" => Serving
       /\ Agrees(req[r])
       /\ "monitor" \in layers => (r \in counted <=> WentDown(req[r]))

\* What an arriving request becomes, and whether it is counted.
Arrived(q, r) ==
  /\ q \in Recorded
  /\ q.via # "none"
  /\ q.handler # None => q.answer = "none"
  /\ Agrees(q)
  /\ counted' \in {counted, counted \cup {r}}
  /\ "monitor" \in layers => (r \in counted' <=> WentDown(q) \/ r \in counted)

LEMMA AnswerInit == PathInit => AnswerInv
<1> SUFFICES ASSUME PathInit PROVE AnswerInv
  OBVIOUS
<1>1. NoRequest \in Recorded
  BY DEF NoRequest, Recorded
<1>2. Agrees(NoRequest) /\ ~WentDown(NoRequest) /\ NoRequest.via = "none"
  BY DEF NoRequest, Agrees, WentDown
<1> QED  BY <1>1, <1>2 DEF PathInit, AnswerInv

\* No registered handler and no registered id is None.
LEMMA NamesApart ==
  ASSUME RegistryInv
  PROVE  /\ None \notin DOMAIN http /\ None \notin DOMAIN grpc
         /\ \A id \in DOMAIN http : http[id] \in Handlers /\ http[id] # None
         /\ \A id \in DOMAIN grpc : grpc[id] \in Handlers /\ grpc[id] # None
         /\ Prebuilt # None
BY NoneApart DEF RegistryInv, RTypeOK, Range, None, Prebuilt

\* The job finds a handler for an HTTP request among those whose pattern
\* matches, and finds none only if no registered pattern does.
LEMMA HttpHandlerFound ==
  ASSUME RegistryInv, Serving, NEW path \in Paths
  PROVE  LET h == HandlerFor("http", path)
         IN  /\ h \in Handlers \cup {None, Prebuilt}
             /\ h = None => \A p \in DOMAIN router : p \notin Range(Matching[path])
             /\ h \in Handlers => Dispatched(path, h)
<1>1. Range(router) = DOMAIN http
  BY DEF RegistryInv, WholeRoutes, Serving
<1>2. CASE "http" \in prebuilt
  BY <1>2, NamesApart, PrebuiltApart DEF HandlerFor
<1>3. CASE "http" \notin prebuilt
  <2>1. HandlerFor("http", path) = Lookup(http, RouteHttp(path))
    BY <1>3 DEF HandlerFor
  <2>2. CASE /\ RouteHttp(path) = None
             /\ \A p \in DOMAIN router : p \notin Range(Matching[path])
    BY <2>1, <2>2, NamesApart, NoneApart DEF Lookup
  <2>3. CASE \E i \in DOMAIN Matching[path] :
               /\ Matching[path][i] \in DOMAIN router
               /\ RouteHttp(path) = router[Matching[path][i]]
               /\ \A j \in DOMAIN Matching[path] :
                    Matching[path][j] \in DOMAIN router => i <= j
    <3>1. PICK i \in DOMAIN Matching[path] :
            /\ Matching[path][i] \in DOMAIN router
            /\ RouteHttp(path) = router[Matching[path][i]]
            /\ \A j \in DOMAIN Matching[path] :
                 Matching[path][j] \in DOMAIN router => i <= j
      BY <2>3
    <3>2. router[Matching[path][i]] \in DOMAIN http
      BY <1>1, <3>1 DEF Range
    <3>3. HandlerFor("http", path) = http[router[Matching[path][i]]]
      BY <2>1, <3>1, <3>2 DEF Lookup
    <3> QED  BY <3>1, <3>2, <3>3, NamesApart DEF Dispatched
  <2> QED  BY <2>2, <2>3, BestPattern
<1> QED  BY <1>2, <1>3

\* The same for gRPC, where the method is the id.
LEMMA GrpcHandlerFound ==
  ASSUME RegistryInv, NEW method
  PROVE  LET h == HandlerFor("grpc", method)
         IN  /\ h \in Handlers \cup {None, Prebuilt}
             /\ h = None => method \notin DOMAIN grpc
             /\ h \in Handlers => method \in DOMAIN grpc /\ h = grpc[method]
<1>1. CASE "grpc" \in prebuilt
  BY <1>1, NamesApart, PrebuiltApart DEF HandlerFor
<1>2. CASE "grpc" \notin prebuilt
  BY <1>2, NamesApart, NoneApart DEF HandlerFor, Lookup, RouteGrpc
<1> QED  BY <1>1, <1>2

\* Whichever layer answers a request, it becomes one that has arrived.
LEMMA EnterArrives ==
  ASSUME RegistryInv, Serving, NEW r, NEW via \in {"http", "grpc"},
         NEW stack \in {HttpStack, GrpcStack}, NEW target, NEW blocked \in BOOLEAN,
         via = "http" => target \in Paths,
         via = "grpc" => target \in Methods \cap Declared,
         Enter(r, via, stack, target, blocked)
  PROVE  \E q : req' = [req EXCEPT ![r] = q] /\ Arrived(q, r)
<1> DEFINE i == StopAt(stack, target, blocked)
           h == IF stack[i] = "job" THEN HandlerFor(via, target) ELSE None
           answer == CASE stack[i] = "guard"      -> "PermissionDenied"
                       [] stack[i] = "reflection" -> "reflection"
                       [] stack[i] = "job"        -> IF h = None THEN Unrouted[via]
                                                     ELSE "none"
           q == [via |-> via, target |-> target, handler |-> h, answer |-> answer]
<1>1. MonitorAboveJob(stack, i) /\ Stops(stack[i], target, blocked)
  BY StopFacts
<1>2. /\ req' = [req EXCEPT ![r] = q]
      /\ counted' = IF \E j \in 1..i : stack[j] = "monitor" /\ Wrapped(stack[j])
                      THEN counted \cup {r} ELSE counted
  BY DEF Enter
<1> HIDE DEF i
<1>3. stack[i] = "guard" \/ stack[i] = "reflection" \/ stack[i] = "job"
  BY <1>1 DEF MonitorAboveJob
<1>4. /\ q.via = via /\ q.target = target /\ q.handler = h /\ q.answer = answer
      /\ target \in Paths \cup Methods \cup {""}
  OBVIOUS
<1>5. counted' \in {counted, counted \cup {r}}
  BY <1>2
<1>6. "monitor" \in layers => (r \in counted' <=> stack[i] = "job" \/ r \in counted)
  BY <1>1, <1>2 DEF MonitorAboveJob, Wrapped
<1>7. CASE stack[i] = "guard"
  <2>1. h = None /\ answer = "PermissionDenied"
    BY <1>7
  <2>2. q \in Recorded
    BY <1>4, <2>1 DEF Recorded
  <2>3. Agrees(q) /\ ~WentDown(q)
    BY <1>4, <2>1, NoneApart DEF Agrees, WentDown
  <2> QED  BY <1>2, <1>4, <1>5, <1>6, <1>7, <2>2, <2>3 DEF Arrived
<1>8. CASE stack[i] = "reflection"
  <2>1. h = None /\ answer = "reflection" /\ target \in ReflectionPrefixed
    BY <1>1, <1>8 DEF Stops
  <2>2. q \in Recorded
    BY <1>4, <2>1 DEF Recorded
  <2>3. Agrees(q) /\ ~WentDown(q)
    BY <1>4, <2>1, NoneApart DEF Agrees, WentDown
  <2> QED  BY <1>2, <1>4, <1>5, <1>6, <1>8, <2>2, <2>3 DEF Arrived
<1>9. CASE stack[i] = "job"
  <2>1. h = HandlerFor(via, target) /\ answer = IF h = None THEN Unrouted[via] ELSE "none"
    BY <1>9
  <2> HIDE DEF h, answer
  <2>2. /\ h \in Handlers \cup {None, Prebuilt}
        /\ via = "http" /\ h = None =>
             \A p \in DOMAIN router : p \notin Range(Matching[target])
        /\ via = "http" /\ h \in Handlers => Dispatched(target, h)
        /\ via = "grpc" /\ h = None => target \notin DOMAIN grpc
        /\ via = "grpc" /\ h \in Handlers => target \in DOMAIN grpc /\ h = grpc[target]
    <3>1. CASE via = "http"
      BY <2>1, <3>1, HttpHandlerFound
    <3>2. CASE via = "grpc"
      BY <2>1, <3>2, GrpcHandlerFound
    <3> QED  BY <3>1, <3>2
  <2>3. /\ answer \in {"none", "NotFound", "Unimplemented"}
        /\ answer = "NotFound" => via = "http" /\ h = None
        /\ answer = "Unimplemented" => via = "grpc" /\ h = None
        /\ h # None => answer = "none"
    BY <2>1 DEF Unrouted
  <2>4. q \in Recorded
    BY <1>4, <2>2, <2>3 DEF Recorded
  <2>5. Agrees(q)
    <3>1. h = Responsible(via, target)
      BY <2>1 DEF Responsible
    <3> QED  BY <1>4, <2>2, <2>3, <3>1 DEF Agrees
  <2>6. WentDown(q)
    BY <1>4, <2>3 DEF WentDown
  <2> QED  BY <1>2, <1>4, <1>5, <1>6, <1>9, <2>3, <2>4, <2>5, <2>6 DEF Arrived
<1> QED  BY <1>3, <1>7, <1>8, <1>9

LEMMA RequestArrives ==
  ASSUME RegistryInv, NEW r \in Requests, HttpArrives(r) \/ GrpcArrives(r)
  PROVE  \E q : req' = [req EXCEPT ![r] = q] /\ Arrived(q, r)
<1>1. Serving
  BY DEF HttpArrives, GrpcArrives, New, Serving
<1>2. CASE HttpArrives(r)
  <2>1. PICK path \in Paths, blocked \in BOOLEAN : Enter(r, "http", HttpStack, path, blocked)
    BY <1>2 DEF HttpArrives
  <2> QED  BY <1>1, <2>1, EnterArrives
<1>3. CASE GrpcArrives(r)
  <2>1. PICK method \in Methods, blocked \in BOOLEAN :
          IF method \in Declared
            THEN Enter(r, "grpc", GrpcStack, method, blocked)
            ELSE /\ req' = [req EXCEPT ![r] = [via |-> "grpc", target |-> method,
                                          handler |-> None, answer |-> "Unimplemented"]]
                 /\ UNCHANGED counted
    BY <1>3 DEF GrpcArrives
  <2>2. CASE method \in Declared
    BY <1>1, <2>1, <2>2, EnterArrives
  <2>3. CASE method \notin Declared
    <3> DEFINE q == [via |-> "grpc", target |-> method,
                     handler |-> None, answer |-> "Unimplemented"]
    <3>1. /\ q \in Recorded
          /\ q.via = "grpc" /\ q.target = method /\ q.answer = "Unimplemented"
          /\ q.handler = None /\ q.handler \notin Handlers
      BY NoneApart DEF Recorded
    <3>2. Responsible("grpc", method) = None /\ method \notin DOMAIN grpc
      BY <2>3 DEF Responsible, Declared
    <3>3. Agrees(q) /\ ~WentDown(q)
      BY <2>3, <3>1, <3>2 DEF Agrees, WentDown
    <3> QED  BY <2>1, <2>3, <3>1, <3>3 DEF Arrived
  <2> QED  BY <2>2, <2>3
<1> QED  BY <1>2, <1>3

\* What an answer agrees with does not change while the runtime serves.
LEMMA TrafficKeeps ==
  ASSUME UNCHANGED <<rtvars, layers>>, NEW r
  PROVE  /\ Agrees(req[r])' <=> Agrees(req'[r])
         /\ WentDown(req[r])' <=> WentDown(req'[r])
BY DEF rtvars, httpTables, grpcTables, Agrees, WentDown, Dispatched, Declared, Empty,
   Responsible, HandlerFor, Lookup, RouteHttp, RouteGrpc

LEMMA ArrivalKeeps ==
  ASSUME AnswerInv, RegistryInv, NEW r \in Requests, HttpArrives(r) \/ GrpcArrives(r)
  PROVE  AnswerInv'
<1>1. PICK q : req' = [req EXCEPT ![r] = q] /\ Arrived(q, r)
  BY RequestArrives
<1>2. UNCHANGED <<rtvars, layers>> /\ Serving /\ Serving'
  BY TrafficReadsTables DEF Request, HttpArrives, GrpcArrives, New, Serving, rtvars
<1>3. req[r].via = "none"
  <2>1. req[r] = NoRequest
    BY DEF HttpArrives, GrpcArrives, New
  <2>2. NoRequest.via = "none"
    BY DEF NoRequest
  <2> QED  BY <2>1, <2>2
<1>4. req' \in [Requests -> Recorded] /\ counted' \subseteq Requests
  BY <1>1 DEF AnswerInv, Arrived
<1>5. ASSUME NEW s \in Requests
      PROVE  /\ Agrees(req[s])'
             /\ "monitor" \in layers => (s \in counted' <=> WentDown(req[s])')
  <2>1. CASE s = r
    <3>1. req'[s] = q
      BY <1>1, <2>1 DEF AnswerInv
    <3>2. "monitor" \in layers => r \notin counted
      BY <1>3 DEF AnswerInv, WentDown
    <3> QED  BY <1>1, <1>2, <2>1, <3>1, <3>2, TrafficKeeps DEF Arrived
  <2>2. CASE s # r
    <3>1. req'[s] = req[s] /\ (s \in counted' <=> s \in counted)
      BY <1>1, <2>2 DEF AnswerInv, Arrived
    <3> QED  BY <1>2, <3>1, TrafficKeeps DEF AnswerInv
  <2> QED  BY <2>1, <2>2
<1> QED  BY <1>2, <1>4, <1>5 DEF AnswerInv

LEMMA AnswerKeeps ==
  ASSUME AnswerInv, NEW r \in Requests, Responds(r) \/ Dropped(r)
  PROVE  AnswerInv'
<1>1. PICK answer \in {"ok", "Internal", "unencodable", "dropped"} :
        req' = [req EXCEPT ![r].answer = answer]
  BY DEF Responds, Dropped
<1>2. UNCHANGED <<rtvars, layers, counted>> /\ (Serving' <=> Serving)
  BY DEF Responds, Dropped, Serving, rtvars
<1>3. req[r].answer = "none" /\ req[r].via # "none"
  <2>1. req[r].answer = "none" /\ req[r].handler # None
    BY DEF Responds, Dropped, Executing
  <2>2. req[r].via = "none" => req[r] = NoRequest
    BY DEF AnswerInv, Agrees
  <2>3. NoRequest.handler = None
    BY DEF NoRequest
  <2> QED  BY <2>1, <2>2, <2>3
<1>4. req \in [Requests -> Recorded] /\ req[r] \in Recorded
  BY DEF AnswerInv
<1>5. /\ req'[r] \in Recorded /\ req'[r].answer = answer
      /\ req'[r].via = req[r].via /\ req'[r].target = req[r].target
      /\ req'[r].handler = req[r].handler
      /\ \A s \in Requests \ {r} : req'[s] = req[s]
      /\ req' \in [Requests -> Recorded]
  BY <1>1, <1>4 DEF Recorded
<1>6. ASSUME NEW s \in Requests
      PROVE  /\ req'[s].via = req[s].via
             /\ Agrees(req'[s])
             /\ WentDown(req'[s]) <=> WentDown(req[s])
  <2>1. Agrees(req[s])
    BY DEF AnswerInv
  <2> QED  BY <1>1, <1>3, <1>5, <2>1 DEF Agrees, WentDown
<1>7. \A s \in Requests : Agrees(req[s])' /\ (WentDown(req[s])' <=> WentDown(req[s]))
  BY <1>2, <1>6, TrafficKeeps
<1> QED  BY <1>2, <1>5, <1>6, <1>7 DEF AnswerInv

\* Before the runtime serves there is no request yet.
LEMMA RegistrationKeeps ==
  ASSUME AnswerInv, Registration, UNCHANGED pvars
  PROVE  AnswerInv'
<1>1. ~Serving
  BY DEF Registration, Rejected, HttpRefused, HttpConflict, HttpRoute, GrpcDuplicate,
         GrpcRoute, Serve, Serving
<1>2. UNCHANGED <<layers, req, counted>>
  BY DEF pvars
<1>3. ASSUME NEW r \in Requests
      PROVE  /\ req[r] = NoRequest
             /\ "monitor" \in layers => r \notin counted
  <2>1. req[r].via = "none" /\ Agrees(req[r])
    BY <1>1 DEF AnswerInv
  <2> QED  BY <2>1 DEF AnswerInv, Agrees, WentDown
<1>4. ASSUME NEW r \in Requests
      PROVE  /\ req'[r].via = "none"
             /\ Agrees(req[r])'
             /\ ~WentDown(req[r])'
  <2>1. req'[r] = NoRequest
    BY <1>2, <1>3
  <2>2. NoRequest.via = "none" /\ NoRequest.answer = "none"
    BY DEF NoRequest
  <2> QED  BY <2>1, <2>2 DEF Agrees, WentDown
<1> QED  BY <1>2, <1>3, <1>4 DEF AnswerInv

LEMMA AnswerInvStep ==
  ASSUME AnswerInv, RegistryInv, [PathNext]_allvars
  PROVE  AnswerInv'
<1>1. CASE Registration /\ UNCHANGED pvars
  BY <1>1, RegistrationKeeps
<1>2. ASSUME NEW r \in Requests, Request(r) PROVE AnswerInv'
  BY <1>2, ArrivalKeeps, AnswerKeeps DEF Request
<1>3. CASE UNCHANGED <<rtvars, layers, req, counted>>
  <2>1. \A r \in Requests : /\ Agrees(req[r])' <=> Agrees(req[r])
                            /\ WentDown(req[r])' <=> WentDown(req[r])
    BY <1>3, TrafficKeeps
  <2> QED  BY <1>3, <2>1 DEF AnswerInv, Serving, rtvars
<1>4. CASE Probe
  <2>1. UNCHANGED <<rtvars, layers, req, counted>>
    BY <1>4 DEF Probe, ProbeStarts, Polls, ProbeEnds
  <2> QED  BY <1>3, <2>1
<1>5. CASE UNCHANGED allvars
  BY <1>3, <1>5 DEF allvars, pvars
<1> QED  BY <1>1, <1>2, <1>4, <1>5 DEF PathNext

LEMMA AnswerInductive == PathSpec => [](AnswerInv /\ RoutesInv /\ MethodsInv)
<1>1. PathInit => AnswerInv /\ RoutesInv /\ MethodsInv
  BY AnswerInit, RoutesInit DEF PathInit, RegistryInit, MethodsInv, Empty
<1>2. RegistryInv /\ AnswerInv /\ RoutesInv /\ MethodsInv /\ [PathNext]_allvars
        => (AnswerInv /\ RoutesInv /\ MethodsInv)'
  BY AnswerInvStep, RoutesStep, MethodsStep
<1> QED  BY <1>1, <1>2, RegistryInductive, PTL DEF PathSpec

\* A request is told that it has no handler only if no registered route
\* matches it, and the reflection service answers only its own prefix.
THEOREM PathRefusedOnlyUnrouted == PathSpec => []RefusedOnlyUnrouted
<1>1. AnswerInv => RefusedOnlyUnrouted
  BY DEF AnswerInv, Agrees, RefusedOnlyUnrouted
<1> QED  BY <1>1, AnswerInductive, PTL

\* What the load monitor counts is exactly what reaches a job.
THEOREM PathMonitorSeesTheJob == PathSpec => []MonitorSeesTheJob
<1>1. AnswerInv => MonitorSeesTheJob
  BY DEF AnswerInv, WentDown, MonitorSeesTheJob
<1> QED  BY <1>1, AnswerInductive, PTL

\* What executes a request is what the tables say.
RightHandler ==
  \A r \in Requests :
    req[r].handler \in Handlers =>
      IF req[r].via = "http" THEN Dispatched(req[r].target, req[r].handler)
      ELSE /\ req[r].target \in DOMAIN grpc
           /\ req[r].handler = grpc[req[r].target]
           /\ IdOf[req[r].handler] = req[r].target

\* The handler that executes an HTTP request is the one registered under the
\* id of the best registered pattern that matches its path; a gRPC method is
\* executed by the handler registered for it, whose own id it is.
THEOREM PathRightHandler == PathSpec => []RightHandler
<1>1. AnswerInv /\ MethodsInv => RightHandler
  <2> SUFFICES ASSUME AnswerInv, MethodsInv, NEW r \in Requests, req[r].handler \in Handlers
               PROVE  IF req[r].via = "http" THEN Dispatched(req[r].target, req[r].handler)
                      ELSE /\ req[r].target \in DOMAIN grpc
                           /\ req[r].handler = grpc[req[r].target]
                           /\ IdOf[req[r].handler] = req[r].target
    BY DEF RightHandler
  <2>1. Agrees(req[r])
    BY DEF AnswerInv
  <2>2. req[r].via \in {"http", "grpc"}
    <3>1. req[r].via \in {"none", "http", "grpc"}
      BY DEF AnswerInv, Recorded
    <3>2. NoRequest.handler = None
      BY DEF NoRequest
    <3>3. req[r].via # "none"
      BY <2>1, <3>2, NoneApart DEF Agrees
    <3> QED  BY <3>1, <3>3
  <2> QED  BY <2>1, <2>2 DEF Agrees, MethodsInv
<1> QED  BY <1>1, AnswerInductive, PTL

LEMMA TwoIsMoreThanOne ==
  ASSUME NEW S, IsFiniteSet(S), NEW a \in S, NEW b \in S, a # b
  PROVE  Cardinality(S) > 1
<1>1. Cardinality(S) \in Nat
  BY FS_CardinalityType
<1>2. Cardinality(S) # 0
  BY FS_EmptySet
<1>3. Cardinality(S) # 1
  BY FS_Singleton
<1> QED  BY <1>1, <1>2, <1>3

\* It is one whose own pattern matches the path, unless the registry replaces
\* handlers and two patterns lead to the id.
THEOREM PathOwnPattern == PathSpec => []OwnPatternOrSharedId
<1>1. ASSUME AnswerInv, RoutesInv, NEW r \in Requests,
             req[r].via = "http", req[r].handler \in Handlers
      PROVE  \/ PatternOf[req[r].handler] \in Range(Matching[req[r].target])
             \/ /\ ~keepsFirst
                /\ Cardinality({p \in DOMAIN router : router[p] = IdOf[req[r].handler]}) > 1
  <2> DEFINE h == req[r].handler
             sharing == {p \in DOMAIN router : router[p] = IdOf[h]}
  <2>1. Serving /\ Dispatched(req[r].target, h)
    BY <1>1 DEF AnswerInv, Agrees
  <2>2. PICK i \in DOMAIN Matching[req[r].target] :
          LET p == Matching[req[r].target][i]
          IN  p \in DOMAIN router /\ router[p] \in DOMAIN http /\ http[router[p]] = h
    BY <2>1 DEF Dispatched
  <2> DEFINE p == Matching[req[r].target][i]
  <2>3. p \in Range(Matching[req[r].target])
    BY DEF Range
  <2> HIDE DEF p
  <2>4. OwnRoute(router[p])
    BY <1>1, <2>1, <2>2 DEF RoutesInv, Serving, p
  <2>5. p \in sharing /\ PatternOf[h] \in sharing
    BY <2>2, <2>4 DEF OwnRoute, p
  <2>6. IsFiniteSet(sharing)
    BY <1>1, FS_Subset DEF RoutesInv
  <2>7. keepsFirst => PatternOf[h] = p
    BY <1>1, <2>1, <2>2 DEF RoutesInv, OwnPattern, Serving, p
  <2> QED  BY <2>3, <2>5, <2>6, <2>7, TwoIsMoreThanOne
<1>2. AnswerInv /\ RoutesInv => OwnPatternOrSharedId
  BY <1>1 DEF OwnPatternOrSharedId
<1> QED  BY <1>2, AnswerInductive, PTL

\* The path's state and that of the registries have their types.
THEOREM PathTypeCorrect == PathSpec => []PathTypeOK
<1>1. RegistryInv /\ CoverInv /\ AnswerInv => PathTypeOK
  BY DEF RegistryInv, CoverInv, ProbeShape, AnswerInv, Recorded, PathTypeOK
<1> QED  BY <1>1, RegistryInductive, CoverInductive, AnswerInductive, PTL

-----------------------------------------------------------------------------
(***************************************************************************)
(* The layers and the jobs implement Dispatcher.  Registration happens     *)
(* before it opens; Serve opens it with what the tables then say; after    *)
(* that the tables stay, so each request finds in them who serves it.      *)
(***************************************************************************)
ServesNow ==
  [t \in Targets |-> IF builder = "serving" THEN Responsible(t[1], t[2]) ELSE None]
StageNow  == [r \in Requests |-> StageOf(req[r])]
TargetNow == [r \in Requests |-> <<req[r].via, req[r].target>>]
ByNow     == [r \in Requests |-> req[r].handler]

DStep == [Dispatch!Next]_(Dispatch!dpvars)

LEMMA ServesTyped ==
  RegistryInv => ServesNow \in [Targets -> (Handlers \cup {Prebuilt}) \cup {None}]
<1> SUFFICES ASSUME RegistryInv, Serving, NEW t \in Targets
             PROVE  Responsible(t[1], t[2]) \in (Handlers \cup {Prebuilt}) \cup {None}
  BY DEF ServesNow, Serving
<1>1. CASE t \in {"http"} \X Paths
  <2>1. t[1] = "http" /\ t[2] \in Paths
    BY <1>1
  <2> QED  BY <2>1, HttpHandlerFound DEF Responsible
<1>2. CASE t \in {"grpc"} \X Methods
  <2>1. t[1] = "grpc"
    BY <1>2
  <2> QED  BY <2>1, GrpcHandlerFound DEF Responsible
<1> QED  BY <1>1, <1>2 DEF Targets

LEMMA DispatchStutter ==
  ASSUME UNCHANGED <<ServesNow, req>>, Serving' <=> Serving
  PROVE  DStep
BY DEF DStep, Dispatch!dpvars, ServesNow, Serving

LEMMA RegistrationSimulates ==
  ASSUME ServesNow' \in [Targets -> (Handlers \cup {Prebuilt}) \cup {None}],
         Registration, UNCHANGED pvars
  PROVE  DStep
<1>1. UNCHANGED req /\ builder = "building"
  BY DEF pvars, Registration, Rejected, HttpRefused, HttpConflict, HttpRoute, GrpcDuplicate,
     GrpcRoute, Serve
<1>2. CASE builder' = "serving"
  <2>1. Dispatch!Open
    BY <1>1, <1>2 DEF Dispatch!Open, ServesNow
  <2> QED  BY <2>1 DEF DStep, Dispatch!Next
<1>3. CASE builder' # "serving"
  <2>1. UNCHANGED ServesNow
    BY <1>1, <1>3 DEF ServesNow
  <2> QED  BY <1>1, <1>3, <2>1, DispatchStutter DEF Serving
<1> QED  BY <1>2, <1>3

LEMMA ServesStays == UNCHANGED <<rtvars, layers>> => UNCHANGED ServesNow
BY DEF rtvars, httpTables, grpcTables, ServesNow, Responsible, Declared, Empty, HandlerFor,
   Lookup, RouteHttp, RouteGrpc

LEMMA ArrivalSimulates ==
  ASSUME AnswerInv, RegistryInv, NEW r \in Requests, HttpArrives(r) \/ GrpcArrives(r)
  PROVE  DStep
<1>1. PICK q : req' = [req EXCEPT ![r] = q] /\ Arrived(q, r)
  BY RequestArrives
<1>2. UNCHANGED <<rtvars, layers>> /\ builder = "serving"
  BY TrafficReadsTables DEF Request, HttpArrives, GrpcArrives, New
<1>3. StageOf(req[r]) = "new"
  <2>1. req[r] = NoRequest
    BY DEF HttpArrives, GrpcArrives, New
  <2>2. NoRequest.via = "none"
    BY DEF NoRequest
  <2> QED  BY <2>1, <2>2 DEF StageOf
<1> DEFINE t == <<q.via, q.target>>
           kind == StageOf(q)
<1>4. q \in Recorded /\ q.via # "none" /\ Agrees(q)
  BY <1>1 DEF Arrived
<1>5. t \in Targets /\ ServesNow[t] = Responsible(q.via, q.target)
  <2>1. q.via \in {"http", "grpc"}
    BY <1>4 DEF Recorded
  <2>2. t \in Targets
    BY <1>4, <2>1 DEF Agrees, Targets
  <2> QED  BY <1>2, <2>2 DEF ServesNow
<1>6. \/ kind = "running" /\ ServesNow[t] # None /\ q.handler = ServesNow[t]
      \/ kind = "unserved" /\ ServesNow[t] = None /\ q.handler = None
      \/ kind = "turned" /\ q.handler = None
  <2>1. q.handler # None => q.answer = "none"
    BY <1>1 DEF Arrived
  <2> QED  BY <1>4, <1>5, <2>1 DEF Agrees, StageOf
<1>7. /\ StageNow' = [StageNow EXCEPT ![r] = kind]
      /\ TargetNow' = [TargetNow EXCEPT ![r] = t]
      /\ ByNow' = [ByNow EXCEPT ![r] = q.handler]
      /\ StageNow[r] = "new"
  BY <1>1, <1>3 DEF AnswerInv, StageNow, TargetNow, ByNow
<1>8. UNCHANGED ServesNow /\ UNCHANGED builder
  BY <1>2, ServesStays DEF rtvars
<1> HIDE DEF t, kind
<1>9. Dispatch!Arrive(r)
  <2>1. Dispatch!Outcome(kind, t)
    BY <1>6 DEF Dispatch!Outcome, ServesNow
  <2>2. ByNow' = [ByNow EXCEPT ![r] = IF kind = "running" THEN ServesNow[t] ELSE None]
    BY <1>6, <1>7
  <2>3. kind \in {"running", "unserved", "turned"}
    BY <1>6
  <2>4. \E k \in {"running", "unserved", "turned"} :
          /\ StageNow' = [StageNow EXCEPT ![r] = k]
          /\ \E u \in Targets :
               /\ Dispatch!Outcome(k, u)
               /\ TargetNow' = [TargetNow EXCEPT ![r] = u]
               /\ ByNow' = [ByNow EXCEPT ![r] = IF k = "running" THEN ServesNow[u] ELSE None]
    BY <1>5, <1>7, <2>1, <2>2, <2>3
  <2> QED
    BY <1>2, <1>7, <1>8, <2>4 DEF Dispatch!Arrive, ServesNow, StageNow, TargetNow, ByNow
<1> QED  BY <1>9 DEF DStep, Dispatch!Next

LEMMA EndSimulates ==
  ASSUME AnswerInv, NEW r \in Requests, Responds(r) \/ Dropped(r)
  PROVE  DStep
<1>1. PICK answer \in {"ok", "Internal", "unencodable", "dropped"} :
        req' = [req EXCEPT ![r].answer = answer]
  BY DEF Responds, Dropped
<1>2. req[r].answer = "none" /\ req[r].handler # None /\ UNCHANGED <<rtvars, layers>>
  BY DEF Responds, Dropped, Executing
<1>3. req[r] \in Recorded /\ req[r].via # "none"
  <2>1. req[r].via = "none" => req[r] = NoRequest
    BY DEF AnswerInv, Agrees
  <2>2. NoRequest.handler = None
    BY DEF NoRequest
  <2> QED  BY <1>2, <2>1, <2>2 DEF AnswerInv
<1>4. /\ req'[r].via = req[r].via /\ req'[r].target = req[r].target
      /\ req'[r].handler = req[r].handler /\ req'[r].answer = answer
      /\ \A s \in Requests \ {r} : req'[s] = req[s]
  BY <1>1, <1>3 DEF AnswerInv, Recorded
<1>5. StageOf(req[r]) = "running" /\ StageOf(req'[r]) = "over"
  BY <1>2, <1>3, <1>4 DEF StageOf
<1>6. /\ StageNow' = [StageNow EXCEPT ![r] = "over"]
      /\ TargetNow' = TargetNow /\ ByNow' = ByNow /\ StageNow[r] = "running"
  BY <1>4, <1>5 DEF StageNow, TargetNow, ByNow
<1>7. UNCHANGED ServesNow /\ UNCHANGED builder
  BY <1>2, ServesStays DEF rtvars
<1>8. Dispatch!End(r)
  BY <1>6, <1>7 DEF Dispatch!End, ServesNow, StageNow, TargetNow, ByNow
<1> QED  BY <1>8 DEF DStep, Dispatch!Next

\* For any handlers, ids and patterns and any number of requests: who serves a
\* target is fixed before the first request and is the same for all of them.
THEOREM PathImplementsDispatcher == PathSpec => ImplementsDispatcher
<1>1. PathInit => Dispatch!Init
  <2> SUFFICES ASSUME PathInit PROVE Dispatch!Init
    OBVIOUS
  <2>1. builder = "building" /\ req = [r \in Requests |-> NoRequest]
    BY DEF PathInit, RegistryInit
  <2>2. NoRequest.via = "none" /\ NoRequest.target = "" /\ NoRequest.handler = None
    BY DEF NoRequest
  <2>3. StageOf(NoRequest) = "new"
    BY <2>2 DEF StageOf
  <2> QED  BY <2>1, <2>2, <2>3 DEF Dispatch!Init
<1>2. PathSpec => [](ServesNow \in [Targets -> (Handlers \cup {Prebuilt}) \cup {None}])
  BY RegistryInductive, ServesTyped, PTL
<1>3. /\ RegistryInv /\ AnswerInv
      /\ (ServesNow \in [Targets -> (Handlers \cup {Prebuilt}) \cup {None}])'
      /\ [PathNext]_allvars
      => [Dispatch!Next]_(Dispatch!dpvars)
  <2> SUFFICES ASSUME RegistryInv, AnswerInv,
                      ServesNow' \in [Targets -> (Handlers \cup {Prebuilt}) \cup {None}],
                      [PathNext]_allvars
               PROVE  DStep
    BY DEF DStep
  <2>1. CASE Registration /\ UNCHANGED pvars
    BY <2>1, RegistrationSimulates
  <2>2. ASSUME NEW r \in Requests, Request(r) PROVE DStep
    BY <2>2, ArrivalSimulates, EndSimulates DEF Request
  <2>3. CASE Probe \/ UNCHANGED allvars
    <3>1. UNCHANGED <<rtvars, layers, req>>
      BY <2>3 DEF Probe, ProbeStarts, Polls, ProbeEnds, allvars, pvars
    <3> QED  BY <3>1, ServesStays, DispatchStutter DEF Serving, rtvars
  <2> QED  BY <2>1, <2>2, <2>3 DEF PathNext
<1> QED
  BY <1>1, <1>2, <1>3, RegistryInductive, AnswerInductive, PTL
  DEF PathSpec, ImplementsDispatcher, Dispatch!Spec

\* Dispatcher serves all requests for a target alike.
LEMMA DispatcherSameForAll == Dispatch!Spec => []Dispatch!SameForAll
<1> DEFINE Inv == \A r \in Requests :
                    StageNow[r] \in {"running", "over", "unserved"} =>
                      builder = "serving" /\ ByNow[r] = ServesNow[TargetNow[r]]
<1>1. Dispatch!Init => Inv
  BY DEF Dispatch!Init, StageNow, TargetNow, ByNow, ServesNow
<1>2. Inv /\ [Dispatch!Next]_(Dispatch!dpvars) => Inv'
  <2> SUFFICES ASSUME Inv, [Dispatch!Next]_(Dispatch!dpvars) PROVE Inv'
    OBVIOUS
  <2>1. CASE Dispatch!Open
    <3>1. /\ builder # "serving" /\ builder' = "serving"
          /\ UNCHANGED <<StageNow, TargetNow, ByNow>>
      BY <2>1 DEF Dispatch!Open, StageNow, TargetNow, ByNow
    <3> QED  BY <3>1
  <2>2. ASSUME NEW r \in Requests, Dispatch!Arrive(r) PROVE Inv'
    <3>1. PICK kind \in {"running", "unserved", "turned"}, t \in Targets :
            /\ Dispatch!Outcome(kind, t)
            /\ StageNow' = [StageNow EXCEPT ![r] = kind]
            /\ TargetNow' = [TargetNow EXCEPT ![r] = t]
            /\ ByNow' = [ByNow EXCEPT ![r] = IF kind = "running" THEN ServesNow[t] ELSE None]
      BY <2>2 DEF Dispatch!Arrive, StageNow, TargetNow, ByNow, ServesNow
    <3>2. /\ builder = "serving" /\ (builder' = "serving" <=> builder = "serving")
          /\ UNCHANGED ServesNow
      BY <2>2 DEF Dispatch!Arrive, ServesNow
    <3>3. kind = "unserved" => ServesNow[t] = None
      BY <3>1 DEF Dispatch!Outcome, ServesNow
    <3>4. ASSUME NEW s \in Requests
          PROVE  /\ StageNow'[s] = IF s = r THEN kind ELSE StageNow[s]
                 /\ TargetNow'[s] = IF s = r THEN t ELSE TargetNow[s]
                 /\ ByNow'[s] = IF s = r THEN IF kind = "running" THEN ServesNow[t] ELSE None
                                ELSE ByNow[s]
      BY <3>1 DEF StageNow, TargetNow, ByNow
    <3> QED  BY <3>1, <3>2, <3>3, <3>4
  <2>3. ASSUME NEW r \in Requests, Dispatch!End(r) PROVE Inv'
    <3>1. /\ StageNow[r] = "running" /\ StageNow' = [StageNow EXCEPT ![r] = "over"]
          /\ UNCHANGED <<ServesNow, TargetNow, ByNow>>
          /\ builder' = "serving" <=> builder = "serving"
      BY <2>3 DEF Dispatch!End, StageNow, TargetNow, ByNow, ServesNow
    <3>2. \A s \in Requests : StageNow'[s] = IF s = r THEN "over" ELSE StageNow[s]
      BY <3>1 DEF StageNow
    <3> QED  BY <3>1, <3>2
  <2>4. CASE UNCHANGED (Dispatch!dpvars)
    <3>1. /\ UNCHANGED <<StageNow, TargetNow, ByNow, ServesNow>>
          /\ builder' = "serving" <=> builder = "serving"
      BY <2>4 DEF Dispatch!dpvars, StageNow, TargetNow, ByNow, ServesNow
    <3> QED  BY <3>1
  <2> QED  BY <2>1, <2>2, <2>3, <2>4 DEF Dispatch!Next
<1>3. Inv => Dispatch!SameForAll
  BY DEF Dispatch!SameForAll, StageNow, TargetNow, ByNow
<1> QED  BY <1>1, <1>2, <1>3, PTL DEF Dispatch!Spec

\* So do the layers and the jobs.
THEOREM PathSameForAll == PathSpec => []Dispatch!SameForAll
BY PathImplementsDispatcher, DispatcherSameForAll, PTL DEF ImplementsDispatcher

-----------------------------------------------------------------------------
(***************************************************************************)
(* The log drain.  An entry is on its way only while its handler runs, so  *)
(* DrainInv says where it is at each stage of emit(); the writes of other  *)
(* requests only ever move it from the buffer to the file.                 *)
(***************************************************************************)

DrainInv ==
  /\ drain \in [Requests -> {"idle", "emitted", "returned"}]
  /\ buffer \subseteq Requests /\ disk \subseteq Requests
  /\ \A r \in Requests :
       /\ drain[r] = "idle" => r \notin buffer
       /\ drain[r] = "emitted" => Observing(r) /\ r \in buffer \cup disk
       /\ drain[r] = "returned" => r \notin buffer /\ r \in disk

\* The log leaves the path of the requests as it is: what is proved of
\* PathSpec holds of the runtime with its observer.
THEOREM ObserverRunsPath == ObserverSpec => PathSpec
<1>1. ObserverInit => PathInit
  BY DEF ObserverInit
<1>2. [ObserverNext]_obsvars => [PathNext]_allvars
  BY DEF ObserverNext, obsvars, Undisturbed, Emit, Flush, Spill
<1> QED  BY <1>1, <1>2, PTL DEF ObserverSpec, PathSpec

LEMMA DrainInit == ObserverInit => DrainInv
BY DEF ObserverInit, DrainInv

LEMMA DrainStep == DrainInv /\ [ObserverNext]_obsvars => DrainInv'
<1> SUFFICES ASSUME DrainInv, [ObserverNext]_obsvars PROVE DrainInv'
  OBVIOUS
<1> USE DEF DrainInv
<1>1. ASSUME \A r \in Requests : drain[r] = "emitted" => req'[r] = req[r], UNCHANGED ovars
      PROVE  DrainInv'
  BY <1>1 DEF ovars, Observing, Executing
<1>2. ASSUME UNCHANGED req, NEW r \in Requests, Observing(r), drain[r] = "idle",
             drain' = [drain EXCEPT ![r] = "emitted"], buffer' = buffer \cup {r}, disk' = disk
      PROVE  DrainInv'
  BY <1>2 DEF Observing, Executing
<1>3. ASSUME UNCHANGED req, NEW r \in Requests, drain[r] = "emitted", WriteOut,
             drain' = [drain EXCEPT ![r] = "returned"]
      PROVE  DrainInv'
  BY <1>3 DEF Observing, Executing, WriteOut
<1>4. ASSUME UNCHANGED <<req, drain>>, WriteOut
      PROVE  DrainInv'
  BY <1>4 DEF Observing, Executing, WriteOut
<1>5. CASE Undisturbed
  BY <1>1, <1>5 DEF Undisturbed
<1>6. ASSUME NEW r \in Requests, Emit(r)
      PROVE  DrainInv'
  BY <1>2, <1>6 DEF Emit, allvars, pvars
<1>7. ASSUME NEW r \in Requests, Flush(r)
      PROVE  DrainInv'
  BY <1>3, <1>7 DEF Flush, allvars, pvars
<1>8. CASE Spill
  BY <1>4, <1>8 DEF Spill, allvars, pvars
<1>9. CASE UNCHANGED obsvars
  BY <1>1, <1>9 DEF obsvars, allvars, pvars
<1> QED  BY <1>5, <1>6, <1>7, <1>8, <1>9 DEF ObserverNext

\* A kill loses no entry whose emit() has returned, nor one of a request that
\* has been answered.
THEOREM LogDurable == ObserverSpec => []LoggedIsDurable
<1>1. DrainInv => LoggedIsDurable
  BY DEF DrainInv, LoggedIsDurable
<1> QED  BY <1>1, DrainInit, DrainStep, PTL DEF ObserverSpec

\* So do those of the log.
THEOREM ObserverTypeCorrect == ObserverSpec => []OTypeOK
<1>1. PathTypeOK /\ DrainInv => OTypeOK
  BY DEF DrainInv, OTypeOK
<1> QED
  BY <1>1, PathTypeCorrect, ObserverRunsPath, DrainInit, DrainStep, PTL DEF ObserverSpec
=============================================================================
