----------------------------- MODULE EgressPool -----------------------------
(***************************************************************************)
(* Outbound calls: the ServiceRegistry built by build_registry, and one    *)
(* LoadBalancedHttpEgress per service, over a backend pool of its own.     *)
(* The outcome of a call reaches the pool after the await of the call, in  *)
(* the order the calls end; a call whose future is dropped reports none.   *)
(***************************************************************************)
EXTENDS Integers, FiniteSets

CONSTANTS
  Calls,       \* outbound calls, each made once
  Services,    \* target services, each with a client of its own
  Direct,      \* those whose client the program builds for itself
  Backends,    \* backend URLs
  PoolOf,      \* [Services -> SUBSET Backends]: each with its own pool
  Unparsable,  \* backends Url::parse refuses, though the pool accepts them
  MaxOutages   \* bound: evictions of one backend that are explored

ASSUME EgressAssumption ==
  /\ Direct \subseteq Services
  /\ PoolOf \in [Services -> SUBSET Backends]
  /\ Unparsable \subseteq Backends
  /\ MaxOutages \in Nat

VARIABLES
  clients,   \* services whose client has been built
  degraded,  \* [Services -> SUBSET Backends]: evicted from rotation
  outages,   \* history: [Services -> [Backends -> evictions so far]]
  call       \* [Calls -> its state]

evars == <<clients, degraded, outages, call>>

NoCall == [stage |-> "idle", service |-> "", backend |-> "", since |-> 0]

EgressInit ==
  /\ clients = {}
  /\ degraded = [s \in Services |-> {}]
  /\ outages = [s \in Services |-> [b \in Backends |-> 0]]
  /\ call = [c \in Calls |-> NoCall]

\* LoadBalancedHttpEgress::new in the program's own code: on a pool
\* without backends or with an invalid one it errs, and there is no client.
NewClient(s) ==
  /\ s \in Direct \ clients
  /\ clients' = clients \cup {s}
  /\ UNCHANGED <<degraded, outages, call>>

\* build_registry: the services of the configuration whose section is neither
\* empty nor invalid get a client; an invalid one is skipped with a warning.
\* Without a default HTTP egress there is no registry: it never happens.
BuildRegistry ==
  /\ clients \subseteq Direct
  /\ \E valid \in SUBSET (Services \ Direct) :
       /\ valid # {}
       /\ clients' = clients \cup valid
  /\ UNCHANGED <<degraded, outages, call>>

-----------------------------------------------------------------------------
(* The pool *)

Rotation(s) == PoolOf[s] \ degraded[s]

\* report_outcome(backend, Success) restores it, Failure evicts it.
Report(s, b, ok) ==
  /\ degraded' = [degraded EXCEPT ![s] = IF ok THEN @ \ {b} ELSE @ \cup {b}]
  /\ outages' = [outages EXCEPT ![s][b] =
                   IF ~ok /\ b \notin degraded[s] THEN @ + 1 ELSE @]

CanEvict(s, b) == b \in degraded[s] \/ outages[s][b] < MaxOutages

-----------------------------------------------------------------------------
(* send() and send_stream() *)

At(c, stage) == call[c].stage = stage

\* service(name) finds no client: None, and nothing falls back to http().
NoService(c, s) ==
  /\ At(c, "idle")
  /\ s \in Services \ (Direct \cup clients)
  /\ call' = [call EXCEPT ![c].stage = "noService", ![c].service = s]
  /\ UNCHANGED <<clients, degraded, outages>>

\* A bug: a pool without rotation is put back as a whole.
NoBackendResets(c, s) ==
  /\ At(c, "idle")
  /\ s \in clients
  /\ Rotation(s) = {}
  /\ degraded' = [degraded EXCEPT ![s] = {}]
  /\ call' = [call EXCEPT ![c].stage = "error", ![c].service = s]
  /\ UNCHANGED <<clients, outages>>

\* Every backend is degraded: select() errs.
NoBackend(c, s) ==
  /\ At(c, "idle")
  /\ s \in clients
  /\ Rotation(s) = {}
  /\ call' = [call EXCEPT ![c].stage = "error", ![c].service = s]
  /\ UNCHANGED <<clients, degraded, outages>>

\* A bug: any backend may be selected when none is in rotation.
SelectFallback(c, s) ==
  /\ At(c, "idle")
  /\ s \in clients
  /\ \E b \in PoolOf[s] :
       /\ b \in Rotation(s) \/ Rotation(s) = {}
       /\ call' = [call EXCEPT ![c] = [stage |-> "selected", service |-> s,
                                       backend |-> b, since |-> outages[s][b]]]
  /\ UNCHANGED <<clients, degraded, outages>>

\* A backend in rotation is selected.
Select(c, s) ==
  /\ At(c, "idle")
  /\ s \in clients
  /\ \E b \in Rotation(s) :
       call' = [call EXCEPT ![c] = [stage |-> "selected", service |-> s,
                                    backend |-> b, since |-> outages[s][b]]]
  /\ UNCHANGED <<clients, degraded, outages>>

\* rewrite_url fails on the backend's URL or on the request's: the call errs
\* and reports nothing of the backend it had selected.
RewriteFails(c) ==
  /\ At(c, "selected")
  /\ call' = [call EXCEPT ![c].stage = "error"]
  /\ UNCHANGED <<clients, degraded, outages>>

\* The request goes to the backend selected, whatever has happened to it since.
Send(c) ==
  /\ At(c, "selected")
  /\ call[c].backend \notin Unparsable
  /\ call' = [call EXCEPT ![c].stage = "awaiting"]
  /\ UNCHANGED <<clients, degraded, outages>>

\* A bug: the pools of all services are one.
AnsweredOnePool(c, ok) ==
  /\ At(c, "awaiting")
  /\ ~ok => \A s \in Services : CanEvict(s, call[c].backend)
  /\ \E s \in Services : Report(s, call[c].backend, ok)
  /\ call' = [call EXCEPT ![c].stage = IF ok THEN "ok" ELSE "error"]
  /\ UNCHANGED clients

\* The inner client has answered: a server error and a transport error are
\* failures, any other response, or a stream that opens, is a success.
Answered(c, ok) ==
  /\ At(c, "awaiting")
  /\ ~ok => CanEvict(call[c].service, call[c].backend)
  /\ Report(call[c].service, call[c].backend, ok)
  /\ call' = [call EXCEPT ![c].stage = IF ok THEN "ok" ELSE "error"]
  /\ UNCHANGED clients

\* The future is dropped at the await.
DropCall(c) ==
  /\ At(c, "awaiting")
  /\ call' = [call EXCEPT ![c].stage = "dropped"]
  /\ UNCHANGED <<clients, degraded, outages>>

\* A circuit breaker of the program's reports, on a client the program built:
\* the registry hands out a plain HttpEgress, which has no report_outcome.
Breaker(s, b, ok) ==
  /\ s \in Direct \cap clients
  /\ b \in PoolOf[s]
  /\ ~ok => CanEvict(s, b)
  /\ Report(s, b, ok)
  /\ UNCHANGED <<clients, call>>

Outbound(c) ==
  \/ \E s \in Services : NoService(c, s) \/ NoBackend(c, s) \/ Select(c, s)
  \/ RewriteFails(c)
  \/ Send(c)

Traffic ==
  \/ \E c \in Calls : Outbound(c) \/ DropCall(c) \/ (\E ok \in BOOLEAN : Answered(c, ok))
  \/ \E s \in Services, b \in Backends, ok \in BOOLEAN : Breaker(s, b, ok)

EgressNext ==
  \/ BuildRegistry
  \/ \E s \in Services : NewClient(s)
  \/ Traffic

EgressSpec == EgressInit /\ [][EgressNext]_evars

-----------------------------------------------------------------------------
\* Calls that have selected a backend of s and whose outcome may yet reach it.
Out(c) == call[c].stage \in {"selected", "awaiting"}

Outstanding(s) == {c \in Calls : Out(c) /\ call[c].service = s}

CallRecords ==
  [stage   : {"idle", "selected", "awaiting", "ok", "error", "noService", "dropped"},
   service : Services \cup {""},
   backend : Backends \cup {""},
   since   : 0..MaxOutages]

\* Every variable has its type, and no pool evicts a backend of another.
ETypeOK ==
  /\ clients \subseteq Services
  /\ degraded \in [Services -> SUBSET Backends]
  /\ \A s \in Services : degraded[s] \subseteq PoolOf[s]
  /\ outages \in [Services -> [Backends -> 0..MaxOutages]]
  /\ call \in [Calls -> CallRecords]

\* No backend out of rotation is ever selected: a call that is still to be sent
\* to one, or waits on one, had selected it before the eviction.
OldCallsOnly ==
  \A s \in Services : \A c \in Outstanding(s) :
    call[c].backend \in degraded[s] => call[c].since < outages[s][call[c].backend]

\* An evicted backend comes back by the success of a call that had selected it
\* before its eviction, which says nothing of its recovery, or by a report of
\* the program on a client of its own; never by a call made since.
RestoredByOldCall ==
  [][\A s \in Services : \A b \in degraded[s] \ degraded'[s] :
       \/ \E c \in Outstanding(s) : call[c].backend = b /\ call[c].since < outages[s][b]
       \/ s \in Direct]_evars

\* A pool of the registry that has evicted every backend and has no call out
\* is dead: no backend of it is ever selected again.
DeadPoolStaysDead ==
  [][\A s \in Services \ Direct :
       Rotation(s) = {} /\ Outstanding(s) = {}
         => Rotation(s)' = {} /\ Outstanding(s)' = {}]_evars
=============================================================================
