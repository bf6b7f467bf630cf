-------------------------- MODULE EgressPoolProofs --------------------------
(***************************************************************************)
(* What the pools do to the calls, for any number of calls, services and   *)
(* backends.  OldCallsOnly is not inductive by itself: an eviction passes  *)
(* the calls that are out only if none of them counts more evictions than  *)
(* there have been, and a pool only ever holds backends of its own because *)
(* each call that is out has selected one of them.                         *)
(***************************************************************************)
EXTENDS EgressPool, TLAPS

\* What is remembered of a call until the pool has its outcome.
Waiting ==
  \A c \in Calls : Out(c) =>
    /\ call[c].service \in clients
    /\ call[c].backend \in PoolOf[call[c].service]
    /\ call[c].since <= outages[call[c].service][call[c].backend]

EgressInv == ETypeOK /\ Waiting /\ OldCallsOnly

LEMMA EgressInvInit == EgressInit => EgressInv
<1> SUFFICES ASSUME EgressInit PROVE EgressInv
  OBVIOUS
<1>1. ETypeOK
  <2>1. 0 \in 0..MaxOutages
    BY EgressAssumption
  <2>2. outages \in [Services -> [Backends -> 0..MaxOutages]]
    BY <2>1 DEF EgressInit
  <2>3. NoCall \in CallRecords
    BY <2>1 DEF NoCall, CallRecords
  <2>4. call \in [Calls -> CallRecords]
    BY <2>3 DEF EgressInit
  <2> QED  BY <2>2, <2>4 DEF EgressInit, ETypeOK
<1>2. \A c \in Calls : ~Out(c)
  BY DEF EgressInit, NoCall, Out
<1> QED  BY <1>1, <1>2 DEF EgressInv, Waiting, OldCallsOnly, Outstanding

LEMMA EgressStutter == EgressInv /\ UNCHANGED evars => EgressInv'
BY DEF evars, EgressInv, ETypeOK, Waiting, OldCallsOnly, Outstanding, Out

\* A client more disturbs nothing.
LEMMA ClientStep ==
  ASSUME EgressInv, clients' \subseteq Services, clients \subseteq clients',
         UNCHANGED <<degraded, outages, call>>
  PROVE  EgressInv'
BY DEF EgressInv, ETypeOK, Waiting, OldCallsOnly, Outstanding, Out

\* Call k has the backend it had.
SameTarget(k) ==
  /\ call'[k].service = call[k].service
  /\ call'[k].backend = call[k].backend
  /\ call'[k].since = call[k].since

\* No call selects a backend and the pools are left alone.
LEMMA SilentStep ==
  ASSUME EgressInv, call' \in [Calls -> CallRecords],
         \A k \in Calls : Out(k)' => Out(k) /\ SameTarget(k),
         UNCHANGED <<clients, degraded, outages>>
  PROVE  EgressInv'
<1>1. ETypeOK'
  BY DEF EgressInv, ETypeOK
<1>2. Waiting'
  <2> SUFFICES ASSUME NEW k \in Calls, Out(k)'
               PROVE  /\ call'[k].service \in clients'
                      /\ call'[k].backend \in PoolOf[call'[k].service]
                      /\ call'[k].since <= outages'[call'[k].service][call'[k].backend]
    BY DEF Waiting
  <2>1. Out(k) /\ SameTarget(k)
    OBVIOUS
  <2> QED  BY <2>1 DEF EgressInv, Waiting, SameTarget
<1>3. OldCallsOnly'
  <2> SUFFICES ASSUME NEW s \in Services, NEW k \in Calls, Out(k)',
                      call'[k].service = s, call'[k].backend \in degraded'[s]
               PROVE  call'[k].since < outages'[s][call'[k].backend]
    BY DEF OldCallsOnly, Outstanding
  <2>1. Out(k) /\ SameTarget(k)
    OBVIOUS
  <2> QED  BY <2>1 DEF EgressInv, OldCallsOnly, Outstanding, SameTarget
<1> QED  BY <1>1, <1>2, <1>3 DEF EgressInv

LEMMA SelectStep ==
  ASSUME EgressInv, NEW c \in Calls, NEW s \in Services, Select(c, s)
  PROVE  EgressInv'
<1>1. PICK b \in Rotation(s) :
        call' = [call EXCEPT ![c] = [stage |-> "selected", service |-> s,
                                     backend |-> b, since |-> outages[s][b]]]
  BY DEF Select
<1>2. s \in clients /\ UNCHANGED <<clients, degraded, outages>>
  BY DEF Select
<1>3. b \in PoolOf[s] /\ b \in Backends /\ b \notin degraded[s]
  BY EgressAssumption DEF Rotation
<1>4. outages[s][b] \in 0..MaxOutages /\ outages[s][b] \in Int
  <2>1. outages[s] \in [Backends -> 0..MaxOutages]
    BY DEF EgressInv, ETypeOK
  <2> QED  BY <1>3, <2>1, EgressAssumption
<1>5. ETypeOK'
  BY <1>1, <1>2, <1>3, <1>4 DEF EgressInv, ETypeOK, CallRecords
<1>6. /\ \A k \in Calls \ {c} : call'[k] = call[k]
      /\ call'[c] = [stage |-> "selected", service |-> s, backend |-> b,
                     since |-> outages[s][b]]
  BY <1>1 DEF EgressInv, ETypeOK
<1>7. Waiting'
  BY <1>2, <1>3, <1>4, <1>6 DEF EgressInv, Waiting, Out
<1>8. OldCallsOnly'
  BY <1>2, <1>3, <1>6 DEF EgressInv, OldCallsOnly, Outstanding, Out
<1> QED  BY <1>5, <1>7, <1>8 DEF EgressInv

\* What a report does to the counts and to the rotation.
LEMMA ReportEffect ==
  ASSUME EgressInv, NEW s \in Services, NEW b \in PoolOf[s], NEW ok \in BOOLEAN,
         ~ok => CanEvict(s, b), Report(s, b, ok)
  PROVE  /\ degraded' \in [Services -> SUBSET Backends]
         /\ \A t \in Services : degraded'[t] \subseteq PoolOf[t]
         /\ outages' \in [Services -> [Backends -> 0..MaxOutages]]
         /\ \A t \in Services, d \in Backends : outages[t][d] <= outages'[t][d]
         /\ \A t \in Services : \A d \in degraded'[t] \ degraded[t] :
              outages'[t][d] = outages[t][d] + 1
         /\ \A t \in Services : \A d \in degraded[t] \ degraded'[t] : t = s /\ d = b
<1>1. b \in Backends /\ \A t \in Services : PoolOf[t] \subseteq Backends
  BY EgressAssumption
<1>2. /\ degraded \in [Services -> SUBSET Backends]
      /\ \A t \in Services : degraded[t] \subseteq PoolOf[t]
      /\ outages \in [Services -> [Backends -> 0..MaxOutages]]
  BY DEF EgressInv, ETypeOK
<1>3. /\ degraded' = [degraded EXCEPT ![s] = IF ok THEN @ \ {b} ELSE @ \cup {b}]
      /\ outages' = [outages EXCEPT ![s][b] =
                       IF ~ok /\ b \notin degraded[s] THEN @ + 1 ELSE @]
  BY DEF Report
<1>4. MaxOutages \in Nat /\ outages[s][b] \in 0..MaxOutages
  BY <1>1, <1>2, EgressAssumption
<1>5. ~ok /\ b \notin degraded[s] => outages[s][b] + 1 \in 0..MaxOutages
  BY <1>4 DEF CanEvict
<1>6. outages' \in [Services -> [Backends -> 0..MaxOutages]]
  BY <1>1, <1>2, <1>3, <1>4, <1>5
<1>7. degraded' \in [Services -> SUBSET Backends] /\ \A t \in Services : degraded'[t] \subseteq PoolOf[t]
  BY <1>1, <1>2, <1>3
<1>8. \A t \in Services, d \in Backends : outages[t][d] <= outages'[t][d]
  BY <1>1, <1>2, <1>3, <1>4
<1>9. \A t \in Services : \A d \in degraded'[t] \ degraded[t] :
        outages'[t][d] = outages[t][d] + 1
  <2> SUFFICES ASSUME NEW t \in Services, NEW d \in degraded'[t] \ degraded[t]
               PROVE  outages'[t][d] = outages[t][d] + 1
    OBVIOUS
  <2>1. t = s /\ d = b /\ ~ok
    BY <1>2, <1>3
  <2> QED  BY <1>1, <1>2, <1>3, <2>1
<1>10. \A t \in Services : \A d \in degraded[t] \ degraded'[t] : t = s /\ d = b
  BY <1>2, <1>3
<1> QED  BY <1>6, <1>7, <1>8, <1>9, <1>10

\* A report keeps the invariant, whatever becomes of the call that made it.
LEMMA ReportStep ==
  ASSUME EgressInv, NEW s \in Services, NEW b \in PoolOf[s], NEW ok \in BOOLEAN,
         ~ok => CanEvict(s, b), Report(s, b, ok), clients' = clients,
         NEW c \in Calls \cup {"none"},
         \/ call' = call
         \/ \E stage \in {"ok", "error"} : call' = [call EXCEPT ![c].stage = stage]
  PROVE  EgressInv'
<1>1. /\ clients \subseteq Services
      /\ call \in [Calls -> CallRecords]
  BY DEF EgressInv, ETypeOK
<1>2. call' \in [Calls -> CallRecords]
  BY <1>1 DEF CallRecords
<1>3. \A k \in Calls : Out(k)' => Out(k) /\ call'[k] = call[k]
  BY <1>1 DEF Out, CallRecords
<1>4. ETypeOK'
  <2>1. /\ degraded' \in [Services -> SUBSET Backends]
        /\ \A t \in Services : degraded'[t] \subseteq PoolOf[t]
        /\ outages' \in [Services -> [Backends -> 0..MaxOutages]]
    BY ReportEffect
  <2>2. clients' \subseteq Services
    BY <1>1
  <2> QED  BY <1>2, <2>1, <2>2 DEF ETypeOK
<1>5. \A k \in Calls : Out(k) =>
        /\ call[k].service \in Services /\ call[k].backend \in Backends
        /\ call[k].since \in Int
        /\ outages[call[k].service][call[k].backend] \in Int
        /\ outages'[call[k].service][call[k].backend] \in Int
        /\ call[k].since <= outages[call[k].service][call[k].backend]
  <2> SUFFICES ASSUME NEW k \in Calls, Out(k)
               PROVE  /\ call[k].service \in Services /\ call[k].backend \in Backends
                      /\ call[k].since \in Int
                      /\ outages[call[k].service][call[k].backend] \in Int
                      /\ outages'[call[k].service][call[k].backend] \in Int
                      /\ call[k].since <= outages[call[k].service][call[k].backend]
    OBVIOUS
  <2>1. call[k].service \in Services /\ call[k].backend \in PoolOf[call[k].service]
    BY <1>1 DEF EgressInv, Waiting
  <2>2. call[k].backend \in Backends
    BY <2>1, EgressAssumption
  <2>3. call[k].since \in 0..MaxOutages
    BY <1>1 DEF CallRecords
  <2>4. /\ outages[call[k].service][call[k].backend] \in 0..MaxOutages
        /\ outages'[call[k].service][call[k].backend] \in 0..MaxOutages
    <3>1. /\ outages[call[k].service] \in [Backends -> 0..MaxOutages]
          /\ outages'[call[k].service] \in [Backends -> 0..MaxOutages]
      BY <1>4, <2>1 DEF EgressInv, ETypeOK
    <3> QED  BY <2>2, <3>1
  <2> QED  BY <2>1, <2>2, <2>3, <2>4, EgressAssumption DEF EgressInv, Waiting
<1>6. \A t \in Services, d \in Backends : outages[t][d] <= outages'[t][d]
  BY ReportEffect
<1>7. Waiting'
  <2> SUFFICES ASSUME NEW k \in Calls, Out(k)'
               PROVE  /\ call'[k].service \in clients'
                      /\ call'[k].backend \in PoolOf[call'[k].service]
                      /\ call'[k].since <= outages'[call'[k].service][call'[k].backend]
    BY DEF Waiting
  <2>1. Out(k) /\ call'[k] = call[k]
    BY <1>3
  <2>2. /\ call[k].service \in clients
        /\ call[k].backend \in PoolOf[call[k].service]
    BY <2>1 DEF EgressInv, Waiting
  <2>3. call[k].since <= outages'[call[k].service][call[k].backend]
    BY <1>5, <1>6, <2>1
  <2> QED  BY <2>1, <2>2, <2>3
<1>8. OldCallsOnly'
  <2> SUFFICES ASSUME NEW t \in Services, NEW k \in Calls, Out(k)',
                      call'[k].service = t, call'[k].backend \in degraded'[t]
               PROVE  call'[k].since < outages'[t][call'[k].backend]
    BY DEF OldCallsOnly, Outstanding
  <2>1. Out(k) /\ call'[k] = call[k]
    BY <1>3
  <2>2. CASE call[k].backend \in degraded[t]
    <3>1. call[k].since < outages[t][call[k].backend]
      BY <2>1, <2>2 DEF EgressInv, OldCallsOnly, Outstanding
    <3> QED  BY <1>5, <1>6, <2>1, <3>1
  <2>3. CASE call[k].backend \notin degraded[t]
    <3>1. outages'[t][call[k].backend] = outages[t][call[k].backend] + 1
      BY <2>1, <2>3, ReportEffect
    <3> QED  BY <1>5, <2>1, <3>1
  <2> QED  BY <2>2, <2>3
<1> QED  BY <1>4, <1>7, <1>8 DEF EgressInv

LEMMA TrafficStep ==
  ASSUME EgressInv, Traffic
  PROVE  EgressInv'
<1>1. call \in [Calls -> CallRecords]
  BY DEF EgressInv, ETypeOK
<1>2. ASSUME NEW c \in Calls, NEW s \in Services, NoService(c, s) \/ NoBackend(c, s)
      PROVE  EgressInv'
  <2>1. PICK stage \in {"error", "noService"} :
          call' = [call EXCEPT ![c].stage = stage, ![c].service = s]
    BY <1>2 DEF NoService, NoBackend
  <2>2. call' \in [Calls -> CallRecords]
    BY <1>1, <2>1 DEF CallRecords
  <2>3. \A k \in Calls : Out(k)' => Out(k) /\ SameTarget(k)
    BY <1>1, <2>1 DEF Out, SameTarget, CallRecords
  <2>4. UNCHANGED <<clients, degraded, outages>>
    BY <1>2 DEF NoService, NoBackend
  <2> QED  BY <2>2, <2>3, <2>4, SilentStep
<1>3. ASSUME NEW c \in Calls, DropCall(c) PROVE EgressInv'
  <2>1. call' \in [Calls -> CallRecords]
    BY <1>1, <1>3 DEF DropCall, CallRecords
  <2>2. \A k \in Calls : Out(k)' => Out(k) /\ SameTarget(k)
    BY <1>1, <1>3 DEF DropCall, Out, SameTarget, CallRecords
  <2>3. UNCHANGED <<clients, degraded, outages>>
    BY <1>3 DEF DropCall
  <2> QED  BY <2>1, <2>2, <2>3, SilentStep
<1>6. ASSUME NEW c \in Calls, RewriteFails(c) \/ Send(c) PROVE EgressInv'
  <2>1. PICK stage \in {"error", "awaiting"} : call' = [call EXCEPT ![c].stage = stage]
    BY <1>6 DEF RewriteFails, Send
  <2>2. call' \in [Calls -> CallRecords]
    BY <1>1, <2>1 DEF CallRecords
  <2>3. \A k \in Calls : Out(k)' => Out(k) /\ SameTarget(k)
    BY <1>1, <1>6, <2>1 DEF RewriteFails, Send, At, Out, SameTarget, CallRecords
  <2>4. UNCHANGED <<clients, degraded, outages>>
    BY <1>6 DEF RewriteFails, Send
  <2> QED  BY <2>2, <2>3, <2>4, SilentStep
<1>4. ASSUME NEW c \in Calls, NEW ok \in BOOLEAN, Answered(c, ok) PROVE EgressInv'
  <2>1. call[c].service \in Services /\ call[c].backend \in PoolOf[call[c].service]
    BY <1>4 DEF Answered, At, Out, EgressInv, Waiting, ETypeOK
  <2>2. /\ ~ok => CanEvict(call[c].service, call[c].backend)
        /\ Report(call[c].service, call[c].backend, ok)
        /\ clients' = clients
        /\ \E stage \in {"ok", "error"} : call' = [call EXCEPT ![c].stage = stage]
    BY <1>4 DEF Answered
  <2> QED  BY <2>1, <2>2, ReportStep
<1>5. ASSUME NEW s \in Services, NEW b \in Backends, NEW ok \in BOOLEAN, Breaker(s, b, ok)
      PROVE  EgressInv'
  <2>1. /\ b \in PoolOf[s]
        /\ ~ok => CanEvict(s, b)
        /\ Report(s, b, ok)
        /\ clients' = clients /\ call' = call
    BY <1>5 DEF Breaker
  <2>2. "none" \in Calls \cup {"none"}
    OBVIOUS
  <2> QED  BY <2>1, <2>2, ReportStep
<1> QED  BY <1>2, <1>3, <1>4, <1>5, <1>6, SelectStep DEF Traffic, Outbound

LEMMA EgressInductive == EgressSpec => []EgressInv
<1>1. EgressInv /\ EgressNext => EgressInv'
  <2> SUFFICES ASSUME EgressInv, EgressNext PROVE EgressInv'
    OBVIOUS
  <2>1. CASE BuildRegistry \/ \E s \in Services : NewClient(s)
    <3>1. /\ clients' \subseteq Services /\ clients \subseteq clients'
          /\ UNCHANGED <<degraded, outages, call>>
      BY <2>1 DEF BuildRegistry, NewClient, EgressInv, ETypeOK
    <3> QED  BY <3>1, ClientStep
  <2> QED  BY <2>1, TrafficStep DEF EgressNext
<1> QED  BY <1>1, EgressInvInit, EgressStutter, PTL DEF EgressSpec

\* Every variable has its type, and no pool evicts a backend of another.
THEOREM EgressTypeCorrect == EgressSpec => []ETypeOK
BY EgressInductive, PTL DEF EgressInv

\* No backend out of rotation is ever selected.
THEOREM EgressOldCallsOnly == EgressSpec => []OldCallsOnly
BY EgressInductive, PTL DEF EgressInv

\* Who restores a backend: a call that was out to it, or the program.
LEMMA RestoreStep ==
  ASSUME EgressInv, [EgressNext]_evars,
         NEW s \in Services, NEW b \in degraded[s], b \notin degraded'[s]
  PROVE  \/ \E c \in Outstanding(s) : call[c].backend = b /\ call[c].since < outages[s][b]
         \/ s \in Direct
<1>1. CASE UNCHANGED degraded
  BY <1>1
<1>2. ASSUME NEW c \in Calls, NEW ok \in BOOLEAN, Answered(c, ok)
      PROVE  \E k \in Outstanding(s) : call[k].backend = b /\ call[k].since < outages[s][b]
  <2>1. call[c].service \in Services /\ call[c].backend \in PoolOf[call[c].service]
    BY <1>2 DEF Answered, At, Out, EgressInv, Waiting, ETypeOK
  <2>2. call[c].service = s /\ call[c].backend = b
    BY <1>2, <2>1, ReportEffect DEF Answered
  <2>3. c \in Outstanding(s)
    BY <1>2, <2>2 DEF Answered, At, Out, Outstanding
  <2> QED  BY <2>2, <2>3 DEF EgressInv, OldCallsOnly
<1>3. ASSUME NEW t \in Services, NEW d \in Backends, NEW ok \in BOOLEAN, Breaker(t, d, ok)
      PROVE  s \in Direct
  BY <1>3, ReportEffect DEF Breaker
<1>4. \/ UNCHANGED degraded
      \/ \E c \in Calls, ok \in BOOLEAN : Answered(c, ok)
      \/ \E t \in Services, d \in Backends, ok \in BOOLEAN : Breaker(t, d, ok)
  BY DEF EgressNext, BuildRegistry, NewClient, Traffic, Outbound, NoService,
         NoBackend, Select, Send, RewriteFails, DropCall, evars
<1> QED  BY <1>1, <1>2, <1>3, <1>4

\* An evicted backend comes back only by a call older than its eviction, or by
\* a report of the program's.
THEOREM EgressRestoredByOldCall == EgressSpec => RestoredByOldCall
<1>1. EgressInv /\ [EgressNext]_evars =>
        [\A s \in Services : \A b \in degraded[s] \ degraded'[s] :
           \/ \E c \in Outstanding(s) : call[c].backend = b /\ call[c].since < outages[s][b]
           \/ s \in Direct]_evars
  BY RestoreStep
<1> QED  BY <1>1, EgressInductive, PTL DEF EgressSpec, RestoredByOldCall

\* A pool of the registry without rotation and without a call out has none
\* after any step.
LEMMA DeadStep ==
  ASSUME EgressInv, [EgressNext]_evars, NEW s \in Services \ Direct,
         Rotation(s) = {}, Outstanding(s) = {}
  PROVE  Rotation(s)' = {} /\ Outstanding(s)' = {}
<1>1. \A b \in degraded[s] : b \in degraded'[s]
  BY RestoreStep
<1>2. \A c \in Calls : Out(c)' /\ call'[c].service = s => Out(c) /\ call[c].service = s
  <2>0. call \in [Calls -> CallRecords]
    BY DEF EgressInv, ETypeOK
  <2>1. ASSUME NEW k \in Calls, NEW t \in Services, Select(k, t)
        PROVE  \A c \in Calls : Out(c)' /\ call'[c].service = s
                  => Out(c) /\ call[c].service = s
    <3>1. t # s
      BY <2>1 DEF Select
    <3> QED  BY <2>0, <2>1, <3>1 DEF Select, Out
  <2>2. ASSUME NEW k \in Calls, NEW t \in Services, NoService(k, t) \/ NoBackend(k, t)
        PROVE  \A c \in Calls : Out(c)' /\ call'[c].service = s
                  => Out(c) /\ call[c].service = s
    BY <2>0, <2>2 DEF NoService, NoBackend, Out, CallRecords
  <2>3. ASSUME NEW k \in Calls, DropCall(k) \/ (\E ok \in BOOLEAN : Answered(k, ok))
        PROVE  \A c \in Calls : Out(c)' /\ call'[c].service = s
                  => Out(c) /\ call[c].service = s
    <3>1. \E stage \in {"ok", "error", "dropped"} : call' = [call EXCEPT ![k].stage = stage]
      BY <2>3 DEF DropCall, Answered
    <3> QED  BY <2>0, <3>1 DEF Out, CallRecords
  <2>6. ASSUME NEW k \in Calls, RewriteFails(k) \/ Send(k)
        PROVE  \A c \in Calls : Out(c)' /\ call'[c].service = s
                  => Out(c) /\ call[c].service = s
    <3>1. /\ call[k].stage = "selected"
          /\ \E stage \in {"error", "awaiting"} : call' = [call EXCEPT ![k].stage = stage]
      BY <2>6 DEF RewriteFails, Send, At
    <3>2. PICK stage \in {"error", "awaiting"} : call' = [call EXCEPT ![k].stage = stage]
      BY <3>1
    <3>3. call'[k].service = call[k].service /\ Out(k)
      BY <2>0, <3>1, <3>2 DEF Out, CallRecords
    <3>4. \A c \in Calls \ {k} : call'[c] = call[c]
      BY <2>0, <3>2
    <3> QED  BY <3>3, <3>4 DEF Out
  <2>4. CASE UNCHANGED call
    BY <2>4 DEF Out
  <2>5. \/ UNCHANGED call
        \/ \E k \in Calls : Outbound(k) \/ DropCall(k) \/ (\E ok \in BOOLEAN : Answered(k, ok))
    BY DEF EgressNext, BuildRegistry, NewClient, Traffic, Breaker, evars
  <2> QED  BY <2>1, <2>2, <2>3, <2>4, <2>5, <2>6 DEF Outbound
<1> QED  BY <1>1, <1>2 DEF Rotation, Outstanding

\* A pool of the registry that has evicted every backend and has no call out
\* never selects a backend again.
THEOREM EgressDeadPool == EgressSpec => DeadPoolStaysDead
<1>1. EgressInv /\ [EgressNext]_evars =>
        [\A s \in Services \ Direct :
           Rotation(s) = {} /\ Outstanding(s) = {}
             => Rotation(s)' = {} /\ Outstanding(s)' = {}]_evars
  BY DeadStep
<1> QED  BY <1>1, EgressInductive, PTL DEF EgressSpec, DeadPoolStaysDead
=============================================================================
