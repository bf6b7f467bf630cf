------------------------ MODULE HealthEndpointProofs ------------------------
(***************************************************************************)
(* What a /health response means, for any number of requests and of        *)
(* transports.  The manager's own invariants carry over, because a request *)
(* only reads it; what a request has read is then related to its response. *)
(***************************************************************************)
EXTENDS HealthEndpoint, RuntimeManagerProofs

Requests ==
  [at : {"idle", "lifecycle", "probe"}, pos : 0..Len(Transports),
   status : RuntimeStatus, uptime : BOOLEAN, healthy : BOOLEAN,
   backed : BOOLEAN, failed : BOOLEAN, sick : BOOLEAN]

RequestTypes ==
  /\ code \in [Probers -> {"none", "200", "503", "rejected"}]
  /\ req \in [Probers -> Requests]

\* A request that is under way has no response yet; the response it gets is
\* the one its readings call for.
Verdict ==
  \A p \in Probers :
    /\ req[p].healthy <=> ~req[p].failed
    /\ req[p].at # "idle" => code[p] = "none"
    /\ code[p] = "200" => IsHealthy(req[p])
    /\ code[p] = "503" => ~IsHealthy(req[p])

\* Once Running has been published, the uptime has been too, for good.
UptimeKept ==
  /\ status = "Running" => startedAt
  /\ \A p \in Probers : req[p].at = "lifecycle" /\ req[p].status = "Running" => startedAt

HealthInv == TypeOK /\ RequestTypes /\ Verdict /\ UptimeKept /\ RunningReportHasUptime

LEMMA LengthIsNat == Len(Transports) \in Nat
BY TransportsIsSeq

LEMMA NoRequestType == NoRequest \in Requests
BY LengthIsNat DEF NoRequest, Requests, RuntimeStatus

\* The records the steps of a request write are of the type.
LEMMA EnterRecord ==
  ASSUME NEW r \in Requests, NEW s \in RuntimeStatus, NEW b \in BOOLEAN
  PROVE  [r EXCEPT !.at = "lifecycle", !.status = s, !.backed = b] \in Requests
BY DEF Requests

LEMMA LifecycleRecord ==
  ASSUME NEW r \in Requests, NEW u \in BOOLEAN, NEW h \in BOOLEAN, NEW f \in BOOLEAN,
         NEW k \in BOOLEAN
  PROVE  [r EXCEPT !.at = "probe", !.uptime = u, !.healthy = h, !.failed = f,
                   !.sick = k] \in Requests
BY DEF Requests

LEMMA ProbeRecord ==
  ASSUME NEW r \in Requests, NEW n \in 0..Len(Transports), NEW h \in BOOLEAN,
         NEW f \in BOOLEAN, NEW k \in BOOLEAN
  PROVE  [r EXCEPT !.pos = n, !.healthy = h, !.failed = f, !.sick = k] \in Requests
BY DEF Requests

LEMMA HealthInvInit == HInit => HealthInv
<1> SUFFICES ASSUME HInit PROVE HealthInv
  OBVIOUS
<1>1. TypeOK
  BY InitTypeOK DEF HInit
<1>2. RequestTypes
  BY NoRequestType DEF HInit, RequestTypes
<1>3. Verdict /\ UptimeKept /\ RunningReportHasUptime
  BY DEF HInit, Init, NoRequest, Verdict, UptimeKept, RunningReportHasUptime
<1> QED  BY <1>1, <1>2, <1>3 DEF HealthInv

\* start() never takes the uptime back, and publishes it with Running.
LEMMA ManagerUptime ==
  ASSUME TypeOK, status = "Running" => startedAt, NEW c \in Callers, Step(c)
  PROVE  /\ startedAt => startedAt'
         /\ status' = "Running" => startedAt'
BY DEF Step, StartNoop, StartEnter, StartNoIngress, StartTasksOk, StartTasksErr,
       StartCommit, ShutdownNoop, ShutdownEnter, StopTasksOk, StopTasksErr,
       ShutdownCommit, DropCall, vars, Goto

LEMMA ManagerStep ==
  ASSUME HealthInv, Next \/ UNCHANGED vars, UNCHANGED hvars
  PROVE  HealthInv'
<1>1. TypeOK'
  BY StepTypeOK, StutterTypeOK DEF HealthInv, Next
<1>2. UNCHANGED <<req, code>>
  BY DEF hvars
<1>3. RequestTypes' /\ Verdict' /\ RunningReportHasUptime'
  BY <1>2 DEF HealthInv, RequestTypes, Verdict, RunningReportHasUptime
<1>4. (startedAt => startedAt') /\ (status' = "Running" => startedAt')
  <2>1. CASE UNCHANGED vars
    BY <2>1 DEF HealthInv, UptimeKept, vars
  <2>2. CASE Next
    BY <2>2, ManagerUptime DEF HealthInv, UptimeKept, Next
  <2> QED  BY <2>1, <2>2
<1>5. UptimeKept'
  BY <1>2, <1>4 DEF HealthInv, UptimeKept
<1> QED  BY <1>1, <1>3, <1>5 DEF HealthInv

\* A request steps: nothing changes but its own state and response.
LEMMA RequestStep ==
  ASSUME HealthInv, NEW p \in Probers, HealthStep(p), UNCHANGED vars
  PROVE  HealthInv'
<1>1. /\ code \in [Probers -> {"none", "200", "503", "rejected"}]
      /\ req \in [Probers -> Requests]
      /\ status \in RuntimeStatus /\ startedAt \in BOOLEAN /\ background \in BOOLEAN
  BY DEF HealthInv, RequestTypes, TypeOK
<1>2. UNCHANGED <<status, startedAt, background>> /\ TypeOK'
  BY StutterTypeOK DEF HealthInv, vars
<1>3. \A q \in Probers \ {p} : req'[q] = req[q] /\ code'[q] = code[q]
  BY <1>1 DEF HealthStep, HealthEnter, HealthRejected, HealthLifecycle, HealthProbe,
              HealthRespond, HealthDrop
<1>4. /\ req[p].healthy <=> ~req[p].failed
      /\ req[p].at # "idle" => code[p] = "none"
      /\ code[p] = "200" => IsHealthy(req[p])
      /\ code[p] = "503" => ~IsHealthy(req[p])
      /\ req[p].at = "lifecycle" /\ req[p].status = "Running" => startedAt
      /\ req[p].at = "probe" /\ req[p].status = "Running" => req[p].uptime
      /\ status = "Running" => startedAt
  BY DEF HealthInv, Verdict, UptimeKept, RunningReportHasUptime
<1> DEFINE Kept ==
      /\ req' \in [Probers -> Requests]
      /\ code' \in [Probers -> {"none", "200", "503", "rejected"}]
      /\ req'[p].healthy <=> ~req'[p].failed
      /\ req'[p].at # "idle" => code'[p] = "none"
      /\ code'[p] = "200" => IsHealthy(req'[p])
      /\ code'[p] = "503" => ~IsHealthy(req'[p])
      /\ req'[p].at = "lifecycle" /\ req'[p].status = "Running" => startedAt
      /\ req'[p].at = "probe" /\ req'[p].status = "Running" => req'[p].uptime
<1>5. Kept
  <2> USE <1>1, <1>4, LengthIsNat DEF Requests, IsHealthy
  <2>1. CASE HealthEnter(p)
    <3> DEFINE rec == [NoRequest EXCEPT !.at = "lifecycle", !.status = status,
                                        !.backed = background]
    <3>1. req' = [req EXCEPT ![p] = rec] /\ code' = [code EXCEPT ![p] = "none"]
      BY <2>1 DEF HealthEnter
    <3>2. rec \in Requests
      BY NoRequestType, EnterRecord
    <3>3. /\ rec.at = "lifecycle" /\ rec.status = status
          /\ rec.healthy = TRUE /\ rec.failed = FALSE
      BY DEF NoRequest
    <3> HIDE DEF rec
    <3>4. req' \in [Probers -> Requests] /\ req'[p] = rec
      BY <3>1, <3>2
    <3>5. code' \in [Probers -> {"none", "200", "503", "rejected"}] /\ code'[p] = "none"
      BY <3>1
    <3> QED  BY <3>3, <3>4, <3>5
  <2>2. CASE HealthRejected(p)
    BY <2>2 DEF HealthRejected
  <2>3. CASE HealthLifecycle(p)
    <3>1. PICK answer \in LifecycleAnswer :
            req' = [req EXCEPT ![p].at      = "probe",
                               ![p].uptime  = startedAt,
                               ![p].healthy = answer # "component",
                               ![p].failed  = answer = "component",
                               ![p].sick    = answer # "healthy"]
      BY <2>3 DEF HealthLifecycle
    <3>2. req' \in [Probers -> Requests]
      <4> DEFINE h == answer # "component"
                 f == answer = "component"
                 k == answer # "healthy"
                 rec == [req[p] EXCEPT !.at = "probe", !.uptime = startedAt,
                                       !.healthy = h, !.failed = f, !.sick = k]
      <4>1. req' = [req EXCEPT ![p] = rec]
        BY <3>1
      <4>2. h \in BOOLEAN /\ f \in BOOLEAN /\ k \in BOOLEAN
        OBVIOUS
      <4> HIDE <1>1, <1>4, LengthIsNat DEF h, f, k, Requests
      <4>3. rec \in Requests
        <5>1. req[p] \in Requests /\ startedAt \in BOOLEAN
          BY <1>1
        <5> QED  BY <4>2, <5>1, LifecycleRecord
      <4> HIDE DEF rec
      <4> QED  BY <1>1, <4>1, <4>3
    <3>3. /\ req'[p].at = "probe" /\ req'[p].status = req[p].status
          /\ req'[p].uptime = startedAt
          /\ req'[p].healthy = (answer # "component")
          /\ req'[p].failed = (answer = "component")
      BY <3>1
    <3>4. code' = code /\ req[p].at = "lifecycle" /\ code[p] = "none"
      BY <2>3 DEF HealthLifecycle
    <3> QED  BY <3>2, <3>3, <3>4
  <2>4. CASE HealthProbe(p)
    <3>1. PICK verdict \in {"ok", "unhealthy", "err"} :
            req' = [req EXCEPT ![p].pos     = @ + 1,
                               ![p].healthy = @ /\ verdict # "err",
                               ![p].failed  = @ \/ verdict = "err",
                               ![p].sick    = @ \/ verdict # "ok"]
      BY <2>4 DEF HealthProbe
    <3>2. req[p].pos + 1 \in 0..Len(Transports)
      BY <2>4 DEF HealthProbe
    <3>3. req' \in [Probers -> Requests]
      <4> DEFINE h == req[p].healthy /\ verdict # "err"
                 f == req[p].failed \/ verdict = "err"
                 k == req[p].sick \/ verdict # "ok"
                 n == req[p].pos + 1
                 rec == [req[p] EXCEPT !.pos = n, !.healthy = h, !.failed = f, !.sick = k]
      <4>1. req' = [req EXCEPT ![p] = rec]
        BY <3>1
      <4>2. h \in BOOLEAN /\ f \in BOOLEAN /\ k \in BOOLEAN /\ n \in 0..Len(Transports)
        BY <3>2
      <4> HIDE <1>1, <1>4, LengthIsNat DEF h, f, k, n, Requests
      <4>3. rec \in Requests
        <5>1. req[p] \in Requests
          BY <1>1
        <5> QED  BY <4>2, <5>1, ProbeRecord
      <4> HIDE DEF rec
      <4> QED  BY <1>1, <4>1, <4>3
    <3>4. /\ req'[p].at = "probe" /\ req'[p].status = req[p].status
          /\ req'[p].uptime = req[p].uptime
          /\ req'[p].healthy = (req[p].healthy /\ verdict # "err")
          /\ req'[p].failed = (req[p].failed \/ verdict = "err")
      BY <2>4, <3>1 DEF HealthProbe
    <3>5. code' = code /\ req[p].at = "probe" /\ code[p] = "none"
      BY <2>4 DEF HealthProbe
    <3> QED  BY <3>3, <3>4, <3>5
  <2>5. CASE HealthRespond(p)
    BY <2>5 DEF HealthRespond
  <2>6. CASE HealthDrop(p)
    BY <2>6 DEF HealthDrop, NoRequest, RuntimeStatus
  <2> QED  BY <2>1, <2>2, <2>3, <2>4, <2>5, <2>6 DEF HealthStep
<1>6. RequestTypes' /\ Verdict'
  BY <1>3, <1>5 DEF RequestTypes, Verdict, HealthInv
<1>7. UptimeKept' /\ RunningReportHasUptime'
  BY <1>2, <1>3, <1>5, <1>4 DEF UptimeKept, RunningReportHasUptime, HealthInv
<1> QED  BY <1>2, <1>6, <1>7 DEF HealthInv

LEMMA HealthInductive == HSpec => []HealthInv
<1>1. HealthInv /\ [HNext]_<<vars, hvars>> => HealthInv'
  BY ManagerStep, RequestStep DEF HNext, HealthNext
<1> QED  BY HealthInvInit, <1>1, PTL DEF HSpec

\* DaemonRunner's calls are calls: what holds of HSpec holds of HSerialSpec.
LEMMA SerialIsHealthSpec == HSerialSpec => HSpec
<1>1. SerialNext => Next
  BY DEF SerialNext, Next
<1>2. [HSerialNext]_<<vars, hvars>> => [HNext]_<<vars, hvars>>
  BY <1>1 DEF HSerialNext, HNext
<1> QED  BY <1>2, PTL DEF HSerialSpec, HSpec

\* State and response of every request have their types.
THEOREM HealthTypeCorrect == HSpec => []HTypeOK
<1>1. HealthInv => HTypeOK
  BY DEF HealthInv, RequestTypes, Requests, HTypeOK
<1> QED  BY <1>1, HealthInductive, PTL

\* A report that says Running has an uptime, however start(), shutdown() and
\* the requests interleave.
THEOREM HealthUptime == HSpec => []RunningReportHasUptime
BY HealthInductive, PTL DEF HealthInv

\* A 200 hides no failed check.
THEOREM HealthOkNoFailure == HSerialSpec => []OkMeansNoFailure
<1>1. HealthInv => OkMeansNoFailure
  BY DEF HealthInv, Verdict, OkMeansNoFailure, Answered, IsHealthy
<1> QED  BY <1>1, SerialIsHealthSpec, HealthInductive, PTL

\* A 503 has a cause that the request itself has seen.
THEOREM HealthUnavailableCause == HSerialSpec => []UnavailableHasCause
<1>1. HealthInv => UnavailableHasCause
  BY DEF HealthInv, Verdict, UnavailableHasCause, Answered, IsHealthy
<1> QED  BY <1>1, SerialIsHealthSpec, HealthInductive, PTL
-----------------------------------------------------------------------------
(***************************************************************************)
(* One call of the manager at a time.  Running is then backed by the tasks *)
(* at the moment a request reads it, and the request remembers that.       *)
(***************************************************************************)
ReadBacked == \A p \in Probers : req[p].status = "Running" => req[p].backed

LEMMA HealthDrivesSerially == HSerialSpec => SerialSpec
<1>1. HInit => Init
  BY DEF HInit
<1>2. [HSerialNext]_<<vars, hvars>> => [SerialNext]_vars
  BY DEF HSerialNext, HealthNext
<1> QED  BY <1>1, <1>2, PTL DEF HSerialSpec, SerialSpec

LEMMA ReadBackedStep ==
  ASSUME HealthInv, RunningIsBacked, ReadBacked, [HSerialNext]_<<vars, hvars>>
  PROVE  ReadBacked'
<1>1. req \in [Probers -> Requests]
  BY DEF HealthInv, RequestTypes
<1>2. CASE UNCHANGED hvars
  BY <1>2 DEF ReadBacked, hvars
<1>3. ASSUME NEW p \in Probers, HealthStep(p) PROVE ReadBacked'
  <2>1. \A q \in Probers \ {p} : req'[q] = req[q]
    BY <1>1, <1>3 DEF HealthStep, HealthEnter, HealthRejected, HealthLifecycle,
                      HealthProbe, HealthRespond, HealthDrop
  <2>2. req'[p].status = "Running" => req'[p].backed
    <3>1. CASE HealthEnter(p)
      <4>1. req'[p].status = status /\ req'[p].backed = background
        BY <1>1, <3>1 DEF HealthEnter, NoRequest
      <4> QED  BY <4>1 DEF RunningIsBacked
    <3>2. CASE HealthDrop(p)
      BY <1>1, <3>2 DEF HealthDrop, NoRequest
    <3>3. CASE HealthLifecycle(p) \/ HealthProbe(p) \/ HealthRespond(p)
      <4>1. req'[p].status = req[p].status /\ req'[p].backed = req[p].backed
        <5>1. CASE HealthLifecycle(p)
          BY <1>1, <5>1 DEF HealthLifecycle, Requests
        <5>2. CASE HealthProbe(p)
          BY <1>1, <5>2 DEF HealthProbe, Requests
        <5>3. CASE HealthRespond(p)
          BY <1>1, <5>3 DEF HealthRespond, Requests
        <5> QED  BY <3>3, <5>1, <5>2, <5>3
      <4> QED  BY <4>1 DEF ReadBacked
    <3>4. CASE HealthRejected(p)
      BY <3>4 DEF HealthRejected, ReadBacked
    <3> QED  BY <1>3, <3>1, <3>2, <3>3, <3>4 DEF HealthStep
  <2> QED  BY <2>1, <2>2 DEF ReadBacked
<1> QED  BY <1>2, <1>3 DEF HSerialNext, HealthNext

\* A 200 is never given for a runtime whose background tasks were down when
\* the request arrived.
THEOREM HealthOkBacked == HSerialSpec => []OkMeansBacked
<1>1. HInit => ReadBacked
  BY DEF HInit, NoRequest, ReadBacked
<1>2. HealthInv /\ ReadBacked => OkMeansBacked
  BY DEF HealthInv, Verdict, ReadBacked, OkMeansBacked, Answered, IsHealthy
<1>3. HSerialSpec => []ReadBacked
  BY <1>1, ReadBackedStep, HealthDrivesSerially, SerialRunning, SerialIsHealthSpec,
     HealthInductive, PTL DEF HSerialSpec
<1> QED  BY <1>2, <1>3, SerialIsHealthSpec, HealthInductive, PTL
=============================================================================
