--------------------------- MODULE HealthEndpoint ---------------------------
(***************************************************************************)
(* GET /health: DefaultHealthHandler over RuntimeManager::health(), run by *)
(* any number of requests beside the start() and shutdown() calls of       *)
(* RuntimeManager.  health() reads the status first, then awaits the       *)
(* lifecycle monitor, reads the uptime, and awaits one check of every      *)
(* transport in turn, so the report mixes readings of several moments.     *)
(***************************************************************************)
EXTENDS RuntimeManager, Integers, Sequences

CONSTANTS
  Probers,      \* concurrent GET /health requests
  Transports    \* the components checked, in the order health() checks them

ASSUME TransportsIsSeq == Transports \in Seq(STRING)

VARIABLES req,  \* the request's local state
          code  \* its HTTP response: "none" yet, 200, 503, or an Err

hvars == <<req, code>>

\* status, uptime: what health() has read; healthy: every ComponentHealth
\* pushed so far is healthy.  History: `backed', the tasks ran when the status
\* was read; `failed', an Err or a component that is not Healthy was seen;
\* `sick', anything at all was reported not healthy.
NoRequest == [at |-> "idle", pos |-> 0, status |-> "Stopped", uptime |-> FALSE,
              healthy |-> TRUE, backed |-> FALSE, failed |-> FALSE, sick |-> FALSE]

HInit ==
  /\ Init
  /\ req = [p \in Probers |-> NoRequest]
  /\ code = [p \in Probers |-> "none"]

\* The handler accepts GET on its path; `*self.status.lock()'.
HealthEnter(p) ==
  /\ req[p].at = "idle"
  /\ req' = [req EXCEPT ![p] = [NoRequest EXCEPT !.at = "lifecycle",
                                  !.status = status, !.backed = background]]
  /\ code' = [code EXCEPT ![p] = "none"]

\* Another method or path: an Err before the manager is asked.
HealthRejected(p) ==
  /\ req[p].at = "idle"
  /\ code' = [code EXCEPT ![p] = "rejected"]
  /\ UNCHANGED req

\* lifecycle.health answers: all components Healthy; some component not; an
\* Err, replaced by {overall: Unhealthy, components: []}; or an Ok whose
\* overall is not Healthy over Healthy components.  `overall' is never read.
LifecycleAnswer == {"healthy", "component", "err", "overall"}

\* A bug: the uptime is taken for unset.
HealthLifecycleNoUptime(p) ==
  /\ req[p].at = "lifecycle"
  /\ \E answer \in LifecycleAnswer :
       req' = [req EXCEPT ![p].at      = "probe",
                          ![p].uptime  = FALSE,
                          ![p].healthy = answer # "component",
                          ![p].failed  = answer = "component",
                          ![p].sick    = answer # "healthy"]
  /\ UNCHANGED code

HealthLifecycle(p) ==
  /\ req[p].at = "lifecycle"
  /\ \E answer \in LifecycleAnswer :
       req' = [req EXCEPT ![p].at      = "probe",
                          ![p].uptime  = startedAt,
                          ![p].healthy = answer # "component",
                          ![p].failed  = answer = "component",
                          ![p].sick    = answer # "healthy"]
  /\ UNCHANGED code

\* A bug: an Err of a transport's check is taken as no news.
HealthProbeErrDropped(p) ==
  /\ req[p].at = "probe"
  /\ req[p].pos < Len(Transports)
  /\ \E verdict \in {"ok", "unhealthy", "err"} :
       req' = [req EXCEPT ![p].pos    = @ + 1,
                          ![p].failed = @ \/ verdict = "err",
                          ![p].sick   = @ \/ verdict # "ok"]
  /\ UNCHANGED code

\* A bug: an off-by-one in the loop over the transports.
HealthProbePastEnd(p) ==
  /\ req[p].at = "probe"
  /\ req[p].pos <= Len(Transports)
  /\ req' = [req EXCEPT ![p].pos = @ + 1]
  /\ UNCHANGED code

\* One transport's health_check: Ok(_) counts as healthy whatever the
\* response's own flag says, Err as unhealthy.
HealthProbe(p) ==
  /\ req[p].at = "probe"
  /\ req[p].pos < Len(Transports)
  /\ \E verdict \in {"ok", "unhealthy", "err"} :
       req' = [req EXCEPT ![p].pos     = @ + 1,
                          ![p].healthy = @ /\ verdict # "err",
                          ![p].failed  = @ \/ verdict = "err",
                          ![p].sick    = @ \/ verdict # "ok"]
  /\ UNCHANGED code

IsHealthy(r) == r.status = "Running" /\ r.healthy

\* A bug: the components are summarised and the status forgotten.
HealthRespondNoStatus(p) ==
  /\ req[p].at = "probe"
  /\ req[p].pos = Len(Transports)
  /\ req' = [req EXCEPT ![p].at = "idle"]
  /\ code' = [code EXCEPT ![p] = IF req[p].healthy THEN "200" ELSE "503"]

\* A bug: the status is read again, after the checks.
HealthRespondLiveStatus(p) ==
  /\ req[p].at = "probe"
  /\ req[p].pos = Len(Transports)
  /\ req' = [req EXCEPT ![p].at = "idle"]
  /\ code' = [code EXCEPT ![p] = IF IsHealthy(req[p]) /\ status = "Running"
                                   THEN "200" ELSE "503"]

HealthRespond(p) ==
  /\ req[p].at = "probe"
  /\ req[p].pos = Len(Transports)
  /\ req' = [req EXCEPT ![p].at = "idle"]
  /\ code' = [code EXCEPT ![p] = IF IsHealthy(req[p]) THEN "200" ELSE "503"]

\* The client goes away while health() is awaiting.
HealthDrop(p) ==
  /\ req[p].at # "idle"
  /\ req' = [req EXCEPT ![p] = NoRequest]
  /\ UNCHANGED code

HealthStep(p) ==
  \/ HealthEnter(p)
  \/ HealthRejected(p)
  \/ HealthLifecycle(p)
  \/ HealthProbe(p)
  \/ HealthRespond(p)
  \/ HealthDrop(p)

HealthNext == (\E p \in Probers : HealthStep(p)) /\ UNCHANGED vars

HNext       == (Next /\ UNCHANGED hvars) \/ HealthNext
HSpec       == HInit /\ [][HNext]_<<vars, hvars>>

\* start() and shutdown() one at a time, as DaemonRunner calls them.
HSerialNext == (SerialNext /\ UNCHANGED hvars) \/ HealthNext
HSerialSpec == HInit /\ [][HSerialNext]_<<vars, hvars>>

-----------------------------------------------------------------------------
\* The request's local state and response have their types.
HTypeOK ==
  /\ TypeOK
  /\ code \in [Probers -> {"none", "200", "503", "rejected"}]
  /\ req \in [Probers ->
       [at : {"idle", "lifecycle", "probe"}, pos : 0..Len(Transports),
        status : RuntimeStatus, uptime : BOOLEAN, healthy : BOOLEAN,
        backed : BOOLEAN, failed : BOOLEAN, sick : BOOLEAN]]

Answered(p) == code[p] \in {"200", "503"} /\ req[p].at = "idle"

\* The status and the uptime are read at different moments, yet no report that
\* says Running comes without an uptime: start() publishes both under the
\* status lock and the uptime is never taken back.
RunningReportHasUptime ==
  \A p \in Probers :
    req[p].at = "probe" /\ req[p].status = "Running" => req[p].uptime

\* A 200 is never given for a runtime whose background tasks were down when
\* the request arrived.
OkMeansBacked ==
  \A p \in Probers : Answered(p) /\ code[p] = "200" => req[p].backed

\* A 200 hides no failed check: no transport's check returned Err and no
\* lifecycle component was other than Healthy.
OkMeansNoFailure ==
  \A p \in Probers : Answered(p) /\ code[p] = "200" => ~req[p].failed

\* No spurious 503: either the status read on arrival was not Running or a
\* check failed, even if the status has changed since.
UnavailableHasCause ==
  \A p \in Probers :
    Answered(p) /\ code[p] = "503" => req[p].status # "Running" \/ req[p].failed

\* default_health_handler.rs: "Returns HTTP 200 when the runtime is healthy
\* and 503 when any component is degraded".  The code answers 200 when an
\* ingress reports itself unhealthy or the lifecycle monitor cannot be asked.
OkMeansHealthy ==
  \A p \in Probers : Answered(p) /\ code[p] = "200" => ~req[p].sick
=============================================================================
