--------------------------- MODULE RuntimeManager ---------------------------
(***************************************************************************)
(* DefaultRuntimeManager: start() and shutdown() as async calls that share *)
(* one status lock.  The lock is held only for single reads and writes, so *)
(* every await is a point where another call can run, or where the call's  *)
(* future can be dropped (a timeout around it elapses).                    *)
(*                                                                         *)
(* The lifecycle monitor (edge_proxy) is external: it is represented by    *)
(* `background', whether the background tasks it owns are running.  Its    *)
(* calls may fail, and a call that failed or was abandoned may or may not  *)
(* have taken effect.                                                      *)
(***************************************************************************)
CONSTANT Callers      \* tasks holding the manager (every method takes &self)

VARIABLES
  hasIngress,   \* Ingress::has_any(), fixed when the manager is built
  status,       \* Arc<Mutex<RuntimeStatus>>
  startedAt,    \* started_at.is_some()
  background,   \* the external lifecycle monitor's background tasks run
  pc,           \* where each caller is: "idle", or the await it is parked at
  stranded      \* history: since no call was in progress, one has given up

vars == <<hasIngress, status, startedAt, background, pc, stranded>>

RuntimeStatus == {"Starting", "Running", "Stopping", "Stopped", "Degraded"}

\* "startTasks": in lifecycle.start_background_tasks; "probe": in the health
\* probes of the transports; "stopTasks": in lifecycle.shutdown; "stopCommit":
\* lifecycle.shutdown has returned, the status lock is not yet taken.
Starting == {"startTasks", "probe"}
Stopping == {"stopTasks", "stopCommit"}
Phase    == {"idle"} \cup Starting \cup Stopping

Init ==
  /\ hasIngress \in BOOLEAN
  /\ status = "Stopped"
  /\ startedAt = FALSE
  /\ background = FALSE
  /\ pc = [c \in Callers |-> "idle"]
  /\ stranded = FALSE

\* No other call is in progress.
Alone(c) == \A d \in Callers \ {c} : pc[d] = "idle"

Goto(c, from, to) == pc[c] = from /\ pc' = [pc EXCEPT ![c] = to]

-----------------------------------------------------------------------------
(* start() *)

\* Already running: return Ok without doing anything.
StartNoop(c) ==
  /\ pc[c] = "idle"
  /\ status = "Running"
  /\ UNCHANGED vars

StartEnter(c) ==
  /\ Goto(c, "idle", "startTasks")
  /\ status # "Running"
  /\ hasIngress
  /\ status' = "Starting"
  /\ stranded' = (stranded /\ ~Alone(c))
  /\ UNCHANGED <<hasIngress, startedAt, background>>

\* Err(StartFailed): the status has been set and is not restored.
StartNoIngress(c) ==
  /\ pc[c] = "idle"
  /\ status # "Running"
  /\ ~hasIngress
  /\ status' = "Starting"
  /\ stranded' = TRUE
  /\ UNCHANGED <<hasIngress, startedAt, background, pc>>

StartTasksOk(c) ==
  /\ Goto(c, "startTasks", "probe")
  /\ background' = TRUE
  /\ UNCHANGED <<hasIngress, status, startedAt, stranded>>

\* A bug of the kind `let _ = lifecycle.start_background_tasks(..).await'.
StartTasksErrIgnored(c) ==
  /\ Goto(c, "startTasks", "probe")
  /\ background' \in {background, TRUE}
  /\ UNCHANGED <<hasIngress, status, startedAt, stranded>>

\* Err(StartFailed) through the `?': the status stays Starting.
StartTasksErr(c) ==
  /\ Goto(c, "startTasks", "idle")
  /\ background' \in {background, TRUE}
  /\ stranded' = TRUE
  /\ UNCHANGED <<hasIngress, status, startedAt>>

\* A bug: the uptime is recorded but the status is never published.
StartCommitUnpublished(c) ==
  /\ Goto(c, "probe", "idle")
  /\ startedAt' = TRUE
  /\ UNCHANGED <<hasIngress, status, background, stranded>>

\* The probes' results are discarded; Running and started_at are written
\* together under the status lock.
StartCommit(c) ==
  /\ Goto(c, "probe", "idle")
  /\ status' = "Running"
  /\ startedAt' = TRUE
  /\ UNCHANGED <<hasIngress, background, stranded>>

-----------------------------------------------------------------------------
(* shutdown() *)

ShutdownNoop(c) ==
  /\ pc[c] = "idle"
  /\ status = "Stopped"
  /\ UNCHANGED vars

ShutdownEnter(c) ==
  /\ Goto(c, "idle", "stopTasks")
  /\ status # "Stopped"
  /\ status' = "Stopping"
  /\ stranded' = (stranded /\ ~Alone(c))
  /\ UNCHANGED <<hasIngress, startedAt, background>>

StopTasksOk(c) ==
  /\ Goto(c, "stopTasks", "stopCommit")
  /\ background' = FALSE
  /\ UNCHANGED <<hasIngress, status, startedAt, stranded>>

\* A bug of the kind `let _ = lifecycle.shutdown(..).await'.
StopTasksErrIgnored(c) ==
  /\ Goto(c, "stopTasks", "stopCommit")
  /\ background' \in {background, FALSE}
  /\ UNCHANGED <<hasIngress, status, startedAt, stranded>>

\* Err(ShutdownFailed) through the `?': the status stays Stopping.
StopTasksErr(c) ==
  /\ Goto(c, "stopTasks", "idle")
  /\ background' \in {background, FALSE}
  /\ stranded' = TRUE
  /\ UNCHANGED <<hasIngress, status, startedAt>>

\* started_at is left as it is.
ShutdownCommit(c) ==
  /\ Goto(c, "stopCommit", "idle")
  /\ status' = "Stopped"
  /\ UNCHANGED <<hasIngress, startedAt, background, stranded>>

-----------------------------------------------------------------------------
\* The future of a call is dropped at one of its awaits, as the timeout in
\* DaemonRunner does to shutdown(): nothing is undone.  (The status lock is a
\* blocking one: no await separates lifecycle.shutdown from the commit.)
DropCall(c) ==
  /\ pc[c] \in {"startTasks", "probe", "stopTasks"}
  /\ pc' = [pc EXCEPT ![c] = "idle"]
  /\ \/ background' = background
     \/ pc[c] = "startTasks" /\ background' = TRUE
     \/ pc[c] = "stopTasks" /\ background' = FALSE
  /\ stranded' = TRUE
  /\ UNCHANGED <<hasIngress, status, startedAt>>

Step(c) ==
  \/ StartNoop(c)
  \/ StartEnter(c)
  \/ StartNoIngress(c)
  \/ StartTasksOk(c)
  \/ StartTasksErr(c)
  \/ StartCommit(c)
  \/ ShutdownNoop(c)
  \/ ShutdownEnter(c)
  \/ StopTasksOk(c)
  \/ StopTasksErr(c)
  \/ ShutdownCommit(c)
  \/ DropCall(c)

\* Any task may call at any time: what the &self methods allow.
Next == \E c \in Callers : Step(c)
Spec == Init /\ [][Next]_vars

\* One call at a time: how DaemonRunner::run_until_signal drives the manager.
SerialNext == \E c \in Callers : Alone(c) /\ Step(c)
SerialSpec == Init /\ [][SerialNext]_vars

-----------------------------------------------------------------------------
\* Every variable has its type (the fields of DefaultRuntimeManager).
TypeOK ==
  /\ hasIngress \in BOOLEAN
  /\ status \in RuntimeStatus
  /\ startedAt \in BOOLEAN
  /\ background \in BOOLEAN
  /\ pc \in [Callers -> Phase]
  /\ stranded \in BOOLEAN

\* However calls interleave, a transitional status is owned: Starting is only
\* seen while some start() is in progress and Stopping while some shutdown()
\* is, unless one of the calls that overlapped failed or was dropped.
\* (Two calls overwrite each other's status, so the owner need not be the
\* caller that wrote it first.)
SettledStatus ==
  ~stranded =>
    /\ status = "Starting" => \E c \in Callers : pc[c] \in Starting
    /\ status = "Stopping" => \E c \in Callers : pc[c] \in Stopping

\* Stopped means stopped (runtime_status.rs: "Runtime has fully stopped"): the
\* background tasks are down.  shutdown() trusts it when it returns Ok early.
StoppedIsQuiet == status = "Stopped" => ~background

\* Running means started (runtime_status.rs: "fully started and serving
\* traffic"): the background tasks are up, an ingress exists, uptime counts.
RunningIsBacked == status = "Running" => background /\ hasIngress /\ startedAt

\* runtime_status.rs: "Runtime has fully stopped".  Once every call has
\* returned and none failed, Stopped means that the background tasks are down.
\* It holds when calls come one at a time; a start() whose tasks come up
\* between the two halves of a shutdown() refutes it, and every later
\* shutdown() then returns Ok without stopping them.
StoppedIsTrueAtRest ==
  (~stranded /\ status = "Stopped" /\ \A c \in Callers : pc[c] = "idle")
    => ~background
=============================================================================
