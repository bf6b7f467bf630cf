---------------------------- MODULE DaemonServe -----------------------------
(***************************************************************************)
(* RuntimeBuilder::serve and Runtime::run: the life of the process.        *)
(* serve() assembles the runtime, spawns the servers, drives the           *)
(* RuntimeManager through DaemonRunner::run_until_signal, then tears the   *)
(* servers down.  They run beside it, from before start() to after         *)
(* shutdown(), and each is stopped through a oneshot channel: by a send,   *)
(* or by the drop of the sender when serve() returns.  The sampler of the  *)
(* load monitor alone has no channel: it runs until the process ends.      *)
(* Time is abstract: a timeout is a step that may come at any moment of    *)
(* the wait it bounds.                                                     *)
(***************************************************************************)
EXTENDS RuntimeManager, Integers, Sequences

CONSTANT Daemon     \* the task that runs serve(), the manager's only caller

ASSUME OneDaemon == Callers = {Daemon}

VARIABLES
  configured,  \* the stoppable tasks this runtime has: builder and config
  phase,       \* where serve() is
  step,        \* position in SpawnOrder or Teardown
  server,      \* state of each spawned task
  tx,          \* its oneshot sender
  abandoned,   \* tasks whose 5 s wait elapsed: detached, not aborted
  signalled,   \* SIGTERM or SIGINT has been delivered
  result       \* what serve() is to return

dvars == <<configured, phase, step, server, tx, abandoned, signalled, result>>
svars == <<vars, dvars>>

Ingresses  == {"http", "grpc"}
Servers    == Ingresses \cup {"metrics"}
Stoppable  == Servers \cup {"scheduler"}      \* those with a stop channel
Tasks      == Stoppable \cup {"sampler"}
SpawnOrder == <<"http", "grpc", "metrics", "scheduler">>

ServeInit ==
  /\ Init
  /\ configured \in SUBSET Stoppable
  /\ hasIngress = (configured \cap Ingresses # {})
  /\ phase = "assemble"
  /\ step = 1
  /\ server = [t \in Tasks |-> "absent"]
  /\ tx = [t \in Tasks |-> "none"]
  /\ abandoned = {}
  /\ signalled = FALSE
  /\ result = "none"

\* The receiver of t's channel is woken.
Told(t) == tx[t] \in {"sent", "dropped"}

\* serve() returns: its locals are dropped, the unused senders with them.
DropSenders == [t \in Tasks |-> IF tx[t] = "open" THEN "dropped" ELSE tx[t]]

ReturnWith(r) ==
  /\ phase' = "returned"
  /\ result' = r
  /\ tx' = DropSenders

-----------------------------------------------------------------------------
(* Assembly *)

\* With [metrics] configured the load monitor's sampler is spawned while the
\* rest is still being built: its JoinHandle is dropped and it has no channel.
SpawnSampler ==
  /\ phase = "assemble"
  /\ "metrics" \in configured
  /\ server["sampler"] = "absent"
  /\ server' = [server EXCEPT !["sampler"] = "serving"]
  /\ UNCHANGED <<vars, configured, phase, step, tx, abandoned, signalled, result>>

\* Configuration, TLS, verifier, tracer and log backends, ingress, egress and
\* intrusion guard are built; an Ingress with no transport is refused.
Assemble ==
  /\ phase = "assemble"
  /\ hasIngress
  /\ "metrics" \in configured => server["sampler"] = "serving"
  /\ phase' = "spawn"
  /\ UNCHANGED <<vars, configured, step, server, tx, abandoned, signalled, result>>

\* Runtime::run, which is handed its ingress and egress, has the same life with
\* the ingress servers alone; nothing before start() refuses an empty ingress.
AssembleRun ==
  /\ phase = "assemble"
  /\ configured \subseteq Ingresses
  /\ phase' = "spawn"
  /\ UNCHANGED <<vars, configured, step, server, tx, abandoned, signalled, result>>

\* Any `?' before the first server is spawned, and "no handler registered": it
\* may come before the sampler is spawned or leave it behind.
AssembleFails ==
  /\ phase = "assemble"
  /\ ReturnWith("StartFailed")
  /\ UNCHANGED <<vars, configured, step, server, abandoned, signalled>>

SpawnTask(t) ==
  /\ phase = "spawn"
  /\ SpawnOrder[step] = t
  /\ IF t \in configured
       THEN /\ server' = [server EXCEPT ![t] = "serving"]
            /\ tx' = [tx EXCEPT ![t] = "open"]
       ELSE UNCHANGED <<server, tx>>
  /\ IF step = Len(SpawnOrder) THEN phase' = "start" /\ step' = 1
                               ELSE phase' = phase /\ step' = step + 1
  /\ UNCHANGED <<vars, configured, abandoned, signalled, result>>

\* A bug: the senders outlive the failed serve().
SpawnFailsLeak(t) ==
  /\ phase = "spawn"
  /\ SpawnOrder[step] = t
  /\ t \in configured \cap {"grpc", "scheduler"}
  /\ phase' = "returned"
  /\ result' = "StartFailed"
  /\ UNCHANGED <<vars, configured, step, server, tx, abandoned, signalled>>

\* The gRPC server rejects its options, or the scheduler's thread cannot be
\* spawned: serve() returns with the earlier tasks running.
SpawnFails(t) ==
  /\ phase = "spawn"
  /\ SpawnOrder[step] = t
  /\ t \in configured \cap {"grpc", "scheduler"}
  /\ ReturnWith("StartFailed")
  /\ UNCHANGED <<vars, configured, step, server, abandoned, signalled>>

-----------------------------------------------------------------------------
(* DaemonRunner::run_until_signal *)

\* manager.start() runs; its awaits have no timeout.
Start ==
  /\ phase = "start"
  /\ StartEnter(Daemon) \/ StartTasksOk(Daemon)
  /\ UNCHANGED dvars

Started ==
  /\ phase = "start"
  /\ StartCommit(Daemon)
  /\ phase' = "await"
  /\ UNCHANGED <<configured, step, server, tx, abandoned, signalled, result>>

StartFails ==
  /\ phase = "start"
  /\ StartTasksErr(Daemon) \/ StartNoIngress(Daemon)
  /\ phase' = "teardown"
  /\ result' = "StartFailed"
  /\ UNCHANGED <<configured, step, server, tx, abandoned, signalled>>

\* A bug: the servers are stopped before the manager is.
SignalStopsServers ==
  /\ phase = "await"
  /\ signalled' = TRUE
  /\ phase' = "shutdown"
  /\ tx' = [t \in Tasks |->
              IF t \in Ingresses /\ tx[t] = "open" THEN "sent" ELSE tx[t]]
  /\ UNCHANGED <<vars, configured, step, server, abandoned, result>>

\* wait_for_signal completes.
Signal ==
  /\ phase = "await"
  /\ signalled' = TRUE
  /\ phase' = "shutdown"
  /\ UNCHANGED <<vars, configured, step, server, tx, abandoned, result>>

\* The handlers are registered by the first poll of wait_for_signal, after
\* start(): before that the signal's default disposition ends the process.
Killed ==
  /\ phase \in {"assemble", "spawn", "start"}
  /\ signalled' = TRUE
  /\ phase' = "killed"
  /\ server' = [t \in Tasks |-> IF server[t] = "absent" THEN "absent" ELSE "ended"]
  /\ UNCHANGED <<vars, configured, step, tx, abandoned, result>>

Shutdown ==
  /\ phase = "shutdown"
  /\ ShutdownEnter(Daemon) \/ StopTasksOk(Daemon)
  /\ UNCHANGED dvars

\* A bug: a failed shutdown is reported as a success.
ShutdownErrSwallowed ==
  /\ phase = "shutdown"
  /\ StopTasksErr(Daemon)
  /\ phase' = "teardown"
  /\ result' = "ok"
  /\ UNCHANGED <<configured, step, server, tx, abandoned, signalled>>

ShutdownFails ==
  /\ phase = "shutdown"
  /\ StopTasksErr(Daemon)
  /\ phase' = "teardown"
  /\ result' = "ShutdownFailed"
  /\ UNCHANGED <<configured, step, server, tx, abandoned, signalled>>

\* shutdown_timeout_secs elapse in manager.shutdown(), whose future is dropped.
ShutdownTimeout ==
  /\ phase = "shutdown"
  /\ pc[Daemon] = "stopTasks"
  /\ DropCall(Daemon)
  /\ phase' = "teardown"
  /\ result' = "ShutdownTimeout"
  /\ UNCHANGED <<configured, step, server, tx, abandoned, signalled>>

\* A bug: the manager's last status is returned in place of the result.
ShutdownDoneStatus ==
  /\ phase = "shutdown"
  /\ ShutdownCommit(Daemon)
  /\ phase' = "teardown"
  /\ result' = status'
  /\ UNCHANGED <<configured, step, server, tx, abandoned, signalled>>

ShutdownDone ==
  /\ phase = "shutdown"
  /\ ShutdownCommit(Daemon)
  /\ phase' = "teardown"
  /\ result' = "ok"
  /\ UNCHANGED <<configured, step, server, tx, abandoned, signalled>>

-----------------------------------------------------------------------------
(* Teardown: the same whatever the manager returned *)

Op(what, t) == [op |-> what, task |-> t]

\* A bug: every task is told at once.
TeardownAllAtOnce ==
  << Op("send", "http"), Op("send", "grpc"), Op("send", "metrics"),
     Op("send", "scheduler"), Op("join", "http"), Op("join", "grpc"),
     Op("join", "metrics"), Op("join", "scheduler") >>

\* A bug: the metrics server is told but not awaited.
TeardownMetricsUnjoined ==
  << Op("send", "http"), Op("send", "grpc"), Op("send", "metrics"),
     Op("join", "http"), Op("join", "grpc"),
     Op("send", "scheduler"), Op("join", "scheduler") >>

Teardown ==
  << Op("send", "http"), Op("send", "grpc"), Op("send", "metrics"),
     Op("join", "http"), Op("join", "grpc"), Op("join", "metrics"),
     Op("send", "scheduler"), Op("join", "scheduler") >>

AtOp(what, t) ==
  /\ phase = "teardown"
  /\ step <= Len(Teardown)
  /\ Teardown[step] = Op(what, t)

\* A send to a task that has ended fails, and the failure is ignored.
SendStop(t) ==
  /\ AtOp("send", t)
  /\ tx' = [tx EXCEPT ![t] = IF @ = "open" THEN "sent" ELSE @]
  /\ step' = step + 1
  /\ UNCHANGED <<vars, configured, phase, server, abandoned, signalled, result>>

Live(t) == server[t] \in {"serving", "draining"}

Join(t) ==
  /\ AtOp("join", t)
  /\ ~Live(t)
  /\ step' = step + 1
  /\ UNCHANGED <<vars, configured, phase, server, tx, abandoned, signalled, result>>

\* A bug: the gRPC server is awaited without a timeout.
JoinTimeoutNotGrpc(t) ==
  /\ AtOp("join", t)
  /\ Live(t)
  /\ t # "grpc"
  /\ abandoned' = abandoned \cup {t}
  /\ step' = step + 1
  /\ UNCHANGED <<vars, configured, phase, server, tx, signalled, result>>

\* 5 s elapse: the JoinHandle is dropped, which detaches the task.
JoinTimeout(t) ==
  /\ AtOp("join", t)
  /\ Live(t)
  /\ abandoned' = abandoned \cup {t}
  /\ step' = step + 1
  /\ UNCHANGED <<vars, configured, phase, server, tx, signalled, result>>

Return ==
  /\ phase = "teardown"
  /\ step > Len(Teardown)
  /\ ReturnWith(result)
  /\ UNCHANGED <<vars, configured, step, server, abandoned, signalled>>

-----------------------------------------------------------------------------
(* The tasks: servers accept while "serving", and finish what they have
   accepted while "draining". *)

\* The bind fails, the server errs, or the scheduler's run ends: it is logged.
TaskFails(t) ==
  /\ server[t] = "serving"
  /\ server' = [server EXCEPT ![t] = "failed"]
  /\ UNCHANGED <<vars, configured, phase, step, tx, abandoned, signalled, result>>

\* t's receiver is polled: a server's by its graceful shutdown, the scheduler's
\* by the user's job, which may also never look at it.
TaskSeesStop(t) ==
  /\ server[t] = "serving"
  /\ Told(t)
  /\ server' = [server EXCEPT ![t] = "draining"]
  /\ UNCHANGED <<vars, configured, phase, step, tx, abandoned, signalled, result>>

\* Its last request or job is over; nothing bounds how long that takes.
TaskDrained(t) ==
  /\ server[t] = "draining"
  /\ server' = [server EXCEPT ![t] = "ended"]
  /\ UNCHANGED <<vars, configured, phase, step, tx, abandoned, signalled, result>>

Assembly == SpawnSampler \/ Assemble \/ AssembleRun \/ AssembleFails
              \/ \E t \in Stoppable : SpawnTask(t) \/ SpawnFails(t)
Runner   == Start \/ Started \/ StartFails \/ Shutdown \/ ShutdownFails
              \/ ShutdownTimeout \/ ShutdownDone
Stop(t)  == SendStop(t) \/ Join(t) \/ JoinTimeout(t)
Task(t)  == TaskFails(t) \/ TaskSeesStop(t) \/ TaskDrained(t)

ServeNext ==
  \/ Assembly
  \/ Runner
  \/ Signal
  \/ Killed
  \/ \E t \in Stoppable : Stop(t) \/ Task(t)
  \/ Return
  \/ phase \in {"returned", "killed"} /\ UNCHANGED svars

\* serve() is polled by the tokio executor, its timers fire and a server's
\* woken receiver is polled.  Nothing is assumed of the lifecycle monitor, of
\* signals, of how long requests take, or of the scheduled job, which is
\* abandoned if it does not look at its receiver.
OwnStep ==
  \/ Assembly
  \/ phase = "shutdown" /\ (Shutdown \/ ShutdownTimeout \/ ShutdownDone)
  \/ \E t \in Stoppable : Stop(t)
  \/ Return

Fairness ==
  /\ WF_svars(OwnStep)
  /\ \A t \in Servers : WF_svars(TaskSeesStop(t))

ServeSafety == ServeInit /\ [][ServeNext]_svars
ServeSpec   == ServeSafety /\ Fairness

-----------------------------------------------------------------------------
\* The local state of serve() has its types.
STypeOK ==
  /\ TypeOK
  /\ configured \in SUBSET Stoppable
  /\ phase \in {"assemble", "spawn", "start", "await", "shutdown", "teardown",
                "returned", "killed"}
  /\ step \in 1..(Len(Teardown) + 1)
  /\ server \in [Tasks -> {"absent", "serving", "draining", "ended", "failed"}]
  /\ tx \in [Tasks -> {"none", "open", "sent", "dropped"}]
  /\ abandoned \in SUBSET Tasks
  /\ signalled \in BOOLEAN
  /\ result \in {"none", "ok", "StartFailed", "ShutdownFailed", "ShutdownTimeout"}

\* What serve() returns is true of the manager it drops: Ok only after a
\* signal, with the manager Stopped and its tasks down; a shutdown error or
\* timeout leaves it Stopping; a start error never leaves it Running.
ResultTruthful ==
  /\ result = "ok" => signalled /\ status = "Stopped" /\ ~background
  /\ result \in {"ShutdownFailed", "ShutdownTimeout"} => signalled /\ status = "Stopping"
  /\ result = "StartFailed" => status \in {"Stopped", "Starting"}

\* No server is told to stop while the manager is starting, running or
\* shutting down: the lifecycle monitor's tasks can use the servers' last
\* requests until run_until_signal has returned.
ManagerStopsFirst ==
  \A t \in Tasks : Told(t) => pc[Daemon] = "idle" /\ status # "Running"

\* serve() returns through its teardown, not by a `?' before start().
ThroughTeardown == phase = "teardown" \/ (phase = "returned" /\ step > Len(Teardown))

\* runtime_builder.rs: the scheduled job ends after the servers.  In every
\* teardown, that of a failed start included, it is told only when each server
\* has ended or has used up its 5 s.
SchedulerOutlivesServers ==
  Told("scheduler") /\ ThroughTeardown =>
    \A t \in Servers : ~Live(t) \/ t \in abandoned

\* A serve() that has gone through its teardown returns over a task that is
\* still alive only if it has waited 5 s for that task.  The sampler is the one
\* task it never waits for.
LeftOnlyAbandoned ==
  phase = "returned" /\ ThroughTeardown =>
    \A t \in Tasks : Live(t) => t \in abandoned \cup {"sampler"}

\* What TaskGroup sees of a task: one whose channel has fired is asked to stop
\* even before it notices.
TaskView(t) ==
  IF server[t] = "absent" THEN "absent"
  ELSE IF ~Live(t) THEN "done"
  ELSE IF server[t] = "serving" /\ ~Told(t) THEN "running" ELSE "asked"

Group == INSTANCE TaskGroup WITH
  Detached <- {"sampler"},
  owner    <- IF phase \in {"returned", "killed"} THEN "gone" ELSE "present",
  task     <- [t \in Tasks |-> TaskView(t)]

\* serve() keeps the promise of TaskGroup on every path out, the early
\* returns during assembly and between two spawns included: no server and no
\* scheduled job is left unasked.  The sampler is a detached task: it is asked
\* on no path, and runs on until the process ends.
ImplementsTaskGroup == Group!Spec

\* Once a signal has been taken, serve() returns, even if the lifecycle
\* monitor never answers and no server ever drains.
SignalReturns == phase = "shutdown" ~> phase = "returned"

\* Once serve() has returned, by whichever path, no server goes on accepting.
\* Of the scheduled job the code promises no such thing.
NoneServesForever ==
  \A t \in Servers : phase = "returned" ~> server[t] # "serving"

\* runtime_config.rs, shutdown_timeout_secs: "Seconds to wait for in-flight
\* requests to drain on shutdown".  The code waits a fixed 5 s for the servers
\* and returns Ok over one that is still draining.
OkMeansDrained ==
  phase = "returned" /\ result = "ok" => \A t \in Ingresses : server[t] # "draining"

\* runtime_builder_serve.rs: serve() "Blocks until SIGTERM / SIGINT or an
\* error".  The code logs a server's error and goes on blocking.
ServerErrorReturns ==
  \A t \in Ingresses : server[t] = "failed" ~> phase \in {"returned", "killed"}
=============================================================================
