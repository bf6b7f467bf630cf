# A verification project for edge-bootstrap

`edge-bootstrap` assembles a service process: it reads its configuration, builds
HTTP and gRPC ingress, egress, observability and load monitoring, runs the
servers, and takes the process from start to a graceful end. The logic that is
its own (the rest is delegated to `edge_proxy`, `edge_dispatch`, the transport
and observability crates) is the life of the process, the monitoring of load,
health, dispatch of requests to handlers, load-balanced egress, and
configuration. This directory models that logic in TLA+, checks it with TLC and
proves what matters most with TLAPS.

Paths below are relative to `src/scm/main/`; `core/` stands for
`adapter/src/core/`.

## Inventory

| component | source | state | operations | interacts with |
|---|---|---|---|---|
| runtime manager | `core/runtime/manager/default_runtime_manager.rs` | `status` and `started_at` behind blocking locks | `start`, `shutdown`, `health` | awaits the external `LifecycleMonitor` and every transport's health check |
| health endpoint | `core/health/default_health_handler.rs`, `port/runtime/src/types/health/` | none of its own | `GET /health` | `RuntimeManager::health` |
| `serve()` and daemon runner | `core/runtime/runtime_builder_serve.rs`, `core/runner/runner.rs` | task handles, oneshot senders | assemble, spawn, run until signal, tear down | owns the manager; the servers run beside it and are stopped through channels |
| load monitor | `port/monitor/src/types/`, `core/monitor/` | atomic counters, latency ring, sampler's locals | `on_start`, `on_end`, `export`, sampler tick | wraps every request; publishes to the metrics provider |
| dispatch | `core/dispatch/`, `core/composite/`, `core/runtime/types/runtime_builder.rs` | router, handler registry, health handlers | `register_route`, `route`, `run`, `health_check` | `edge_dispatch` registry and pipeline; wrapped by guard and monitor |
| load-balanced egress | `core/egress/load_balanced_http_egress.rs`, `port/runtime/src/types/service_registry.rs` | external backend pool | `send`, `send_stream`, `report_outcome` | inner client; a circuit breaker may call `report_outcome` |
| configuration | `core/config/`, `core/validator/` | none after load | layered `load`, `load_for_tenant`, `load_section`, overrides, validation | `serve()` resolves each part from it |
| request guards | `core/intrusion/` | external rule set | `handle`, `handle_unary`, `handle_stream` | outermost wrapper of a request |
| metrics endpoint | `core/metrics/handler/metrics_handler.rs` | none | `GET /metrics` | exports from the provider |
| observability bridges | `core/observability/` | a span's fields; the external logger's buffer | start and finish spans, drain logs, record metrics | external tracer, logger and metrics providers, shared by all handlers |
| ingress and egress holders | `core/ingress/`, `core/egress/default_egress.rs` | optional transports | getters, `has_any` | used by manager and `serve()` |
| codec, feature bridge, wasm port | `core/json/`, `port/config/`, `port/wasm/` | none | conversions, contracts | |

What is hard in it:

- **Concurrency.** Every method of the manager takes `&self` and releases its
  lock around awaits; `/health` requests interleave with `start` and
  `shutdown`; requests and the sampler share relaxed atomics; outcomes of
  egress calls come back out of order.
- **Failure.** The lifecycle monitor may fail or hang at any call; a server may
  fail to bind or die; assembly has a `?` between two spawns.
- **Dropped futures.** A timeout drops `shutdown()` at its await; a client that
  goes away drops a request's future, or a `/health` request.
- **Ordering.** Manager before servers, servers before scheduler, a send before
  each join, two swaps of the sampler against the steps of `on_end`, the layers
  around a job, the layers of a configuration.
- **Partial writes.** A route is written to three tables, and any of them can
  refuse it; a log entry reaches the disk in two calls.
- **Time.** Four 5 s waits and `shutdown_timeout_secs`; the sampler's second.

What makes each component correct:

- manager: the status is true of the background tasks, and a transitional
  status is never left behind by calls that succeeded;
- health: 200 and 503 are each justified, whatever happens while the request is
  awaiting;
- `serve()`: its result is true, its teardown is ordered, no server and no
  scheduled job is left without having been asked to stop, and it returns after
  a signal;
- load monitor: no request or error is lost, counted twice or left unpublished,
  and the percentile is taken of exactly the last requests;
- dispatch: routes are whole or the builder has panicked, who serves a target is
  fixed before the first request, a request is refused only if no registered
  route matches it, health is asked of whatever serves;
- layers: the monitor counts what reaches the job, neither less nor more;
- load-balanced egress: no backend out of rotation is selected, and it is known
  which reports can bring one back;
- configuration: the highest layer that sets a field wins, from the files to the
  parts that `serve()` installs;
- log drain: what a handler has logged is on disk.

## Modules

| module | models | extends |
|---|---|---|
| `RuntimeManager` | `DefaultRuntimeManager::start` and `shutdown` | |
| `HealthEndpoint` | `DefaultRuntimeManager::health` and `DefaultHealthHandler` | `RuntimeManager` |
| `TaskGroup` | abstract: a supervisor that leaves no task unasked but the detached ones | |
| `DaemonServe` | `RuntimeBuilder::serve`, `Runtime::run`, `DaemonRunner::run_until_signal`, the spawned tasks | `RuntimeManager`; refines `TaskGroup` |
| `TrafficCounters` | `TrafficCounters`, both load monitors, `BackgroundSampler` | |
| `LatencyRing` | `RingBuffer` | |
| `LoadMonitor` | the two together: `on_end` pushes its latency last | `TrafficCounters`, `LatencyRing` |
| `RouteRegistry` | `register_route` and `route` of both jobs, the builder's route methods | |
| `Dispatcher` | abstract: a runtime in which each target has one executor or none | |
| `RequestPath` | guards, reflection composite, monitor, `Job::run`, health check of a job | `RouteRegistry`; refines `Dispatcher` |
| `ObserverBridge` | `LogDrainBridge` in the hands of the handlers | `RequestPath` |
| `EgressPool` | `ServiceRegistry`, `build_registry`, `LoadBalancedHttpEgress` | |
| `ConfigLayers` | `ApplicationConfigLoader`, `ConfigOverride` | |
| `Assembly` | from configuration through `serve()`'s resolution of each part to the calls of the clients built from it | `ConfigLayers`, `EgressPool` |
| `MCHealthEndpoint`, `MCRequestPath`, `MCAssembly` | transports, handlers and pools of the runs | their component |
| `RuntimeManagerProofs`, `HealthEndpointProofs`, `DaemonServeProofs`, `TrafficCountersProofs`, `LoadMonitorProofs`, `RequestPathProofs`, `EgressPoolProofs`, `AssemblyProofs` | theorems | their component |

Operators whose comment begins "A bug:" are mutated actions. No specification
uses them; each shows that some property would notice that bug.

### RuntimeManager

`status` and `startedAt` are the fields of the manager. `background` stands for
the external `LifecycleMonitor`: whether its background tasks run. `pc` says at
which await each caller is parked. The locks are `parking_lot` ones and are held
for single reads and writes, so a block under a lock is one step and every await
ends one: `StartEnter` is the first block of `start()` with the ingress check
that follows it (`StartNoIngress` when it fails), `StartTasksOk` and
`StartTasksErr` are the two answers of `start_background_tasks`, and
`StartCommit` is the block that writes `Running` and the start time after the
probes, whose results the code discards. `shutdown()` is split in the same way;
between the answer of `lifecycle.shutdown` and the write of `Stopped` there is
no await, but another thread can run there, hence `stopCommit`. `DropCall` is a
future dropped at an await. A lifecycle call that failed or was dropped may or
may not have taken effect.

`Next` lets any caller call at any time; `SerialNext` lets one call be in
progress. The second is what `DaemonRunner` does: it owns the manager and awaits
`start()` and then `shutdown()` in one task, which is how `DaemonServe` is
written (`OneDaemon`), so what is proved of `SerialSpec` holds of it.

`stranded` is a history variable: a call has failed or been dropped since no
call was in progress. The code has no recovery of a status left `Starting` or
`Stopping` by such a call other than the next call.

### HealthEndpoint

Each prober is one request. `HealthEnter` reads the status, `HealthLifecycle`
takes the answer of the lifecycle monitor and reads the uptime in the same
step (no await separates them), `HealthProbe` is one check per transport, in
the code's order, and `HealthRespond` gives 200 or 503 as
`RuntimeHealth::is_healthy` does. An `Ok` of a transport's check counts as
healthy whatever its own flag, and `overall` is never read, as in the code. `backed`,
`failed` and `sick` are history: what was true, and what was seen.

### DaemonServe

`serve()` is sequential, so `phase` and `step` are its program counter. The
phases are assembly, the four spawns in order, `start`, `await`, `shutdown`,
teardown. `configured` ranges over every subset of the HTTP server, the gRPC
server, the metrics server and the scheduler (`Stoppable`). With the metrics server
comes the load monitor's sampler: it is spawned while the rest of the runtime is
still being built (`SpawnSampler`), its `JoinHandle` is dropped and it has no
channel, so no path out stops it. Each task has a `server` state and a `tx`, its oneshot sender; a drop of the sender wakes the receiver exactly
as a send does (`let _ = rx.await`), which is what stops the servers on the
early returns. `Teardown` lists the sends and joins in the code's order; the join of
a task that is not configured is skipped because an absent task is not live.

`Killed` is a signal before `wait_for_signal` has been polled: the handlers are
not registered yet and the default disposition ends the process.

`TaskGroup` is the promise behind this: a supervisor that leaves, in any way,
has asked each running task to stop, except those it has detached, which run on.
The sampler is the one detached task (`Detached`). `TaskView` maps a task of `serve()` to
it; a task whose channel has fired is asked even before it notices. Being asked
is not ending: `LeftOnlyAbandoned` says that whatever is still alive after a
teardown has been waited for in vain.

`Runtime::run` (`adapter/src/saf/bootstrap_svc.rs`) is the same life with the two
ingress servers only. It is handed its ingress and builds nothing, so
`AssembleRun` does not refuse an empty one; `start()` does.

### TrafficCounters

Each atomic operation of `on_start`, `on_end` and the sampler's tick is a step.
`sinceTick` and `errSinceTick` are swapped to zero by the sampler one after the
other; `held` is what the sampler has taken and not published; `rpsSum` and
`epsSum` sum what was published. `Drop` is a request whose future is dropped;
`on_end` never runs for it. The counters are read and written by relaxed
read-modify-write operations on one location each; the model is sequentially
consistent, which is exact for a single location and for the provider, whose
calls are serialised, and is an assumption for a reader that compares two
locations without a lock.

### LatencyRing and LoadMonitor

`buf` and `head` are the ring's fields; a slot holding 0 counts as empty, in the
code as here, so a request of zero latency is no sample. `recent` is history, the
last `Capacity` latencies in the order of their pushes; `RingIsWindow` says that
the samples `p99_ms` sorts are theirs. `P99Index` is the position it then takes,
and `P99WithinOneRank` compares it with the nearest rank for every number of
samples a ring can hold when the sampler publishes. `LoadMonitor` is both at once:
`RecordLatency` is `OnEndPush` with a `Push`, under the ring's mutex.

### RouteRegistry and RequestPath

The tables of each job are functions: `router` (pattern to id), `http` and `grpc`
(the external registries, id to handler), `httpHealth` and `grpcHealth` (the
`health_handlers`). `register_route` is one action per way it can end, each with
the tables it has written by then: a refusal leaves `health_handlers` written,
a conflict of patterns leaves both maps written. `RuntimeBuilder` turns any
refusal into a panic, which is what makes partial registrations harmless
(`WholeRoutes`). Whether the external registry refuses an id it holds is not
known from this repository, so `keepsFirst` is either; only a registry that
replaces lets one handler take over another's requests (`OwnPatternOrSharedId`).
Patterns are abstracted to which of them do not parse (`Malformed`), which conflict
and which match a path, best first, as `matchit` decides.

`HttpStack` and `GrpcStack` list the layers `serve()` wraps around a job,
outermost first; `Wrapped` says which of them this runtime has, and the others let
every request through. `Enter` sends a request down to the first layer that
answers it. The best registered pattern and that layer are both given as the
`Least` position of a sequence, which is what the proofs reason about. The
reflection composite takes every method under its prefix. gRPC methods that
`serve()` has declared no streaming kind for are refused by the server before any
layer (`Declared`): with a handler of the program's own in place of the job that
is all of them. Responses differ by transport where the code's do. `probe` is one
health check of a job, which asks its handlers one by one beside the requests.

`Dispatcher` is the promise behind the tables: `open` when `serve()` has taken the
jobs, `serves` is who then answers for each target, and a request is executed by
that one, told that there is none, or turned away above the job. `Dispatch`
maps the path to it: `Responsible` is who serves a target now, `StageOf` is where a
request is. The jobs' `register_route` takes `&self`, so only the builder's
ownership keeps the tables from changing under traffic; the refinement says that
this is enough, across several tables, two transports and the layers above.

### ObserverBridge

Every handler that a job executes may emit a log entry through the bridge, into
one logger that all of them share. `Emit` is `backend.emit`, which writes to the
logger's buffer, `Flush` is `backend.flush` and the return of `emit()`; `Spill` is
the buffer filling up. `emit()` has no await, so its handler cannot answer or be
dropped inside it (`Undisturbed`), but everything else can happen. The file
logger is modelled; the in-memory one promises nothing.

### EgressPool

Each service of the registry has its own pool, with the backends in `degraded`
out of rotation. A call selects a backend (`Select`), is sent to it (`Send`), waits for
the inner client, then reports; other calls of the same pool run between any two
of these, also on other threads between the selection and the send. A call that is dropped, or whose URL cannot be rewritten, reports
nothing, as in the code. `Direct` services are clients the program has built for
itself: only on those can a circuit breaker call `report_outcome`, since the
registry hands out plain `HttpEgress`. Which healthy backend is selected is the
external pool's choice. `outages` counts the evictions of each backend and
`since` is that count when a call selected: a call is old if the count has moved.

### ConfigLayers and Assembly

The value of a field is abstracted to the layer it came from. Layers are numbered
from low to high: the default, the directories, the tenant overlays, the
environment, the tenant named in the call, a configuration the program built.
`next` is the group of layers `load()` reads next, in the code's order.
`written` is history: what the text of each layer sets. A tenant's file is read
from the highest directory that has one; those in lower directories stay unread,
but `written` records what they say (`TenantFiles`), so a load that let one of them
count would show. `tenantDir` is the directory that was read. `HighestLayerWins`
states the order of the port's contract (`config_loader.rs`): every `application.toml`,
the tenant's file on top, then the environment. The comment of
`ApplicationConfigLoader` (lines 17-19) describes another one, directory by directory
with a tenant file in each; `AssemblyTenantOrder` proves where the two differ.
`LoadSection` is
`load_section` over any sequence of files, a recursive function.

`Assembly` continues where the load ends. `Parts` lists what `serve()` resolves, in
its order; each part comes from the builder, from the field of the configuration
or from a default (`Origin`), and may fail where the code has a `?`. The metrics
provider is skipped without a metrics endpoint, and the sampler is spawned with
it. Clients are built before `serve()`, those of the registry only if the
configuration has services; after `HandOver` the pools see the handlers' calls.

## Runs

| run | specification | bounds | properties |
|---|---|---|---|
| `health_serial` | `HSerialSpec` | one daemon, two probers, two transports | `HTypeOK`, `StoppedIsQuiet`, `RunningIsBacked`, `OkMeansBacked`, `OkMeansNoFailure`, `UnavailableHasCause` |
| `health_concurrent` | `HSpec` | three callers, one prober, two transports | `SettledStatus`, `RunningReportHasUptime` |
| `serve` | `ServeSpec` | all five tasks, every subset of the four stoppable | `STypeOK`, `ResultTruthful`, `ManagerStopsFirst`, `SchedulerOutlivesServers`, `LeftOnlyAbandoned`, `ImplementsTaskGroup`, `SignalReturns`, `NoneServesForever` |
| `counters` | `LSpec` | three requests, a ring of 2, latencies 0 and 1, `MaxSamples` 101 | `TTypeOK`, `InFlightExact`, `RequestsConserved`, `ErrorsConserved`, `ErrorsWithinRequests`, `RingIsWindow`, `P99WithinOneRank`, `AllPublished` |
| `requests` | `ObserverSpec` | two requests, six handlers, all layers or none | `OTypeOK`, `WholeRoutes`, `RefusedOnlyUnrouted`, `OwnPatternOrSharedId`, `MonitorSeesTheJob`, `HealthCoversServing`, `LoggedIsDurable`, `GrpcNeverRebound`, `ImplementsDispatcher` |
| `assembly` | `AssemblySpec` | two directories, four fields, two services, three calls, `MaxOutages` 2, `MaxSectionFiles` 3, `UnreadTexts` all fields or none | `ATypeOK`, `HighestLayerWins`, `EffectiveIsHighest`, `SectionLaterWins`, `OldCallsOnly`, `RestoredByOldCall`, `DeadPoolStaysDead` |
| `manager_race` (violated) | `Spec` | two callers | `StoppedIsTrueAtRest` |
| `health_masked` (violated) | `HSerialSpec` | one prober | `OkMeansHealthy` |
| `serve_undrained` (violated) | `ServeSafety` | all five tasks | `OkMeansDrained` |
| `serve_server_error` (violated) | `ServeSpec` | all five tasks | `ServerErrorReturns` |
| `counters_dropped` (violated) | `TSafety` | two requests | `EveryRequestRecorded` |
| `config_sections` (violated) | `ConfigSpec` | one directory | `SectionsReachRuntime` |

Most bounds are the sets themselves: the number of requests bounds the counters of
`TrafficCounters`. Four are named. `MaxSamples` is the largest number of samples a
position is computed for: the rounding repeats every hundred and only one sample
saturates, so 101 shows every case of the 1024 in the code, and `PercentileRank`
proves all of them.
`MaxOutages` is how often one backend may be evicted: two, so that a call can be
sent between a restoration and the next eviction. `MaxSectionFiles` is how many
files `load_section` is checked over: three, so that a plain value can lie
between two tables. `UnreadTexts` is what a tenant file that is not read may set:
everything or nothing, since the worst it can do is to set what the file read
does not.

Two callers are needed for an overlap and a third for one call to finish while
two others still disagree. Probers do not affect each other or the manager; two
show that. Two transports give a check before and a check after any given one.
The five tasks of `serve()` are its own. Three requests let one be in
`on_end`, one run and one be dropped while the sampler is between its swaps; they
also fill a ring of two and wrap it. The handlers of `requests` hold the clashes:
an id registered twice under different patterns, two patterns that conflict, a
handler without a pattern, a pattern that does not parse, a gRPC id under the
reflection prefix. Two requests
give an emit between another's emit and flush; they are interchangeable, which
the run uses as a symmetry. The two services of `assembly` share a backend
address, one of them is the program's own, and three calls let one evict, one be
old and one be sent after.

The systems of `requests` and `assembly` may stop, when every request or call has
been made, so deadlock is not checked there.

Fairness. `serve()` is one task of the tokio executor: when it can run, it does,
its timers fire, and a woken receiver is polled. So its own steps are weakly
fair while a timeout bounds what it awaits (`OwnStep`: assembly, shutdown,
teardown), as is each server's noticing of its channel, which its graceful
shutdown awaits. Nothing is assumed of the scheduled job: it is handed its
receiver and may never poll it, in which case `serve()` abandons it, so
`NoneServesForever` is about the servers only. Nor is anything assumed of the
lifecycle monitor's answers, of `start()` (which has no timeout), of signals, or
of how long a request or job takes. The sampler's tick is weakly fair: it is
driven by a timer.

### What the violated runs show

- `manager_race`: `start()` and `shutdown()` overlap, both return `Ok`, and the
  manager says `Stopped` over running background tasks; every later
  `shutdown()` returns `Ok` at once. `serve()` never overlaps them
  (its runner is the only caller, one call after the other), a user of the public
  trait may.
- `health_masked`: 200 over an ingress that reports itself unhealthy, or a
  lifecycle monitor that cannot be asked, against the handler's comment that
  503 is returned when any component is degraded.
- `serve_undrained`: `shutdown_timeout_secs`, documented as the time in-flight
  requests have to drain, bounds only the lifecycle monitor; the servers get a
  fixed 5 s, and `Ok` is returned over one that is still draining.
- `serve_server_error`: a dead server is logged and `serve()` goes on blocking,
  where its comment says it blocks until a signal "or an error".
- `counters_dropped`: a cancelled request is in flight for ever and is never
  counted, where the monitor "records load metrics on every request".
- `config_sections`: `RuntimeConfig` documents sections of the TOML file, among
  them `[intrusion]`, that `ConfigOverride` has no field for. Unknown keys are
  ignored, so such a section is dropped without an error.

Also seen, without a run:

- `start()` has no timeout; the sampler task is never stopped, not even when
  `serve()` fails after spawning it (`ServeLeavesSampler`); a gRPC stream is counted until its response
  begins, not until it ends; the trait says `shutdown()` stops the servers, which
  `serve()` does itself, after it.
- `ConfigValidator` is described as run before `serve()`, and nothing calls it but
  `Runtime::validate_config`.
- `LoadBalancedHttpEgress` is said to report the outcome after every call; a
  dropped call and one whose URL cannot be rewritten report none. A pool of the
  registry all of whose backends have failed never selects one again
  (`DeadPoolStaysDead`).
- Over both transports a request that does not decode is answered as an internal
  error: the kind of the handler's error is lost on its way through the job.
- `grpc_handler()` is to be used "instead of using registered routes", but only
  routes get a streaming kind, so the server refuses each of its methods;
  `Runtime::run` declares none at all.
- The comment of `ApplicationConfigLoader` says that "each directory's
  `application.toml` (and `tenants/<id>.toml`) overlays the previous result". The code
  reads one tenant file, of the highest directory that has one, and puts it above
  every `application.toml`, as the port's contract has it. The two differ in the
  tenant files left unread and in an `application.toml` of a directory above the
  tenant file's, and in nothing else (`AssemblyTenantOrder`).
- Requests handed to a `stream_handler` do not pass `HttpIngress::handle`, hence
  none of the layers of `RequestPath`.
- A span is exported by `finish()` without a flush, unlike a log entry, and the
  span of a dropped handler is not exported.

## Proofs

All of these hold for every value of the constants: any set of callers, probers,
requests, handlers, services and directories. The assumptions are `OneDaemon`
(the daemon is the manager's only caller), `RequestsFinite`, `TransportsIsSeq`, and
the typing of the constants (`RingAssumption`, `RegistryAssumption`,
`PathAssumption`, `EgressAssumption`, `LayersAssumption`). `NoneApart` and
`PrebuiltApart` say that the values standing for `Option::None` and for a handler of
the program's own are no registered id or handler; they are about names in the
model, where the code has distinct types. TLC evaluates each in a run.

**RuntimeManagerProofs.** `TypeCorrect` needs nothing but types. `Settled`
(`SettledStatus`) is proved of `Spec`, whose calls interleave freely; with
`TypeOK` it is inductive, because each step that takes the owner of a
transitional status away either writes a settled status or sets `stranded`.
`SerialStopped` and `SerialRunning` are proved of `SerialSpec`. Their properties
are not inductive: they say nothing of a call about to write `Running` or
`Stopped`. `SerialInv` adds what holds at each await of the single call in
progress, and that it is the only one.

**HealthEndpointProofs.** A request only reads the manager, so the manager's
invariants carry over. `HealthInv` relates what a request has read so far to its
flags (`Verdict`, `UptimeKept`): a 200 or 503 is decided by the flags, steps after
they were set. `HealthOkBacked` needs the serial manager: `SerialRunning` makes
`Running` backed at the moment it is read (`ReadBacked`).

**DaemonServeProofs.** First, each step of `serve()` is a serial step of the
manager or leaves it alone (`ServeStepSerial`). With one caller this holds by
construction, so it is a lemma (`ServeDrivesSerially`) and no result; it carries
the serial theorem over (`ServeStoppedIsQuiet`). Then `ServeInv`: where the manager
is at each phase (`ManagerAtPhase`), that a result exists only from teardown on,
that no channel has fired before teardown and every spawned task has one
(`Channels`), and that the tasks still to be spawned are absent (`Unspawned`). It
gives `ServeResult` and `ServeManagerFirst`, and it is what the refinement needs:
`SpawnTask` is `Spawn` only if the task was absent, and the drop of the senders is
`Leave` only if each serving task has an open one. `ServeImplementsTaskGroup` maps
each step by what it does to the tasks' views: nothing (`GroupStutter`), one task
(`GroupOne`), or all of them (`GroupAll`). `TeardownInv` adds that each operation
of the teardown already passed has left its mark, which gives `ServeJoinsTold`,
`ServeSchedulerLast` and `ServeLeavesAbandoned`: an `Ok` over a task that has not
ended, which `serve_undrained` finds, is possible only after 5 s were spent on
that task. `ServeLeavesSampler` states what the refinement excepts: the sampler, once
spawned, runs until the process is killed. `GroupKeepsPromise` is `TaskGroup`'s own invariant; through the
refinement it is `ServeNoOrphan` of `serve()`, for the servers and the scheduled job.

**TrafficCountersProofs.** Each conservation law equates a counter with the
size of a set of requests. `CountersInv` adds that the totals and the ring's
head count sets too (from which `ErrorBound` follows by inclusion), that the
sampler's locals are zero outside their steps, and that an outcome is set only
after the answer. A step of a request adds it to, or removes it from, exactly
one of these sets; a step of the sampler moves an amount.

**LoadMonitorProofs.** The laws carry over to the monitor with its ring.
`MonitorRingIsWindow` is proved for any capacity: `RingInv` says in which slot each
recent latency lies (`SlotOf`), a bijection between the window and the filled
slots, from which the counts of each value agree. `PercentileRank` is arithmetic
over the position.

**RequestPathProofs.** Registration keeps `WholeRoutes` because each way it ends
either writes all tables of a route or panics; `keepsFirst` is left open.
`GrpcNeverRebound` is an action property from the look-up before the write.
`PathHealthCovers` needs that the tables are fixed once requests arrive:
`CoverInv` says that the handler of each request is one that is served, and
`WholeRoutes` that the table the check reads is the same.

What a request is told rests on two lemmas about positions. `BestPattern`: a
path is routed to the id of its best registered pattern, and to none only if
no registered pattern matches. `StopFacts`: the layer that answers exists for
any set of layers, and the monitor stands above it exactly if it is the job.
`AnswerInv` then keeps, of each request, that its answer, its handler and
its having been counted agree with the tables (`Agrees`), which gives
`PathRefusedOnlyUnrouted`, `PathMonitorSeesTheJob` and the types. Whose handler it is
needs the registrations as well. `RoutesInv`: the router holds, under the pattern
of each handler in the registry, that handler's own id. `MethodsInv`: a gRPC
method is its handler's id. Hence `PathRightHandler`; and if an HTTP handler's
pattern does not match the path it serves, the registry replaces handlers and two
patterns lead to its id (`PathOwnPattern`): where it keeps the first, each pattern
leads to a handler that has it (`OwnPattern`, part of `RoutesInv`).

`PathImplementsDispatcher` maps each step: registrations are stutters, `Serve` is
`Open`, an arrival is `Arrive` (`ArrivalSimulates`, by `AnswerInv`), an answer or a
drop is `End`. `SameForAll` is proved of `Dispatcher`, with a strengthening that
each request taken agrees with `serves`, and so holds of the path
(`PathSameForAll`).

`ObserverRunsPath` carries all of this over to `ObserverSpec`, which the run
checks; `LogDurable` follows from `DrainInv`, which says where an entry is at each
stage of its `emit()`, and that it is on its way only while its handler runs.

**EgressPoolProofs.** `OldCallsOnly` is not inductive by itself. `EgressInv` adds
(`Waiting`) that a waiting call is at a backend of its pool and counts no more
evictions than there have been; an eviction then makes all of them old.
`EgressRestoredByOldCall` and `EgressDeadPool` are action properties from it.

**AssemblyProofs.** The steps on the clients are steps of `EgressPool`
(`AssemblyRunsEgress`), whose theorems carry over. `ConfigInv` adds to
`HighestLayerWins` that nothing above what has been read is set, and that a value
from a tenant file is of the one read (`ReadSoFar`), so that the next layer may overwrite, and that only the tenant's id comes from the
call. `AssemblyInv` adds that no part is resolved before the load has ended
(`PartsInv`), which ties `EffectiveIsHighest` to the configuration.
`AssemblyTenantOrder` follows from `ConfigInv`: by `RanksCross` an `application.toml` and
the tenant file are the only layers whose order the comment turns round.
`AssemblySectionsFromProgram` is the general form of what `config_sections` finds:
no file ever sets a section that `ConfigOverride` lacks. `LoadSectionClosed` says
what `load_section` has computed after each number of files: the recursive
function is unfolded once per file, and that it is so for all of them comes from a
least counterexample (`LeastNatural`, from `<` being well-founded on the natural
numbers), since the library's induction rules cannot be instantiated.
`LaterFileWins` is for any number of files, `AssemblySectionLaterWins` for the
run's `MaxSectionFiles`.

Only model-checked: liveness (`AllPublished`, `SignalReturns`, `NoneServesForever`).
The prover has no reasoning about fairness and `ENABLED`. Every other property of
the passing runs is stated by a theorem.

## Not modelled

- The failure to encode the health response: `to_vec` of a record of strings,
  booleans and integers does not fail.
- External code (lifecycle monitor, servers, scheduler, registries, pools,
  providers) appears as choices of its answers.
- The autoscale warnings of the sampler, which only log; logging, the systemd
  messages, the parsing of TLS and authentication, the text of responses.
- `MetricsLifecycleMonitor`: it passes every call through, `serve()` does not
  install it, and its gauge has no reader here.
- The metrics endpoint: a read of the external provider and its rendering. That
  a scrape never sees more errors than requests is `ErrorsWithinRequests`.
- Spans and metric instruments of the observer: each call is handed to an external
  provider, and nothing is kept between the calls of two handlers.
- What a guard's rule set sees (`build_event`): its verdict is a free choice.
- `ConfigValidator`, a stateless check of three fields.
- The JSON codec beyond its outcomes, the feature bridge, the holders: no state and
  no branches that a property tells apart. The wasm port has contracts and no
  implementation. The examples are programs that use this one.

About half of the source's lines are tests beside the code, documentation comments
and examples, which no definition stands for; of the code proper most is modelled.

## Plan

What is left, in the order of its worth:

1. `record()` and `finish()` of a span shared by the tasks of one handler.
2. The composition of `DaemonServe` with the requests of `RequestPath`: what a
   draining server still answers.
3. Proofs: that `EgressPool` keeps an abstract pool's promise, and that a request
   is over once, with its end counted once, across `RequestPath` and `LoadMonitor`.
