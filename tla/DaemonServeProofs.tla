------------------------- MODULE DaemonServeProofs --------------------------
(***************************************************************************)
(* serve() drives the manager serially, returns a truthful result, and     *)
(* implements TaskGroup.                                                   *)
(***************************************************************************)
EXTENDS DaemonServe, RuntimeManagerProofs

LEMMA TaskNames ==
  /\ Servers = {"http", "grpc", "metrics"}
  /\ Stoppable = {"http", "grpc", "metrics", "scheduler"}
  /\ Tasks = {"http", "grpc", "metrics", "scheduler", "sampler"}
BY DEF Tasks, Stoppable, Servers, Ingresses

\* Every step of serve() is a serial step of the manager or leaves it alone.
LEMMA ServeStepSerial == ServeNext => SerialNext \/ UNCHANGED vars
<1> SUFFICES ASSUME ServeNext PROVE SerialNext \/ UNCHANGED vars
  OBVIOUS
<1>1. ASSUME Step(Daemon) PROVE SerialNext
  BY <1>1, OneDaemon DEF SerialNext, Alone
<1>2. CASE Assembly
  BY <1>2 DEF Assembly, SpawnSampler, Assemble, AssembleRun, AssembleFails,
              SpawnTask, SpawnFails
<1>3. CASE Runner
  <2>1. CASE Start
    BY <1>1, <2>1 DEF Start, Step
  <2>2. CASE Started
    BY <1>1, <2>2 DEF Started, Step
  <2>3. CASE StartFails
    BY <1>1, <2>3 DEF StartFails, Step
  <2>4. CASE Shutdown
    BY <1>1, <2>4 DEF Shutdown, Step
  <2>5. CASE ShutdownFails
    BY <1>1, <2>5 DEF ShutdownFails, Step
  <2>6. CASE ShutdownTimeout
    BY <1>1, <2>6 DEF ShutdownTimeout, Step
  <2>7. CASE ShutdownDone
    BY <1>1, <2>7 DEF ShutdownDone, Step
  <2> QED  BY <1>3, <2>1, <2>2, <2>3, <2>4, <2>5, <2>6, <2>7 DEF Runner
<1>4. CASE Signal \/ Killed \/ Return
  BY <1>4 DEF Signal, Killed, Return
<1>5. CASE \E t \in Stoppable : Stop(t) \/ Task(t)
  BY <1>5 DEF Stop, SendStop, Join, JoinTimeout, Task, TaskFails, TaskSeesStop,
              TaskDrained
<1>6. CASE UNCHANGED svars
  BY <1>6 DEF svars
<1> QED  BY <1>2, <1>3, <1>4, <1>5, <1>6 DEF ServeNext

\* serve() is the manager's one caller and makes one call at a time, so what
\* holds of every serial use of the manager holds of it.
LEMMA ServeDrivesSerially == ServeSafety => SerialSpec
<1>1. ServeInit => Init
  BY DEF ServeInit
<1>2. [ServeNext]_svars => [SerialNext]_vars
  BY ServeStepSerial DEF svars
<1> QED  BY <1>1, <1>2, PTL DEF ServeSafety, SerialSpec

\* In a served process Stopped means that the background tasks are down.
THEOREM ServeStoppedIsQuiet == ServeSafety => []StoppedIsQuiet
BY ServeDrivesSerially, SerialStopped, PTL

-----------------------------------------------------------------------------
(***************************************************************************)
(* What holds at each phase.  ResultTruthful and ManagerStopsFirst need to *)
(* know where the manager is when serve() leaves a phase; the refinement   *)
(* needs that a task about to be spawned is absent and that a task that    *)
(* serves has a channel.                                                   *)
(***************************************************************************)
ManagerAtPhase ==
  /\ phase \in {"assemble", "spawn"} => pc[Daemon] = "idle" /\ status = "Stopped"
  /\ phase = "start" => \/ pc[Daemon] = "idle" /\ status = "Stopped"
                        \/ pc[Daemon] \in Starting /\ status = "Starting"
  /\ phase = "await" => pc[Daemon] = "idle" /\ status = "Running"
  /\ phase = "shutdown" => \/ pc[Daemon] = "idle" /\ status = "Running"
                           \/ pc[Daemon] \in Stopping /\ status = "Stopping"
  /\ phase \in {"teardown", "returned"} =>
       pc[Daemon] = "idle" /\ status # "Running" /\ result # "none"

ResultAtPhase ==
  /\ result # "none" => phase \in {"teardown", "returned"}
  /\ phase = "shutdown" => signalled

Channels ==
  /\ tx["sampler"] = "none"
  /\ \A t \in Stoppable :
       /\ Told(t) => phase \in {"teardown", "returned"}
       /\ server[t] # "absent" => tx[t] # "none"
       /\ phase = "returned" => tx[t] # "open"

Unspawned ==
  /\ phase = "assemble" => step = 1 /\ \A t \in Stoppable : server[t] = "absent"
  /\ phase = "spawn" =>
       /\ step \in 1..4
       /\ \A i \in 1..4 : i >= step => server[SpawnOrder[i]] = "absent"

ServeTypes ==
  /\ phase \in {"assemble", "spawn", "start", "await", "shutdown", "teardown",
                "returned", "killed"}
  /\ server \in [Tasks -> {"absent", "serving", "draining", "ended", "failed"}]
  /\ tx \in [Tasks -> {"none", "open", "sent", "dropped"}]
  /\ step \in Nat

ServeInv ==
  /\ SerialInv
  /\ ServeTypes
  /\ ManagerAtPhase
  /\ ResultAtPhase
  /\ ResultTruthful
  /\ Channels
  /\ Unspawned

LEMMA ServeInvInit == ServeInit => ServeInv
<1> SUFFICES ASSUME ServeInit PROVE ServeInv
  OBVIOUS
<1>1. SerialInv
  BY SerialInit DEF ServeInit
<1> QED  BY <1>1, OneDaemon, TaskNames
  DEF ServeInit, Init, ServeInv, ServeTypes, ManagerAtPhase, ResultAtPhase,
      ResultTruthful, Channels, Told, Unspawned

LEMMA ServeSerialInv == SerialInv /\ [ServeNext]_svars => SerialInv'
<1>1. SerialInv /\ SerialNext => SerialInv'
  BY SerialStep DEF SerialNext
<1> QED  BY <1>1, ServeStepSerial, SerialStutter DEF svars

LEMMA AssemblyInv ==
  ASSUME ServeInv, SerialInv', Assembly
  PROVE  ServeInv'
<1> USE TaskNames
    DEF ServeInv, ServeTypes, ManagerAtPhase, ResultAtPhase, ResultTruthful,
        Channels, Told, Unspawned, vars
<1>1. CASE Assemble \/ AssembleRun
  BY <1>1, TaskNames DEF Assemble, AssembleRun, SpawnOrder
<1>2. CASE AssembleFails
  BY <1>2 DEF AssembleFails, ReturnWith, DropSenders
<1>5. CASE SpawnSampler
  BY <1>5, TaskNames DEF SpawnSampler
<1>3. ASSUME NEW t \in Stoppable, SpawnTask(t) PROVE ServeInv'
  <2> USE <1>3 DEF SpawnTask
  <2>1. SpawnOrder = <<"http", "grpc", "metrics", "scheduler">> /\ Len(SpawnOrder) = 4
    BY DEF SpawnOrder
  <2>2. ServeTypes' /\ ManagerAtPhase' /\ ResultAtPhase' /\ ResultTruthful'
    BY <2>1
  <2>3. Channels'
    BY <2>1
  <2>4. Unspawned'
    <3>1. phase' = "spawn" => step' \in 1..4
      BY <2>1
    <3>2. \A i \in 1..4 : i > step => SpawnOrder[i] # t
      BY <2>1
    <3>3. ASSUME phase' = "spawn", NEW i \in 1..4, i >= step'
          PROVE  server'[SpawnOrder[i]] = "absent"
      <4>1. step' = step + 1 /\ step \in 1..4
        BY <2>1, <3>3
      <4>2. i > step /\ SpawnOrder[i] # t
        BY <3>2, <3>3, <4>1
      <4>3. server[SpawnOrder[i]] = "absent"
        BY <2>1, <3>3, <4>1, <4>2
      <4>4. server' = server \/ server' = [server EXCEPT ![t] = "serving"]
        OBVIOUS
      <4>5. SpawnOrder[i] \in Tasks
        BY <2>1, <3>3, TaskNames
      <4> QED  BY <4>2, <4>3, <4>4, <4>5
    <3> QED  BY <3>1, <3>3
  <2> QED  BY <2>2, <2>3, <2>4
<1>4. ASSUME NEW t \in Stoppable, SpawnFails(t) PROVE ServeInv'
  BY <1>4 DEF SpawnFails, ReturnWith, DropSenders
<1> QED  BY <1>1, <1>2, <1>3, <1>4, <1>5 DEF Assembly

LEMMA RunnerInv ==
  ASSUME ServeInv, SerialInv', Runner
  PROVE  ServeInv'
<1> USE OneDaemon
    DEF ServeInv, ServeTypes, ManagerAtPhase, ResultAtPhase, ResultTruthful,
        Channels, Told, Unspawned, SerialInv, TypeOK, Goto, Starting, Stopping
<1>1. CASE Start
  BY <1>1 DEF Start, StartEnter, StartTasksOk, dvars
<1>2. CASE Started
  BY <1>2 DEF Started, StartCommit
<1>3. CASE StartFails
  BY <1>3 DEF StartFails, StartTasksErr, StartNoIngress
<1>4. CASE Shutdown
  BY <1>4 DEF Shutdown, ShutdownEnter, StopTasksOk, dvars
<1>5. CASE ShutdownFails
  BY <1>5 DEF ShutdownFails, StopTasksErr
<1>6. CASE ShutdownTimeout
  BY <1>6 DEF ShutdownTimeout, DropCall
<1>7. CASE ShutdownDone
  <2>1. ~background' /\ status' = "Stopped"
    BY <1>7 DEF ShutdownDone, ShutdownCommit, InShutdown
  <2> QED  BY <1>7, <2>1 DEF ShutdownDone, ShutdownCommit
<1> QED  BY <1>1, <1>2, <1>3, <1>4, <1>5, <1>6, <1>7 DEF Runner

LEMMA OtherInv ==
  ASSUME ServeInv, SerialInv',
         \/ Signal \/ Killed \/ Return
         \/ \E t \in Stoppable : Stop(t) \/ Task(t)
         \/ UNCHANGED svars
  PROVE  ServeInv'
<1> USE TaskNames
    DEF ServeInv, ServeTypes, ManagerAtPhase, ResultAtPhase, ResultTruthful,
        Channels, Told, Unspawned, vars
<1>1. CASE Signal
  BY <1>1 DEF Signal
<1>2. CASE Killed
  BY <1>2 DEF Killed
<1>3. CASE Return
  BY <1>3 DEF Return, ReturnWith, DropSenders
<1>4. ASSUME NEW t \in Stoppable, Stop(t) PROVE ServeInv'
  <2>1. CASE SendStop(t)
    BY <2>1 DEF SendStop, AtOp
  <2>2. CASE Join(t)
    BY <2>2 DEF Join, AtOp
  <2>3. CASE JoinTimeout(t)
    BY <2>3 DEF JoinTimeout, AtOp
  <2> QED  BY <1>4, <2>1, <2>2, <2>3 DEF Stop
<1>5. ASSUME NEW t \in Stoppable, Task(t) PROVE ServeInv'
  <2>1. server[t] # "absent" /\ \A u \in Stoppable : server'[u] = "absent" <=> server[u] = "absent"
    BY <1>5 DEF Task, TaskFails, TaskSeesStop, TaskDrained
  <2>2. server' \in [Tasks -> {"absent", "serving", "draining", "ended", "failed"}]
    BY <1>5 DEF Task, TaskFails, TaskSeesStop, TaskDrained
  <2>3. UNCHANGED <<vars, phase, step, tx, signalled, result>>
    BY <1>5 DEF Task, TaskFails, TaskSeesStop, TaskDrained
  <2>4. \A i \in 1..4 : SpawnOrder[i] \in Stoppable
    BY TaskNames DEF SpawnOrder
  <2> QED  BY <2>1, <2>2, <2>3, <2>4
<1>6. CASE UNCHANGED svars
  BY <1>6 DEF svars, dvars
<1> QED  BY <1>1, <1>2, <1>3, <1>4, <1>5, <1>6

LEMMA ServeInductive == ServeSafety => []ServeInv
<1>1. ServeInv /\ [ServeNext]_svars => ServeInv'
  <2> SUFFICES ASSUME ServeInv, [ServeNext]_svars PROVE ServeInv'
    OBVIOUS
  <2>1. SerialInv'
    BY ServeSerialInv DEF ServeInv
  <2> QED  BY <2>1, AssemblyInv, RunnerInv, OtherInv DEF ServeNext
<1> QED  BY ServeInvInit, <1>1, PTL DEF ServeSafety

\* What serve() returns is true of the manager and of the signal.
THEOREM ServeResult == ServeSafety => []ResultTruthful
<1>1. ServeInv => ResultTruthful
  BY DEF ServeInv
<1> QED  BY <1>1, ServeInductive, PTL

\* No server is told to stop before the manager has been dealt with.
THEOREM ServeManagerFirst == ServeSafety => []ManagerStopsFirst
<1>1. ServeInv => ManagerStopsFirst
  BY TaskNames DEF ServeInv, Channels, Told, ManagerAtPhase, ManagerStopsFirst
<1> QED  BY <1>1, ServeInductive, PTL

-----------------------------------------------------------------------------
(***************************************************************************)
(* serve() implements TaskGroup.  A step is described by what it does to   *)
(* the view of the tasks: GroupStutter, GroupOne and GroupAll turn that    *)
(* into the abstract step.                                                 *)
(***************************************************************************)
Gone  == phase \in {"returned", "killed"}
GStep == [Group!Next]_(Group!gvars)

LEMMA ViewType == \A t \in Tasks : TaskView(t) \in {"absent", "running", "asked", "done"}
BY DEF TaskView

LEMMA GroupStutter ==
  ASSUME Gone' <=> Gone, \A t \in Tasks : TaskView(t)' = TaskView(t)
  PROVE  GStep
<1>1. [t \in Tasks |-> TaskView(t)]' = [t \in Tasks |-> TaskView(t)]
  OBVIOUS
<1> QED  BY <1>1 DEF GStep, Gone, Group!gvars

LEMMA GroupOne ==
  ASSUME NEW t \in Tasks, Gone' <=> Gone,
         \A u \in Tasks \ {t} : TaskView(u)' = TaskView(u),
         \/ ~Gone /\ TaskView(t) = "absent" /\ TaskView(t)' = "running"
         \/ t # "sampler" /\ ~Gone /\ TaskView(t) = "running" /\ TaskView(t)' = "asked"
         \/ t # "sampler" /\ TaskView(t) \in {"running", "asked"} /\ TaskView(t)' = "done"
  PROVE  GStep
<1> DEFINE view == [u \in Tasks |-> TaskView(u)]
<1>1. view' = [view EXCEPT ![t] = TaskView(t)']
  OBVIOUS
<1>2. view[t] = TaskView(t)
  OBVIOUS
<1>3. Group!Spawn(t) \/ Group!Ask(t) \/ Group!Finish(t)
  BY <1>1, <1>2 DEF Gone, Group!Spawn, Group!Ask, Group!Finish
<1> QED  BY <1>3 DEF GStep, Group!Next

LEMMA GroupAll ==
  ASSUME ~Gone, Gone',
         \/ \A t \in Tasks :
              TaskView(t)' = IF TaskView(t) = "running" /\ t # "sampler"
                               THEN "asked" ELSE TaskView(t)
         \/ \A t \in Tasks :
              TaskView(t)' = IF TaskView(t) = "absent" THEN "absent" ELSE "done"
  PROVE  GStep
<1> DEFINE view == [u \in Tasks |-> TaskView(u)]
<1>1. \/ view' = [t \in Tasks |->
                   IF view[t] = "running" /\ t # "sampler" THEN "asked" ELSE view[t]]
      \/ view' = [t \in Tasks |-> IF view[t] = "absent" THEN "absent" ELSE "done"]
  OBVIOUS
<1>2. Group!Leave \/ Group!Crash
  BY <1>1 DEF Gone, Group!Leave, Group!Crash
<1> QED  BY <1>2 DEF GStep, Group!Next

\* serve() leaves and every open sender is dropped.
LEMMA LeaveStep ==
  ASSUME ServeInv, ~Gone, phase' = "returned", tx' = DropSenders, UNCHANGED server
  PROVE  GStep
<1>1. \A t \in Tasks :
        TaskView(t)' = IF TaskView(t) = "running" /\ t # "sampler"
                         THEN "asked" ELSE TaskView(t)
  <2>1. ASSUME NEW t \in Stoppable
        PROVE  TaskView(t)' = IF TaskView(t) = "running" THEN "asked" ELSE TaskView(t)
    BY TaskNames DEF ServeInv, ServeTypes, Channels, Told, TaskView, Live, DropSenders
  <2>2. TaskView("sampler")' = TaskView("sampler")
    BY TaskNames DEF ServeInv, ServeTypes, Channels, Told, TaskView, Live, DropSenders
  <2> QED  BY <2>1, <2>2, TaskNames
<1>2. Gone'
  BY DEF Gone
<1> QED  BY <1>1, <1>2, GroupAll

LEMMA StepSimulates ==
  ASSUME ServeInv, ServeNext \/ UNCHANGED svars
  PROVE  GStep
<1> USE TaskNames DEF ServeInv, ServeTypes
<1>1. CASE Assemble \/ AssembleRun
  BY <1>1, GroupStutter DEF Assemble, AssembleRun, Gone, TaskView, Live, Told
<1>9. CASE SpawnSampler
  <2>1. server' = [server EXCEPT !["sampler"] = "serving"] /\ UNCHANGED <<tx, phase>>
    BY <1>9 DEF SpawnSampler
  <2>2. TaskView("sampler") = "absent" /\ TaskView("sampler")' = "running"
    BY <1>9, <2>1 DEF SpawnSampler, Channels, TaskView, Live, Told
  <2>3. \A u \in Tasks \ {"sampler"} : TaskView(u)' = TaskView(u)
    BY <2>1 DEF TaskView, Live, Told
  <2>4. ~Gone /\ ~Gone'
    BY <1>9, <2>1 DEF SpawnSampler, Gone
  <2> QED  BY <2>2, <2>3, <2>4, GroupOne
<1>2. CASE AssembleFails \/ Return \/ \E t \in Stoppable : SpawnFails(t)
  BY <1>2, LeaveStep DEF AssembleFails, Return, SpawnFails, ReturnWith, Gone
<1>3. ASSUME NEW t \in Stoppable, SpawnTask(t) PROVE GStep
  <2>1. ~Gone /\ ~Gone'
    BY <1>3 DEF SpawnTask, Gone
  <2>2. CASE t \in configured
    <3>1. server' = [server EXCEPT ![t] = "serving"] /\ tx' = [tx EXCEPT ![t] = "open"]
      BY <1>3, <2>2 DEF SpawnTask
    <3>2. server[t] = "absent"
      BY <1>3 DEF SpawnTask, Unspawned
    <3>3. TaskView(t) = "absent" /\ TaskView(t)' = "running"
      BY <3>1, <3>2 DEF TaskView, Live, Told
    <3>4. \A u \in Tasks \ {t} : TaskView(u)' = TaskView(u)
      BY <3>1 DEF TaskView, Live, Told
    <3> QED  BY <2>1, <3>3, <3>4, GroupOne
  <2>3. CASE t \notin configured
    <3>1. UNCHANGED <<server, tx>>
      BY <1>3, <2>3 DEF SpawnTask
    <3> QED  BY <2>1, <3>1, GroupStutter DEF TaskView, Live, Told
  <2> QED  BY <2>2, <2>3
<1>4. CASE Runner \/ Signal
  <2>1. UNCHANGED <<server, tx>> /\ ~Gone /\ ~Gone'
    BY <1>4 DEF Runner, Start, Started, StartFails, Shutdown, ShutdownFails,
                ShutdownTimeout, ShutdownDone, Signal, dvars, Gone
  <2> QED  BY <2>1, GroupStutter DEF TaskView, Live, Told
<1>5. CASE Killed
  <2>1. \A t \in Tasks :
          TaskView(t)' = IF TaskView(t) = "absent" THEN "absent" ELSE "done"
    BY <1>5 DEF Killed, TaskView, Live, Told
  <2> QED  BY <1>5, <2>1, GroupAll DEF Killed, Gone
<1>6. ASSUME NEW t \in Stoppable, Stop(t) PROVE GStep
  <2>1. ~Gone /\ ~Gone' /\ UNCHANGED server
    BY <1>6 DEF Stop, SendStop, Join, JoinTimeout, AtOp, Gone
  <2>2. CASE SendStop(t) /\ tx[t] = "open"
    <3>1. tx' = [tx EXCEPT ![t] = "sent"]
      BY <2>2 DEF SendStop
    <3>2. \A u \in Tasks \ {t} : TaskView(u)' = TaskView(u)
      BY <2>1, <3>1 DEF TaskView, Live, Told
    <3>3. CASE server[t] = "serving"
      <4>1. TaskView(t) = "running" /\ TaskView(t)' = "asked"
        BY <2>1, <2>2, <3>1, <3>3 DEF TaskView, Live, Told
      <4> QED  BY <2>1, <3>2, <4>1, GroupOne
    <3>4. CASE server[t] # "serving"
      <4>1. TaskView(t)' = TaskView(t)
        BY <2>1, <3>4 DEF TaskView, Live
      <4> QED  BY <2>1, <3>2, <4>1, GroupStutter
    <3> QED  BY <3>3, <3>4
  <2>3. CASE tx' = tx
    BY <2>1, <2>3, GroupStutter DEF TaskView, Live, Told
  <2>4. tx' = tx \/ (SendStop(t) /\ tx[t] = "open")
    BY <1>6 DEF Stop, SendStop, Join, JoinTimeout
  <2> QED  BY <2>2, <2>3, <2>4
<1>7. ASSUME NEW t \in Stoppable, Task(t) PROVE GStep
  <2>1. (Gone' <=> Gone) /\ \A u \in Tasks \ {t} : TaskView(u)' = TaskView(u)
    BY <1>7 DEF Task, TaskFails, TaskSeesStop, TaskDrained, TaskView, Live, Told, Gone
  <2>2. CASE TaskFails(t) \/ TaskDrained(t)
    <3>1. TaskView(t) \in {"running", "asked"} /\ TaskView(t)' = "done"
      BY <2>2 DEF TaskFails, TaskDrained, TaskView, Live, Told
    <3> QED  BY <2>1, <3>1, GroupOne
  <2>3. CASE TaskSeesStop(t)
    <3>1. TaskView(t)' = TaskView(t)
      BY <2>3 DEF TaskSeesStop, TaskView, Live, Told
    <3> QED  BY <2>1, <3>1, GroupStutter
  <2> QED  BY <1>7, <2>2, <2>3 DEF Task
<1>8. CASE UNCHANGED svars
  BY <1>8, GroupStutter DEF svars, dvars, Gone, TaskView, Live, Told
<1> QED  BY <1>1, <1>2, <1>3, <1>4, <1>5, <1>6, <1>7, <1>8, <1>9
         DEF ServeNext, Assembly

\* On every path out serve() has asked every server and the scheduled job it
\* spawned to stop; the sampler is asked on none and runs on.
THEOREM ServeImplementsTaskGroup == ServeSafety => ImplementsTaskGroup
<1>1. ServeInit => Group!Init
  BY DEF ServeInit, Group!Init, TaskView
<1>2. ServeInv /\ [ServeNext]_svars => [Group!Next]_(Group!gvars)
  BY StepSimulates DEF GStep
<1> QED  BY <1>1, <1>2, ServeInductive, PTL DEF ServeSafety, ImplementsTaskGroup, Group!Spec

\* TaskGroup keeps its own promise.
LEMMA GroupKeepsPromise == Group!Spec => [](Group!TypeOK /\ Group!NoOrphan)
<1>1. Group!Init => Group!TypeOK /\ Group!NoOrphan
  BY DEF Group!Init, Group!TypeOK, Group!NoOrphan, Group!TaskState
<1>2. Group!TypeOK /\ Group!NoOrphan /\ [Group!Next]_(Group!gvars)
        => (Group!TypeOK /\ Group!NoOrphan)'
  BY DEF Group!TypeOK, Group!NoOrphan, Group!Next, Group!gvars, Group!Spawn, Group!Ask,
         Group!Finish, Group!Leave, Group!Crash, Group!TaskState
<1> QED  BY <1>1, <1>2, PTL DEF Group!Spec

\* So serve() does: once it is gone, by whichever path, each task it spawned,
\* the sampler excepted, has ended or has been asked to stop.
THEOREM ServeNoOrphan == ServeSafety => []Group!NoOrphan
BY ServeImplementsTaskGroup, GroupKeepsPromise, PTL DEF ImplementsTaskGroup
-----------------------------------------------------------------------------
(***************************************************************************)
(* Teardown.  JoinOnlyTold and SchedulerOutlivesServers speak of one phase *)
(* but rest on the whole way to it: a configured task has a channel from   *)
(* its spawn on, teardown begins at its first step, and each step behind   *)
(* it has left its mark.                                                   *)
(***************************************************************************)
SendAt == [http |-> 1, grpc |-> 2, metrics |-> 3, scheduler |-> 7]
JoinAt == [http |-> 4, grpc |-> 5, metrics |-> 6, scheduler |-> 8]

Wired ==
  /\ phase = "spawn" => step \in 1..4 /\ \A i \in 1..4 :
       i < step /\ SpawnOrder[i] \in configured => tx[SpawnOrder[i]] # "none"
  /\ phase \in {"start", "await", "shutdown"} => step = 1
  /\ phase \in {"start", "await", "shutdown", "teardown"} =>
       \A t \in configured : tx[t] # "none"

TornDown ==
  /\ phase = "teardown" => step \in 1..9
  /\ phase = "teardown" => \A t \in configured : step > SendAt[t] => Told(t)
  /\ phase = "teardown" => \A t \in Stoppable : step > JoinAt[t] => ~Live(t) \/ t \in abandoned
  /\ phase = "teardown" /\ Told("scheduler") => step > 7
  /\ phase = "returned" /\ step > 8 =>
       \A t \in Stoppable : ~Live(t) \/ t \in abandoned

OtherTypes ==
  /\ configured \in SUBSET Stoppable
  /\ step \in 1..9
  /\ abandoned \in SUBSET Tasks
  /\ signalled \in BOOLEAN
  /\ result \in {"none", "ok", "StartFailed", "ShutdownFailed", "ShutdownTimeout"}

TeardownInv == ServeInv /\ OtherTypes /\ Wired /\ TornDown

\* The step at which teardown sends to a task, and that at which it joins it.
LEMMA Order ==
  ASSUME NEW t \in Stoppable, step \in 1..9
  PROVE  /\ AtOp("send", t) => phase = "teardown" /\ step = SendAt[t]
         /\ AtOp("join", t) => phase = "teardown" /\ step = JoinAt[t]
<1>1. Len(Teardown) = 8
  BY DEF Teardown
<1>2. \A i \in 1..8 : /\ Teardown[i] = Op("send", t) => i = SendAt[t]
                      /\ Teardown[i] = Op("join", t) => i = JoinAt[t]
  BY TaskNames DEF Teardown, Op, SendAt, JoinAt
<1> QED  BY <1>1, <1>2 DEF AtOp

LEMMA TeardownInit == ServeInit => TeardownInv
<1> SUFFICES ASSUME ServeInit PROVE TeardownInv
  OBVIOUS
<1>1. ServeInv /\ phase = "assemble"
  BY ServeInvInit DEF ServeInit
<1>2. OtherTypes
  <2>1. configured \in SUBSET Stoppable /\ step = 1 /\ abandoned = {}
    BY DEF ServeInit
  <2>2. signalled = FALSE /\ result = "none"
    BY DEF ServeInit
  <2>3. step \in 1..9 /\ abandoned \in SUBSET Tasks
    BY <2>1
  <2>4. signalled \in BOOLEAN
    BY <2>2
  <2>5. result \in {"none", "ok", "StartFailed", "ShutdownFailed", "ShutdownTimeout"}
    BY <2>2
  <2> QED  BY <2>1, <2>3, <2>4, <2>5 DEF OtherTypes
<1>3. Wired /\ TornDown
  BY <1>1 DEF Wired, TornDown
<1> QED  BY <1>1, <1>2, <1>3 DEF TeardownInv

LEMMA TeardownAssembly ==
  ASSUME TeardownInv, ServeInv', Assembly
  PROVE  TeardownInv'
<1> USE TaskNames DEF TeardownInv, OtherTypes, Wired, TornDown
<1>1. CASE Assemble \/ AssembleRun
  <2>1. step' = 1 /\ phase' = "spawn"
    BY <1>1 DEF Assemble, AssembleRun, ServeInv, Unspawned
  <2>2. UNCHANGED <<configured, abandoned, signalled, result>>
    BY <1>1 DEF Assemble, AssembleRun
  <2> QED  BY <2>1, <2>2
<1>2. CASE AssembleFails
  <2>1. step' = 1 /\ phase' = "returned" /\ result' = "StartFailed"
    BY <1>2 DEF AssembleFails, ReturnWith, ServeInv, Unspawned
  <2>2. UNCHANGED <<configured, abandoned, signalled>>
    BY <1>2 DEF AssembleFails
  <2> QED  BY <2>1, <2>2
<1>5. CASE SpawnSampler
  <2>1. phase' = "assemble"
    BY <1>5 DEF SpawnSampler
  <2>2. UNCHANGED <<configured, step, abandoned, signalled, result>>
    BY <1>5 DEF SpawnSampler
  <2> QED  BY <2>1, <2>2
<1>3. ASSUME NEW t \in Stoppable, SpawnTask(t) PROVE TeardownInv'
  <2>1. SpawnOrder = <<"http", "grpc", "metrics", "scheduler">> /\ Len(SpawnOrder) = 4
    BY DEF SpawnOrder
  <2>2. phase = "spawn" /\ phase' \in {"spawn", "start"} /\ SpawnOrder[step] = t
    BY <1>3 DEF SpawnTask
  <2>3. step \in 1..4 /\ step' = IF step = 4 THEN 1 ELSE step + 1
    BY <1>3, <2>1, <2>2 DEF SpawnTask
  <2>4. phase' = IF step = 4 THEN "start" ELSE "spawn"
    BY <1>3, <2>1 DEF SpawnTask
  <2>5. tx \in [Tasks -> {"none", "open", "sent", "dropped"}]
    BY DEF ServeInv, ServeTypes
  <2>6. \A i \in 1..4 : i <= step /\ SpawnOrder[i] \in configured => tx'[SpawnOrder[i]] # "none"
    <3> SUFFICES ASSUME NEW i \in 1..4, i <= step, SpawnOrder[i] \in configured
                 PROVE  tx'[SpawnOrder[i]] # "none"
      OBVIOUS
    <3>1. CASE i = step
      BY <1>3, <2>2, <2>5, <3>1 DEF SpawnTask
    <3>2. CASE i < step
      <4>1. tx[SpawnOrder[i]] # "none"
        BY <2>2, <3>2
      <4>2. tx' = tx \/ tx' = [tx EXCEPT ![t] = "open"]
        BY <1>3 DEF SpawnTask
      <4>3. SpawnOrder[i] \in Tasks
        BY <2>1, TaskNames
      <4> QED  BY <2>5, <4>1, <4>2, <4>3
    <3> QED  BY <2>3, <3>1, <3>2
  <2>7. phase' = "start" => \A u \in configured : tx'[u] # "none"
    <3> SUFFICES ASSUME step = 4, NEW u \in configured PROVE tx'[u] # "none"
      BY <2>4
    <3>1. \E i \in 1..4 : SpawnOrder[i] = u
      <4>1. u \in {"http", "grpc", "metrics", "scheduler"}
        BY TaskNames
      <4> QED  BY <2>1, <4>1
    <3> QED  BY <2>6, <3>1
  <2>8. UNCHANGED <<configured, abandoned, signalled, result>>
    BY <1>3 DEF SpawnTask
  <2>9. Wired'
    BY <2>3, <2>4, <2>6, <2>7, <2>8
  <2> QED  BY <2>2, <2>3, <2>4, <2>8, <2>9
<1>4. ASSUME NEW t \in Stoppable, SpawnFails(t) PROVE TeardownInv'
  BY <1>4 DEF SpawnFails, ReturnWith
<1> QED  BY <1>1, <1>2, <1>3, <1>4, <1>5 DEF Assembly

LEMMA TeardownRunner ==
  ASSUME TeardownInv, ServeInv', Runner \/ Signal \/ Killed \/ UNCHANGED svars
  PROVE  TeardownInv'
<1> USE TaskNames DEF TeardownInv, OtherTypes, Wired, TornDown
<1>1. CASE Start \/ Started \/ Signal \/ Killed \/ UNCHANGED svars
  BY <1>1 DEF Start, Started, Signal, Killed, svars, dvars, Told, Live
<1>2. CASE StartFails \/ Shutdown \/ ShutdownFails \/ ShutdownTimeout \/ ShutdownDone
  <2>1. phase \in {"start", "shutdown"} /\ step = 1
    BY <1>2 DEF StartFails, Shutdown, ShutdownFails, ShutdownTimeout, ShutdownDone
  <2>2. /\ phase' \in {"shutdown", "teardown"}
        /\ UNCHANGED <<configured, step, server, tx, abandoned, signalled>>
        /\ result' \in {result, "ok", "StartFailed", "ShutdownFailed", "ShutdownTimeout"}
    BY <1>2 DEF StartFails, Shutdown, ShutdownFails, ShutdownTimeout, ShutdownDone, dvars
  <2>3. ~Told("scheduler") /\ ~Told("scheduler")'
    BY <2>1, <2>2, TaskNames DEF ServeInv, Channels, Told
  <2>4. \A t \in Stoppable : SendAt[t] \in 1..8 /\ JoinAt[t] \in 1..8
    BY TaskNames DEF SendAt, JoinAt
  <2> QED  BY <2>1, <2>2, <2>3, <2>4
<1> QED  BY <1>1, <1>2 DEF Runner

LEMMA TeardownStop ==
  ASSUME TeardownInv, ServeInv', NEW t \in Stoppable, Stop(t)
  PROVE  TeardownInv'
<1> USE TaskNames DEF TeardownInv, OtherTypes, Wired
<1>1. /\ phase = "teardown" /\ step \in 1..8 /\ step' = step + 1
      /\ UNCHANGED <<configured, phase, server, signalled, result>>
  <2>1. Len(Teardown) = 8
    BY DEF Teardown
  <2> QED  BY <2>1 DEF Stop, SendStop, Join, JoinTimeout, AtOp
<1>2. tx \in [Tasks -> {"none", "open", "sent", "dropped"}] /\ t \in Stoppable
  BY DEF ServeInv, ServeTypes
<1>3. /\ SendAt = [http |-> 1, grpc |-> 2, metrics |-> 3, scheduler |-> 7]
      /\ JoinAt = [http |-> 4, grpc |-> 5, metrics |-> 6, scheduler |-> 8]
      /\ Stoppable = {"http", "grpc", "metrics", "scheduler"}
  BY TaskNames DEF SendAt, JoinAt
<1>4. CASE SendStop(t)
  <2>1. step = SendAt[t]
    BY <1>4, Order DEF SendStop
  <2>2. tx' = [tx EXCEPT ![t] = IF @ = "open" THEN "sent" ELSE @] /\ abandoned' = abandoned
    BY <1>4 DEF SendStop
  <2>3. \A u \in configured : step' > SendAt[u] => Told(u)'
    <3> SUFFICES ASSUME NEW u \in configured, step' > SendAt[u] PROVE Told(u)'
      OBVIOUS
    <3>1. CASE u = t
      BY <1>1, <1>2, <2>2, <3>1 DEF Told
    <3>2. CASE u # t
      <4>1. step > SendAt[u]
        BY <1>1, <1>3, <2>1, <3>2
      <4>2. Told(u)
        BY <1>1, <4>1 DEF TornDown
      <4> QED  BY <1>2, <2>2, <3>2, <4>2 DEF Told
    <3> QED  BY <3>1, <3>2
  <2>4. \A u \in Stoppable : step' > JoinAt[u] => ~Live(u)' \/ u \in abandoned'
    <3> SUFFICES ASSUME NEW u \in Stoppable, step' > JoinAt[u] PROVE ~Live(u)' \/ u \in abandoned'
      OBVIOUS
    <3>1. step > JoinAt[u]
      BY <1>1, <1>3, <2>1
    <3>2. ~Live(u) \/ u \in abandoned
      BY <1>1, <3>1 DEF TornDown
    <3> QED  BY <1>1, <2>2, <3>2 DEF Live
  <2>5. Told("scheduler")' => step' > 7
    <3>1. CASE t = "scheduler"
      BY <1>1, <1>3, <2>1, <3>1
    <3>2. CASE t # "scheduler"
      BY <1>1, <1>2, <2>2, <3>2 DEF Told, TornDown
    <3> QED  BY <3>1, <3>2
  <2>6. Wired'
    BY <1>1, <1>2, <2>2
  <2> QED  BY <1>1, <2>2, <2>3, <2>4, <2>5, <2>6 DEF TornDown
<1>5. CASE Join(t) \/ JoinTimeout(t)
  <2>1. step = JoinAt[t]
    BY <1>5, Order DEF Join, JoinTimeout
  <2>2. tx' = tx /\ abandoned \subseteq abandoned' /\ abandoned' \subseteq Tasks
    BY <1>5 DEF Join, JoinTimeout
  <2>3. ~Live(t)' \/ t \in abandoned'
    BY <1>1, <1>5 DEF Join, JoinTimeout, Live
  <2>4. \A u \in configured : step' > SendAt[u] => Told(u)'
    <3> SUFFICES ASSUME NEW u \in configured, step' > SendAt[u] PROVE Told(u)'
      OBVIOUS
    <3>1. step > SendAt[u]
      BY <1>1, <1>3, <2>1
    <3> QED  BY <1>1, <2>2, <3>1 DEF Told, TornDown
  <2>5. \A u \in Stoppable : step' > JoinAt[u] => ~Live(u)' \/ u \in abandoned'
    <3> SUFFICES ASSUME NEW u \in Stoppable, step' > JoinAt[u], u # t
                 PROVE  ~Live(u)' \/ u \in abandoned'
      BY <2>3
    <3>1. step > JoinAt[u]
      BY <1>1, <1>3, <2>1
    <3> QED  BY <1>1, <2>2, <3>1 DEF Live, TornDown
  <2>6. Told("scheduler")' => step' > 7
    BY <1>1, <2>2 DEF Told, TornDown
  <2>7. Wired'
    BY <1>1, <2>2
  <2> QED  BY <1>1, <2>2, <2>4, <2>5, <2>6, <2>7 DEF TornDown
<1> QED  BY <1>4, <1>5 DEF Stop

LEMMA TeardownTask ==
  ASSUME TeardownInv, ServeInv', NEW t \in Stoppable, Task(t)
  PROVE  TeardownInv'
<1>1. UNCHANGED <<configured, phase, step, tx, abandoned, signalled, result>>
  BY DEF Task, TaskFails, TaskSeesStop, TaskDrained
<1>2. \A u \in Stoppable : Live(u)' => Live(u)
  BY DEF Task, TaskFails, TaskSeesStop, TaskDrained, Live, TeardownInv, ServeInv, ServeTypes,
                   Tasks
<1> QED  BY <1>1, <1>2 DEF TeardownInv, OtherTypes, Wired, TornDown, Told

LEMMA TeardownReturn ==
  ASSUME TeardownInv, ServeInv', Return
  PROVE  TeardownInv'
<1>1. Len(Teardown) = 8 /\ phase = "teardown" /\ phase' = "returned" /\ step = 9
  BY DEF Teardown, Return, ReturnWith, TeardownInv, OtherTypes
<1>2. \A t \in Stoppable : ~Live(t) \/ t \in abandoned
  BY <1>1, TaskNames DEF TeardownInv, TornDown, JoinAt
<1>3. UNCHANGED <<configured, step, server, abandoned, signalled, result>>
  BY DEF Return, ReturnWith
<1> QED  BY <1>1, <1>2, <1>3 DEF TeardownInv, OtherTypes, Wired, TornDown, Live

LEMMA TeardownInductive == ServeSafety => []TeardownInv
<1>1. TeardownInv /\ ServeInv' /\ [ServeNext]_svars => TeardownInv'
  BY TeardownAssembly, TeardownRunner, TeardownStop, TeardownTask, TeardownReturn
  DEF ServeNext
<1> QED  BY TeardownInit, <1>1, ServeInductive, PTL DEF ServeSafety

\* The local state of serve() has its types, for every interleaving.
THEOREM ServeTypeCorrect == ServeSafety => []STypeOK
<1>1. TeardownInv => STypeOK
  <2>1. Len(Teardown) = 8
    BY DEF Teardown
  <2> QED  BY <2>1 DEF TeardownInv, ServeInv, SerialInv, ServeTypes, OtherTypes, STypeOK
<1> QED  BY <1>1, TeardownInductive, PTL

\* serve() never waits for a task it has not told to stop, so no join burns
\* its 5 s on a task that cannot know.
JoinOnlyTold ==
  \A t \in configured : AtOp("join", t) => Told(t)

\* So it is: every join comes after the send that lets its task end.
THEOREM ServeJoinsTold == ServeSafety => []JoinOnlyTold
<1>1. TeardownInv => JoinOnlyTold
  <2> SUFFICES ASSUME TeardownInv, NEW t \in configured, AtOp("join", t) PROVE Told(t)
    BY DEF JoinOnlyTold
  <2>1. t \in Stoppable /\ step \in 1..9
    BY DEF TeardownInv, OtherTypes
  <2>2. phase = "teardown" /\ step = JoinAt[t]
    BY <2>1, Order
  <2>3. JoinAt[t] > SendAt[t]
    BY <2>1, TaskNames DEF JoinAt, SendAt
  <2> QED  BY <2>2, <2>3 DEF TeardownInv, TornDown
<1> QED  BY <1>1, TeardownInductive, PTL

\* Through its teardown serve() returns over a task that has not ended only if
\* it has waited 5 s for that task: this much of the time to drain it does keep.
THEOREM ServeLeavesAbandoned == ServeSafety => []LeftOnlyAbandoned
<1>1. TeardownInv => LeftOnlyAbandoned
  <2>1. Len(Teardown) = 8
    BY DEF Teardown
  <2> QED  BY <2>1, TaskNames DEF TeardownInv, TornDown, LeftOnlyAbandoned, ThroughTeardown
<1> QED  BY <1>1, TeardownInductive, PTL

\* The scheduled job is told only when each server has ended or used its 5 s.
THEOREM ServeSchedulerLast == ServeSafety => []SchedulerOutlivesServers
<1>1. TeardownInv => SchedulerOutlivesServers
  <2> SUFFICES ASSUME TeardownInv, Told("scheduler"), ThroughTeardown,
                      NEW t \in Servers
               PROVE  ~Live(t) \/ t \in abandoned
    BY DEF SchedulerOutlivesServers
  <2>1. phase = "teardown" \/ (phase = "returned" /\ step > 8)
    <3>1. Len(Teardown) = 8
      BY DEF Teardown
    <3> QED  BY <3>1 DEF ThroughTeardown
  <2>2. step \in 1..9 /\ JoinAt[t] \in 4..6
    BY TaskNames DEF TeardownInv, OtherTypes, JoinAt
  <2>3. t \in Stoppable
    BY TaskNames
  <2> QED  BY <2>1, <2>2, <2>3 DEF TeardownInv, TornDown
<1> QED  BY <1>1, TeardownInductive, PTL
-----------------------------------------------------------------------------
(***************************************************************************)
(* The sampler.  The refinement leaves it out of the promise, so what      *)
(* becomes of it is stated apart.                                          *)
(***************************************************************************)
\* With [metrics] configured the sampler runs from the first server's spawn on,
\* serve() never stops it, and it is still running when serve() has returned.
SamplerRunsOn ==
  phase \in {"spawn", "start", "await", "shutdown"} \/ ThroughTeardown =>
    (server["sampler"] = "serving" <=> "metrics" \in configured)

SamplerInv ==
  /\ SamplerRunsOn
  /\ phase # "killed" => server["sampler"] \in {"absent", "serving"}
  /\ server["sampler"] = "serving" => "metrics" \in configured

LEMMA SamplerStep ==
  ASSUME TeardownInv, SamplerInv, ServeNext \/ UNCHANGED svars
  PROVE  SamplerInv'
<1> USE TaskNames DEF SamplerInv, SamplerRunsOn, ThroughTeardown
<1>0. /\ Len(Teardown) = 8 /\ Len(SpawnOrder) = 4 /\ "sampler" \notin Stoppable
      /\ server \in [Tasks -> {"absent", "serving", "draining", "ended", "failed"}]
      /\ step \in 1..9
      /\ phase = "assemble" => step = 1
      /\ phase = "spawn" => step \in 1..4
  BY DEF Teardown, SpawnOrder, TeardownInv, OtherTypes, ServeInv, ServeTypes, Unspawned
<1>1. CASE SpawnSampler
  BY <1>0, <1>1 DEF SpawnSampler
<1>2. CASE Assemble \/ AssembleRun
  BY <1>0, <1>2 DEF Assemble, AssembleRun, Ingresses
<1>3. CASE AssembleFails \/ \E t \in Stoppable : SpawnFails(t)
  BY <1>0, <1>3 DEF AssembleFails, SpawnFails, ReturnWith
<1>4. ASSUME NEW t \in Stoppable, SpawnTask(t) PROVE SamplerInv'
  <2>1. server'["sampler"] = server["sampler"] /\ UNCHANGED configured
    BY <1>0, <1>4 DEF SpawnTask
  <2>2. phase = "spawn" /\ phase' \in {"spawn", "start"}
    BY <1>4 DEF SpawnTask
  <2> QED  BY <2>1, <2>2
<1>5. CASE Runner \/ Signal
  <2>1. UNCHANGED <<server, configured>>
    BY <1>5 DEF Runner, Start, Started, StartFails, Shutdown, ShutdownFails,
                ShutdownTimeout, ShutdownDone, Signal, dvars
  <2>2. phase \in {"start", "await", "shutdown"}
    BY <1>5 DEF Runner, Start, Started, StartFails, Shutdown, ShutdownFails,
                ShutdownTimeout, ShutdownDone, Signal
  <2>3. phase' \in {"start", "await", "shutdown", "teardown"}
    BY <1>5 DEF Runner, Start, Started, StartFails, Shutdown, ShutdownFails,
                ShutdownTimeout, ShutdownDone, Signal, dvars
  <2> QED  BY <2>1, <2>2, <2>3
<1>6. CASE Killed
  BY <1>0, <1>6 DEF Killed
<1>7. ASSUME NEW t \in Stoppable, Stop(t) \/ Task(t) PROVE SamplerInv'
  <2>1. server'["sampler"] = server["sampler"] /\ UNCHANGED <<configured, phase>>
    BY <1>0, <1>7 DEF Stop, SendStop, Join, JoinTimeout, Task, TaskFails, TaskSeesStop,
                      TaskDrained
  <2>2. phase = "teardown" \/ UNCHANGED step
    BY <1>7 DEF Stop, SendStop, Join, JoinTimeout, AtOp, Task, TaskFails, TaskSeesStop,
                TaskDrained
  <2> QED  BY <2>1, <2>2
<1>8. CASE Return
  BY <1>8 DEF Return, ReturnWith
<1>9. CASE UNCHANGED svars
  BY <1>9 DEF svars, dvars
<1> QED  BY <1>1, <1>2, <1>3, <1>4, <1>5, <1>6, <1>7, <1>8, <1>9 DEF ServeNext, Assembly

\* serve() returns over a running sampler whenever [metrics] is configured: the
\* task is detached at its spawn and there is no path on which it is stopped.
THEOREM ServeLeavesSampler == ServeSafety => []SamplerRunsOn
<1>1. ServeInit => SamplerInv
  BY TaskNames DEF ServeInit, SamplerInv, SamplerRunsOn, ThroughTeardown
<1>2. TeardownInv /\ SamplerInv /\ [ServeNext]_svars => SamplerInv'
  BY SamplerStep
<1>3. SamplerInv => SamplerRunsOn
  BY DEF SamplerInv
<1> QED  BY <1>1, <1>2, <1>3, TeardownInductive, PTL DEF ServeSafety
=============================================================================
