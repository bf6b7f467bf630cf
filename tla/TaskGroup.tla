----------------------------- MODULE TaskGroup ------------------------------
(***************************************************************************)
(* What a supervisor of background tasks promises: it never leaves a task  *)
(* behind that has not been asked to stop.  The detached tasks are apart:  *)
(* they are only spawned, nothing asks them to stop, and they run until    *)
(* the process ends.                                                       *)
(* The abstract specification of RuntimeBuilder::serve, whatever its order *)
(* of steps and its exits.                                                 *)
(***************************************************************************)
CONSTANTS
  Tasks,
  Detached   \* the tasks the supervisor cannot stop, some of Tasks

VARIABLES
  owner,   \* the supervisor is "present" or "gone"
  task     \* [Tasks -> TaskState]

gvars == <<owner, task>>

TaskState == {"absent", "running", "asked", "done"}

Init ==
  /\ owner = "present"
  /\ task = [t \in Tasks |-> "absent"]

\* A task is asked to stop, once.
Ask(t) ==
  /\ t \notin Detached
  /\ owner = "present"
  /\ task[t] = "running"
  /\ task' = [task EXCEPT ![t] = "asked"]
  /\ UNCHANGED owner

Spawn(t) ==
  /\ owner = "present"
  /\ task[t] = "absent"
  /\ task' = [task EXCEPT ![t] = "running"]
  /\ UNCHANGED owner

\* A task may finish unasked, and an asked one in its own time, or never; it
\* does not depend on the supervisor being there.
Finish(t) ==
  /\ t \notin Detached
  /\ task[t] \in {"running", "asked"}
  /\ task' = [task EXCEPT ![t] = "done"]
  /\ UNCHANGED owner

\* The supervisor goes: every task still running is thereby asked to stop,
\* the detached ones run on.
Leave ==
  /\ owner = "present"
  /\ owner' = "gone"
  /\ task' = [t \in Tasks |->
                IF task[t] = "running" /\ t \notin Detached THEN "asked" ELSE task[t]]

\* The process dies and every task with it.
Crash ==
  /\ owner = "present"
  /\ owner' = "gone"
  /\ task' = [t \in Tasks |-> IF task[t] = "absent" THEN "absent" ELSE "done"]

Next ==
  \/ \E t \in Tasks : Spawn(t) \/ Ask(t) \/ Finish(t)
  \/ Leave
  \/ Crash

Spec == Init /\ [][Next]_gvars

TypeOK ==
  /\ owner \in {"present", "gone"}
  /\ task \in [Tasks -> TaskState]

\* Nothing but the detached tasks is left behind unasked.
NoOrphan == owner = "gone" => \A t \in Tasks \ Detached : task[t] # "running"
=============================================================================
