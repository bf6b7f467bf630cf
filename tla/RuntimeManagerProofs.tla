------------------------ MODULE RuntimeManagerProofs ------------------------
(***************************************************************************)
(* Theorems of RuntimeManager, for any set of callers.                     *)
(***************************************************************************)
EXTENDS RuntimeManager, TLAPS

LEMMA InitTypeOK == Init => TypeOK
BY DEF Init, TypeOK, RuntimeStatus, Phase

LEMMA StepTypeOK ==
  ASSUME TypeOK, NEW c \in Callers, Step(c)
  PROVE  TypeOK'
<1> USE DEF TypeOK, RuntimeStatus, Phase, Starting, Stopping, Goto
<1>1. CASE StartNoop(c) \/ ShutdownNoop(c)
  BY <1>1 DEF StartNoop, ShutdownNoop, vars
<1>2. CASE StartEnter(c) \/ StartNoIngress(c)
  <2>1. (stranded /\ ~Alone(c)) \in BOOLEAN
    OBVIOUS
  <2> QED  BY <1>2, <2>1 DEF StartEnter, StartNoIngress
<1>3. CASE StartTasksOk(c) \/ StartTasksErr(c) \/ StartCommit(c)
  BY <1>3 DEF StartTasksOk, StartTasksErr, StartCommit
<1>4. CASE ShutdownEnter(c)
  <2>1. (stranded /\ ~Alone(c)) \in BOOLEAN
    OBVIOUS
  <2> QED  BY <1>4, <2>1 DEF ShutdownEnter
<1>5. CASE StopTasksOk(c) \/ StopTasksErr(c) \/ ShutdownCommit(c)
  BY <1>5 DEF StopTasksOk, StopTasksErr, ShutdownCommit
<1>6. CASE DropCall(c)
  BY <1>6 DEF DropCall
<1> QED  BY <1>1, <1>2, <1>3, <1>4, <1>5, <1>6 DEF Step

LEMMA StutterTypeOK == TypeOK /\ UNCHANGED vars => TypeOK'
BY DEF TypeOK, vars

\* The fields of the manager keep their types, however calls interleave.
THEOREM TypeCorrect == Spec => []TypeOK
<1>1. TypeOK /\ [Next]_vars => TypeOK'
  BY StepTypeOK, StutterTypeOK DEF Next
<1> QED  BY InitTypeOK, <1>1, PTL DEF Spec

-----------------------------------------------------------------------------
\* Any number of callers: a transitional status has an owner.

LEMMA StepSettled ==
  ASSUME TypeOK, SettledStatus, NEW c \in Callers, Step(c)
  PROVE  SettledStatus'
<1> USE DEF TypeOK, Phase, Starting, Stopping, Goto
<1>1. CASE StartNoop(c) \/ ShutdownNoop(c)
  BY <1>1 DEF StartNoop, ShutdownNoop, vars, SettledStatus
\* The caller becomes the owner of the status it writes.
<1>2. CASE StartEnter(c)
  <2>1. status' = "Starting" /\ pc'[c] \in Starting
    BY <1>2 DEF StartEnter
  <2> QED  BY <2>1 DEF SettledStatus
<1>3. CASE ShutdownEnter(c)
  <2>1. status' = "Stopping" /\ pc'[c] \in Stopping
    BY <1>3 DEF ShutdownEnter
  <2> QED  BY <2>1 DEF SettledStatus
\* The caller moves on within its phase: nobody stops being an owner.
<1>4. CASE StartTasksOk(c)
  <2>1. UNCHANGED <<status, stranded>>
    BY <1>4 DEF StartTasksOk
  <2>2. \A d \in Callers : pc[d] \in Starting => pc'[d] \in Starting
    BY <1>4 DEF StartTasksOk
  <2>3. \A d \in Callers : pc[d] \in Stopping => pc'[d] \in Stopping
    BY <1>4 DEF StartTasksOk
  <2> QED  BY <2>1, <2>2, <2>3 DEF SettledStatus
<1>5. CASE StopTasksOk(c)
  <2>1. UNCHANGED <<status, stranded>>
    BY <1>5 DEF StopTasksOk
  <2>2. \A d \in Callers : pc[d] \in Starting => pc'[d] \in Starting
    BY <1>5 DEF StopTasksOk
  <2>3. \A d \in Callers : pc[d] \in Stopping => pc'[d] \in Stopping
    BY <1>5 DEF StopTasksOk
  <2> QED  BY <2>1, <2>2, <2>3 DEF SettledStatus
\* The caller gives up: the history variable says so.
<1>6. CASE StartNoIngress(c) \/ StartTasksErr(c) \/ StopTasksErr(c) \/ DropCall(c)
  <2>1. stranded' = TRUE
    BY <1>6 DEF StartNoIngress, StartTasksErr, StopTasksErr, DropCall
  <2> QED  BY <2>1 DEF SettledStatus
\* The caller completes: the status it leaves is not transitional.
<1>7. CASE StartCommit(c) \/ ShutdownCommit(c)
  <2>1. status' \in {"Running", "Stopped"}
    BY <1>7 DEF StartCommit, ShutdownCommit
  <2> QED  BY <2>1 DEF SettledStatus
<1> QED  BY <1>1, <1>2, <1>3, <1>4, <1>5, <1>6, <1>7 DEF Step

\* Starting and Stopping are owned by a call in progress unless a call of the
\* same overlap gave up, for any number of callers.
THEOREM Settled == Spec => []SettledStatus
<1>1. Init => SettledStatus
  BY DEF Init, SettledStatus
<1>2. TypeOK /\ SettledStatus /\ [Next]_vars => SettledStatus'
  <2>1. ASSUME SettledStatus, UNCHANGED vars PROVE SettledStatus'
    BY <2>1 DEF SettledStatus, vars
  <2> QED  BY StepSettled, <2>1 DEF Next
<1> QED  BY <1>1, <1>2, TypeCorrect, PTL DEF Spec
-----------------------------------------------------------------------------
(***************************************************************************)
(* One call at a time.  RunningIsBacked and StoppedIsQuiet are not         *)
(* inductive: they say nothing of the calls that are about to write        *)
(* Running or Stopped.  SerialInv adds what holds at each await of the one *)
(* call in progress, and that it is the only one.                          *)
(***************************************************************************)
OneCall == \A c \in Callers : pc[c] # "idle" => Alone(c)

InStart(c) ==
  /\ pc[c] \in Starting => status = "Starting" /\ hasIngress
  /\ pc[c] = "probe" => background

InShutdown(c) ==
  /\ pc[c] \in Stopping => status = "Stopping"
  /\ pc[c] = "stopCommit" => ~background

SerialInv ==
  /\ TypeOK
  /\ OneCall
  /\ \A c \in Callers : InStart(c) /\ InShutdown(c)
  /\ StoppedIsQuiet
  /\ RunningIsBacked

LEMMA SerialInit == Init => SerialInv
BY InitTypeOK
   DEF Init, SerialInv, OneCall, Alone, InStart, InShutdown, Starting, Stopping,
       StoppedIsQuiet, RunningIsBacked

\* A call that was alone and steps leaves at most itself in progress.
LEMMA StepOneCall ==
  ASSUME TypeOK, OneCall, NEW c \in Callers, Alone(c), Step(c)
  PROVE  OneCall'
<1>1. \A d \in Callers \ {c} : pc'[d] = pc[d]
  BY DEF TypeOK, Step, Goto, StartNoop, StartEnter, StartNoIngress, StartTasksOk,
         StartTasksErr, StartCommit, ShutdownNoop, ShutdownEnter, StopTasksOk,
         StopTasksErr, ShutdownCommit, DropCall, vars
<1> QED  BY <1>1 DEF OneCall, Alone

LEMMA SerialStep ==
  ASSUME SerialInv, NEW c \in Callers, Alone(c), Step(c)
  PROVE  SerialInv'
<1>1. TypeOK' /\ OneCall'
  BY StepTypeOK, StepOneCall DEF SerialInv
<1>2. ASSUME NEW d \in Callers, d # c
      PROVE  InStart(d)' /\ InShutdown(d)'
  <2>1. pc[d] = "idle" /\ pc'[d] = pc[d]
    BY <1>2 DEF Alone, SerialInv, TypeOK, Step, Goto, StartNoop, StartEnter,
                StartNoIngress, StartTasksOk, StartTasksErr, StartCommit,
                ShutdownNoop, ShutdownEnter, StopTasksOk, StopTasksErr,
                ShutdownCommit, DropCall, vars
  <2> QED  BY <2>1 DEF InStart, InShutdown, Starting, Stopping
<1>3. InStart(c)' /\ InShutdown(c)' /\ StoppedIsQuiet' /\ RunningIsBacked'
  <2> USE DEF SerialInv, TypeOK, InStart, InShutdown, Starting, Stopping,
              StoppedIsQuiet, RunningIsBacked, Goto
  <2>1. CASE StartNoop(c) \/ ShutdownNoop(c)
    BY <2>1 DEF StartNoop, ShutdownNoop, vars
  <2>2. CASE StartEnter(c)
    BY <2>2 DEF StartEnter
  <2>3. CASE StartNoIngress(c)
    BY <2>3 DEF StartNoIngress
  <2>4. CASE StartTasksOk(c)
    BY <2>4 DEF StartTasksOk
  <2>5. CASE StartTasksErr(c)
    BY <2>5 DEF StartTasksErr
  <2>6. CASE StartCommit(c)
    BY <2>6 DEF StartCommit
  <2>7. CASE ShutdownEnter(c)
    BY <2>7 DEF ShutdownEnter
  <2>8. CASE StopTasksOk(c)
    BY <2>8 DEF StopTasksOk
  <2>9. CASE StopTasksErr(c)
    BY <2>9 DEF StopTasksErr
  <2>10. CASE ShutdownCommit(c)
    BY <2>10 DEF ShutdownCommit
  <2>11. CASE DropCall(c)
    BY <2>11 DEF DropCall
  <2> QED  BY <2>1, <2>2, <2>3, <2>4, <2>5, <2>6, <2>7, <2>8, <2>9, <2>10, <2>11
           DEF Step
<1>4. \A d \in Callers : InStart(d)' /\ InShutdown(d)'
  BY <1>2, <1>3
<1> QED  BY <1>1, <1>3, <1>4 DEF SerialInv

LEMMA SerialStutter == SerialInv /\ UNCHANGED vars => SerialInv'
BY DEF SerialInv, TypeOK, OneCall, Alone, InStart, InShutdown, StoppedIsQuiet,
       RunningIsBacked, vars

LEMMA SerialInductive == SerialSpec => []SerialInv
<1>1. SerialInv /\ [SerialNext]_vars => SerialInv'
  BY SerialStep, SerialStutter DEF SerialNext
<1> QED  BY SerialInit, <1>1, PTL DEF SerialSpec

\* A manager driven one call at a time never says Stopped over background
\* tasks that run, whichever calls failed or were dropped before.
THEOREM SerialStopped == SerialSpec => []StoppedIsQuiet
<1>1. SerialInv => StoppedIsQuiet
  BY DEF SerialInv
<1> QED  BY <1>1, SerialInductive, PTL

\* A manager driven one call at a time never says Running without its tasks,
\* an ingress and an uptime.
THEOREM SerialRunning == SerialSpec => []RunningIsBacked
<1>1. SerialInv => RunningIsBacked
  BY DEF SerialInv
<1> QED  BY <1>1, SerialInductive, PTL
=============================================================================
