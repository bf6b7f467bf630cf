--------------------------- MODULE ObserverBridge ---------------------------
(***************************************************************************)
(* The log drain of the observer that the jobs hand to every handler they  *)
(* execute: LogDrainBridge over one file logger, which both jobs and all   *)
(* requests share.  The logger keeps entries in a BufWriter, which a flush *)
(* empties to the file; what is in the buffer is lost if the process is    *)
(* killed.                                                                 *)
(***************************************************************************)
EXTENDS RequestPath

VARIABLES
  drain,    \* [Requests -> where the handler is with its emit()]
  buffer,   \* requests whose entry is in the BufWriter
  disk      \* requests whose entry is in the file

ovars == <<drain, buffer, disk>>
obsvars == <<allvars, ovars>>

ObserverInit ==
  /\ PathInit
  /\ drain = [r \in Requests |-> "idle"]
  /\ buffer = {}
  /\ disk = {}

\* The job passes its observer on with execute(); a handler in place of the
\* job has none.
Observing(r) == Executing(r) /\ req[r].handler \in Handlers

\* backend.emit: the entry goes to the buffer.
Emit(r) ==
  /\ Observing(r)
  /\ drain[r] = "idle"
  /\ drain' = [drain EXCEPT ![r] = "emitted"]
  /\ buffer' = buffer \cup {r}
  /\ UNCHANGED <<allvars, disk>>

WriteOut ==
  /\ disk' = disk \cup buffer
  /\ buffer' = {}

\* A bug: emit() returns without the flush.
ReturnUnflushed(r) ==
  /\ drain[r] = "emitted"
  /\ drain' = [drain EXCEPT ![r] = "returned"]
  /\ UNCHANGED <<allvars, buffer, disk>>

\* backend.flush, and emit() returns.  Other handlers' emits and flushes may
\* have come between.
Flush(r) ==
  /\ drain[r] = "emitted"
  /\ drain' = [drain EXCEPT ![r] = "returned"]
  /\ WriteOut
  /\ UNCHANGED allvars

\* The BufWriter is full and writes by itself.
Spill ==
  /\ buffer # {}
  /\ WriteOut
  /\ UNCHANGED <<allvars, drain>>

\* emit() is synchronous: a handler neither answers nor is dropped inside it.
Undisturbed ==
  /\ PathNext
  /\ \A r \in Requests : drain[r] = "emitted" => req'[r] = req[r]
  /\ UNCHANGED ovars

ObserverNext ==
  \/ Undisturbed
  \/ \E r \in Requests : Emit(r) \/ Flush(r)
  \/ Spill

ObserverSpec == ObserverInit /\ [][ObserverNext]_obsvars

-----------------------------------------------------------------------------
\* Requests, tables and log have their types.
OTypeOK ==
  /\ PathTypeOK
  /\ drain \in [Requests -> {"idle", "emitted", "returned"}]
  /\ buffer \subseteq Requests
  /\ disk \subseteq Requests

\* log_drain_bridge.rs: without the flush entries "are lost if the process
\* dies before the buffer fills on its own".  Whatever other requests emit and
\* flush meanwhile, a kill at any moment loses no entry whose emit() has
\* returned, nor any of a request that has been answered or dropped.
LoggedIsDurable ==
  \A r \in Requests :
    drain[r] = "returned" \/ ~Observing(r) =>
      r \notin buffer /\ (drain[r] # "idle" => r \in disk)
=============================================================================
