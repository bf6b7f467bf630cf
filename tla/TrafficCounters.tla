-------------------------- MODULE TrafficCounters ---------------------------
(***************************************************************************)
(* The load monitor: TrafficCounters shared by the requests that pass      *)
(* through HttpLoadMonitor or GrpcLoadMonitor and by BackgroundSampler.    *)
(* Every access is one relaxed atomic operation, so on_end() is a sequence *)
(* of steps between which other requests and the sampler run.              *)
(***************************************************************************)
EXTENDS Integers, FiniteSets

CONSTANT Requests

ASSUME RequestsFinite == IsFiniteSet(Requests)

VARIABLES
  pc,            \* [Requests -> Stage]: the operation a request does next
  isError,       \* the inner handler's result was an Err
  inFlight,      \* requests_in_flight
  sinceTick,     \* requests_since_tick
  errSinceTick,  \* errors_since_tick
  total,         \* edge_requests_total, in the metrics provider
  errTotal,      \* edge_errors_total
  pushed,        \* RingBuffer.head: latencies pushed so far
  spc,           \* the sampler's next operation
  held,          \* the sampler's locals
  rpsSum,        \* history: sum of the edge_requests_per_second published
  epsSum         \* history: sum of the edge_errors_per_second published

reqVars  == <<pc, isError>>
counters == <<inFlight, sinceTick, errSinceTick, total, errTotal, pushed>>
sampler  == <<spc, held, rpsSum, epsSum>>
tvars    == <<reqVars, counters, sampler>>

Stage == {"new", "running", "tick", "total", "errTick", "errTotal", "push",
          "done", "dropped"}

NoSample == [active |-> 0, rps |-> 0, eps |-> 0]

TInit ==
  /\ pc = [r \in Requests |-> "new"]
  /\ isError = [r \in Requests |-> FALSE]
  /\ inFlight = 0 /\ sinceTick = 0 /\ errSinceTick = 0
  /\ total = 0 /\ errTotal = 0 /\ pushed = 0
  /\ spc = "active"
  /\ held = NoSample
  /\ rpsSum = 0 /\ epsSum = 0

Move(r, from, to) == pc[r] = from /\ pc' = [pc EXCEPT ![r] = to]

-----------------------------------------------------------------------------
(* A request *)

\* handle(): on_start() runs when the future is built, before it is polled.
OnStart(r) ==
  /\ Move(r, "new", "running")
  /\ inFlight' = inFlight + 1
  /\ UNCHANGED <<isError, sinceTick, errSinceTick, total, errTotal, pushed, sampler>>

\* A bug: only a failed request leaves the in-flight count.
OnEndFlightErrOnly(r) ==
  /\ Move(r, "running", "tick")
  /\ \E err \in BOOLEAN :
       /\ isError' = [isError EXCEPT ![r] = err]
       /\ inFlight' = IF err THEN inFlight - 1 ELSE inFlight
  /\ UNCHANGED <<sinceTick, errSinceTick, total, errTotal, pushed, sampler>>

\* The inner handler has answered: on_end() begins.
OnEndFlight(r) ==
  /\ Move(r, "running", "tick")
  /\ \E err \in BOOLEAN : isError' = [isError EXCEPT ![r] = err]
  /\ inFlight' = inFlight - 1
  /\ UNCHANGED <<sinceTick, errSinceTick, total, errTotal, pushed, sampler>>

OnEndTick(r) ==
  /\ Move(r, "tick", "total")
  /\ sinceTick' = sinceTick + 1
  /\ UNCHANGED <<isError, inFlight, errSinceTick, total, errTotal, pushed, sampler>>

\* A bug: the totals are recorded in the opposite order.
OnEndTotalErrFirst(r) ==
  /\ Move(r, "total", IF isError[r] THEN "errTick" ELSE "push")
  /\ IF isError[r] THEN errTotal' = errTotal + 1 /\ total' = total
                   ELSE total' = total + 1 /\ errTotal' = errTotal
  /\ UNCHANGED <<isError, inFlight, sinceTick, errSinceTick, pushed, sampler>>

OnEndTotal(r) ==
  /\ Move(r, "total", IF isError[r] THEN "errTick" ELSE "push")
  /\ total' = total + 1
  /\ UNCHANGED <<isError, inFlight, sinceTick, errSinceTick, errTotal, pushed, sampler>>

OnEndErrTick(r) ==
  /\ Move(r, "errTick", "errTotal")
  /\ errSinceTick' = errSinceTick + 1
  /\ UNCHANGED <<isError, inFlight, sinceTick, total, errTotal, pushed, sampler>>

OnEndErrTotal(r) ==
  /\ Move(r, "errTotal", "push")
  /\ errTotal' = errTotal + 1
  /\ UNCHANGED <<isError, inFlight, sinceTick, errSinceTick, total, pushed, sampler>>

OnEndPush(r) ==
  /\ Move(r, "push", "done")
  /\ pushed' = pushed + 1
  /\ UNCHANGED <<isError, inFlight, sinceTick, errSinceTick, total, errTotal, sampler>>

\* The client goes away: the future is dropped while it awaits the inner
\* handler, or before its first poll.  on_end() never runs.
Drop(r) ==
  /\ Move(r, "running", "dropped")
  /\ UNCHANGED <<isError, counters, sampler>>

Request(r) ==
  \/ OnStart(r)
  \/ OnEndFlight(r)
  \/ OnEndTick(r)
  \/ OnEndTotal(r)
  \/ OnEndErrTick(r)
  \/ OnEndErrTotal(r)
  \/ OnEndPush(r)
  \/ Drop(r)

-----------------------------------------------------------------------------
(* One tick of BackgroundSampler::run *)

LoadActive ==
  /\ spc = "active" /\ spc' = "requests"
  /\ held' = [held EXCEPT !.active = inFlight]
  /\ UNCHANGED <<reqVars, counters, rpsSum, epsSum>>

\* A bug: a load where the code swaps.
LoadRequests ==
  /\ spc = "requests" /\ spc' = "errors"
  /\ held' = [held EXCEPT !.rps = sinceTick]
  /\ UNCHANGED <<reqVars, counters, rpsSum, epsSum>>

\* A bug: the sampler takes requests and errors in one reset of both.
ResetBoth ==
  /\ spc = "requests" /\ spc' = "errors"
  /\ held' = [held EXCEPT !.rps = sinceTick]
  /\ sinceTick' = 0
  /\ errSinceTick' = 0
  /\ UNCHANGED <<reqVars, inFlight, total, errTotal, pushed, rpsSum, epsSum>>

SwapRequests ==
  /\ spc = "requests" /\ spc' = "errors"
  /\ held' = [held EXCEPT !.rps = sinceTick]
  /\ sinceTick' = 0
  /\ UNCHANGED <<reqVars, inFlight, errSinceTick, total, errTotal, pushed, rpsSum, epsSum>>

\* A bug: the errors are reset by subtracting the requests just taken.
SwapErrorsSubRequests ==
  /\ spc = "errors" /\ spc' = "publish"
  /\ held' = [held EXCEPT !.eps = errSinceTick]
  /\ errSinceTick' = errSinceTick - held.rps
  /\ UNCHANGED <<reqVars, inFlight, sinceTick, total, errTotal, pushed, rpsSum, epsSum>>

SwapErrors ==
  /\ spc = "errors" /\ spc' = "publish"
  /\ held' = [held EXCEPT !.eps = errSinceTick]
  /\ errSinceTick' = 0
  /\ UNCHANGED <<reqVars, inFlight, sinceTick, total, errTotal, pushed, rpsSum, epsSum>>

\* A bug: the rate is only published while requests are in flight.
PublishWhenActive ==
  /\ spc = "publish" /\ spc' = "active"
  /\ rpsSum' = IF held.active > 0 THEN rpsSum + held.rps ELSE rpsSum
  /\ epsSum' = epsSum + held.eps
  /\ held' = NoSample
  /\ UNCHANGED <<reqVars, counters>>

\* The gauges are recorded; then the next tick is awaited.
Publish ==
  /\ spc = "publish" /\ spc' = "active"
  /\ rpsSum' = rpsSum + held.rps
  /\ epsSum' = epsSum + held.eps
  /\ held' = NoSample
  /\ UNCHANGED <<reqVars, counters>>

Sample == LoadActive \/ SwapRequests \/ SwapErrors \/ Publish

TNext == (\E r \in Requests : Request(r)) \/ Sample

\* The sampler is a detached tokio task driven by a timer that always fires.
TSafety == TInit /\ [][TNext]_tvars
TSpec   == TSafety /\ WF_tvars(Sample)

-----------------------------------------------------------------------------
\* Requests by what on_end() has done for them so far.
At(S) == {r \in Requests : pc[r] \in S}

Open      == At({"running", "dropped"})
Ticked    == At({"total", "errTick", "errTotal", "push", "done"})
Totalled  == At({"errTick", "errTotal", "push", "done"})
Pushed    == At({"done"})
Failed    == {r \in Requests : isError[r]}
ErrTicked == Failed \cap At({"errTotal", "push", "done"})
ErrTotals == Failed \cap At({"push", "done"})

\* Every counter has its type: the per-tick counts are u64 and never wrap.
TTypeOK ==
  /\ pc \in [Requests -> Stage]
  /\ isError \in [Requests -> BOOLEAN]
  /\ inFlight \in Int
  /\ {sinceTick, errSinceTick, total, errTotal, pushed, rpsSum, epsSum} \subseteq Nat
  /\ spc \in {"active", "requests", "errors", "publish"}
  /\ held \in [active : Int, rps : Nat, eps : Nat]

\* The in-flight gauge never goes below zero (the sampler casts it to u64):
\* it counts exactly the requests that have started and not ended, dropped
\* ones included for ever.
InFlightExact == inFlight = Cardinality(Open)

\* No request is lost or counted twice between two ticks, wherever the
\* sampler's two swaps fall in the steps of on_end(): what was published, what
\* the sampler holds and what is pending add up to the requests counted.
RequestsConserved == rpsSum + held.rps + sinceTick = Cardinality(Ticked)

\* The same for errors.
ErrorsConserved == epsSum + held.eps + errSinceTick = Cardinality(ErrTicked)

\* A scrape between two steps of on_end() never sees more errors than
\* requests, nor a latency of a request not yet counted.
ErrorsWithinRequests == errTotal <= total /\ pushed <= total

\* Every request that ended appears in a published rate.
AllPublished ==
  \A n \in 1..Cardinality(Requests) :
    Cardinality(Ticked) >= n ~> rpsSum >= n

\* http_load_monitor.rs: "records load metrics on every request".  Once every
\* request that started is over, all are counted and none is in flight.  A
\* dropped future refutes it: it is never counted and in flight for ever.
EveryRequestRecorded ==
  (\A r \in Requests : pc[r] \in {"new", "done", "dropped"})
    => inFlight = 0 /\ total = Cardinality(At({"done", "dropped"}))
=============================================================================
