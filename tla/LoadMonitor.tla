---------------------------- MODULE LoadMonitor -----------------------------
(***************************************************************************)
(* TrafficCounters with its latency ring: the last step of on_end() pushes *)
(* the request's latency.                                                  *)
(***************************************************************************)
EXTENDS TrafficCounters, LatencyRing

lvars == <<tvars, rvars>>

LInit == TInit /\ RingInit

\* latency_ring.lock().push(latency_us), under the ring's mutex.
RecordLatency(r) ==
  /\ OnEndPush(r)
  /\ \E v \in Latencies : Push(v)

\* The start or the drop of a request, and on_end() before its last step.
Account(r) ==
  /\ \/ OnStart(r)
     \/ OnEndFlight(r)
     \/ OnEndTick(r)
     \/ OnEndTotal(r)
     \/ OnEndErrTick(r)
     \/ OnEndErrTotal(r)
     \/ Drop(r)
  /\ UNCHANGED rvars

LSample == Sample /\ UNCHANGED rvars

LNext == (\E r \in Requests : Account(r) \/ RecordLatency(r)) \/ LSample

LSafety == LInit /\ [][LNext]_lvars
LSpec   == LSafety /\ WF_lvars(LSample)

-----------------------------------------------------------------------------
\* ring_buffer.rs: "99th-percentile latency".  When the sampler publishes, for
\* the samples the ring holds and every larger number up to those of a full
\* ring the position exists, and what it leaves above is less than one per cent
\* of the samples and one more: the truncation and the lowering together are
\* at most one rank below the percentile by nearest rank.
P99WithinOneRank ==
  spc = "publish" =>
    LET samples == Cardinality({i \in Slots : buf[i] # 0})
    IN  \A n \in 1..MaxSamples : n >= samples =>
          /\ P99Index(n) \in 0..(n - 1)
          /\ 100 * (n - 1 - P99Index(n)) < n + 100
=============================================================================
