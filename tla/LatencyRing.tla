---------------------------- MODULE LatencyRing -----------------------------
(***************************************************************************)
(* RingBuffer: the latencies of the last Capacity requests, from which the *)
(* sampler publishes a 99th percentile.  A slot holding 0 counts as empty. *)
(***************************************************************************)
EXTENDS Integers, FiniteSets, Sequences

CONSTANTS
  Capacity,     \* slots of the ring
  MaxSamples,   \* RING_CAPACITY, the most samples a percentile is taken of
  Latencies     \* what elapsed().as_micros() can be

ASSUME RingAssumption ==
  /\ Capacity \in Nat \ {0}
  /\ MaxSamples \in Nat
  /\ Latencies \subseteq Nat

VARIABLES
  buf,     \* [Slots -> Nat]
  head,    \* pushes so far
  recent   \* history: the last Capacity latencies pushed, oldest first

rvars == <<buf, head, recent>>

Slots == 0..(Capacity - 1)

RingInit ==
  /\ buf = [i \in Slots |-> 0]
  /\ head = 0
  /\ recent = << >>

\* The newest entries of a sequence, at most Capacity of them.
Newest(s) == IF Len(s) <= Capacity THEN s ELSE Tail(s)

\* A bug: the slot after the oldest is overwritten.
PushOneAhead(v) ==
  /\ head' = head + 1
  /\ buf' = [buf EXCEPT ![IF head < Capacity THEN head
                          ELSE (head + 1) % Capacity] = v]
  /\ recent' = Newest(Append(recent, v))

Push(v) ==
  /\ buf' = [buf EXCEPT ![head % Capacity] = v]
  /\ head' = head + 1
  /\ recent' = Newest(Append(recent, v))

\* A bug: the index is not lowered from a count to a position.
P99IndexNotLowered(n) == (n * 99 + 99) \div 100

\* (n * 99 / 100).saturating_sub(1), the position of the percentile among n
\* samples in ascending order.
P99Index(n) == IF (n * 99) \div 100 > 0 THEN (n * 99) \div 100 - 1 ELSE 0

-----------------------------------------------------------------------------
\* The samples p99_ms() sorts are the non-zero latencies of the last Capacity
\* requests, in whatever order the pushes of concurrent requests came: none is
\* overwritten before its turn, and a full ring keeps none past it.
RingIsWindow ==
  \A v \in Latencies \ {0} :
    Cardinality({i \in Slots : buf[i] = v})
      = Cardinality({i \in DOMAIN recent : recent[i] = v})
=============================================================================
