------------------------- MODULE LoadMonitorProofs --------------------------
(***************************************************************************)
(* The counters with their latency ring.  The theorems of TrafficCounters  *)
(* carry over; of the ring it is proved, for any capacity and any order of *)
(* pushes, that it holds the latencies of the last Capacity requests.      *)
(***************************************************************************)
EXTENDS LoadMonitor, TrafficCountersProofs

LEMMA MonitorRunsCounters == LSafety => TSafety
<1>1. LInit => TInit
  BY DEF LInit
<1>2. [LNext]_lvars => [TNext]_tvars
  BY DEF LNext, Account, RecordLatency, LSample, TNext, Request, lvars
<1> QED  BY <1>1, <1>2, PTL DEF LSafety, TSafety

\* The counters are exact whatever latencies are recorded beside them.
THEOREM MonitorCountersExact ==
  LSafety => [](TTypeOK /\ InFlightExact /\ RequestsConserved /\ ErrorsConserved
                  /\ ErrorsWithinRequests)
BY MonitorRunsCounters, CountersTypeCorrect, InFlight, RequestConservation,
   ErrorConservation, ErrorBound, PTL

-----------------------------------------------------------------------------
(***************************************************************************)
(* The position of the percentile, for every number of samples.            *)
(***************************************************************************)
LEMMA RankBound ==
  ASSUME NEW n \in 1..MaxSamples
  PROVE  /\ P99Index(n) \in 0..(n - 1)
         /\ 100 * (n - 1 - P99Index(n)) < n + 100
<1>1. n \in Nat \ {0}
  BY RingAssumption
<1>2. PICK q \in Nat : q = (n * 99) \div 100 /\ 100 * q <= 99 * n /\ 99 * n < 100 * q + 100
  BY <1>1
<1> QED  BY <1>1, <1>2 DEF P99Index

\* The published percentile is at most one rank below the nearest one.
THEOREM PercentileRank == LSafety => []P99WithinOneRank
<1>1. P99WithinOneRank
  BY RankBound DEF P99WithinOneRank
<1> QED  BY <1>1, PTL

-----------------------------------------------------------------------------
(***************************************************************************)
(* The window.  RingIsWindow counts values; the invariant behind it says   *)
(* in which slot each of the recent latencies lies: the newest just behind *)
(* the head, the oldest, in a full ring, under it.                         *)
(***************************************************************************)
LEMMA RemainderOf ==
  ASSUME NEW q \in Nat, NEW r \in Slots
  PROVE  (Capacity * q + r) % Capacity = r
BY RingAssumption DEF Slots

\* The slot under the head moves on by one, and from the last to the first.
LEMMA NextSlot ==
  ASSUME NEW h \in Nat
  PROVE  /\ h % Capacity \in Slots
         /\ h < Capacity => h % Capacity = h
         /\ (h + 1) % Capacity = IF h % Capacity = Capacity - 1 THEN 0 ELSE (h % Capacity) + 1
<1>1. Capacity \in Nat \ {0}
  BY RingAssumption
<1>2. h % Capacity \in Slots /\ (h < Capacity => h % Capacity = h)
  BY <1>1 DEF Slots
<1>3. PICK q \in Nat : h = Capacity * q + (h % Capacity)
  <2>1. h \div Capacity \in Nat /\ h = Capacity * (h \div Capacity) + (h % Capacity)
    BY <1>1
  <2> QED  BY <2>1
<1>4. CASE h % Capacity = Capacity - 1
  <2>1. h + 1 = Capacity * (q + 1) + 0
    BY <1>1, <1>3, <1>4
  <2>2. q + 1 \in Nat /\ 0 \in Slots
    BY <1>1 DEF Slots
  <2>3. (Capacity * (q + 1) + 0) % Capacity = 0
    BY <2>2, RemainderOf
  <2> QED  BY <1>2, <1>4, <2>1, <2>3
<1>5. CASE h % Capacity # Capacity - 1
  <2>1. h + 1 = Capacity * q + ((h % Capacity) + 1)
    BY <1>1, <1>2, <1>3 DEF Slots
  <2>2. (h % Capacity) + 1 \in Slots
    BY <1>1, <1>2, <1>5 DEF Slots
  <2>3. (Capacity * q + ((h % Capacity) + 1)) % Capacity = (h % Capacity) + 1
    BY <2>2, RemainderOf
  <2> QED  BY <1>2, <1>5, <2>1, <2>3
<1> QED  BY <1>4, <1>5

\* Where the i-th oldest of n recent latencies lies when the head is over p.
SlotOf(p, n, i) == IF p - n + i - 1 < 0 THEN p - n + i - 1 + Capacity ELSE p - n + i - 1

RingInv ==
  /\ buf \in [Slots -> Nat]
  /\ head \in Nat
  /\ recent \in Seq(Nat)
  /\ Len(recent) = Capacity \/ (Len(recent) < Capacity /\ head = Len(recent))
  /\ \A i \in 1..Len(recent) : recent[i] = buf[SlotOf(head % Capacity, Len(recent), i)]
  /\ Len(recent) < Capacity => \A j \in Slots : j >= Len(recent) => buf[j] = 0

LEMMA RingInvInit == RingInit => RingInv
BY RingAssumption DEF RingInit, RingInv

LEMMA RingInvPush ==
  ASSUME RingInv, NEW v \in Latencies, Push(v)
  PROVE  RingInv'
<1> DEFINE p == head % Capacity
           n == Len(recent)
<1>1. Capacity \in Nat \ {0} /\ v \in Nat
  BY RingAssumption
<1>2. /\ p \in 0..(Capacity - 1)
      /\ head < Capacity => p = head
      /\ head' % Capacity = IF p = Capacity - 1 THEN 0 ELSE p + 1
  BY NextSlot DEF RingInv, Push, Slots
<1>3. /\ buf' \in [Slots -> Nat] /\ head' \in Nat
      /\ buf'[p] = v
      /\ \A j \in Slots : j # p => buf'[j] = buf[j]
      /\ p \in Slots
  BY <1>1, <1>2 DEF RingInv, Push, Slots
<1>4. n \in Nat /\ recent \in Seq(Nat) /\ n <= Capacity
  BY <1>1 DEF RingInv
<1>5. CASE n < Capacity
  <2>1. head = n /\ p = n /\ head' = n + 1
    BY <1>2, <1>4, <1>5 DEF RingInv, Push
  <2>2. recent' = Append(recent, v)
    BY <1>4, <1>1, <1>5 DEF Push, Newest
  <2>3. /\ recent' \in Seq(Nat) /\ Len(recent') = n + 1
        /\ \A i \in 1..n : recent'[i] = recent[i]
        /\ recent'[n + 1] = v
    BY <1>1, <1>4, <2>2
  <2>4. \A i \in 1..(n + 1) : SlotOf(head' % Capacity, n + 1, i) = i - 1
    BY <1>1, <1>2, <1>4, <1>5, <2>1 DEF SlotOf
  <2>5. \A i \in 1..n : recent[i] = buf[i - 1]
    <3>1. \A i \in 1..n : SlotOf(p, n, i) = i - 1
      BY <1>1, <1>4, <1>5, <2>1 DEF SlotOf
    <3> QED  BY <3>1 DEF RingInv
  <2>6. \A i \in 1..(n + 1) : recent'[i] = buf'[i - 1]
    <3> SUFFICES ASSUME NEW i \in 1..(n + 1) PROVE recent'[i] = buf'[i - 1]
      OBVIOUS
    <3>1. CASE i = n + 1
      BY <1>3, <1>4, <2>1, <2>3, <3>1
    <3>2. CASE i # n + 1
      <4>1. i \in 1..n /\ i - 1 \in Slots /\ i - 1 # p
        BY <1>1, <1>4, <1>5, <2>1, <3>2 DEF Slots
      <4> QED  BY <1>3, <2>3, <2>5, <4>1
    <3> QED  BY <3>1, <3>2
  <2>7. n + 1 < Capacity => \A j \in Slots : j >= n + 1 => buf'[j] = 0
    <3> SUFFICES ASSUME NEW j \in Slots, j >= n + 1 PROVE buf'[j] = 0
      OBVIOUS
    <3>1. j # p /\ j >= n
      BY <1>4, <2>1 DEF Slots
    <3> QED  BY <1>3, <1>5, <3>1 DEF RingInv
  <2>8. n + 1 = Capacity \/ (n + 1 < Capacity /\ head' = n + 1)
    BY <1>1, <1>4, <1>5, <2>1
  <2> QED  BY <1>3, <2>3, <2>4, <2>6, <2>7, <2>8 DEF RingInv
<1>6. CASE n = Capacity
  <2>1. recent' = Tail(Append(recent, v))
    BY <1>1, <1>4, <1>6 DEF Push, Newest
  <2>2. /\ recent' \in Seq(Nat) /\ Len(recent') = Capacity
        /\ \A i \in 1..(Capacity - 1) : recent'[i] = recent[i + 1]
        /\ recent'[Capacity] = v
    <3> DEFINE a == Append(recent, v)
    <3>1. /\ a \in Seq(Nat) /\ Len(a) = Capacity + 1
          /\ \A i \in 1..Capacity : a[i] = recent[i]
          /\ a[Capacity + 1] = v
      BY <1>1, <1>4, <1>6
    <3> HIDE DEF a
    <3>2. Tail(a) \in Seq(Nat) /\ Len(Tail(a)) = Capacity
      BY <1>1, <3>1
    <3>3. \A i \in 1..Capacity : Tail(a)[i] = a[i + 1]
      BY <1>1, <3>1
    <3> QED  BY <1>1, <2>1, <3>1, <3>2, <3>3 DEF a
  <2>3. \A i \in 1..(Capacity - 1) :
          /\ SlotOf(head' % Capacity, Capacity, i) = SlotOf(p, Capacity, i + 1)
          /\ SlotOf(p, Capacity, i + 1) \in Slots
          /\ SlotOf(p, Capacity, i + 1) # p
    BY <1>1, <1>2 DEF SlotOf, Slots
  <2>4. SlotOf(head' % Capacity, Capacity, Capacity) = p
    BY <1>1, <1>2 DEF SlotOf
  <2>5. \A i \in 1..Capacity : recent'[i] = buf'[SlotOf(head' % Capacity, Capacity, i)]
    <3> SUFFICES ASSUME NEW i \in 1..Capacity
                 PROVE  recent'[i] = buf'[SlotOf(head' % Capacity, Capacity, i)]
      OBVIOUS
    <3>1. CASE i = Capacity
      BY <1>3, <2>2, <2>4, <3>1
    <3>2. CASE i # Capacity
      <4>1. i \in 1..(Capacity - 1) /\ i + 1 \in 1..Capacity
        BY <1>1, <3>2
      <4>2. recent[i + 1] = buf[SlotOf(p, Capacity, i + 1)]
        BY <1>6, <4>1 DEF RingInv
      <4>3. buf'[SlotOf(p, Capacity, i + 1)] = buf[SlotOf(p, Capacity, i + 1)]
        BY <1>3, <2>3, <4>1
      <4> QED  BY <2>2, <2>3, <4>1, <4>2, <4>3
    <3> QED  BY <3>1, <3>2
  <2> QED  BY <1>3, <2>2, <2>5 DEF RingInv
<1>7. n < Capacity \/ n = Capacity
  BY <1>1, <1>4
<1> QED  BY <1>5, <1>6, <1>7

LEMMA RingInductive == LSafety => []RingInv
<1>1. LInit => RingInv
  BY RingInvInit DEF LInit
<1>2. RingInv /\ [LNext]_lvars => RingInv'
  <2> SUFFICES ASSUME RingInv, [LNext]_lvars PROVE RingInv'
    OBVIOUS
  <2>1. ASSUME NEW r \in Requests, RecordLatency(r) PROVE RingInv'
    BY <2>1, RingInvPush DEF RecordLatency
  <2>2. CASE UNCHANGED rvars
    BY <2>2 DEF RingInv, rvars
  <2>3. (\E r \in Requests : RecordLatency(r)) \/ UNCHANGED rvars
    BY DEF LNext, Account, LSample, lvars
  <2> QED  BY <2>1, <2>2, <2>3
<1> QED  BY <1>1, <1>2, PTL DEF LSafety

\* The samples of the percentile are the non-zero latencies of the last
\* Capacity requests.
THEOREM MonitorRingIsWindow == LSafety => []RingIsWindow
<1>1. RingInv => RingIsWindow
  <2> SUFFICES ASSUME RingInv, NEW v \in Latencies \ {0}
               PROVE  Cardinality({i \in Slots : buf[i] = v})
                        = Cardinality({i \in DOMAIN recent : recent[i] = v})
    BY DEF RingIsWindow
  <2> DEFINE p == head % Capacity
             n == Len(recent)
             S == {i \in DOMAIN recent : recent[i] = v}
             T == {i \in Slots : buf[i] = v}
             f == [i \in S |-> SlotOf(p, n, i)]
  <2>1. /\ Capacity \in Nat \ {0} /\ n \in Nat /\ n <= Capacity /\ DOMAIN recent = 1..n
        /\ n < Capacity => p = n
        /\ p \in 0..(Capacity - 1)
    <3>1. Capacity \in Nat \ {0} /\ recent \in Seq(Nat) /\ head \in Nat
      BY RingAssumption DEF RingInv
    <3>2. n \in Nat /\ DOMAIN recent = 1..n
      BY <3>1
    <3>3. p \in 0..(Capacity - 1) /\ (head < Capacity => p = head)
      BY <3>1, NextSlot DEF Slots
    <3>4. n = Capacity \/ (n < Capacity /\ head = n)
      BY DEF RingInv
    <3> HIDE DEF p, n
    <3> QED  BY <3>1, <3>2, <3>3, <3>4
  <2>2. IsFiniteSet(S)
    <3>1. IsFiniteSet(1..n)
      BY <2>1, FS_Interval
    <3> QED  BY <2>1, <3>1, FS_Subset
  <2>3. \A i \in 1..n : SlotOf(p, n, i) \in Slots
    BY <2>1 DEF SlotOf, Slots
  <2>4. \A i, j \in 1..n : SlotOf(p, n, i) = SlotOf(p, n, j) => i = j
    BY <2>1 DEF SlotOf
  <2>5. \A k \in T : \E i \in 1..n : k = SlotOf(p, n, i)
    <3> SUFFICES ASSUME NEW k \in T PROVE \E i \in 1..n : k = SlotOf(p, n, i)
      OBVIOUS
    <3>1. k \in Slots /\ buf[k] # 0
      OBVIOUS
    <3>2. CASE n < Capacity
      <4>1. k < n
        <5>1. \A j \in Slots : j >= n => buf[j] = 0
          BY <3>2 DEF RingInv
        <5> HIDE DEF p, n, T
        <5> QED  BY <2>1, <3>1, <5>1 DEF Slots
      <4>2. k + 1 \in 1..n /\ k = SlotOf(p, n, k + 1)
        BY <2>1, <3>1, <3>2, <4>1 DEF SlotOf, Slots
      <4> QED  BY <4>2
    <3>3. CASE n = Capacity
      <4> DEFINE i == IF k < p THEN k - p + Capacity + 1 ELSE k - p + 1
      <4>1. i \in 1..n /\ k = SlotOf(p, n, i)
        <5> HIDE DEF p, n, T
        <5> QED  BY <2>1, <3>1, <3>3 DEF SlotOf, Slots
      <4> QED  BY <4>1
    <3>4. n < Capacity \/ n = Capacity
      <4> HIDE DEF p, n
      <4> QED  BY <2>1
    <3> QED  BY <3>2, <3>3, <3>4
  <2>6. \A i \in 1..n : recent[i] = buf[SlotOf(p, n, i)]
    BY DEF RingInv
  <2>7. f \in Bijection(S, T)
    <3>1. f \in [S -> T]
      BY <2>1, <2>3, <2>6
    <3>2. \A i, j \in S : f[i] = f[j] => i = j
      BY <2>1, <2>4
    <3>3. \A k \in T : \E i \in S : f[i] = k
      BY <2>1, <2>5, <2>6
    <3> HIDE DEF f, S, T
    <3> QED  BY <3>1, <3>2, <3>3 DEF Bijection, Injection, Surjection, IsInjective
  <2>8. Cardinality(T) = Cardinality(S)
    <3>1. ExistsBijection(S, T)
      BY <2>7 DEF ExistsBijection
    <3> QED  BY <2>2, <3>1, FS_Bijection
  <2> QED  BY <2>8
<1> QED  BY <1>1, RingInductive, PTL
=============================================================================
