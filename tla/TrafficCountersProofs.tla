----------------------- MODULE TrafficCountersProofs ------------------------
(***************************************************************************)
(* The conservation laws of TrafficCounters, for any finite set of         *)
(* requests and any interleaving with the sampler.                         *)
(***************************************************************************)
EXTENDS TrafficCounters, FiniteSetTheorems, TLAPS

(***************************************************************************)
(* Each law says that a counter equals the size of a set of requests.  To  *)
(* be inductive they need the two totals and the ring's head counted too,  *)
(* the sampler's locals known to be zero outside their steps, and the      *)
(* outcome of a request known to be set only once it has answered.         *)
(***************************************************************************)
Totals ==
  /\ total = Cardinality(Totalled)
  /\ errTotal = Cardinality(ErrTotals)
  /\ pushed = Cardinality(Pushed)

SamplerLocals ==
  /\ spc \in {"active", "requests"} => held.rps = 0
  /\ spc # "publish" => held.eps = 0

Outcomes ==
  \A r \in Requests :
    /\ pc[r] \in {"new", "running", "dropped"} => ~isError[r]
    /\ pc[r] \in {"errTick", "errTotal"} => isError[r]

CountersInv ==
  /\ TTypeOK
  /\ SamplerLocals
  /\ Outcomes
  /\ InFlightExact
  /\ RequestsConserved
  /\ ErrorsConserved
  /\ Totals

-----------------------------------------------------------------------------
\* Any set of requests is finite.
LEMMA SubsetFinite ==
  ASSUME NEW S \in SUBSET Requests
  PROVE  IsFiniteSet(S) /\ Cardinality(S) \in Nat
BY RequestsFinite, FS_Subset, FS_CardinalityType

LEMMA Grows ==
  ASSUME NEW S \in SUBSET Requests, NEW r \in Requests, r \notin S
  PROVE  Cardinality(S \cup {r}) = Cardinality(S) + 1
BY SubsetFinite, FS_AddElement

LEMMA Shrinks ==
  ASSUME NEW S \in SUBSET Requests, NEW r \in S
  PROVE  Cardinality(S \ {r}) = Cardinality(S) - 1
BY SubsetFinite, FS_RemoveElement

LEMMA CountsAreNat ==
  /\ Cardinality(Open) \in Nat
  /\ Cardinality(Ticked) \in Nat
  /\ Cardinality(ErrTicked) \in Nat
  /\ Cardinality(Totalled) \in Nat
  /\ Cardinality(ErrTotals) \in Nat
  /\ Cardinality(Pushed) \in Nat
<1>1. /\ Open \in SUBSET Requests /\ Ticked \in SUBSET Requests
      /\ ErrTicked \in SUBSET Requests /\ Totalled \in SUBSET Requests
      /\ ErrTotals \in SUBSET Requests /\ Pushed \in SUBSET Requests
  BY DEF Open, Ticked, ErrTicked, Totalled, ErrTotals, Pushed, At, Failed
<1> QED  BY <1>1, SubsetFinite

LEMMA CountersInit == TInit => CountersInv
<1> SUFFICES ASSUME TInit PROVE CountersInv
  OBVIOUS
<1>1. TTypeOK /\ SamplerLocals /\ Outcomes
  BY DEF TInit, TTypeOK, SamplerLocals, Outcomes, Stage, NoSample
<1>2. /\ Open = {} /\ Ticked = {} /\ ErrTicked = {}
      /\ Totalled = {} /\ ErrTotals = {} /\ Pushed = {}
  BY DEF TInit, Open, Ticked, ErrTicked, Totalled, ErrTotals, Pushed, At, Failed
<1>3. Cardinality({}) = 0
  BY FS_EmptySet
<1>4. InFlightExact /\ RequestsConserved /\ ErrorsConserved /\ Totals
  BY <1>2, <1>3 DEF TInit, InFlightExact, RequestsConserved, ErrorsConserved,
                    Totals, NoSample
<1> QED  BY <1>1, <1>4 DEF CountersInv

-----------------------------------------------------------------------------
\* Types, locals and outcomes need no counting.
LEMMA RequestTypes ==
  ASSUME CountersInv, NEW r \in Requests, Request(r)
  PROVE  TTypeOK' /\ SamplerLocals' /\ Outcomes'
<1> USE DEF CountersInv, TTypeOK, SamplerLocals, Outcomes, Stage, Move, sampler,
            counters
<1>1. CASE OnStart(r)
  BY <1>1 DEF OnStart
<1>2. CASE OnEndFlight(r)
  BY <1>2 DEF OnEndFlight
<1>3. CASE OnEndTick(r)
  BY <1>3 DEF OnEndTick
<1>4. CASE OnEndTotal(r)
  BY <1>4 DEF OnEndTotal
<1>5. CASE OnEndErrTick(r)
  BY <1>5 DEF OnEndErrTick
<1>6. CASE OnEndErrTotal(r)
  BY <1>6 DEF OnEndErrTotal
<1>7. CASE OnEndPush(r)
  BY <1>7 DEF OnEndPush
<1>8. CASE Drop(r)
  BY <1>8 DEF Drop
<1> QED  BY <1>1, <1>2, <1>3, <1>4, <1>5, <1>6, <1>7, <1>8 DEF Request

\* The sets a step leaves alone, and the one it adds the request to.
LEMMA RequestCounts ==
  ASSUME CountersInv, NEW r \in Requests, Request(r)
  PROVE  InFlightExact' /\ RequestsConserved' /\ ErrorsConserved' /\ Totals'
<1> USE DEF CountersInv, TTypeOK, Outcomes, Stage, Move, sampler, counters
<1>a. /\ Open \in SUBSET Requests /\ Ticked \in SUBSET Requests
      /\ ErrTicked \in SUBSET Requests /\ Totalled \in SUBSET Requests
      /\ ErrTotals \in SUBSET Requests /\ Pushed \in SUBSET Requests
  BY DEF Open, Ticked, ErrTicked, Totalled, ErrTotals, Pushed, At, Failed
<1>b. held.rps \in Nat /\ held.eps \in Nat
  OBVIOUS
<1>1. CASE OnStart(r)
  <2>1. Open' = Open \cup {r} /\ r \notin Open
    BY <1>1 DEF OnStart, Open, At
  <2>2. UNCHANGED <<Ticked, ErrTicked, Totalled, ErrTotals, Pushed>>
    BY <1>1 DEF OnStart, Ticked, ErrTicked, Totalled, ErrTotals, Pushed, At, Failed
  <2>3. Cardinality(Open') = Cardinality(Open) + 1
    BY <1>a, <2>1, Grows
  <2> QED  BY <1>1, <2>2, <2>3
           DEF OnStart, InFlightExact, RequestsConserved, ErrorsConserved, Totals
<1>2. CASE OnEndFlight(r)
  <2>1. Open' = Open \ {r} /\ r \in Open
    BY <1>2 DEF OnEndFlight, Open, At
  <2>2. UNCHANGED <<Ticked, Totalled, Pushed>>
    BY <1>2 DEF OnEndFlight, Ticked, Totalled, Pushed, At
  <2>3. UNCHANGED <<ErrTicked, ErrTotals>>
    BY <1>2 DEF OnEndFlight, ErrTicked, ErrTotals, At, Failed
  <2>4. Cardinality(Open') = Cardinality(Open) - 1
    BY <1>a, <2>1, Shrinks
  <2> QED  BY <1>2, <2>2, <2>3, <2>4
           DEF OnEndFlight, InFlightExact, RequestsConserved, ErrorsConserved, Totals
<1>3. CASE OnEndTick(r)
  <2>1. Ticked' = Ticked \cup {r} /\ r \notin Ticked
    BY <1>3 DEF OnEndTick, Ticked, At
  <2>2. UNCHANGED <<Open, ErrTicked, Totalled, ErrTotals, Pushed>>
    BY <1>3 DEF OnEndTick, Open, ErrTicked, Totalled, ErrTotals, Pushed, At, Failed
  <2>3. Cardinality(Ticked') = Cardinality(Ticked) + 1
    BY <1>a, <2>1, Grows
  <2> QED  BY <1>3, <1>b, <2>2, <2>3
           DEF OnEndTick, InFlightExact, RequestsConserved, ErrorsConserved, Totals
<1>4. CASE OnEndTotal(r)
  <2>1. Totalled' = Totalled \cup {r} /\ r \notin Totalled
    BY <1>4 DEF OnEndTotal, Totalled, At
  <2>2. UNCHANGED <<Open, Ticked, Pushed>>
    BY <1>4 DEF OnEndTotal, Open, Ticked, Pushed, At
  <2>3. UNCHANGED <<ErrTicked, ErrTotals>>
    BY <1>4 DEF OnEndTotal, ErrTicked, ErrTotals, At, Failed
  <2>4. Cardinality(Totalled') = Cardinality(Totalled) + 1
    BY <1>a, <2>1, Grows
  <2> QED  BY <1>4, <2>2, <2>3, <2>4
           DEF OnEndTotal, InFlightExact, RequestsConserved, ErrorsConserved, Totals
<1>5. CASE OnEndErrTick(r)
  <2>1. ErrTicked' = ErrTicked \cup {r} /\ r \notin ErrTicked
    BY <1>5 DEF OnEndErrTick, ErrTicked, At, Failed
  <2>2. UNCHANGED <<Open, Ticked, Totalled, ErrTotals, Pushed>>
    BY <1>5 DEF OnEndErrTick, Open, Ticked, Totalled, ErrTotals, Pushed, At, Failed
  <2>3. Cardinality(ErrTicked') = Cardinality(ErrTicked) + 1
    BY <1>a, <2>1, Grows
  <2> QED  BY <1>5, <1>b, <2>2, <2>3
           DEF OnEndErrTick, InFlightExact, RequestsConserved, ErrorsConserved, Totals
<1>6. CASE OnEndErrTotal(r)
  <2>1. ErrTotals' = ErrTotals \cup {r} /\ r \notin ErrTotals
    BY <1>6 DEF OnEndErrTotal, ErrTotals, At, Failed
  <2>2. UNCHANGED <<Open, Ticked, Totalled, ErrTicked, Pushed>>
    BY <1>6 DEF OnEndErrTotal, Open, Ticked, Totalled, ErrTicked, Pushed, At, Failed
  <2>3. Cardinality(ErrTotals') = Cardinality(ErrTotals) + 1
    BY <1>a, <2>1, Grows
  <2> QED  BY <1>6, <2>2, <2>3
           DEF OnEndErrTotal, InFlightExact, RequestsConserved, ErrorsConserved, Totals
<1>7. CASE OnEndPush(r)
  <2>1. Pushed' = Pushed \cup {r} /\ r \notin Pushed
    BY <1>7 DEF OnEndPush, Pushed, At
  <2>2. UNCHANGED <<Open, Ticked, Totalled, ErrTicked, ErrTotals>>
    BY <1>7 DEF OnEndPush, Open, Ticked, Totalled, ErrTicked, ErrTotals, At, Failed
  <2>3. Cardinality(Pushed') = Cardinality(Pushed) + 1
    BY <1>a, <2>1, Grows
  <2> QED  BY <1>7, <2>2, <2>3
           DEF OnEndPush, InFlightExact, RequestsConserved, ErrorsConserved, Totals
<1>8. CASE Drop(r)
  <2>1. UNCHANGED <<Open, Ticked, Totalled, ErrTicked, ErrTotals, Pushed>>
    BY <1>8 DEF Drop, Open, Ticked, Totalled, ErrTicked, ErrTotals, Pushed, At, Failed
  <2> QED  BY <1>8, <2>1
           DEF Drop, InFlightExact, RequestsConserved, ErrorsConserved, Totals
<1> QED  BY <1>1, <1>2, <1>3, <1>4, <1>5, <1>6, <1>7, <1>8 DEF Request

\* A step of the sampler moves amounts between counter, local and gauge.
LEMMA SamplerCounts ==
  ASSUME CountersInv, Sample
  PROVE  CountersInv'
<1>1. UNCHANGED reqVars
  BY DEF Sample, LoadActive, SwapRequests, SwapErrors, Publish
<1>2. UNCHANGED <<Open, Ticked, ErrTicked, Totalled, ErrTotals, Pushed>>
  BY <1>1 DEF reqVars, Open, Ticked, ErrTicked, Totalled, ErrTotals, Pushed, At, Failed
<1> USE DEF CountersInv, TTypeOK, SamplerLocals, Outcomes, InFlightExact,
            RequestsConserved, ErrorsConserved, Totals, reqVars, counters, NoSample
<1>3. CASE LoadActive
  BY <1>1, <1>2, <1>3 DEF LoadActive
<1>4. CASE SwapRequests
  BY <1>1, <1>2, <1>4 DEF SwapRequests
<1>5. CASE SwapErrors
  BY <1>1, <1>2, <1>5 DEF SwapErrors
<1>6. CASE Publish
  BY <1>1, <1>2, <1>6 DEF Publish
<1> QED  BY <1>3, <1>4, <1>5, <1>6 DEF Sample

LEMMA CountersStutter == CountersInv /\ UNCHANGED tvars => CountersInv'
<1> SUFFICES ASSUME CountersInv, UNCHANGED tvars PROVE CountersInv'
  OBVIOUS
<1>1. UNCHANGED <<Open, Ticked, ErrTicked, Totalled, ErrTotals, Pushed>>
  BY DEF tvars, reqVars, Open, Ticked, ErrTicked, Totalled, ErrTotals, Pushed, At, Failed
<1> QED  BY <1>1 DEF CountersInv, TTypeOK, SamplerLocals, Outcomes, InFlightExact,
                     RequestsConserved, ErrorsConserved, Totals, tvars, reqVars,
                     counters, sampler

LEMMA CountersInductive == TSafety => []CountersInv
<1>1. CountersInv /\ [TNext]_tvars => CountersInv'
  BY RequestTypes, RequestCounts, SamplerCounts, CountersStutter
     DEF TNext, CountersInv
<1> QED  BY CountersInit, <1>1, PTL DEF TSafety

\* Every counter has its type: none of the u64 ones wraps.
THEOREM CountersTypeCorrect == TSafety => []TTypeOK
<1>1. CountersInv => TTypeOK
  BY DEF CountersInv
<1> QED  BY <1>1, CountersInductive, PTL

\* The in-flight gauge counts the requests started and not ended, and so is
\* never negative.
THEOREM InFlight == TSafety => []InFlightExact
<1>1. CountersInv => InFlightExact
  BY DEF CountersInv
<1> QED  BY <1>1, CountersInductive, PTL

\* The sampler loses no request and counts none twice.
THEOREM RequestConservation == TSafety => []RequestsConserved
<1>1. CountersInv => RequestsConserved
  BY DEF CountersInv
<1> QED  BY <1>1, CountersInductive, PTL

\* The sampler loses no error and counts none twice.
THEOREM ErrorConservation == TSafety => []ErrorsConserved
<1>1. CountersInv => ErrorsConserved
  BY DEF CountersInv
<1> QED  BY <1>1, CountersInductive, PTL

\* A scrape never sees more errors than requests.
THEOREM ErrorBound == TSafety => []ErrorsWithinRequests
<1>1. CountersInv => ErrorsWithinRequests
  <2> SUFFICES ASSUME CountersInv PROVE ErrorsWithinRequests
    OBVIOUS
  <2>1. ErrTotals \subseteq Totalled /\ Pushed \subseteq Totalled
    BY DEF ErrTotals, Pushed, Totalled, At, Failed
  <2>2. Totalled \in SUBSET Requests
    BY DEF Totalled, At
  <2>3. IsFiniteSet(Totalled)
    BY <2>2, SubsetFinite
  <2>4. /\ Cardinality(ErrTotals) <= Cardinality(Totalled)
        /\ Cardinality(Pushed) <= Cardinality(Totalled)
    BY <2>1, <2>3, FS_Subset
  <2> QED  BY <2>4 DEF CountersInv, Totals, ErrorsWithinRequests
<1> QED  BY <1>1, CountersInductive, PTL
=============================================================================
