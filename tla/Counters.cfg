CONSTANT Requests = {r1, r2, r3}
CONSTANT Capacity = 2
CONSTANT MaxSamples = 101
CONSTANT Latencies = {0, 1}
SPECIFICATION LSpec
INVARIANT TTypeOK
INVARIANT InFlightExact
INVARIANT RequestsConserved
INVARIANT ErrorsConserved
INVARIANT ErrorsWithinRequests
INVARIANT RingIsWindow
INVARIANT P99WithinOneRank
PROPERTY AllPublished
