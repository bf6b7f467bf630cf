\* A request whose future is dropped.
CONSTANT Requests = {r1, r2}
SPECIFICATION TSafety
INVARIANT EveryRequestRecorded
