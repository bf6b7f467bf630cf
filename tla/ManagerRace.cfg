\* Two tasks, start() racing shutdown(): Stopped over live tasks.
CONSTANT Callers = {c1, c2}
SPECIFICATION Spec
INVARIANT StoppedIsTrueAtRest
