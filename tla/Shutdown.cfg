SPECIFICATION Spec
CONSTANTS
    Workers = {w1, w2}
    MaxPending = 1
INVARIANT WaitsForWorkers
CHECK_DEADLOCK FALSE
