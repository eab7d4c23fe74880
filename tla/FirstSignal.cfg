SPECIFICATION Spec
CONSTANTS
    Workers = {w1, w2}
    MaxPending = 1
INVARIANT FirstSignalGraceful
CHECK_DEADLOCK FALSE
