SPECIFICATION Spec
CONSTANTS
    Workers = {w1, w2}
    MaxPending = 2
INVARIANTS TypeOK WorkOnSyncedCaches NoInformerLeftOut RunsUntilStopped
PROPERTIES WorkersStart EverySenderServed StopEnds
CHECK_DEADLOCK FALSE
