SPECIFICATION Spec
CONSTANTS
    Workers = {w1, w2}
    Nil = Nil
    Foreign = Foreign
    MaxUids = 2
    MaxLag = 1
    MaxIncidents = 1
    MaxFaults = 1
INVARIANTS TypeOK NoLostWakeup
PROPERTIES EventsSuffice ResyncRepairs NothingLeftBehind
CHECK_DEADLOCK FALSE
