SPECIFICATION Spec
CONSTANTS
    Workers = {w1}
    MaxReplicas = 1
    Requests = {0, 1}
    Nil = Nil
    MaxLag = 1
    SlowStart = FALSE
    MaxEdits = 2
    MaxFaults = 0
    MaxCrashes = 0
    MaxKills = 0
PROPERTY SavedStatusReported
