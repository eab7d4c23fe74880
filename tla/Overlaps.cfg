SPECIFICATION OverlapSpec
CONSTANTS
    Workers = {w1, w2}
    MaxOverlaps = 1
    MaxReplicas = 1
    Requests = {0, 1}
    Nil = Nil
    MaxLag = 1
    SlowStart = FALSE
    MaxEdits = 1
    MaxFaults = 0
    MaxCrashes = 0
    MaxKills = 0
INVARIANT RestIsDone
PROPERTIES AttemptsEnd 
