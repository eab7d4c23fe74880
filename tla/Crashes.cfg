SPECIFICATION FairSpec
CONSTANTS
    Workers = {w1}
    MaxReplicas = 1
    Requests = {0, 1}
    Nil = Nil
    MaxLag = 1
    SlowStart = TRUE
    MaxEdits = 1
    MaxFaults = 1
    MaxCrashes = 1
    MaxKills = 0
INVARIANTS NoNilDereference RestIsDone
PROPERTIES FinishHasEvidence AttemptsEnd 
