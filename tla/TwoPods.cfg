SPECIFICATION Spec
CONSTANTS
    Workers = {w1}
    MaxReplicas = 2
    Requests = {0, 2}
    Nil = Nil
    MaxLag = 1
    SlowStart = FALSE
    MaxEdits = 1
    MaxFaults = 0
    MaxCrashes = 0
    MaxKills = 1
VIEW View
INVARIANTS TypeOK NoNilDereference
PROPERTIES FinishHasEvidence ReportsKept RestartWaits
