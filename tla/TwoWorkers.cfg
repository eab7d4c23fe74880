SPECIFICATION Spec
CONSTANTS
    Workers = {w1, w2}
    MaxReplicas = 1
    Requests = {0, 1}
    Nil = Nil
    MaxLag = 1
    SlowStart = FALSE
    MaxEdits = 1
    MaxFaults = 1
    MaxCrashes = 0
    MaxKills = 0
VIEW View
SYMMETRY WorkerSymmetry
INVARIANT OneReportPerPod
PROPERTIES SpecOwnedByUser ImplementsProtocol ReportsKept
