SPECIFICATION Spec
CONSTANTS
    Workers = {w1}
    MaxReplicas = 1
    Requests = {0, 1, Nil}
    Nil = Nil
    MaxLag = 2
    SlowStart = FALSE
    MaxEdits = 2
    MaxFaults = 1
    MaxCrashes = 0
    MaxKills = 0
VIEW View
INVARIANT RestartRaises
PROPERTY ImplementsProtocol
