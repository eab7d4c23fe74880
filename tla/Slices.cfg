SPECIFICATION MemSpec
CONSTANTS
    PodNames = {p0, p1}
    Workers = {w1, w2}
    Objects = {1, 2, 3, 4, 5}
    Sizes = {0}
    Nil = Nil
    Spare = 1
SYMMETRY MemSymmetry
VIEW InUse
INVARIANT OneEntryPerPod
PROPERTIES FirstReportsKept CacheReadOnly CopiesAreLists CountsFromOwnRead
