------------------------------ MODULE MCOverlaps ------------------------------
(* The controller's model with several workers, on an instance small enough for *)
(* its liveness: a worker begins an item beside another one's only so often.    *)
EXTENDS DatastoreController

CONSTANT MaxOverlaps     \* bound on the items begun beside another one

VARIABLE overlaps        \* how many were

Begins(w) == job[w].pc = "idle" /\ job'[w].pc # "idle"

BeginsBeside ==
    \E w \in Workers :
        Begins(w) /\ \E v \in Workers \ {w} : job[v].pc # "idle"

OverlapInit == Init /\ overlaps = 0

OverlapNext ==
    /\ Next
    /\ overlaps' = overlaps + (IF BeginsBeside THEN 1 ELSE 0)
    /\ overlaps' <= MaxOverlaps

OverlapSpec ==
    OverlapInit /\ [][OverlapNext]_<<vars, overlaps>> /\ Fairness
=============================================================================
