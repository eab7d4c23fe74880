--------------------------- MODULE TerminationMap ----------------------------
(***************************************************************************)
(* What the pod termination statuses of a DataStore amount to: for each    *)
(* pod the first report since its entry was last removed.                  *)
(***************************************************************************)
CONSTANT PodNames

VARIABLE recorded       \* per pod "none", or the first report

Reports == {"decommissioned", "failed"}

Init == recorded = [n \in PodNames |-> "none"]

Record(n, r) ==
    /\ recorded[n] = "none"
    /\ recorded' = [recorded EXCEPT ![n] = r]

Remove(n) == recorded' = [recorded EXCEPT ![n] = "none"]

Reset == recorded' = [n \in PodNames |-> "none"]

Next ==
    \/ \E n \in PodNames, r \in Reports : Record(n, r)
    \/ \E n \in PodNames : Remove(n)
    \/ Reset

Spec == Init /\ [][Next]_recorded

=============================================================================
