--------------------------- MODULE TerminationList ---------------------------
(***************************************************************************)
(* DataStoreStatus.PodTerminationStatuses as the controller uses it: every *)
(* deleted pod is Set, FinishScalingDown Removes the pods that left, and   *)
(* the end of an attempt replaces the list by an empty one.                *)
(***************************************************************************)
EXTENDS TerminationStatus

CONSTANT PodNames

VARIABLE PodTerminationStatuses

Init == PodTerminationStatuses = << >>

SetStatus(name, decommissioned) ==
    PodTerminationStatuses' =
        SetPodTerminationStatus(PodTerminationStatuses, name, decommissioned)

RemoveStatus(name) ==
    PodTerminationStatuses' =
        RemovePodTerminationStatus(PodTerminationStatuses, name)

ResetStatuses == PodTerminationStatuses' = << >>

Next ==
    \/ \E name \in PodNames, decommissioned \in BOOLEAN :
          SetStatus(name, decommissioned)
    \/ \E name \in PodNames : RemoveStatus(name)
    \/ ResetStatuses

Spec == Init /\ [][Next]_PodTerminationStatuses

-----------------------------------------------------------------------------
(* Properties. *)

TypeOK == PodTerminationStatuses \in Seq(TerminationEntry(PodNames))

\* Remove deletes the first entry of a pod only, and Get reads the first one:
\* that is all there is, for Set never makes a second entry.
OneEntryPerPod ==
    \A name \in PodNames :
        \A j, k \in EntriesOf(PodTerminationStatuses, name) : j = k

\* The report that GetPodTerminationStatus returns for a pod.
ReportOf(name) ==
    LET entry == GetPodTerminationStatus(PodTerminationStatuses, name)
    IN  IF entry = {} THEN "none"
        ELSE IF \E e \in entry : e.decommissioned THEN "decommissioned"
        ELSE "failed"

\* The list behaves as the map of the first reports: Set, Get and Remove of
\* one pod do not disturb those of another, whatever was appended or cut out
\* before.
Map == INSTANCE TerminationMap
           WITH recorded <- [name \in PodNames |-> ReportOf(name)]
FirstReportsKept == Map!Spec

=============================================================================
