-------------------------- MODULE ScaleDownProtocol --------------------------
(***************************************************************************)
(* What the controller promises of a DataStore: the object goes through a  *)
(* scale-down in transactions, each decided on the very version that it    *)
(* replaces.  There are no workers, caches, StatefulSets or pods here.     *)
(***************************************************************************)
EXTENDS DataStoreObject

VARIABLE store      \* the DataStore

Report == [pod : Ordinal, decommissioned : BOOLEAN]

Init == \E r \in Requests : store = [spec |-> r, status |-> NoStatus]

\* The user asks for another size, at any time.
Edit == \E r \in Requests : store' = [store EXCEPT !.spec = r]

\* The StatefulSet's counts are copied.
Mirror == \E c \in Counts : store' = WithCounts(store, c)

\* A scale-down to the size the user asks for is under way.  The first one
\* leads to a smaller size; one that replaces another may lead anywhere, but
\* begins at a size that is not the other's target; one that was restarted
\* begins at its first size again, when all the pods of that size are ready.
Start ==
    /\ store.spec # Nil
    /\ \E initial \in Size, c \in Counts :
         /\ Steady(store) => store.spec < initial
         /\ store.status.scalingDown => initial # store.status.finalReplicas
         /\ Restarting(store) => /\ initial = store.status.initialReplicas
                                 /\ initial = store.status.readyReplicas
         /\ store' = WithCounts(ScalingDown(store, initial), c)

\* A deleted pod is reported.
Save == \E r \in Report : store' = Reported(store, r)

\* All the pods that had to leave were decommissioned.
Finish ==
    /\ store.status.scalingDown
    /\ AllDecommissioned(store)
    /\ \E c \in Counts : store' = WithCounts(Finished(store), c)

\* Some pod was not, and the StatefulSet has its first size again.
Restart ==
    /\ \/ store.status.scalingDown /\ ~AllDecommissioned(store)
       \/ Restarting(store)
    /\ \E c \in Counts : store' = WithCounts(Restarted(store), c)

Next == Edit \/ Mirror \/ Start \/ Save \/ Finish \/ Restart

Spec == Init /\ [][Next]_store

-----------------------------------------------------------------------------
(* Properties. *)

\* The DataStore is well formed: sizes are sizes that a user asked for, and
\* the counts are in range.
TypeOK == store \in DataStore

\* syncHandler dereferences the four pointers of the status without a check
\* when ScalingDown or RestartScaling is set: they are set as well.
NoNilStatus == PointersSet(store)

\* syncHandler restarts a scale-down at the initial size only when some pod
\* between the final and the initial size is not reported as decommissioned:
\* a restart always raises the size.
RestartRaises ==
    Restarting(store) =>
        store.status.initialReplicas > store.status.finalReplicas

\* SetPodTerminationStatus adds no second entry for a pod.
OneReportPerPod ==
    \A i \in Ordinal :
        \A j, k \in EntriesOf(store.status.podTerminationStatuses, i) : j = k

\* A pod's report, once saved, is neither lost nor changed before the attempt
\* is finished or restarted.
ReportsKept ==
    [][LET reports == store.status.podTerminationStatuses
       IN  \/ IsPrefix(reports, reports')
           \/ Attempting(store) /\ reports' = << >>]_store

=============================================================================
