--------------------------- MODULE DataStoreObject ---------------------------
(***************************************************************************)
(* The DataStore, the StatefulSet of the same name, and what syncHandler   *)
(* reads off a copy of each: types.go and the conditions and updates of    *)
(* controller.go that look at nothing else.                                *)
(***************************************************************************)
EXTENDS Integers, Sequences, TerminationStatus

CONSTANTS
    MaxReplicas,   \* bound on the replicas a user asks for
    Requests,      \* the values of spec.replicas a user may write
    Nil            \* a nil *int32, and an object that does not exist

ASSUME ReplicasAssumption == MaxReplicas \in Nat
ASSUME NilAssumption == Nil \notin Int
ASSUME RequestsAssumption == Requests \subseteq (0 .. MaxReplicas) \cup {Nil}
ASSUME DefaultAssumption == Nil \in Requests => MaxReplicas >= 1

-----------------------------------------------------------------------------
(* The objects. *)

Count == 0 .. MaxReplicas
Ordinal == 0 .. MaxReplicas - 1                 \* the pods' instance numbers

\* The API server's default for a StatefulSet without spec.replicas, and the
\* sizes that a StatefulSet can thus be asked to have.
Defaulted(replicas) == IF replicas = Nil THEN 1 ELSE replicas
Size == {Defaulted(r) : r \in Requests}

DataStoreStatus ==
    [replicas : Count \cup {Nil}, readyReplicas : Count \cup {Nil},
     scalingDown : BOOLEAN, restartScaling : BOOLEAN,
     initialReplicas : Size \cup {Nil}, finalReplicas : Size \cup {Nil},
     podTerminationStatuses : Seq(TerminationEntry(Ordinal))]
DataStore == [spec : Requests, status : DataStoreStatus]

Counts == [replicas : Count, readyReplicas : Count]
StatefulSet == [spec : Size, counts : Counts]

ASSUME NoStatefulSetAssumption == Nil \notin StatefulSet

NoStatus ==
    [replicas |-> Nil, readyReplicas |-> Nil,
     scalingDown |-> FALSE, restartScaling |-> FALSE,
     initialReplicas |-> Nil, finalReplicas |-> Nil,
     podTerminationStatuses |-> << >>]

-----------------------------------------------------------------------------
(* Conditions on a copy d of the DataStore. *)

\* The three branches of syncHandler are those of an else-if chain: it comes to
\* ask for RestartScaling only of a copy that is not ScalingDown.  Both flags are
\* set from the second start of an attempt on, and the first one then decides.
Steady(d) == ~d.status.scalingDown /\ ~d.status.restartScaling
Restarting(d) == ~d.status.scalingDown /\ d.status.restartScaling
Attempting(d) == d.status.scalingDown \/ d.status.restartScaling

\* The pointers that syncHandler dereferences without a check when it finds
\* ScalingDown or RestartScaling set.
PointersSet(d) ==
    Attempting(d) => Nil \notin {d.status.replicas, d.status.readyReplicas,
                                 d.status.initialReplicas,
                                 d.status.finalReplicas}

\* The pods whose reports the end of a scale-down looks for.
LeavingPods(d) == {i \in Ordinal : /\ i >= d.status.finalReplicas
                                   /\ i < d.status.initialReplicas}

AllDecommissioned(d) ==
    \A i \in LeavingPods(d) :
        \E e \in GetPodTerminationStatus(d.status.podTerminationStatuses, i) :
            e.decommissioned

-----------------------------------------------------------------------------
(* The updates of the DataStore. *)

WithCounts(d, counts) ==
    [d EXCEPT !.status.replicas = counts.replicas,
              !.status.readyReplicas = counts.readyReplicas]

\* A final size that is the last ordinal to stay.
ScalingDownToOrdinal(d, initial) ==
    [d EXCEPT !.status.scalingDown = TRUE,
              !.status.initialReplicas = initial,
              !.status.finalReplicas = d.spec - 1]

\* A final size that is left for later.
ScalingDownUntargeted(d, initial) ==
    [d EXCEPT !.status.scalingDown = TRUE,
              !.status.initialReplicas = initial]

ScalingDown(d, initial) ==
    [d EXCEPT !.status.scalingDown = TRUE,
              !.status.initialReplicas = initial,
              !.status.finalReplicas = d.spec]

\* An end that leaves the restart flag set.
FinishedStillRestarting(d) ==
    [d EXCEPT !.status.podTerminationStatuses = << >>,
              !.status.scalingDown = FALSE,
              !.status.initialReplicas = d.status.finalReplicas]

Finished(d) ==
    [d EXCEPT !.status.podTerminationStatuses = << >>,
              !.status.scalingDown = FALSE,
              !.status.restartScaling = FALSE,
              !.status.initialReplicas = d.status.finalReplicas]

Restarted(d) ==
    [d EXCEPT !.status.podTerminationStatuses = << >>,
              !.status.scalingDown = FALSE,
              !.status.restartScaling = TRUE]

Reported(d, report) ==
    [d EXCEPT !.status.podTerminationStatuses =
        SetPodTerminationStatus(@, report.pod, report.decommissioned)]

=============================================================================
