------------------------ MODULE DataStoreObjectProofs ------------------------
(***************************************************************************)
(* Lemmas about the DataStore and the updates the controller makes of it,  *)
(* on which the proofs about the protocol and the controller rest.         *)
(***************************************************************************)
EXTENDS DataStoreObject, TerminationStatusProofs

\* The sizes of a StatefulSet are counts, and a request that is not nil is one
\* of them.
LEMMA Sizes ==
    /\ Size \subseteq Count
    /\ Nil \notin Count
    /\ \A r \in Requests : Defaulted(r) \in Size
    /\ \A r \in Requests : r # Nil => r \in Size
BY ReplicasAssumption, NilAssumption, RequestsAssumption, DefaultAssumption
   DEF Size, Count, Defaulted

\* The updates of the DataStore keep it well formed.
LEMMA WithCountsType ==
    ASSUME NEW d \in DataStore, NEW c \in Counts
    PROVE  WithCounts(d, c) \in DataStore
BY DEF WithCounts, DataStore, DataStoreStatus, Counts

LEMMA ScalingDownType ==
    ASSUME NEW d \in DataStore, NEW initial \in Size, d.spec # Nil
    PROVE  ScalingDown(d, initial) \in DataStore
BY Sizes DEF ScalingDown, DataStore, DataStoreStatus

LEMMA FinishedType ==
    ASSUME NEW d \in DataStore
    PROVE  Finished(d) \in DataStore
BY EmptySeq DEF Finished, DataStore, DataStoreStatus

LEMMA RestartedType ==
    ASSUME NEW d \in DataStore
    PROVE  Restarted(d) \in DataStore
BY EmptySeq DEF Restarted, DataStore, DataStoreStatus

LEMMA ReportedType ==
    ASSUME NEW d \in DataStore, NEW i \in Ordinal, NEW b \in BOOLEAN
    PROVE  Reported(d, [pod |-> i, decommissioned |-> b]) \in DataStore
<1>1. d.status.podTerminationStatuses \in Seq(TerminationEntry(Ordinal))
  BY DEF DataStore, DataStoreStatus
<1>2. SetPodTerminationStatus(d.status.podTerminationStatuses, i, b)
          \in Seq(TerminationEntry(Ordinal))
  BY <1>1, SetType DEF Lists
<1> QED  BY <1>2 DEF Reported, DataStore, DataStoreStatus

LEMMA NoStatusType ==
    ASSUME NEW r \in Requests
    PROVE  [spec |-> r, status |-> NoStatus] \in DataStore
BY EmptySeq DEF NoStatus, DataStore, DataStoreStatus

\* What the updates do to the fields that the properties look at.
LEMMA WithCountsFields ==
    ASSUME NEW d \in DataStore, NEW c \in Counts
    PROVE  LET e == WithCounts(d, c)
           IN  /\ e.spec = d.spec
               /\ e.status.replicas # Nil /\ e.status.readyReplicas # Nil
               /\ e.status.scalingDown = d.status.scalingDown
               /\ e.status.restartScaling = d.status.restartScaling
               /\ e.status.initialReplicas = d.status.initialReplicas
               /\ e.status.finalReplicas = d.status.finalReplicas
               /\ e.status.podTerminationStatuses
                    = d.status.podTerminationStatuses
BY Sizes DEF WithCounts, DataStore, DataStoreStatus, Counts

LEMMA ScalingDownFields ==
    ASSUME NEW d \in DataStore, NEW initial
    PROVE  LET e == ScalingDown(d, initial)
           IN  /\ e.spec = d.spec
               /\ e.status.scalingDown = TRUE
               /\ e.status.initialReplicas = initial
               /\ e.status.finalReplicas = d.spec
               /\ e.status.podTerminationStatuses
                    = d.status.podTerminationStatuses
BY DEF ScalingDown, DataStore, DataStoreStatus

LEMMA FinishedFields ==
    ASSUME NEW d \in DataStore
    PROVE  LET e == Finished(d)
           IN  /\ e.spec = d.spec
               /\ e.status.scalingDown = FALSE
               /\ e.status.restartScaling = FALSE
               /\ e.status.podTerminationStatuses = << >>
BY DEF Finished, DataStore, DataStoreStatus

LEMMA RestartedFields ==
    ASSUME NEW d \in DataStore
    PROVE  LET e == Restarted(d)
           IN  /\ e.spec = d.spec
               /\ e.status.scalingDown = FALSE
               /\ e.status.restartScaling = TRUE
               /\ e.status.initialReplicas = d.status.initialReplicas
               /\ e.status.finalReplicas = d.status.finalReplicas
               /\ e.status.podTerminationStatuses = << >>
BY DEF Restarted, DataStore, DataStoreStatus

LEMMA ReportedFields ==
    ASSUME NEW d \in DataStore, NEW report
    PROVE  LET e == Reported(d, report)
           IN  /\ e.spec = d.spec
               /\ e.status.replicas = d.status.replicas
               /\ e.status.readyReplicas = d.status.readyReplicas
               /\ e.status.scalingDown = d.status.scalingDown
               /\ e.status.restartScaling = d.status.restartScaling
               /\ e.status.initialReplicas = d.status.initialReplicas
               /\ e.status.finalReplicas = d.status.finalReplicas
               /\ e.status.podTerminationStatuses
                    = SetPodTerminationStatus(d.status.podTerminationStatuses,
                                              report.pod, report.decommissioned)
BY DEF Reported, DataStore, DataStoreStatus

\* Some leaving pod is not reported as decommissioned: there is one.
LEMMA SomeLeave ==
    ASSUME NEW d \in DataStore, PointersSet(d), Attempting(d),
           ~AllDecommissioned(d)
    PROVE  d.status.initialReplicas > d.status.finalReplicas
<1>1. PICK i \in Ordinal : /\ i >= d.status.finalReplicas
                           /\ i < d.status.initialReplicas
  BY DEF AllDecommissioned, LeavingPods
<1>2. d.status.finalReplicas # Nil /\ d.status.initialReplicas # Nil
  BY DEF PointersSet
<1>3. d.status.finalReplicas \in Size /\ d.status.initialReplicas \in Size
  BY <1>2 DEF DataStore, DataStoreStatus
<1>4. d.status.finalReplicas \in Nat /\ d.status.initialReplicas \in Nat
  <2>1. Size \subseteq Nat
    BY Sizes, ReplicasAssumption DEF Count
  <2> QED  BY <1>3, <2>1
<1>5. i \in Int
  BY ReplicasAssumption DEF Ordinal
<1>6. \A a, b, c \in Int : c >= a /\ c < b => b > a
  OBVIOUS
<1> QED  BY <1>1, <1>4, <1>5, <1>6

-----------------------------------------------------------------------------
(* The DataStores on which a sync cannot go wrong: the pointers it           *)
(* dereferences are set, and a restart leads to a larger size.  Every        *)
(* transaction leads from one of them to another.                            *)

Raises(d) ==
    Restarting(d) => d.status.initialReplicas > d.status.finalReplicas

SoundDataStore == {d \in DataStore : PointersSet(d) /\ Raises(d)}

MayStart(d, initial) ==
    /\ Steady(d) => d.spec < initial
    /\ d.status.scalingDown => initial # d.status.finalReplicas
    /\ Restarting(d) => /\ initial = d.status.initialReplicas
                        /\ initial = d.status.readyReplicas

MayRestart(d) ==
    \/ d.status.scalingDown /\ ~AllDecommissioned(d)
    \/ Restarting(d)

LEMMA SoundInitially ==
    ASSUME NEW r \in Requests
    PROVE  [spec |-> r, status |-> NoStatus] \in SoundDataStore
BY NoStatusType
   DEF SoundDataStore, PointersSet, Raises, Attempting, Restarting, NoStatus

LEMMA SoundEdit ==
    ASSUME NEW d \in SoundDataStore, NEW r \in Requests
    PROVE  /\ [d EXCEPT !.spec = r] \in SoundDataStore
           /\ [d EXCEPT !.spec = r].spec = r
           /\ [d EXCEPT !.spec = r].status = d.status
<1> DEFINE e == [d EXCEPT !.spec = r]
<1>1. e \in DataStore /\ e.status = d.status /\ e.spec = r
  BY DEF SoundDataStore, DataStore
<1> QED
  BY <1>1 DEF SoundDataStore, PointersSet, Raises, Attempting, Restarting

LEMMA SoundMirror ==
    ASSUME NEW d \in SoundDataStore, NEW c \in Counts
    PROVE  /\ WithCounts(d, c) \in SoundDataStore
           /\ WithCounts(d, c).spec = d.spec
           /\ Attempting(d) => Attempting(WithCounts(d, c))
<1>1. d \in DataStore
  BY DEF SoundDataStore
<1>2. WithCounts(d, c) \in DataStore
  BY <1>1, WithCountsType
<1> QED
  BY <1>1, <1>2, WithCountsFields
     DEF SoundDataStore, PointersSet, Raises, Attempting, Restarting

LEMMA SoundStart ==
    ASSUME NEW d \in SoundDataStore, NEW initial \in Size, d.spec # Nil,
           NEW c \in Counts
    PROVE  /\ WithCounts(ScalingDown(d, initial), c) \in SoundDataStore
           /\ WithCounts(ScalingDown(d, initial), c).spec = d.spec
           /\ Attempting(WithCounts(ScalingDown(d, initial), c))
<1> DEFINE e == ScalingDown(d, initial)
<1>1. d \in DataStore
  BY DEF SoundDataStore
<1>2. e \in DataStore
  BY <1>1, ScalingDownType
<1>3. /\ e.spec = d.spec /\ e.status.scalingDown = TRUE
      /\ e.status.initialReplicas = initial
      /\ e.status.finalReplicas = d.spec
  BY <1>1, ScalingDownFields
<1> HIDE DEF e
<1>4. WithCounts(e, c) \in DataStore
  BY <1>2, WithCountsType
<1>5. WithCounts(e, c) \in SoundDataStore /\ WithCounts(e, c).spec = d.spec
  BY <1>2, <1>3, <1>4, WithCountsFields, Sizes
     DEF SoundDataStore, PointersSet, Raises, Restarting
<1>6. Attempting(WithCounts(e, c))
  BY <1>2, <1>3, WithCountsFields DEF Attempting
<1> QED  BY <1>5, <1>6 DEF e

LEMMA SoundFinish ==
    ASSUME NEW d \in SoundDataStore, NEW c \in Counts
    PROVE  /\ WithCounts(Finished(d), c) \in SoundDataStore
           /\ WithCounts(Finished(d), c).spec = d.spec
<1> DEFINE e == Finished(d)
<1>1. d \in DataStore
  BY DEF SoundDataStore
<1>2. e \in DataStore
  BY <1>1, FinishedType
<1>3. /\ e.spec = d.spec /\ e.status.scalingDown = FALSE
      /\ e.status.restartScaling = FALSE
  BY <1>1, FinishedFields
<1> HIDE DEF e
<1>4. WithCounts(e, c) \in DataStore
  BY <1>2, WithCountsType
<1>5. WithCounts(e, c) \in SoundDataStore /\ WithCounts(e, c).spec = d.spec
  BY <1>2, <1>3, <1>4, WithCountsFields
     DEF SoundDataStore, PointersSet, Raises, Attempting, Restarting
<1> QED  BY <1>5 DEF e

LEMMA SoundRestart ==
    ASSUME NEW d \in SoundDataStore, MayRestart(d), NEW c \in Counts
    PROVE  /\ WithCounts(Restarted(d), c) \in SoundDataStore
           /\ WithCounts(Restarted(d), c).spec = d.spec
           /\ Attempting(WithCounts(Restarted(d), c))
           /\ d.status.initialReplicas > d.status.finalReplicas
           /\ d.status.initialReplicas \in Size
<1> DEFINE e == Restarted(d)
<1>1. d \in DataStore
  BY DEF SoundDataStore
<1>2. e \in DataStore
  BY <1>1, RestartedType
<1>3. /\ e.spec = d.spec /\ e.status.restartScaling = TRUE
      /\ e.status.initialReplicas = d.status.initialReplicas
      /\ e.status.finalReplicas = d.status.finalReplicas
  BY <1>1, RestartedFields
<1>4. Attempting(d)
  BY DEF MayRestart, Attempting, Restarting
<1>5. d.status.initialReplicas # Nil /\ d.status.finalReplicas # Nil
  BY <1>4 DEF SoundDataStore, PointersSet
<1>6. d.status.initialReplicas > d.status.finalReplicas
  <2>1. CASE Restarting(d)
    BY <2>1 DEF SoundDataStore, Raises
  <2>2. CASE ~AllDecommissioned(d)
    BY <1>1, <1>4, <2>2, SomeLeave DEF SoundDataStore
  <2> QED  BY <2>1, <2>2 DEF MayRestart
<1> HIDE DEF e
<1>7. WithCounts(e, c) \in DataStore
  BY <1>2, WithCountsType
<1>8. WithCounts(e, c) \in SoundDataStore /\ WithCounts(e, c).spec = d.spec
  BY <1>2, <1>3, <1>5, <1>6, <1>7, WithCountsFields
     DEF SoundDataStore, PointersSet, Raises
<1>9. d.status.initialReplicas \in Size
  BY <1>1, <1>5 DEF DataStore, DataStoreStatus
<1>10. Attempting(WithCounts(e, c))
  BY <1>2, <1>3, WithCountsFields DEF Attempting
<1> QED  BY <1>6, <1>8, <1>9, <1>10 DEF e

LEMMA SoundReport ==
    ASSUME NEW d \in SoundDataStore,
           NEW r \in [pod : Ordinal, decommissioned : BOOLEAN]
    PROVE  /\ Reported(d, r) \in SoundDataStore
           /\ Reported(d, r).spec = d.spec
           /\ Attempting(d) => Attempting(Reported(d, r))
<1>1. d \in DataStore
  BY DEF SoundDataStore
<1>2. Reported(d, r) \in DataStore
  <2>1. r = [pod |-> r.pod, decommissioned |-> r.decommissioned]
    OBVIOUS
  <2> QED  BY <1>1, <2>1, ReportedType
<1> QED
  BY <1>1, <1>2, ReportedFields
     DEF SoundDataStore, PointersSet, Raises, Attempting, Restarting

\* Nothing but a start makes a DataStore one that is scaling down.
LEMMA OnlyStartScalesDown ==
    ASSUME NEW d \in DataStore, ~d.status.scalingDown
    PROVE  /\ \A r \in Requests : ~[d EXCEPT !.spec = r].status.scalingDown
           /\ \A c \in Counts :
                /\ ~WithCounts(d, c).status.scalingDown
                /\ ~WithCounts(Finished(d), c).status.scalingDown
                /\ ~WithCounts(Restarted(d), c).status.scalingDown
           /\ \A r \in [pod : Ordinal, decommissioned : BOOLEAN] :
                ~Reported(d, r).status.scalingDown
           /\ \A initial \in Size, c \in Counts :
                d.spec # Nil =>
                  WithCounts(ScalingDown(d, initial), c).status.initialReplicas
                    = initial
<1>1. \A r \in Requests : ~[d EXCEPT !.spec = r].status.scalingDown
  BY DEF DataStore
<1>2. ASSUME NEW c \in Counts
      PROVE  /\ ~WithCounts(d, c).status.scalingDown
             /\ ~WithCounts(Finished(d), c).status.scalingDown
             /\ ~WithCounts(Restarted(d), c).status.scalingDown
  <2>1. ~WithCounts(d, c).status.scalingDown
    BY WithCountsFields
  <2>2. ~WithCounts(Finished(d), c).status.scalingDown
    BY FinishedType, FinishedFields, WithCountsFields
  <2>3. ~WithCounts(Restarted(d), c).status.scalingDown
    BY RestartedType, RestartedFields, WithCountsFields
  <2> QED  BY <2>1, <2>2, <2>3
<1>3. ASSUME NEW initial \in Size, NEW c \in Counts, d.spec # Nil
      PROVE  WithCounts(ScalingDown(d, initial), c).status.initialReplicas
               = initial
  <2> DEFINE e == ScalingDown(d, initial)
  <2>1. e \in DataStore /\ e.status.initialReplicas = initial
    BY <1>3, ScalingDownType, ScalingDownFields
  <2> HIDE DEF e
  <2>2. WithCounts(e, c).status.initialReplicas = initial
    BY <2>1, WithCountsFields
  <2> QED  BY <2>2 DEF e
<1>4. \A r \in [pod : Ordinal, decommissioned : BOOLEAN] :
        ~Reported(d, r).status.scalingDown
  BY ReportedFields
<1> QED  BY <1>1, <1>2, <1>3, <1>4

-----------------------------------------------------------------------------
(* The reports. *)

ReportsOf(d) == d.status.podTerminationStatuses

\* What the updates do to the list of reports: none but a report changes it,
\* and none but the end of an attempt empties it.
LEMMA ReportsChange ==
    ASSUME NEW d \in DataStore
    PROVE  /\ ReportsOf(d) \in Lists(Ordinal)
           /\ \A c \in Counts :
                /\ ReportsOf(WithCounts(d, c)) = ReportsOf(d)
                /\ ReportsOf(WithCounts(Finished(d), c)) = << >>
                /\ ReportsOf(WithCounts(Restarted(d), c)) = << >>
           /\ \A initial \in Size, c \in Counts :
                d.spec # Nil =>
                  ReportsOf(WithCounts(ScalingDown(d, initial), c)) = ReportsOf(d)
           /\ \A r \in [pod : Ordinal, decommissioned : BOOLEAN] :
                /\ r.pod \in Ordinal /\ r.decommissioned \in BOOLEAN
                /\ ReportsOf(Reported(d, r)) =
                     SetPodTerminationStatus(ReportsOf(d), r.pod,
                                             r.decommissioned)
<1> USE DEF ReportsOf
<1>1. ReportsOf(d) \in Lists(Ordinal)
  BY DEF Lists, DataStore, DataStoreStatus
<1>2. ASSUME NEW c \in Counts
      PROVE  /\ ReportsOf(WithCounts(d, c)) = ReportsOf(d)
             /\ ReportsOf(WithCounts(Finished(d), c)) = << >>
             /\ ReportsOf(WithCounts(Restarted(d), c)) = << >>
  <2>1. ReportsOf(WithCounts(d, c)) = ReportsOf(d)
    BY WithCountsFields
  <2>2. ReportsOf(WithCounts(Finished(d), c)) = ReportsOf(Finished(d))
    BY FinishedType, WithCountsFields
  <2>3. ReportsOf(WithCounts(Restarted(d), c)) = ReportsOf(Restarted(d))
    BY RestartedType, WithCountsFields
  <2> QED  BY <2>1, <2>2, <2>3, FinishedFields, RestartedFields
<1>3. ASSUME NEW initial \in Size, NEW c \in Counts, d.spec # Nil
      PROVE  ReportsOf(WithCounts(ScalingDown(d, initial), c)) = ReportsOf(d)
  <2>1. ScalingDown(d, initial) \in DataStore
    BY <1>3, ScalingDownType
  <2>2. ReportsOf(WithCounts(ScalingDown(d, initial), c))
          = ReportsOf(ScalingDown(d, initial))
    BY <2>1, WithCountsFields
  <2> QED  BY <1>3, <2>2, ScalingDownFields
<1>4. ASSUME NEW r \in [pod : Ordinal, decommissioned : BOOLEAN]
      PROVE  /\ r.pod \in Ordinal /\ r.decommissioned \in BOOLEAN
             /\ ReportsOf(Reported(d, r)) =
                  SetPodTerminationStatus(ReportsOf(d), r.pod,
                                          r.decommissioned)
  BY ReportedFields
<1> QED  BY <1>1, <1>2, <1>3, <1>4

\* What becomes of a list that is kept, emptied, or set a report in.
LEMMA ReportsStepOK ==
    ASSUME NEW l \in Lists(Ordinal), NEW m, OneEntryEach(l),
           \/ m = l
           \/ m = << >>
           \/ \E i \in Ordinal, b \in BOOLEAN : m = SetPodTerminationStatus(l, i, b)
    PROVE  /\ OneEntryEach(m)
           /\ IsPrefix(l, m) \/ m = << >>
<1>1. OneEntryEach(<< >>)
  BY EmptySeq, LenProperties DEF OneEntryEach
<1>2. IsPrefix(l, l)
  BY LenProperties DEF IsPrefix, Lists
<1> QED  BY <1>1, <1>2, SetOneEntry, SetExtends

=============================================================================
