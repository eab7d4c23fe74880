----------------------- MODULE ScaleDownProtocolProofs -----------------------
(***************************************************************************)
(* The protocol's properties, for any number of replicas.  The transitions *)
(* were looked at one by one in DataStoreObjectProofs.                     *)
(***************************************************************************)
EXTENDS ScaleDownProtocol, DataStoreObjectProofs

\* NoNilStatus and RestartRaises are inductive only together: that a restart
\* leads to a larger size is known of a DataStore whose pointers are set.
IInv == store \in SoundDataStore

LEMMA IInvInitially == Init => IInv
BY SoundInitially DEF Init, IInv

LEMMA IInvInductive == IInv /\ [Next]_store => IInv'
<1> SUFFICES ASSUME IInv, [Next]_store  PROVE  IInv'
  OBVIOUS
<1> USE DEF IInv
<1>1. CASE Edit
  BY <1>1, SoundEdit DEF Edit
<1>2. CASE Mirror
  BY <1>2, SoundMirror DEF Mirror
<1>3. CASE Start
  BY <1>3, SoundStart DEF Start
<1>4. CASE Save
  BY <1>4, SoundReport DEF Save, Report
<1>5. CASE Finish
  BY <1>5, SoundFinish DEF Finish
<1>6. CASE Restart
  BY <1>6, SoundRestart DEF Restart, MayRestart
<1>7. CASE UNCHANGED store
  BY <1>7
<1> QED  BY <1>1, <1>2, <1>3, <1>4, <1>5, <1>6, <1>7 DEF Next

LEMMA IInvImplies == IInv => TypeOK /\ NoNilStatus /\ RestartRaises
BY DEF IInv, SoundDataStore, Raises, TypeOK, NoNilStatus, RestartRaises

\* The DataStore stays well formed.
THEOREM TypeCorrect == Spec => []TypeOK
BY IInvInitially, IInvInductive, IInvImplies, PTL DEF Spec

\* A sync never dereferences a nil pointer of the status.
THEOREM PointersNeverNil == Spec => []NoNilStatus
BY IInvInitially, IInvInductive, IInvImplies, PTL DEF Spec

\* A restart goes back to a size above the one that was not reached.
THEOREM RestartsRaise == Spec => []RestartRaises
BY IInvInitially, IInvInductive, IInvImplies, PTL DEF Spec

-----------------------------------------------------------------------------
(* The reports. *)

list == ReportsOf(store)

\* What a step of the protocol does to the list of reports.
LEMMA ListSteps ==
    ASSUME TypeOK, [Next]_store
    PROVE  /\ list \in Lists(Ordinal)
           /\ \/ list' = list
              \/ Attempting(store) /\ list' = << >>
              \/ \E i \in Ordinal, b \in BOOLEAN :
                   list' = SetPodTerminationStatus(list, i, b)
<1> USE DEF TypeOK, list
<1>1. list \in Lists(Ordinal)
  BY ReportsChange
<1>2. CASE Edit
  BY <1>1, <1>2 DEF Edit, DataStore, ReportsOf
<1>3. CASE Mirror
  BY <1>1, <1>3, ReportsChange DEF Mirror
<1>4. CASE Start
  BY <1>1, <1>4, ReportsChange DEF Start
<1>5. CASE Save
  BY <1>1, <1>5, ReportsChange DEF Save, Report
<1>6. CASE Finish
  BY <1>1, <1>6, ReportsChange DEF Finish, Attempting
<1>7. CASE Restart
  BY <1>1, <1>7, ReportsChange DEF Restart, Attempting, Restarting
<1>8. CASE UNCHANGED store
  BY <1>1, <1>8
<1> QED  BY <1>2, <1>3, <1>4, <1>5, <1>6, <1>7, <1>8 DEF Next

\* No pod ever has two reports in the DataStore.
THEOREM OneReport == Spec => []OneReportPerPod
<1>1. Init => OneEntryEach(list)
  BY NoStatusType, EmptySeq, LenProperties
     DEF Init, NoStatus, OneEntryEach, list, ReportsOf
<1>2. TypeOK /\ OneEntryEach(list) /\ [Next]_store => OneEntryEach(list)'
  <2> SUFFICES ASSUME TypeOK, OneEntryEach(list), [Next]_store
               PROVE  OneEntryEach(list')
    BY DEF OneEntryEach
  <2>1. OneEntryEach(<< >>)
    BY EmptySeq, LenProperties DEF OneEntryEach
  <2> QED  BY <2>1, ListSteps, SetOneEntry
<1>3. TypeOK /\ OneEntryEach(list) => OneReportPerPod
  BY DEF OneReportPerPod, OneEntryEach, EntriesOf, list, ReportsOf
<1> QED  BY <1>1, <1>2, <1>3, TypeCorrect, PTL DEF Spec

\* A saved report stays as it is while the attempt lasts.
THEOREM ReportsStay == Spec => ReportsKept
<1>1. TypeOK /\ [Next]_store
        => [\/ IsPrefix(list, list')
            \/ Attempting(store) /\ list' = << >>]_store
  <2> SUFFICES ASSUME TypeOK, [Next]_store
               PROVE  \/ IsPrefix(list, list')
                      \/ Attempting(store) /\ list' = << >>
    OBVIOUS
  <2>1. IsPrefix(list, list)
    BY ListSteps, LenProperties DEF IsPrefix, Lists
  <2> QED  BY <2>1, ListSteps, SetExtends
<1> QED  BY <1>1, TypeCorrect, PTL
     DEF Spec, ReportsKept, list, ReportsOf

=============================================================================
