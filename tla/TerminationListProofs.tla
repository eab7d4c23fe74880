------------------------ MODULE TerminationListProofs ------------------------
(***************************************************************************)
(* The list of termination statuses implements the map of first reports,   *)
(* for any set of pods.                                                    *)
(***************************************************************************)
EXTENDS TerminationList, TerminationStatusProofs

list == PodTerminationStatuses

\* OneEntryPerPod, without the set of pods.
ListSound == list \in Lists(PodNames) /\ OneEntryEach(list)

LEMMA ListSoundInitially == Init => ListSound
BY EmptySeq, LenProperties DEF Init, ListSound, OneEntryEach, Lists, list

LEMMA ListSoundInductive == ListSound /\ [Next]_list => ListSound'
<1> SUFFICES ASSUME ListSound, [Next]_list  PROVE  ListSound'
  OBVIOUS
<1> USE DEF ListSound, list
<1>1. CASE \E name \in PodNames, decommissioned \in BOOLEAN :
              SetStatus(name, decommissioned)
  BY <1>1, SetType, SetOneEntry DEF SetStatus
<1>2. CASE \E name \in PodNames : RemoveStatus(name)
  BY <1>2, RemoveTypeOneEntry DEF RemoveStatus
<1>3. CASE ResetStatuses
  BY <1>3, EmptySeq, LenProperties DEF ResetStatuses, OneEntryEach, Lists
<1>4. CASE UNCHANGED list
  BY <1>4
<1> QED  BY <1>1, <1>2, <1>3, <1>4 DEF Next

LEMMA ListSoundImplies == ListSound => TypeOK /\ OneEntryPerPod
<1> SUFFICES ASSUME ListSound,
                    NEW name \in PodNames,
                    NEW j \in EntriesOf(list, name),
                    NEW k \in EntriesOf(list, name)
             PROVE  TypeOK /\ j = k
  BY DEF ListSound, Lists, TypeOK, OneEntryPerPod, list
<1> QED  BY DEF ListSound, OneEntryEach, EntriesOf, Lists, TypeOK, list

\* No pod is ever entered twice.
THEOREM OneEntry == Spec => []OneEntryPerPod
BY ListSoundInitially, ListSoundInductive, ListSoundImplies, PTL DEF Spec, list

-----------------------------------------------------------------------------
(* The refinement. *)

Report(entries, name) ==
    LET entry == GetPodTerminationStatus(entries, name)
    IN  IF entry = {} THEN "none"
        ELSE IF \E e \in entry : e.decommissioned THEN "decommissioned"
        ELSE "failed"

\* A pod's report is in its only entry, wherever that is.
LEMMA ReportFound ==
    ASSUME NEW names, NEW l \in Lists(names), OneEntryEach(l),
           NEW k \in DOMAIN l
    PROVE  Report(l, l[k].podName)
             = IF l[k].decommissioned THEN "decommissioned" ELSE "failed"
BY FirstIsOnly DEF Report

LEMMA ReportMissing ==
    ASSUME NEW l, NEW name, \A k \in DOMAIN l : l[k].podName # name
    PROVE  Report(l, name) = "none"
BY DEF Report, GetPodTerminationStatus, HasEntry, EntriesOf

\* Two lists with the same entries of a pod, at whatever places, report the
\* same of it.
LEMMA ReportSame ==
    ASSUME NEW names, NEW l \in Lists(names), NEW m \in Lists(names),
           OneEntryEach(l), OneEntryEach(m), NEW name,
           \A j \in DOMAIN l :
             l[j].podName = name => \E k \in DOMAIN m : m[k] = l[j],
           \A k \in DOMAIN m :
             m[k].podName = name => \E j \in DOMAIN l : l[j] = m[k]
    PROVE  Report(l, name) = Report(m, name)
<1>1. CASE \E j \in DOMAIN l : l[j].podName = name
  <2>1. PICK j \in DOMAIN l : l[j].podName = name
    BY <1>1
  <2>2. PICK k \in DOMAIN m : m[k] = l[j]
    BY <2>1
  <2> QED  BY <2>1, <2>2, ReportFound
<1>2. CASE \A j \in DOMAIN l : l[j].podName # name
  <2>1. \A k \in DOMAIN m : m[k].podName # name
    BY <1>2
  <2> QED  BY <1>2, <2>1, ReportMissing
<1> QED  BY <1>1, <1>2

LEMMA SetImplements ==
    ASSUME NEW l \in Lists(PodNames), OneEntryEach(l),
           NEW name \in PodNames, NEW decommissioned \in BOOLEAN, NEW m,
           m = SetPodTerminationStatus(l, name, decommissioned)
    PROVE  \/ m = l
           \/ /\ Report(l, name) = "none"
              /\ Report(m, name)
                   = IF decommissioned THEN "decommissioned" ELSE "failed"
              /\ \A n \in PodNames \ {name} : Report(m, n) = Report(l, n)
<1>1. CASE HasEntry(l, name)
  BY <1>1 DEF SetPodTerminationStatus
<1>2. CASE ~HasEntry(l, name)
  <2> DEFINE e == [podName |-> name, decommissioned |-> decommissioned]
  <2>1. m \in Lists(PodNames) /\ OneEntryEach(m)
    BY SetType, SetOneEntry
  <2>2. /\ Len(l) \in Nat /\ DOMAIN l = 1 .. Len(l)
        /\ DOMAIN m = 1 .. Len(l) + 1
        /\ \A i \in 1 .. Len(l) : m[i] = l[i]
        /\ m[Len(l) + 1] = e
    <3>1. e \in TerminationEntry(PodNames)
      BY DEF TerminationEntry
    <3>2. m = Append(l, e)
      BY <1>2 DEF SetPodTerminationStatus
    <3> QED
      BY <3>1, <3>2, <2>1, AppendProperties, LenProperties DEF Lists
  <2>3. Report(l, name) = "none"
    BY <1>2, ReportMissing DEF HasEntry, EntriesOf
  <2>4. Report(m, name) = IF decommissioned THEN "decommissioned" ELSE "failed"
    <3>1. Len(l) + 1 \in DOMAIN m
      BY <2>2
    <3> QED  BY <2>1, <2>2, <3>1, ReportFound
  <2>5. ASSUME NEW n \in PodNames \ {name}
        PROVE  Report(m, n) = Report(l, n)
    <3>1. \A k \in DOMAIN m : m[k].podName = n => k \in DOMAIN l
      BY <2>2
    <3>2. \A j \in DOMAIN l : j \in DOMAIN m /\ m[j] = l[j]
      BY <2>2
    <3> QED  BY <2>1, <3>1, <3>2, ReportSame
  <2> QED  BY <2>3, <2>4, <2>5
<1> QED  BY <1>1, <1>2

LEMMA RemoveImplements ==
    ASSUME NEW l \in Lists(PodNames), OneEntryEach(l),
           NEW name \in PodNames, NEW m,
           m = RemovePodTerminationStatus(l, name)
    PROVE  /\ Report(m, name) = "none"
           /\ \A n \in PodNames \ {name} : Report(m, n) = Report(l, n)
<1>1. CASE ~HasEntry(l, name)
  BY <1>1, ReportMissing DEF RemovePodTerminationStatus, HasEntry, EntriesOf
<1>2. CASE HasEntry(l, name)
  <2>1. PICK i \in DOMAIN l : l[i].podName = name
    BY <1>2 DEF HasEntry, EntriesOf
  <2>2. m = RemoveAt(l, i)
    BY <1>2, <2>1, FirstIsOnly DEF RemovePodTerminationStatus
  <2>3. /\ Len(l) \in Nat /\ DOMAIN l = 1 .. Len(l)
        /\ DOMAIN m = 1 .. Len(l) - 1
        /\ \A k \in 1 .. Len(l) - 1 :
             m[k] = IF k < i THEN l[k] ELSE l[k + 1]
    BY <2>2, RemoveAtKeeps, LenProperties DEF Lists
  <2>4. m \in Lists(PodNames) /\ OneEntryEach(m)
    BY RemoveTypeOneEntry
  <2>5. \A k \in DOMAIN m : \E j \in DOMAIN l \ {i} : l[j] = m[k]
    <3>1. SUFFICES ASSUME NEW k \in DOMAIN m
                   PROVE  \E j \in DOMAIN l \ {i} : l[j] = m[k]
      OBVIOUS
    <3>2. CASE k < i
      BY <3>2, <2>3
    <3>3. CASE ~(k < i)
      BY <3>3, <2>3
    <3> QED  BY <3>2, <3>3
  <2>6. \A j \in DOMAIN l \ {i} : \E k \in DOMAIN m : m[k] = l[j]
    <3>1. SUFFICES ASSUME NEW j \in DOMAIN l \ {i}
                   PROVE  \E k \in DOMAIN m : m[k] = l[j]
      OBVIOUS
    <3>2. CASE j < i
      BY <3>2, <2>3
    <3>3. CASE j > i
      <4>1. j - 1 \in DOMAIN m /\ m[j - 1] = l[j]
        BY <3>3, <2>3
      <4> QED  BY <4>1
    <3> QED  BY <3>2, <3>3, <2>3
  <2>7. \A k \in DOMAIN m : m[k].podName # name
    BY <2>1, <2>5 DEF OneEntryEach
  <2>8. ASSUME NEW n \in PodNames \ {name}
        PROVE  Report(m, n) = Report(l, n)
    BY <2>1, <2>4, <2>5, <2>6, ReportSame
  <2> QED  BY <2>7, <2>8, ReportMissing
<1> QED  BY <1>1, <1>2

\* The list does what the map of first reports does.
THEOREM ListImplementsMap == Spec => FirstReportsKept
<1> DEFINE recorded == [name \in PodNames |-> ReportOf(name)]
<1>1. \A name \in PodNames : recorded[name] = Report(list, name)
  BY DEF ReportOf, Report, list
<1>2. Init => Map!Init
  BY ReportMissing DEF Init, Map!Init, ReportOf, Report
<1>3. ListSound /\ [Next]_list => [Map!Next]_recorded
  <2> SUFFICES ASSUME ListSound, [Next]_list  PROVE  [Map!Next]_recorded
    OBVIOUS
  <2>1. \A name \in PodNames : recorded'[name] = Report(list', name)
    BY DEF ReportOf, Report, list
  <2>2. CASE \E name \in PodNames, decommissioned \in BOOLEAN :
                SetStatus(name, decommissioned)
    <3> PICK name \in PodNames, decommissioned \in BOOLEAN :
            SetStatus(name, decommissioned)
      BY <2>2
    <3> DEFINE r == IF decommissioned THEN "decommissioned" ELSE "failed"
    <3>1. list' = SetPodTerminationStatus(list, name, decommissioned)
      BY DEF SetStatus, list
    <3>2. \/ list' = list
          \/ /\ Report(list, name) = "none"
             /\ Report(list', name) = r
             /\ \A n \in PodNames \ {name} :
                  Report(list', n) = Report(list, n)
      BY <3>1, SetImplements DEF ListSound
    <3>3. CASE list' = list
      BY <3>3, <1>1, <2>1
    <3>4. CASE list' # list
      <4>1. recorded[name] = "none"
        BY <3>2, <3>4, <1>1
      <4>2. recorded' = [recorded EXCEPT ![name] = r]
        BY <3>2, <3>4, <1>1, <2>1
      <4>3. r \in Map!Reports
        BY DEF Map!Reports
      <4> QED  BY <4>1, <4>2, <4>3 DEF Map!Next, Map!Record
    <3> QED  BY <3>3, <3>4
  <2>3. CASE \E name \in PodNames : RemoveStatus(name)
    <3> PICK name \in PodNames : RemoveStatus(name)
      BY <2>3
    <3>1. list' = RemovePodTerminationStatus(list, name)
      BY DEF RemoveStatus, list
    <3>2. /\ Report(list', name) = "none"
          /\ \A n \in PodNames \ {name} : Report(list', n) = Report(list, n)
      BY <3>1, RemoveImplements DEF ListSound
    <3>3. recorded' = [recorded EXCEPT ![name] = "none"]
      BY <3>2, <1>1, <2>1
    <3> QED  BY <3>3 DEF Map!Next, Map!Remove
  <2>4. CASE ResetStatuses
    <3>1. list' = << >>
      BY <2>4 DEF ResetStatuses, list
    <3>2. \A name \in PodNames : Report(list', name) = "none"
      BY <3>1, ReportMissing
    <3>3. recorded' = [name \in PodNames |-> "none"]
      BY <3>2, <2>1
    <3> QED  BY <3>3 DEF Map!Next, Map!Reset
  <2>5. CASE UNCHANGED list
    BY <2>5, <1>1, <2>1
  <2> QED  BY <2>2, <2>3, <2>4, <2>5 DEF Next
<1> QED
  BY <1>2, <1>3, ListSoundInitially, ListSoundInductive, PTL
     DEF Spec, FirstReportsKept, Map!Spec, list

=============================================================================
