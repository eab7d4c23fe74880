----------------------- MODULE TerminationStatusProofs -----------------------
(***************************************************************************)
(* What the methods of the list of termination statuses preserve, for any  *)
(* list and any names.                                                     *)
(***************************************************************************)
EXTENDS TerminationStatus, SequenceTheorems, TLAPS

Lists(names) == Seq(TerminationEntry(names))

OneEntryEach(list) ==
    \A j, k \in DOMAIN list : list[j].podName = list[k].podName => j = k

\* SetPodTerminationStatus appends at most one entry.
LEMMA SetType ==
    ASSUME NEW names, NEW list \in Lists(names),
           NEW name \in names, NEW decommissioned \in BOOLEAN
    PROVE  SetPodTerminationStatus(list, name, decommissioned) \in Lists(names)
<1>1. [podName |-> name, decommissioned |-> decommissioned]
          \in TerminationEntry(names)
  BY DEF TerminationEntry
<1> QED  BY <1>1, AppendProperties DEF SetPodTerminationStatus, Lists

\* What the list had, it has at the same place.
LEMMA SetExtends ==
    ASSUME NEW names, NEW list \in Lists(names),
           NEW name \in names, NEW decommissioned \in BOOLEAN
    PROVE  IsPrefix(list, SetPodTerminationStatus(list, name, decommissioned))
<1> DEFINE e == [podName |-> name, decommissioned |-> decommissioned]
<1>1. e \in TerminationEntry(names)
  BY DEF TerminationEntry
<1>2. IsPrefix(list, list)
  BY LenProperties DEF IsPrefix, Lists
<1>3. IsPrefix(list, Append(list, e))
  <2>1. /\ Append(list, e) \in Lists(names)
        /\ Len(Append(list, e)) = Len(list) + 1
        /\ \A i \in 1 .. Len(list) : Append(list, e)[i] = list[i]
        /\ Len(list) \in Nat
    BY <1>1, AppendProperties, LenProperties DEF Lists
  <2>2. SubSeq(list, 1, Len(list)) = SubSeq(Append(list, e), 1, Len(list))
    BY <2>1
  <2> QED  BY <2>1, <2>2 DEF IsPrefix
<1> QED  BY <1>2, <1>3 DEF SetPodTerminationStatus

\* Set makes no second entry for a pod.
LEMMA SetOneEntry ==
    ASSUME NEW names, NEW list \in Lists(names), OneEntryEach(list),
           NEW name \in names, NEW decommissioned \in BOOLEAN
    PROVE  OneEntryEach(SetPodTerminationStatus(list, name, decommissioned))
<1> DEFINE e == [podName |-> name, decommissioned |-> decommissioned]
<1>1. CASE HasEntry(list, name)
  BY <1>1 DEF SetPodTerminationStatus
<1>2. CASE ~HasEntry(list, name)
  <2>1. \A k \in DOMAIN list : list[k].podName # name
    BY <1>2 DEF HasEntry, EntriesOf
  <2>2. /\ Len(list) \in Nat /\ DOMAIN list = 1 .. Len(list)
        /\ DOMAIN Append(list, e) = 1 .. Len(list) + 1
        /\ \A i \in 1 .. Len(list) : Append(list, e)[i] = list[i]
        /\ Append(list, e)[Len(list) + 1] = e
    <3>1. e \in TerminationEntry(names)
      BY DEF TerminationEntry
    <3> QED  BY <3>1, AppendProperties, LenProperties DEF Lists
  <2>3. OneEntryEach(Append(list, e))
    BY <2>1, <2>2 DEF OneEntryEach
  <2> QED  BY <2>3, <1>2 DEF SetPodTerminationStatus
<1> QED  BY <1>1, <1>2

\* Where the loop of Get stops: at the only entry.
LEMMA FirstIsOnly ==
    ASSUME NEW names, NEW list \in Lists(names), OneEntryEach(list),
           NEW k \in DOMAIN list
    PROVE  /\ HasEntry(list, list[k].podName)
           /\ FirstEntry(list, list[k].podName) = k
           /\ GetPodTerminationStatus(list, list[k].podName) = {list[k]}
<1> DEFINE name == list[k].podName
<1>1. k \in EntriesOf(list, name)
  BY DEF EntriesOf
<1>2. \A j \in EntriesOf(list, name) : j = k
  BY DEF OneEntryEach, EntriesOf
<1>3. k \in Int
  BY LenProperties DEF Lists
<1>4. FirstEntry(list, name) = k
  BY <1>1, <1>2, <1>3 DEF FirstEntry
<1> QED  BY <1>1, <1>4 DEF HasEntry, GetPodTerminationStatus

\* RemovePodTerminationStatus takes one entry out.
LEMMA RemoveAtKeeps ==
    ASSUME NEW names, NEW list \in Lists(names), NEW i \in DOMAIN list
    PROVE  /\ RemoveAt(list, i) \in Lists(names)
           /\ DOMAIN RemoveAt(list, i) = 1 .. Len(list) - 1
           /\ \A k \in 1 .. Len(list) - 1 :
                RemoveAt(list, i)[k] = IF k < i THEN list[k] ELSE list[k + 1]
<1> DEFINE s == SubSeq(list, 1, i - 1)
           t == SubSeq(list, i + 1, Len(list))
<1>1. Len(list) \in Nat /\ i \in 1 .. Len(list)
  BY LenProperties DEF Lists
<1>2. /\ s \in Lists(names) /\ Len(s) = i - 1
      /\ \A k \in 1 .. i - 1 : s[k] = list[k]
  BY <1>1, SubSeqProperties DEF Lists
<1>3. /\ t \in Lists(names) /\ Len(t) = Len(list) - i
      /\ \A k \in 1 .. Len(list) - i : t[k] = list[i + k]
  BY <1>1, SubSeqProperties DEF Lists
<1> HIDE DEF s, t
<1>4. /\ s \o t \in Lists(names)
      /\ Len(s \o t) = Len(s) + Len(t)
      /\ \A k \in 1 .. Len(s) + Len(t) :
           (s \o t)[k] = IF k <= Len(s) THEN s[k] ELSE t[k - Len(s)]
  BY <1>2, <1>3, ConcatProperties DEF Lists
<1>5. DOMAIN (s \o t) = 1 .. Len(list) - 1
  BY <1>1, <1>2, <1>3, <1>4, LenProperties DEF Lists
<1>6. ASSUME NEW k \in 1 .. Len(list) - 1
      PROVE  (s \o t)[k] = IF k < i THEN list[k] ELSE list[k + 1]
  <2>1. (s \o t)[k] = IF k <= Len(s) THEN s[k] ELSE t[k - Len(s)]
    <3>1. k \in 1 .. (i - 1) + (Len(list) - i)
      BY <1>1
    <3>2. k \in 1 .. Len(s) + Len(t)
      BY <3>1, <1>2, <1>3
    <3> QED  BY <3>2, <1>4
  <2>2. CASE k < i
    BY <1>1, <1>2, <2>1, <2>2
  <2>3. CASE k >= i
    <3>1. k - (i - 1) \in 1 .. Len(list) - i /\ i + (k - (i - 1)) = k + 1
      BY <1>1, <2>3
    <3>2. t[k - (i - 1)] = list[k + 1]
      BY <1>3, <3>1
    <3> QED  BY <1>1, <1>2, <2>1, <2>3, <3>2
  <2>4. k < i \/ k >= i
    BY <1>1
  <2> QED  BY <2>2, <2>3, <2>4
<1> QED  BY <1>4, <1>5, <1>6 DEF RemoveAt, s, t

LEMMA RemoveTypeOneEntry ==
    ASSUME NEW names, NEW list \in Lists(names), OneEntryEach(list), NEW name
    PROVE  /\ RemovePodTerminationStatus(list, name) \in Lists(names)
           /\ OneEntryEach(RemovePodTerminationStatus(list, name))
<1>1. CASE HasEntry(list, name)
  <2> DEFINE i == FirstEntry(list, name)
             r == RemoveAt(list, i)
  <2>1. i \in DOMAIN list
    <3>1. PICK k \in DOMAIN list : list[k].podName = name
      BY <1>1 DEF HasEntry, EntriesOf
    <3> QED  BY <3>1, FirstIsOnly
  <2>2. /\ r \in Lists(names)
        /\ DOMAIN r = 1 .. Len(list) - 1
        /\ \A k \in 1 .. Len(list) - 1 :
             r[k] = IF k < i THEN list[k] ELSE list[k + 1]
    BY <2>1, RemoveAtKeeps
  <2>3. DOMAIN list = 1 .. Len(list) /\ Len(list) \in Nat
    BY LenProperties DEF Lists
  <2>4. OneEntryEach(r)
    BY <2>1, <2>2, <2>3 DEF OneEntryEach
  <2> QED  BY <1>1, <2>2, <2>4 DEF RemovePodTerminationStatus
<1>2. CASE ~HasEntry(list, name)
  BY <1>2 DEF RemovePodTerminationStatus
<1> QED  BY <1>1, <1>2

=============================================================================
