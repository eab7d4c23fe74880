----------------------- MODULE TerminationSlicesProofs -----------------------
(***************************************************************************)
(* What the workers do to their copies leaves the informer's objects as    *)
(* they are, for any number of workers, pods and places in memory.         *)
(***************************************************************************)
EXTENDS TerminationSlices, TerminationListProofs

Entry == TerminationEntry(PodNames)
Header == [array : Objects, len : Nat, replicas : Objects \cup Workers]
Backing == [elements : Seq(Entry), room : Nat]

MemType ==
    /\ PodTerminationStatuses \in Seq(Entry)
    /\ array \in [Objects -> Backing]
    /\ object \in [Objects -> Header]
    /\ DOMAIN cell = Objects \cup Workers
    /\ cached \in Objects
    /\ frame \in [Workers -> Frame]

\* A worker has a copy while it changes one, and it has read an object first.
FramesFit ==
    \A w \in Workers :
        /\ frame[w].read = Nil <=> frame[w].pc = "idle"
        /\ frame[w].copy = Nil <=> frame[w].pc \in {"idle", "read"}

\* Whoever has an object has the array it was made with, and the informer's
\* objects have their own counts.
OwnMemory ==
    /\ \A o \in Live : /\ object[o].array = o
                       /\ object[o].len <= Len(array[o].elements)
    /\ \A o \in Listed : object[o].replicas = o

\* The methods find the only entry of a pod, in memory as at the server.
OneEntries ==
    /\ OneEntryEach(PodTerminationStatuses)
    /\ \A o \in Live : OneEntryEach(ListOf(o))

\* No two frames have the same copy, and none has the informer's object for
\* one.
CopiesApart ==
    \A w \in Workers :
        frame[w].copy # Nil =>
            /\ frame[w].copy \notin Listed
            /\ \A v \in Workers \ {w} : frame[v].copy # frame[w].copy

IInv == MemType /\ FramesFit /\ OwnMemory /\ OneEntries /\ CopiesApart

LEMMA HeaderChanges ==
    ASSUME NEW h \in Header, NEW n \in Nat
    PROVE  [h EXCEPT !.len = n] \in Header
BY DEF Header

LEMMA HeaderMoves ==
    ASSUME NEW h \in Header, NEW o \in Objects
    PROVE  [h EXCEPT !.array = o] \in Header /\ [h EXCEPT !.array = o].array = o
           /\ [h EXCEPT !.array = o].len = h.len
BY DEF Header

LEMMA HeaderGrows ==
    ASSUME NEW h \in Header, NEW o \in Objects, NEW n \in Nat
    PROVE  [h EXCEPT !.array = o, !.len = n] \in Header
BY DEF Header

LEMMA HeaderPoints ==
    ASSUME NEW h \in Header, NEW p \in Objects \cup Workers
    PROVE  [h EXCEPT !.replicas = p] \in Header
BY DEF Header

USE DEF Header, Backing

LEMMA FreshIsFree ==
    ASSUME Objects \ Live # {}
    PROVE  Fresh \in Objects /\ Fresh \notin Live
BY DEF Fresh

LEMMA ListsFit ==
    ASSUME IInv, NEW o \in Live
    PROVE  /\ o \in Objects /\ o # Nil
           /\ ListOf(o) \in Seq(Entry) /\ Len(ListOf(o)) = object[o].len
<1>1. o \in Objects /\ o # Nil
  BY MemoryAssumption DEF IInv, MemType, Live, Listed, Frame
<1>2. /\ object[o].array = o /\ object[o].len \in 0 .. Len(array[o].elements)
      /\ array[o].elements \in Seq(Entry)
  BY <1>1 DEF IInv, MemType, OwnMemory
<1> QED  BY <1>1, <1>2, SubSeqProperties DEF ListOf

LEMMA IInvInitially == MemInit => IInv
<1> SUFFICES ASSUME MemInit  PROVE  IInv
  OBVIOUS
<1> USE DEF MemInit, Init
<1>1. /\ cached \in Objects /\ PodTerminationStatuses = << >>
      /\ array = [p \in Objects |-> Array(<< >>, Spare)]
      /\ object = [p \in Objects |-> [array |-> p, len |-> 0, replicas |-> p]]
      /\ cell = [p \in Objects \cup Workers |-> Nil]
      /\ frame = [w \in Workers |-> NoFrame]
  OBVIOUS
<1>2. Array(<< >>, Spare) \in Backing
  BY SpareAssumption, EmptySeq DEF Array
<1>3. NoFrame \in Frame
  BY DEF NoFrame, Frame, Changes
<1>4. MemType
  BY <1>1, <1>2, <1>3, EmptySeq DEF MemType
<1>5. Listed = {cached} /\ Live = {cached}
  BY <1>1, MemoryAssumption DEF Listed, Live, NoFrame
<1>6. OwnMemory
  BY <1>1, <1>5, EmptySeq DEF OwnMemory, Array
<1>7. ListOf(cached) = << >>
  <2>1. ListOf(cached) = SubSeq(<< >>, 1, 0)
    BY <1>1 DEF ListOf, Array
  <2> QED  BY <2>1, SubSeqEmpty
<1>8. OneEntries
  BY <1>1, <1>5, <1>7, EmptySeq, LenProperties DEF OneEntries, OneEntryEach
<1> QED
  BY <1>1, <1>4, <1>6, <1>8 DEF IInv, FramesFit, CopiesApart, NoFrame

-----------------------------------------------------------------------------
(* The methods in memory. *)

\* Only the object o is changed, and it is sound in itself afterwards.
ChangedAt(o) ==
    /\ array' \in [Objects -> Backing]
    /\ object' \in [Objects -> Header]
    /\ \A p \in Objects \ {o} : array'[p] = array[p] /\ object'[p] = object[p]
    /\ object'[o].array = o
    /\ object'[o].len <= Len(array'[o].elements)
    /\ OneEntryEach(ListOf(o)')

\* With the array of its own, append writes where nobody else reads.
LEMMA AppendInMemory ==
    ASSUME IInv, NEW o \in Live, NEW entry \in Entry, AppendStatus(o, entry)
    PROVE  /\ array' \in [Objects -> Backing]
           /\ object' \in [Objects -> Header]
           /\ \A p \in Objects \ {o} :
                 array'[p] = array[p] /\ object'[p] = object[p]
           /\ object'[o].array = o
           /\ object'[o].len <= Len(array'[o].elements)
           /\ ListOf(o)' = Append(ListOf(o), entry)
           /\ UNCHANGED cell
<1> DEFINE n == object[o].len
           e == array[o].elements
           longer == Append(ListOf(o), entry)
<1>1. /\ o \in Objects /\ object[o].array = o
      /\ e \in Seq(Entry) /\ n \in 0 .. Len(e)
      /\ array \in [Objects -> Backing]
      /\ object \in [Objects -> Header]
      /\ ListOf(o) \in Seq(Entry) /\ Len(ListOf(o)) = n
  BY ListsFit DEF IInv, MemType, OwnMemory
<1>2. longer \in Seq(Entry) /\ Len(longer) = n + 1
  BY <1>1, AppendProperties
<1> HIDE DEF longer
<1>3. CASE n < array[o].room
  <2> DEFINE tail == SubSeq(e, n + 2, Len(e))
             new == longer \o tail
  <2>1. /\ array' = [array EXCEPT ![o].elements = new]
        /\ object' = [object EXCEPT ![o].len = n + 1]
        /\ UNCHANGED cell
    <3>1. n # array[o].room
      BY <1>1, <1>3
    <3> QED  BY <1>1, <3>1, Zenon DEF AppendStatus, longer
  <2>2. Len(e) \in Nat /\ \A i \in 1 .. Len(e) : e[i] \in Entry
    BY <1>1, LenProperties
  <2>3. tail \in Seq(Entry) /\ Len(tail) \in Nat
    <3>1. tail \in Seq(Entry)
      <4>1. n + 2 \in Int /\ Len(e) \in Int
        BY <1>1, <2>2
      <4>2. \A i \in n + 2 .. Len(e) : e[i] \in Entry
        BY <1>1, <2>2
      <4> QED  BY <4>1, <4>2, SubSeqProperties
    <3> QED  BY <3>1, LenProperties
  <2> HIDE DEF tail
  <2>4. /\ new \in Seq(Entry) /\ Len(new) = (n + 1) + Len(tail)
        /\ \A i \in 1 .. n + 1 : new[i] = longer[i]
    <3>1. /\ new \in Seq(Entry) /\ Len(new) = (n + 1) + Len(tail)
          /\ \A i \in 1 .. (n + 1) + Len(tail) :
                new[i] = IF i <= n + 1 THEN longer[i]
                         ELSE tail[i - (n + 1)]
      <4>1. /\ longer \o tail \in Seq(Entry)
            /\ Len(longer \o tail) = Len(longer) + Len(tail)
            /\ \A i \in 1 .. Len(longer) + Len(tail) :
                  (longer \o tail)[i] = IF i <= Len(longer) THEN longer[i]
                                        ELSE tail[i - Len(longer)]
        BY <1>2, <2>3, ConcatProperties
      <4> QED  BY <1>2, <4>1
    <3>2. \A i \in 1 .. n + 1 : i \in 1 .. (n + 1) + Len(tail) /\ i <= n + 1
      BY <1>1, <2>3
    <3> QED  BY <3>1, <3>2
  <2> HIDE DEF new
  <2>5. /\ array'[o].elements = new
        /\ object'[o].array = o /\ object'[o].len = n + 1
    BY <1>1, <2>1
  <2>6. SubSeq(new, 1, n + 1) = longer
    <3>1. n + 1 <= Len(new) /\ n + 1 \in Int /\ 1 <= n + 1
      BY <1>1, <2>3, <2>4
    <3>2. \A i \in 1 .. n + 1 : new[i] \in Entry
      BY <2>4, <3>1, LenProperties
    <3>3. /\ SubSeq(new, 1, n + 1) \in Seq(Entry)
          /\ Len(SubSeq(new, 1, n + 1)) = (n + 1) - 1 + 1
          /\ \A i \in 1 .. (n + 1) - 1 + 1 :
                SubSeq(new, 1, n + 1)[i] = new[1 + i - 1]
      BY <3>1, <3>2, SubSeqProperties
    <3>4. (n + 1) - 1 + 1 = n + 1 /\ \A i \in 1 .. n + 1 : 1 + i - 1 = i
      BY <1>1
    <3>5. /\ Len(SubSeq(new, 1, n + 1)) = n + 1
          /\ \A i \in 1 .. n + 1 :
                SubSeq(new, 1, n + 1)[i] = longer[i]
      BY <3>3, <3>4, <2>4
    <3> QED  BY <3>3, <3>5, <1>2, SeqEqual
  <2>7. ListOf(o)' = longer
    BY <2>5, <2>6 DEF ListOf
  <2>8. /\ array' \in [Objects -> Backing]
        /\ object' \in [Objects -> Header]
    <3>1. [array[o] EXCEPT !.elements = new] \in Backing
      BY <1>1, <2>4
    <3>2. array' = [array EXCEPT ![o] = [array[o] EXCEPT !.elements = new]]
      BY <1>1, <2>1
    <3>3. n + 1 \in Nat
      BY <1>1
    <3>4. [object[o] EXCEPT !.len = n + 1] \in Header
      BY <1>1, <3>3, HeaderChanges
    <3>5. object' = [object EXCEPT ![o] = [object[o] EXCEPT !.len = n + 1]]
      BY <1>1, <2>1
    <3>6. array' \in [Objects -> Backing]
      BY <1>1, <3>1, <3>2
    <3> QED  BY <1>1, <3>4, <3>5, <3>6
  <2>9. object'[o].len <= Len(array'[o].elements)
    BY <1>1, <2>3, <2>4, <2>5
  <2> QED  BY <1>1, <2>1, <2>5, <2>7, <2>8, <2>9 DEF longer
<1>4. CASE n = array[o].room /\ ~(n < array[o].room)
  <2> DEFINE a == Array(longer, Spare)
  <2>1. /\ array' = [array EXCEPT ![o] = a]
        /\ object' = [object EXCEPT ![o] = [@ EXCEPT !.array = o,
                                                     !.len = n + 1]]
        /\ UNCHANGED cell
    BY <1>1, <1>4, Zenon DEF AppendStatus, longer
  <2>2. a \in Backing
        /\ a.elements = longer
    BY <1>1, <1>2, SpareAssumption DEF Array
  <2> HIDE DEF a
  <2>3. [object[o] EXCEPT !.array = o, !.len = n + 1] \in Header
    <3>1. object[o] \in Header /\ n + 1 \in Nat
      BY <1>1
    <3> QED  BY <1>1, <3>1, HeaderGrows
  <2>4. /\ array'[o].elements = longer
        /\ object'[o].array = o /\ object'[o].len = n + 1
    BY <1>1, <2>1, <2>2
  <2>5. /\ array' \in [Objects -> Backing]
        /\ object' \in [Objects -> Header]
    BY <1>1, <2>1, <2>2, <2>3
  <2>6. ListOf(o)' = longer
    <3>1. ListOf(o)' = SubSeq(longer, 1, n + 1)
      BY <2>4 DEF ListOf
    <3> QED  BY <3>1, <1>2, SubSeqFull
  <2> QED  BY <1>1, <1>2, <2>1, <2>4, <2>5, <2>6 DEF longer
<1> QED
  <2>1. n < array[o].room \/ n = array[o].room
    BY <1>1 DEF AppendStatus
  <2> QED  BY <1>3, <1>4, <2>1


LEMMA SetIsSound ==
    ASSUME IInv, NEW o \in Live, NEW name \in PodNames,
           NEW decommissioned \in BOOLEAN, SetInMemory(o, name, decommissioned)
    PROVE  /\ ChangedAt(o)
           /\ ListOf(o)'
                = SetPodTerminationStatus(ListOf(o), name, decommissioned)
           /\ UNCHANGED cell
<1> DEFINE entry == [podName |-> name, decommissioned |-> decommissioned]
<1>1. /\ o \in Objects /\ ListOf(o) \in Lists(PodNames)
      /\ OneEntryEach(ListOf(o))
  BY ListsFit DEF IInv, OneEntries, Lists, Entry
<1>2. entry \in Entry
  BY DEF Entry, TerminationEntry
<1>3. OneEntryEach(SetPodTerminationStatus(ListOf(o), name, decommissioned))
  BY <1>1, SetOneEntry
<1>4. CASE HasEntry(ListOf(o), name)
  <2>1. UNCHANGED <<array, cell, object>>
    BY <1>4 DEF SetInMemory, memory
  <2>2. ListOf(o)' = ListOf(o)
    BY <2>1 DEF ListOf
  <2> QED
    BY <1>1, <1>4, <2>1, <2>2
    DEF ChangedAt, IInv, MemType, OwnMemory, SetPodTerminationStatus
<1>5. CASE ~HasEntry(ListOf(o), name)
  <2>1. AppendStatus(o, entry)
    BY <1>5, Zenon DEF SetInMemory
  <2>2. SetPodTerminationStatus(ListOf(o), name, decommissioned)
          = Append(ListOf(o), entry)
    BY <1>5 DEF SetPodTerminationStatus
  <2> HIDE DEF entry
  <2> QED  BY <1>2, <1>3, <2>1, <2>2, AppendInMemory DEF ChangedAt
<1> QED  BY <1>4, <1>5

LEMMA RemoveIsSound ==
    ASSUME IInv, NEW o \in Live, NEW name \in PodNames,
           RemoveInMemory(o, name)
    PROVE  /\ ChangedAt(o)
           /\ ListOf(o)' = RemovePodTerminationStatus(ListOf(o), name)
           /\ UNCHANGED cell
<1> DEFINE l == ListOf(o)
           i == FirstEntry(l, name)
           n == object[o].len
           e == array[o].elements
<1>1. /\ o \in Objects /\ l \in Lists(PodNames) /\ l \in Seq(Entry)
      /\ OneEntryEach(l) /\ Len(l) = n
      /\ object[o].array = o /\ e \in Seq(Entry) /\ n \in 0 .. Len(e)
      /\ array \in [Objects -> Backing]
      /\ object \in [Objects -> Header]
  BY ListsFit DEF IInv, MemType, OwnMemory, OneEntries, Lists, Entry
<1>2. CASE ~HasEntry(l, name)
  <2>1. UNCHANGED <<array, cell, object>>
    BY <1>2 DEF RemoveInMemory, memory
  <2>2. ListOf(o)' = l
    BY <2>1 DEF ListOf
  <2> QED
    BY <1>1, <1>2, <2>1, <2>2 DEF ChangedAt, RemovePodTerminationStatus
<1>3. CASE HasEntry(l, name)
  <2> DEFINE new == [k \in DOMAIN e |->
                       IF k \in i .. n - 1 THEN e[k + 1] ELSE e[k]]
             r == RemoveAt(l, i)
  <2>1. /\ array' = [array EXCEPT ![o].elements = new]
        /\ object' = [object EXCEPT ![o].len = n - 1]
        /\ UNCHANGED cell
    BY <1>1, <1>3, Zenon DEF RemoveInMemory
  <2>2. i \in DOMAIN l
    <3>1. PICK k \in DOMAIN l : l[k].podName = name
      BY <1>3 DEF HasEntry, EntriesOf
    <3> QED  BY <1>1, <3>1, FirstIsOnly
  <2>3. i \in 1 .. n /\ n \in 1 .. Len(e) /\ Len(e) \in Nat
    BY <1>1, <2>2, LenProperties
  <2>4. /\ r \in Lists(PodNames) /\ r \in Seq(Entry)
        /\ DOMAIN r = 1 .. n - 1 /\ Len(r) = n - 1
        /\ \A k \in 1 .. n - 1 : r[k] = IF k < i THEN l[k] ELSE l[k + 1]
    <3>1. /\ r \in Lists(PodNames) /\ DOMAIN r = 1 .. n - 1
          /\ \A k \in 1 .. n - 1 : r[k] = IF k < i THEN l[k] ELSE l[k + 1]
      BY <1>1, <2>2, RemoveAtKeeps
    <3>2. DOMAIN r = 1 .. Len(r) /\ Len(r) \in Nat
      BY <3>1, LenProperties DEF Lists
    <3> QED  BY <2>3, <3>1, <3>2 DEF Lists, Entry
  <2>5. \A k \in 1 .. n : l[k] = e[k]
    <3>1. \A k \in 1 .. n : e[k] \in Entry
      BY <1>1, <2>3, LenProperties
    <3>2. \A k \in 1 .. n - 1 + 1 : SubSeq(e, 1, n)[k] = e[1 + k - 1]
      BY <2>3, <3>1, SubSeqProperties
    <3>3. l = SubSeq(e, 1, n)
      BY <1>1 DEF ListOf
    <3> HIDE DEF l
    <3> QED  BY <2>3, <3>2, <3>3
  <2>6. new \in Seq(Entry) /\ Len(new) = Len(e)
    <3>1. DOMAIN e = 1 .. Len(e) /\ \A k \in 1 .. Len(e) : e[k] \in Entry
      BY <1>1, LenProperties
    <3>2. \A k \in 1 .. Len(e) : new[k] \in Entry
      BY <2>3, <3>1
    <3>3. new \in [1 .. Len(e) -> Entry]
      BY <3>1, <3>2
    <3> HIDE DEF new
    <3> QED  BY <2>3, <3>3
  <2>7. \A k \in 1 .. n - 1 : new[k] = r[k]
    <3> SUFFICES ASSUME NEW k \in 1 .. n - 1  PROVE  new[k] = r[k]
      OBVIOUS
    <3>1. new[k] = IF k \in i .. n - 1 THEN e[k + 1] ELSE e[k]
      BY <1>1, <2>3, LenProperties
    <3>2. l[k] = e[k] /\ l[k + 1] = e[k + 1]
      BY <2>3, <2>5
    <3> HIDE DEF new, l, r
    <3> QED  BY <2>3, <2>4, <3>1, <3>2
  <2> HIDE DEF new, r, l, i
  <2>8. /\ array'[o].elements = new
        /\ object'[o].array = o /\ object'[o].len = n - 1
    BY <1>1, <2>1
  <2>9. SubSeq(new, 1, n - 1) = r
    <3>1. n - 1 \in Int /\ n - 1 <= Len(new)
      BY <2>3, <2>6
    <3>2. \A k \in 1 .. n - 1 : new[k] \in Entry
      BY <2>6, <3>1, LenProperties
    <3>3. /\ SubSeq(new, 1, n - 1) \in Seq(Entry)
          /\ Len(SubSeq(new, 1, n - 1))
               = IF 1 <= n - 1 THEN (n - 1) - 1 + 1 ELSE 0
          /\ \A k \in 1 .. (n - 1) - 1 + 1 :
                SubSeq(new, 1, n - 1)[k] = new[1 + k - 1]
      BY <3>1, <3>2, SubSeqProperties
    <3>4. /\ Len(SubSeq(new, 1, n - 1)) = n - 1
          /\ \A k \in 1 .. n - 1 : SubSeq(new, 1, n - 1)[k] = r[k]
      BY <2>3, <2>7, <3>3
    <3> QED  BY <2>4, <3>3, <3>4, SeqEqual
  <2>10. ListOf(o)' = r
    BY <2>8, <2>9 DEF ListOf
  <2>11. /\ array' \in [Objects -> Backing]
         /\ object' \in [Objects -> Header]
    <3>1. [array[o] EXCEPT !.elements = new] \in Backing
      BY <1>1, <2>6
    <3>2. array' = [array EXCEPT ![o] = [array[o] EXCEPT !.elements = new]]
      BY <1>1, <2>1
    <3>3. n - 1 \in Nat
      BY <2>3
    <3>4. [object[o] EXCEPT !.len = n - 1] \in Header
      BY <1>1, <3>3, HeaderChanges
    <3>5. object' = [object EXCEPT ![o] = [object[o] EXCEPT !.len = n - 1]]
      BY <1>1, <2>1
    <3>6. array' \in [Objects -> Backing]
      BY <1>1, <3>1, <3>2
    <3> QED  BY <1>1, <3>4, <3>5, <3>6
  <2>12. RemovePodTerminationStatus(l, name) = r
    BY <1>3 DEF RemovePodTerminationStatus, r, i
  <2>13. OneEntryEach(r)
    BY <1>1, <2>12, RemoveTypeOneEntry
  <2>14. object'[o].len <= Len(array'[o].elements)
    BY <2>3, <2>6, <2>8
  <2> QED
    BY <1>1, <2>1, <2>8, <2>10, <2>11, <2>12, <2>13, <2>14 DEF ChangedAt, l
<1> QED  BY <1>2, <1>3


-----------------------------------------------------------------------------
(* The steps. *)

\* Frames that only drop what they have, or read what the informer has.
LEMMA FramesDrop ==
    ASSUME IInv, cached' = cached, UNCHANGED <<array, object>>,
           PodTerminationStatuses' = PodTerminationStatuses,
           frame' \in [Workers -> Frame],
           \A v \in Workers :
              /\ frame'[v].read \in {frame[v].read, Nil, cached}
              /\ frame'[v].copy \in {frame[v].copy, Nil}
    PROVE  OwnMemory' /\ OneEntries' /\ CopiesApart'
<1>1. Listed' \subseteq Listed /\ Live' \subseteq Live
  BY DEF Listed, Live
<1>2. \A o \in Live' : ListOf(o)' = ListOf(o)
  BY DEF ListOf
<1>3. OwnMemory' /\ OneEntries'
  BY <1>1, <1>2 DEF IInv, OwnMemory, OneEntries
<1>4. CopiesApart'
  BY <1>1 DEF IInv, CopiesApart
<1> QED  BY <1>3, <1>4

\* A worker that changes its own copy.
LEMMA CopyChanges ==
    ASSUME IInv, NEW w \in Workers, NEW o, o = frame[w].copy, o # Nil,
           ChangedAt(o), cached' = cached,
           PodTerminationStatuses' = PodTerminationStatuses,
           frame' \in [Workers -> Frame],
           \A v \in Workers : /\ frame'[v].read = frame[v].read
                              /\ frame'[v].copy = frame[v].copy
    PROVE  OwnMemory' /\ OneEntries' /\ CopiesApart'
<1>1. Listed' = Listed /\ Live' = Live
  BY DEF Listed, Live
<1>2. /\ o \in Live /\ o \notin Listed
      /\ \A p \in Live : p \in Objects /\ object[p].array = p
  BY ListsFit DEF IInv, CopiesApart, OwnMemory, Live
<1>3. /\ \A p \in Objects \ {o} : array'[p] = array[p] /\ object'[p] = object[p]
      /\ object'[o].array = o /\ object'[o].len <= Len(array'[o].elements)
      /\ OneEntryEach(ListOf(o)')
  BY DEF ChangedAt
<1>4. \A p \in Live \ {o} : ListOf(p)' = ListOf(p)
  BY <1>2, <1>3 DEF ListOf
<1>5. OwnMemory'
  <2>1. ASSUME NEW p \in Live
        PROVE  object'[p].array = p /\ object'[p].len <= Len(array'[p].elements)
    <3>1. CASE p = o
      BY <1>3, <3>1
    <3>2. CASE p # o
      BY <1>2, <1>3, <3>2 DEF IInv, OwnMemory
    <3> QED  BY <3>1, <3>2
  <2>2. \A p \in Listed : object'[p].replicas = p
    BY <1>2, <1>3 DEF IInv, OwnMemory, Live
  <2> QED  BY <1>1, <2>1, <2>2 DEF OwnMemory
<1>6. OneEntries'
  <2>1. ASSUME NEW p \in Live
        PROVE  OneEntryEach(ListOf(p)')
    <3>1. CASE p = o
      BY <1>3, <3>1
    <3>2. CASE p # o
      <4>1. OneEntryEach(ListOf(p))
        BY DEF IInv, OneEntries
      <4>2. ListOf(p)' = ListOf(p)
        BY <1>4, <3>2
      <4> QED  BY <4>1, <4>2
    <3> QED  BY <3>1, <3>2
  <2> QED  BY <2>1, <1>1 DEF IInv, OneEntries
<1>7. CopiesApart'
  BY <1>1 DEF IInv, CopiesApart
<1> QED  BY <1>5, <1>6, <1>7

LEMMA ReadDatastoreStep ==
    ASSUME IInv, NEW w \in Workers, ReadDatastore(w)
    PROVE  IInv'
<1> USE DEF ReadDatastore, server
<1>1. frame' = [frame EXCEPT ![w] = [NoFrame EXCEPT !.pc = "read",
                                                    !.read = cached]]
  OBVIOUS
<1>2. [NoFrame EXCEPT !.pc = "read", !.read = cached] \in Frame
  BY DEF IInv, MemType, NoFrame, Frame
<1>3. MemType'
  BY <1>1, <1>2 DEF IInv, MemType
<1>4. FramesFit'
  BY <1>1, MemoryAssumption DEF IInv, MemType, FramesFit, NoFrame
<1>5. \A v \in Workers :
         /\ frame'[v].read \in {frame[v].read, Nil, cached}
         /\ frame'[v].copy \in {frame[v].copy, Nil}
  BY <1>1 DEF IInv, MemType, NoFrame
<1>6. OwnMemory' /\ OneEntries' /\ CopiesApart'
  BY <1>3, <1>5, FramesDrop DEF MemType
<1> QED  BY <1>3, <1>4, <1>6 DEF IInv

LEMMA StartChangeStep ==
    ASSUME IInv, NEW w \in Workers, StartChange(w)
    PROVE  IInv'
<1> DEFINE from == frame[w].read
<1>0. PICK o : o = Fresh
  OBVIOUS
<1>1. PICK change \in Changes, todo \in SUBSET PodNames :
         /\ frame' = [frame EXCEPT ![w] = [@ EXCEPT !.pc = change,
                                                    !.copy = o,
                                                    !.todo = todo]]
         /\ DeepCopy(o, from)
  BY <1>0, Zenon DEF StartChange
<1>2. /\ frame[w].pc = "read" /\ cached' = cached
      /\ PodTerminationStatuses' = PodTerminationStatuses
      /\ o \in Objects /\ o \notin Live /\ o # Nil
      /\ frame[w].copy = Nil /\ from # Nil
  BY <1>0, FreshIsFree, MemoryAssumption
  DEF StartChange, server, IInv, FramesFit, MemType
<1>3. from \in Listed /\ from \in Live /\ from \in Objects
  BY <1>2, ListsFit DEF Listed, Live
<1>4. /\ ListOf(from) \in Seq(Entry) /\ Len(ListOf(from)) = object[from].len
      /\ OneEntryEach(ListOf(from))
  BY <1>3, ListsFit DEF IInv, OneEntries
<1>5. /\ array' = [array EXCEPT ![o] = Array(ListOf(from), 0)]
      /\ object' = [object EXCEPT ![o] = [object[from] EXCEPT !.array = o]]
      /\ UNCHANGED cell
  BY <1>1 DEF DeepCopy
<1>6. MemType'
  <2>1. Array(ListOf(from), 0) \in Backing
    BY <1>4, LenProperties DEF Array
  <2>2. [object[from] EXCEPT !.array = o] \in Header
    <3>1. object[from] \in Header
      BY <1>3 DEF IInv, MemType
    <3> QED  BY <1>2, <3>1, HeaderMoves
  <2>3. frame' \in [Workers -> Frame]
    <3>1. [frame[w] EXCEPT !.pc = change, !.copy = o, !.todo = todo] \in Frame
      BY <1>2 DEF IInv, MemType, Frame
    <3> QED  BY <1>1, <3>1 DEF IInv, MemType
  <2> QED  BY <1>2, <1>5, <2>1, <2>2, <2>3 DEF IInv, MemType
<1>7. /\ \A v \in Workers : frame'[v].read = frame[v].read
      /\ \A v \in Workers \ {w} : frame'[v] = frame[v]
      /\ frame'[w].copy = o /\ frame'[w].pc = change
  <2>1. frame[w] \in Frame
    BY DEF IInv, MemType
  <2>2. /\ \A v \in Workers \ {w} : frame'[v] = frame[v]
        /\ frame'[w] = [frame[w] EXCEPT !.pc = change, !.copy = o,
                                        !.todo = todo]
    BY <1>1 DEF IInv, MemType
  <2>3. /\ frame'[w].read = frame[w].read
        /\ frame'[w].copy = o /\ frame'[w].pc = change
    BY <2>1, <2>2 DEF Frame
  <2> QED  BY <2>2, <2>3
<1>8. FramesFit'
  BY <1>2, <1>7 DEF IInv, FramesFit, Changes
<1>9. Listed' = Listed /\ Live' = Live \cup {o}
  <2>1. Listed' = Listed
    BY <1>2, <1>7 DEF Listed
  <2>2. Live' = Live \cup {o}
    BY <1>2, <1>7, <2>1 DEF Live
  <2> QED  BY <2>1, <2>2
<1>10. /\ \A p \in Live : array'[p] = array[p] /\ object'[p] = object[p]
       /\ object'[o].array = o /\ object'[o].len = object[from].len
       /\ array'[o].elements = ListOf(from)
  <2>1. \A p \in Live : p \in Objects /\ p # o
    BY <1>2, ListsFit
  <2>2. \A p \in Live : array'[p] = array[p] /\ object'[p] = object[p]
    BY <1>5, <2>1 DEF IInv, MemType
  <2>3. object'[o] = [object[from] EXCEPT !.array = o]
        /\ array'[o] = Array(ListOf(from), 0)
    BY <1>2, <1>5 DEF IInv, MemType
  <2>4. object[from] \in Header
    BY <1>3 DEF IInv, MemType
  <2>5. Array(ListOf(from), 0).elements = ListOf(from)
    BY DEF Array
  <2> QED  BY <1>2, <2>2, <2>3, <2>4, <2>5, HeaderMoves
<1>11. OwnMemory'
  BY <1>2, <1>4, <1>9, <1>10 DEF IInv, OwnMemory, Live
<1>12. ListOf(o)' = ListOf(from)
  <2>1. ListOf(o)' = SubSeq(ListOf(from), 1, Len(ListOf(from)))
    BY <1>4, <1>10 DEF ListOf
  <2> QED  BY <2>1, <1>4, SubSeqFull
<1>13. OneEntries'
  <2>1. ASSUME NEW p \in Live  PROVE  OneEntryEach(ListOf(p)')
    <3>1. ListOf(p)' = ListOf(p)
      BY <1>10 DEF ListOf, IInv, OwnMemory
    <3> QED  BY <3>1 DEF IInv, OneEntries
  <2>2. OneEntryEach(ListOf(o)')
    BY <1>4, <1>12
  <2>3. \A p \in Live' : OneEntryEach(ListOf(p)')
    BY <1>9, <2>1, <2>2
  <2> QED  BY <1>2, <2>3 DEF IInv, OneEntries
<1>14. CopiesApart'
  BY <1>2, <1>7, <1>9 DEF IInv, CopiesApart, Live
<1> QED  BY <1>6, <1>8, <1>11, <1>13, <1>14 DEF IInv

LEMMA SavedName ==
    ASSUME IInv, NEW w \in Workers, SaveReport(w)
    PROVE  \E name \in PodNames, decommissioned \in BOOLEAN :
              SetInMemory(frame[w].copy, name, decommissioned)
<1>1. PICK name \in frame[w].todo, decommissioned \in BOOLEAN :
         SetInMemory(frame[w].copy, name, decommissioned)
  BY DEF SaveReport
<1>2. name \in PodNames
  BY <1>1 DEF IInv, MemType, Frame
<1> QED  BY <1>1, <1>2

LEMMA SaveReportStep ==
    ASSUME IInv, NEW w \in Workers, SaveReport(w)
    PROVE  IInv'
<1>0. PICK o : o = frame[w].copy
  OBVIOUS
<1>1. PICK name \in PodNames, decommissioned \in BOOLEAN :
         SetInMemory(o, name, decommissioned)
  BY <1>0, SavedName
<1>2. o # Nil /\ o \in Live
  BY <1>0 DEF SaveReport, IInv, FramesFit, Live
<1>3. ChangedAt(o) /\ UNCHANGED cell
  BY <1>1, <1>2, SetIsSound
<1>4. /\ frame' = [frame EXCEPT ![w] = [@ EXCEPT !.pc = "update", !.todo = {}]]
      /\ cached' = cached /\ PodTerminationStatuses' = PodTerminationStatuses
      /\ frame[w].pc = "report"
  BY DEF SaveReport, server
<1>5. /\ frame' \in [Workers -> Frame]
      /\ \A v \in Workers : /\ frame'[v].read = frame[v].read
                             /\ frame'[v].copy = frame[v].copy
      /\ \A v \in Workers \ {w} : frame'[v] = frame[v]
      /\ frame'[w].pc = "update"
  <2> DEFINE f == [frame[w] EXCEPT !.pc = "update", !.todo = {}]
  <2>1. frame[w] \in Frame /\ frame \in [Workers -> Frame]
    BY DEF IInv, MemType
  <2>2. /\ f \in Frame /\ f.read = frame[w].read /\ f.copy = frame[w].copy
        /\ f.pc = "update"
    BY <2>1 DEF Frame
  <2>3. frame' = [frame EXCEPT ![w] = f]
    BY <1>4
  <2> HIDE DEF f
  <2> QED  BY <2>1, <2>2, <2>3
<1>6. MemType'
  <2>1. DOMAIN cell' = DOMAIN cell
    BY <1>3
  <2> QED  BY <1>3, <1>4, <1>5, <2>1 DEF IInv, MemType, ChangedAt
<1>7. FramesFit'
  BY <1>4, <1>5 DEF IInv, FramesFit
<1>8. OwnMemory' /\ OneEntries' /\ CopiesApart'
  BY <1>0, <1>2, <1>3, <1>4, <1>5, CopyChanges
<1> QED  BY <1>6, <1>7, <1>8 DEF IInv

LEMMA RemoveReportStep ==
    ASSUME IInv, NEW w \in Workers, RemoveReport(w)
    PROVE  IInv'
<1>0. PICK o : o = frame[w].copy
  OBVIOUS
<1>1. PICK name \in PodNames :
         /\ o = frame[w].copy /\ RemoveInMemory(o, name)
         /\ frame' = [frame EXCEPT ![w].todo = @ \ {name}]
  BY <1>0 DEF RemoveReport, IInv, MemType, Frame
<1>2. o # Nil /\ o \in Live
  BY <1>1 DEF RemoveReport, IInv, FramesFit, Live
<1>3. ChangedAt(o) /\ UNCHANGED cell
  BY <1>1, <1>2, RemoveIsSound
<1>4. /\ cached' = cached /\ PodTerminationStatuses' = PodTerminationStatuses
      /\ frame[w].pc = "finish"
  BY DEF RemoveReport, server
<1>5. MemType'
  BY <1>1, <1>3, <1>4 DEF IInv, MemType, Frame, ChangedAt
<1>6. FramesFit'
  BY <1>1, <1>4 DEF IInv, MemType, FramesFit
<1>7. OwnMemory' /\ OneEntries' /\ CopiesApart'
  <2>1. \A v \in Workers : /\ frame'[v].read = frame[v].read
                           /\ frame'[v].copy = frame[v].copy
    BY <1>1, <1>2, <1>3, <1>4, <1>5 DEF IInv, MemType
  <2>2. frame' \in [Workers -> Frame]
    BY <1>1, <1>2, <1>3, <1>4, <1>5 DEF MemType
  <2> QED  BY <1>1, <1>2, <1>3, <1>4, <1>5, <2>1, <2>2, CopyChanges
<1> QED  BY <1>5, <1>6, <1>7 DEF IInv

LEMMA EndAttemptStep ==
    ASSUME IInv, NEW w \in Workers, EndAttempt(w)
    PROVE  IInv'
<1>1. PICK o :
         /\ o = frame[w].copy
         /\ array' = [array EXCEPT ![o] = Array(<< >>, 0)]
         /\ object' = [object EXCEPT
                         ![o] = [array |-> o, len |-> 0, replicas |-> w]]
  BY DEF EndAttempt
<1>2. o # Nil /\ o \in Live /\ o \in Objects
  BY <1>1, ListsFit DEF EndAttempt, IInv, FramesFit, Live
<1>3. Array(<< >>, 0) \in Backing
  BY EmptySeq DEF Array
<1>4. ListOf(o)' = << >>
  <2>1. array'[o].elements = << >> /\ object'[o].array = o
        /\ object'[o].len = 0
    BY <1>1, <1>2 DEF Array, IInv, MemType
  <2>2. ListOf(o)' = SubSeq(<< >>, 1, 0)
    BY <2>1 DEF ListOf
  <2> QED  BY <2>2, SubSeqEmpty
<1>5. ChangedAt(o)
  <2>1. OneEntryEach(<< >>)
    BY EmptySeq, LenProperties DEF OneEntryEach
  <2>2. Len(Array(<< >>, 0).elements) = 0
    BY EmptySeq DEF Array
  <2> QED
    BY <1>1, <1>2, <1>3, <1>4, <2>1, <2>2 DEF ChangedAt, IInv, MemType
<1>6. /\ frame' = [frame EXCEPT ![w].pc = "update"]
      /\ cached' = cached /\ PodTerminationStatuses' = PodTerminationStatuses
      /\ frame[w].pc \in {"finish", "restart"} /\ UNCHANGED cell
  BY DEF EndAttempt, server
<1>7. MemType'
  BY <1>5, <1>6 DEF IInv, MemType, Frame, ChangedAt
<1>8. FramesFit'
  BY <1>6 DEF IInv, MemType, FramesFit
<1>9. OwnMemory' /\ OneEntries' /\ CopiesApart'
  <2>1. \A v \in Workers : /\ frame'[v].read = frame[v].read
                           /\ frame'[v].copy = frame[v].copy
    BY <1>1, <1>2, <1>5, <1>6, <1>7 DEF IInv, MemType
  <2>2. frame' \in [Workers -> Frame]
    BY <1>1, <1>2, <1>5, <1>6, <1>7 DEF MemType
  <2> QED  BY <1>1, <1>2, <1>5, <1>6, <1>7, <2>1, <2>2, CopyChanges
<1> QED  BY <1>7, <1>8, <1>9 DEF IInv

LEMMA MirrorCountsStep ==
    ASSUME IInv, NEW w \in Workers, MirrorCounts(w)
    PROVE  IInv'
<1>1. PICK o : /\ o = frame[w].copy
               /\ object' = [object EXCEPT ![o].replicas = w]
  BY DEF MirrorCounts, PointToCounts
<1>2. o # Nil /\ o \in Live /\ o \in Objects
  BY <1>1, ListsFit DEF MirrorCounts, IInv, FramesFit, Live
<1>3. /\ frame' = [frame EXCEPT ![w].pc = "update"]
      /\ cached' = cached /\ PodTerminationStatuses' = PodTerminationStatuses
      /\ frame[w].pc = "counts" /\ UNCHANGED <<array, cell>>
  BY DEF MirrorCounts, server
<1>4. ChangedAt(o)
  <2>1. object'[o].array = object[o].array /\ object'[o].len = object[o].len
    BY <1>1, <1>2 DEF IInv, MemType
  <2>2. ListOf(o)' = ListOf(o)
    BY <1>3, <2>1 DEF ListOf
  <2>3. OneEntryEach(ListOf(o)')
    BY <1>2, <2>2 DEF IInv, OneEntries
  <2>4. object' \in [Objects -> Header]
    <3>1. [object[o] EXCEPT !.replicas = w] \in Header
      BY <1>2, HeaderPoints DEF IInv, MemType
    <3>2. object' = [object EXCEPT ![o] = [object[o] EXCEPT !.replicas = w]]
      BY <1>1
    <3> QED  BY <3>1, <3>2 DEF IInv, MemType
  <2>5. \A p \in Objects \ {o} : array'[p] = array[p] /\ object'[p] = object[p]
    BY <1>1, <1>3 DEF IInv, MemType
  <2> QED
    BY <1>2, <1>3, <2>1, <2>3, <2>4, <2>5
    DEF ChangedAt, IInv, MemType, OwnMemory
<1>5. MemType'
  BY <1>3, <1>4 DEF IInv, MemType, Frame, ChangedAt
<1>6. FramesFit'
  BY <1>3 DEF IInv, MemType, FramesFit
<1>7. OwnMemory' /\ OneEntries' /\ CopiesApart'
  <2>1. \A v \in Workers : /\ frame'[v].read = frame[v].read
                           /\ frame'[v].copy = frame[v].copy
    BY <1>1, <1>2, <1>3, <1>4, <1>5 DEF IInv, MemType
  <2>2. frame' \in [Workers -> Frame]
    BY <1>1, <1>2, <1>3, <1>4, <1>5 DEF MemType
  <2> QED  BY <1>1, <1>2, <1>3, <1>4, <1>5, <2>1, <2>2, CopyChanges
<1> QED  BY <1>5, <1>6, <1>7 DEF IInv

\* A frame that is given up, with its copy or after an Update.
LEMMA FrameEnds ==
    ASSUME IInv, NEW w \in Workers, frame' = [frame EXCEPT ![w] = NoFrame],
           UNCHANGED <<memory, cached>>
    PROVE  /\ frame' \in [Workers -> Frame]
           /\ FramesFit' /\ OwnMemory' /\ CopiesApart'
           /\ \A o \in Live' : o \in Live /\ ListOf(o)' = ListOf(o)
<1>1. NoFrame \in Frame /\ NoFrame.pc = "idle"
      /\ NoFrame.read = Nil /\ NoFrame.copy = Nil
  BY DEF NoFrame, Frame
<1>2. frame' \in [Workers -> Frame] /\ FramesFit'
  BY <1>1 DEF IInv, MemType, FramesFit
<1>3. \A v \in Workers :
         /\ frame'[v].read \in {frame[v].read, Nil, cached}
         /\ frame'[v].copy \in {frame[v].copy, Nil}
  BY <1>1 DEF IInv, MemType
<1>4. Listed' \subseteq Listed /\ Live' \subseteq Live
  BY <1>3 DEF Listed, Live
<1>5. \A o \in Live' : o \in Live /\ ListOf(o)' = ListOf(o)
  BY <1>4 DEF ListOf, memory
<1>6. OwnMemory'
  BY <1>4 DEF IInv, OwnMemory, memory
<1>7. CopiesApart'
  BY <1>3, <1>4 DEF IInv, CopiesApart
<1> QED  BY <1>2, <1>5, <1>6, <1>7

LEMMA UpdateStep ==
    ASSUME IInv, NEW w \in Workers, Update(w)
    PROVE  IInv'
<1>1. PICK o : o = frame[w].copy
  OBVIOUS
<1>2. /\ frame' = [frame EXCEPT ![w] = NoFrame]
      /\ UNCHANGED <<memory, cached>>
      /\ PodTerminationStatuses' = ListOf(o)
  BY <1>1 DEF Update, StatusOf
<1>3. o \in Live
  BY <1>1 DEF Update, IInv, FramesFit, Live
<1>4. PodTerminationStatuses' \in Seq(Entry)
      /\ OneEntryEach(PodTerminationStatuses)'
  BY <1>2, <1>3, ListsFit DEF IInv, OneEntries
<1>5. MemType'
  BY <1>2, <1>4, FrameEnds DEF IInv, MemType, memory
<1>6. OneEntries'
  <2>1. ASSUME NEW p \in Live'  PROVE  OneEntryEach(ListOf(p)')
    <3>1. p \in Live /\ ListOf(p)' = ListOf(p)
      BY <1>2, FrameEnds
    <3> QED  BY <3>1 DEF IInv, OneEntries
  <2> QED  BY <1>4, <2>1 DEF OneEntries
<1> QED  BY <1>2, <1>5, <1>6, FrameEnds DEF IInv

LEMMA GiveUpStep ==
    ASSUME IInv, NEW w \in Workers, GiveUp(w)
    PROVE  IInv'
<1>1. /\ frame' = [frame EXCEPT ![w] = NoFrame]
      /\ UNCHANGED <<memory, cached>>
      /\ PodTerminationStatuses' = PodTerminationStatuses
  BY DEF GiveUp, server
<1>2. MemType'
  BY <1>1, FrameEnds DEF IInv, MemType, memory
<1>3. OneEntries'
  <2>1. ASSUME NEW p \in Live'  PROVE  OneEntryEach(ListOf(p)')
    <3>1. p \in Live /\ ListOf(p)' = ListOf(p)
      BY <1>1, FrameEnds
    <3> QED  BY <3>1 DEF IInv, OneEntries
  <2> QED  BY <1>1, <2>1 DEF IInv, OneEntries
<1> QED  BY <1>1, <1>2, <1>3, FrameEnds DEF IInv

LEMMA DeliverStep ==
    ASSUME IInv, Deliver
    PROVE  IInv'
<1> DEFINE l == PodTerminationStatuses
<1>0. PICK o : o = Fresh
  OBVIOUS
<1>1. /\ o \in Objects /\ o \notin Live /\ o # Nil
      /\ cached' = o /\ frame' = frame /\ l' = l
      /\ array' = [array EXCEPT ![o] = Array(l, Spare)]
      /\ object' = [object EXCEPT
                      ![o] = [array |-> o, len |-> Len(l), replicas |-> o]]
      /\ DOMAIN cell' = DOMAIN cell
  BY <1>0, FreshIsFree, MemoryAssumption DEF Deliver, Decoded, server
<1>2. /\ l \in Seq(Entry) /\ Len(l) \in Nat /\ OneEntryEach(l)
  BY LenProperties DEF IInv, MemType, OneEntries
<1>3. Array(l, Spare) \in Backing /\ Array(l, Spare).elements = l
  BY <1>2, SpareAssumption DEF Array
<1>4. MemType'
  <2>1. [array |-> o, len |-> Len(l), replicas |-> o] \in Header
    BY <1>1, <1>2
  <2> QED  BY <1>1, <1>3, <2>1 DEF IInv, MemType
<1>5. FramesFit'
  BY <1>1 DEF IInv, FramesFit
<1>6. Listed' \subseteq Listed \cup {o} /\ Live' \subseteq Live \cup {o}
  BY <1>1 DEF Listed, Live
<1>7. /\ \A p \in Live : array'[p] = array[p] /\ object'[p] = object[p]
      /\ object'[o].array = o /\ object'[o].len = Len(l)
      /\ object'[o].replicas = o /\ array'[o].elements = l
  <2>1. \A p \in Live : p \in Objects /\ p # o
    BY <1>1, ListsFit
  <2>2. object'[o] = [array |-> o, len |-> Len(l), replicas |-> o]
        /\ array'[o] = Array(l, Spare)
    BY <1>1 DEF IInv, MemType
  <2> QED  BY <1>1, <1>3, <2>1, <2>2 DEF IInv, MemType
<1>8. OwnMemory'
  BY <1>2, <1>6, <1>7 DEF IInv, OwnMemory, Live
<1>9. ListOf(o)' = l
  <2>1. ListOf(o)' = SubSeq(l, 1, Len(l))
    BY <1>7 DEF ListOf
  <2> QED  BY <2>1, <1>2, SubSeqFull
<1>10. OneEntries'
  <2>1. ASSUME NEW p \in Live  PROVE  OneEntryEach(ListOf(p)')
    <3>1. ListOf(p)' = ListOf(p)
      BY <1>7 DEF ListOf, IInv, OwnMemory
    <3> QED  BY <3>1 DEF IInv, OneEntries
  <2>2. \A p \in Live' : OneEntryEach(ListOf(p)')
    BY <1>2, <1>6, <1>9, <2>1
  <2> QED  BY <1>1, <1>2, <2>2 DEF IInv, OneEntries
<1>11. CopiesApart'
  BY <1>1, <1>6 DEF IInv, CopiesApart, Live
<1> QED  BY <1>4, <1>5, <1>8, <1>10, <1>11 DEF IInv

LEMMA IInvInductive == IInv /\ [MemNext]_memVars => IInv'
<1> SUFFICES ASSUME IInv, [MemNext]_memVars  PROVE  IInv'
  OBVIOUS
<1>1. CASE UNCHANGED memVars
  BY <1>1
  DEF memVars, server, memory, IInv, MemType, FramesFit, OwnMemory, OneEntries,
      CopiesApart, Live, Listed, ListOf
<1>2. ASSUME NEW w \in Workers, Worker(w)  PROVE  IInv'
  BY <1>2, ReadDatastoreStep, StartChangeStep, SaveReportStep,
     RemoveReportStep, EndAttemptStep, MirrorCountsStep, UpdateStep, GiveUpStep
  DEF Worker
<1> QED  BY <1>1, <1>2, DeliverStep DEF MemNext

-----------------------------------------------------------------------------
(* The informer's objects. *)

\* Memory that no informer's object has may change.
LEMMA StatusKept ==
    ASSUME IInv, NEW o \in Listed, array'[o] = array[o],
           object'[o] = object[o], cell'[o] = cell[o]
    PROVE  StatusOf(o)' = StatusOf(o)
<1>1. object[o].array = o /\ object[o].replicas = o
  BY DEF IInv, OwnMemory, Live
<1> QED  BY <1>1 DEF StatusOf, ListOf

\* A worker that changes its copy changes nothing that was handed out.
LEMMA ChangeKeepsStatus ==
    ASSUME IInv, NEW w \in Workers, NEW o, o = frame[w].copy, o # Nil,
           ChangedAt(o), UNCHANGED cell, NEW p \in Listed
    PROVE  StatusOf(p)' = StatusOf(p)
<1>1. o \notin Listed /\ p \in Objects
  BY ListsFit DEF IInv, CopiesApart, Live
<1>2. array'[p] = array[p] /\ object'[p] = object[p]
  BY <1>1 DEF ChangedAt
<1> QED  BY <1>2, StatusKept

LEMMA WorkerKeepsStatus ==
    ASSUME IInv, NEW w \in Workers, Worker(w), NEW p \in Listed
    PROVE  StatusOf(p)' = StatusOf(p)
<1>0. p \in Objects /\ p \in Live /\ p # w
  BY ListsFit, MemoryAssumption DEF Live
<1>1. CASE ReadDatastore(w)
  <2>1. UNCHANGED <<array, object>> /\ cell'[p] = cell[p]
    BY <1>0, <1>1 DEF ReadDatastore, IInv, MemType
  <2> QED  BY <2>1, StatusKept
<1>2. CASE StartChange(w)
  <2>1. Fresh \in Objects /\ Fresh # p
    BY <1>0, <1>2, FreshIsFree DEF StartChange
  <2>2. array'[p] = array[p] /\ object'[p] = object[p] /\ cell' = cell
    BY <1>0, <1>2, <2>1 DEF StartChange, DeepCopy, IInv, MemType
  <2> QED  BY <2>2, StatusKept
<1>3. CASE SaveReport(w)
  <2>1. PICK o : o = frame[w].copy
    OBVIOUS
  <2>2. PICK name \in PodNames, decommissioned \in BOOLEAN :
           SetInMemory(o, name, decommissioned)
    BY <1>3, <2>1, SavedName
  <2>3. o # Nil /\ o \in Live
    BY <1>3, <2>1 DEF SaveReport, IInv, FramesFit, Live
  <2> QED  BY <2>1, <2>2, <2>3, SetIsSound, ChangeKeepsStatus
<1>4. CASE RemoveReport(w)
  <2>1. PICK o : o = frame[w].copy
    OBVIOUS
  <2>2. PICK name \in PodNames : RemoveInMemory(o, name)
    BY <1>4, <2>1 DEF RemoveReport, IInv, MemType, Frame
  <2>3. o # Nil /\ o \in Live
    BY <1>4, <2>1 DEF RemoveReport, IInv, FramesFit, Live
  <2> QED  BY <2>1, <2>2, <2>3, RemoveIsSound, ChangeKeepsStatus
<1>5. CASE EndAttempt(w)
  <2>1. frame[w].copy # Nil /\ frame[w].copy \notin Listed
    BY <1>5 DEF EndAttempt, IInv, FramesFit, CopiesApart
  <2>2. array'[p] = array[p] /\ object'[p] = object[p] /\ cell' = cell
    BY <1>0, <1>5, <2>1 DEF EndAttempt, IInv, MemType
  <2> QED  BY <2>2, StatusKept
<1>6. CASE MirrorCounts(w)
  <2>1. frame[w].copy # Nil /\ frame[w].copy \notin Listed
    BY <1>6 DEF MirrorCounts, IInv, FramesFit, CopiesApart
  <2>2. array' = array /\ object'[p] = object[p] /\ cell' = cell
    BY <1>0, <1>6, <2>1 DEF MirrorCounts, PointToCounts, IInv, MemType
  <2> QED  BY <2>2, StatusKept
<1>7. CASE Update(w) \/ GiveUp(w)
  BY <1>7 DEF Update, GiveUp, memory, StatusOf, ListOf
<1> QED  BY <1>1, <1>2, <1>3, <1>4, <1>5, <1>6, <1>7 DEF Worker

\* What the informer handed out stays as it is as long as anybody has it.
THEOREM StoreNeverModified == MemSpec => CacheReadOnly
<1>1. IInv /\ [MemNext]_memVars
        => [\A o \in Listed \cap Listed' : StatusOf(o)' = StatusOf(o)]_memVars
  <2> SUFFICES ASSUME IInv, MemNext, NEW o \in Listed
               PROVE  StatusOf(o)' = StatusOf(o)
    OBVIOUS
  <2>1. CASE Deliver
    <3>1. Fresh \in Objects /\ Fresh # o /\ o \in Objects
      BY <2>1, FreshIsFree, ListsFit DEF Deliver, Live
    <3>2. array'[o] = array[o] /\ object'[o] = object[o] /\ cell'[o] = cell[o]
      BY <2>1, <3>1 DEF Deliver, Decoded, IInv, MemType
    <3> QED  BY <3>2, StatusKept
  <2> QED  BY <2>1, WorkerKeepsStatus DEF MemNext
<1> QED
  BY <1>1, IInvInitially, IInvInductive, PTL DEF MemSpec, CacheReadOnly

\* No pod has two entries at the API server, however its list was made.
THEOREM OneEntryInMemory == MemSpec => []OneEntryPerPod
<1>1. IInv => OneEntryPerPod
  BY DEF IInv, OneEntries, OneEntryPerPod, OneEntryEach, EntriesOf
<1> QED  BY <1>1, IInvInitially, IInvInductive, PTL DEF MemSpec

-----------------------------------------------------------------------------
(* The workers' copies. *)

LEMMA ListKept ==
    ASSUME IInv, NEW o \in Live, array'[o] = array[o],
           object'[o].array = object[o].array, object'[o].len = object[o].len
    PROVE  ListOf(o)' = ListOf(o)
BY DEF IInv, OwnMemory, ListOf

\* Another worker's steps do not reach the memory of a copy.
LEMMA OthersKeepMemory ==
    ASSUME IInv, NEW v \in Workers, NEW w \in Workers, v # w, Worker(v),
           NEW o, o = frame[w].copy, o # Nil
    PROVE  /\ o \in Objects /\ o \in Live
           /\ array'[o] = array[o] /\ object'[o] = object[o]
<1>1. o \in Objects /\ o \in Live
  BY ListsFit DEF Live
<1>2. CASE ReadDatastore(v) \/ Update(v) \/ GiveUp(v)
  BY <1>1, <1>2 DEF ReadDatastore, Update, GiveUp, memory
<1>3. CASE StartChange(v)
  <2>1. Fresh \in Objects /\ Fresh # o
    BY <1>1, <1>3, FreshIsFree DEF StartChange
  <2> QED  BY <1>1, <1>3, <2>1 DEF StartChange, DeepCopy, IInv, MemType
<1>4. ASSUME NEW p, p = frame[v].copy, p # Nil, ChangedAt(p)
      PROVE  array'[o] = array[o] /\ object'[o] = object[o]
  <2>1. p # o
    BY <1>4 DEF IInv, CopiesApart
  <2> QED  BY <1>1, <1>4, <2>1 DEF ChangedAt
<1>5. CASE SaveReport(v)
  <2>1. PICK p : p = frame[v].copy
    OBVIOUS
  <2>2. PICK name \in PodNames, decommissioned \in BOOLEAN :
           SetInMemory(p, name, decommissioned)
    BY <1>5, <2>1, SavedName
  <2>3. p # Nil /\ p \in Live
    BY <1>5, <2>1 DEF SaveReport, IInv, FramesFit, Live
  <2> QED  BY <1>1, <1>4, <2>1, <2>2, <2>3, SetIsSound
<1>6. CASE RemoveReport(v)
  <2>1. PICK p : p = frame[v].copy
    OBVIOUS
  <2>2. PICK name \in PodNames : RemoveInMemory(p, name)
    BY <1>6, <2>1 DEF RemoveReport, IInv, MemType, Frame
  <2>3. p # Nil /\ p \in Live
    BY <1>6, <2>1 DEF RemoveReport, IInv, FramesFit, Live
  <2> QED  BY <1>1, <1>4, <2>1, <2>2, <2>3, RemoveIsSound
<1>7. CASE EndAttempt(v) \/ MirrorCounts(v)
  <2>1. frame[v].copy # o
    BY DEF IInv, CopiesApart
  <2> QED
    BY <1>1, <1>7, <2>1
    DEF EndAttempt, MirrorCounts, PointToCounts, IInv, MemType
<1> QED  BY <1>2, <1>3, <1>5, <1>6, <1>7 DEF Worker

LEMMA OthersKeepList ==
    ASSUME IInv, NEW v \in Workers, NEW w \in Workers, v # w, Worker(v),
           NEW o, o = frame[w].copy, o # Nil
    PROVE  ListOf(o)' = ListOf(o)
BY OthersKeepMemory, ListKept

\* What its own worker does to a copy.
LEMMA OwnChange ==
    ASSUME IInv, NEW w \in Workers, Worker(w), NEW o, o = frame[w].copy,
           o # Nil, frame'[w].copy = o, ListOf(o)' # ListOf(o)
    PROVE  /\ frame'[w] # frame[w]
           /\ \/ ListOf(o)' = << >>
              \/ \E name \in frame[w].todo :
                    \/ ListOf(o)' = RemovePodTerminationStatus(ListOf(o), name)
                    \/ \E decommissioned \in BOOLEAN :
                          ListOf(o)' = SetPodTerminationStatus(ListOf(o), name,
                                                               decommissioned)
<1>1. o \in Objects /\ o \in Live
  BY ListsFit DEF Live
<1>2. ~ReadDatastore(w) /\ ~StartChange(w) /\ ~Update(w) /\ ~GiveUp(w)
  <2>1. ~ReadDatastore(w) /\ ~StartChange(w)
    BY DEF IInv, FramesFit, ReadDatastore, StartChange
  <2>2. ~Update(w) /\ ~GiveUp(w)
    BY DEF IInv, MemType, Update, GiveUp, NoFrame
  <2> QED  BY <2>1, <2>2
<1>3. CASE SaveReport(w)
  <2>1. PICK name \in frame[w].todo, decommissioned \in BOOLEAN :
           SetInMemory(o, name, decommissioned)
    BY <1>3 DEF SaveReport
  <2>2. name \in PodNames
    BY DEF IInv, MemType, Frame
  <2>3. ListOf(o)' = SetPodTerminationStatus(ListOf(o), name, decommissioned)
    BY <1>1, <2>1, <2>2, SetIsSound
  <2>4. frame'[w].pc = "update" /\ frame[w].pc = "report"
    BY <1>3 DEF SaveReport, IInv, MemType
  <2> QED  BY <2>3, <2>4
<1>4. CASE RemoveReport(w)
  <2>1. PICK name \in frame[w].todo :
           /\ RemoveInMemory(o, name)
           /\ frame' = [frame EXCEPT ![w].todo = @ \ {name}]
    BY <1>4 DEF RemoveReport
  <2>2. name \in PodNames
    BY DEF IInv, MemType, Frame
  <2>3. ListOf(o)' = RemovePodTerminationStatus(ListOf(o), name)
    BY <1>1, <2>1, <2>2, RemoveIsSound
  <2>4. name \notin frame'[w].todo
    BY <2>1 DEF IInv, MemType
  <2> QED  BY <2>3, <2>4
<1>5. CASE EndAttempt(w)
  <2>1. array'[o].elements = << >> /\ object'[o].array = o
        /\ object'[o].len = 0
    BY <1>1, <1>5 DEF EndAttempt, Array, IInv, MemType
  <2>2. ListOf(o)' = SubSeq(<< >>, 1, 0)
    BY <2>1 DEF ListOf
  <2>3. ListOf(o)' = << >>
    BY <2>2, SubSeqEmpty
  <2>4. frame'[w].pc = "update" /\ frame[w].pc # "update"
    BY <1>5 DEF EndAttempt, IInv, MemType
  <2> QED  BY <2>3, <2>4
<1>6. CASE MirrorCounts(w)
  <2>1. /\ array' = array /\ object'[o].array = object[o].array
        /\ object'[o].len = object[o].len
    BY <1>1, <1>6 DEF MirrorCounts, PointToCounts, IInv, MemType
  <2> QED  BY <1>1, <2>1, ListKept
<1> QED  BY <1>2, <1>3, <1>4, <1>5, <1>6 DEF Worker

\* In memory the list of a copy behaves as a value, and is its worker's alone.
THEOREM CopiesBehave == MemSpec => CopiesAreLists
<1> DEFINE L(w) == ListOf(frame[w].copy)
           A == \A w \in Workers :
                   (/\ frame[w].copy # Nil
                    /\ frame'[w].copy = frame[w].copy
                    /\ L(w)' # L(w))
                   => /\ frame'[w] # frame[w]
                      /\ \/ L(w)' = << >>
                         \/ \E name \in frame[w].todo :
                               \/ L(w)' = RemovePodTerminationStatus(L(w), name)
                               \/ \E decommissioned \in BOOLEAN :
                                     L(w)' = SetPodTerminationStatus(L(w), name,
                                                          decommissioned)
<1>1. IInv /\ [MemNext]_memVars => [A]_memVars
  <2> SUFFICES ASSUME IInv, MemNext, NEW w \in Workers, frame[w].copy # Nil,
                      frame'[w].copy = frame[w].copy,
                      L(w)' # L(w)
               PROVE  /\ frame'[w] # frame[w]
                      /\ \/ L(w)' = << >>
                         \/ \E name \in frame[w].todo :
                               \/ L(w)' = RemovePodTerminationStatus(L(w), name)
                               \/ \E decommissioned \in BOOLEAN :
                                     L(w)' = SetPodTerminationStatus(L(w), name,
                                                          decommissioned)
    OBVIOUS
  <2>1. PICK o : o = frame[w].copy
    OBVIOUS
  <2>2. L(w) = ListOf(o) /\ L(w)' = ListOf(o)'
    BY <2>1 DEF ListOf
  <2>3. o \in Live
    BY <2>1 DEF Live
  <2>4. CASE Deliver
    <3>1. Fresh \in Objects /\ Fresh # o /\ o \in Objects
      BY <2>3, <2>4, FreshIsFree, ListsFit DEF Deliver
    <3>2. array'[o] = array[o] /\ object'[o] = object[o]
      BY <2>4, <3>1 DEF Deliver, Decoded, IInv, MemType
    <3> QED  BY <2>2, <2>3, <3>2, ListKept
  <2>5. ASSUME NEW v \in Workers, Worker(v), v # w  PROVE  FALSE
    BY <2>1, <2>2, <2>5, OthersKeepList
  <2> HIDE DEF L
  <2>6. CASE Worker(w)
    BY <2>1, <2>2, <2>6, OwnChange
  <2> QED  BY <2>4, <2>5, <2>6 DEF MemNext
<1>2. [][A]_memVars => CopiesAreLists
  BY PTL DEF CopiesAreLists
<1> QED
  BY <1>1, <1>2, IInvInitially, IInvInductive, PTL DEF MemSpec

-----------------------------------------------------------------------------
(* The list at the API server. *)

\* What an Update may send: what one call of the list's methods makes of the
\* server's list, or an empty list.
OneCallFrom(l) ==
    {l, << >>} \cup {SetPodTerminationStatus(l, name, decommissioned) :
                        name \in PodNames, decommissioned \in BOOLEAN}

\* A copy of the server's version is what its worker has made of that.
MadeFromLatest(w) ==
    frame[w].copy \in latest =>
       /\ frame[w].pc \in {"report", "counts"} =>
            ListOf(frame[w].copy) = PodTerminationStatuses
       /\ frame[w].pc = "update" =>
            ListOf(frame[w].copy) \in OneCallFrom(PodTerminationStatuses)

LatestIsServers ==
    /\ latest \subseteq Objects
    /\ \A o \in Listed \cap latest : ListOf(o) = PodTerminationStatuses
    /\ \A w \in Workers : MadeFromLatest(w)

LEMMA LatestInitially == MemInit => LatestIsServers
<1> SUFFICES ASSUME MemInit  PROVE  LatestIsServers
  OBVIOUS
<1>1. PICK o \in Objects :
         /\ cached = o /\ latest = {o}
         /\ array = [p \in Objects |-> Array(<< >>, Spare)]
         /\ object = [p \in Objects |->
                        [array |-> p, len |-> 0, replicas |-> p]]
  BY DEF MemInit
<1>2. /\ PodTerminationStatuses = << >>
      /\ \A w \in Workers : frame[w].copy = Nil
  BY DEF MemInit, Init, NoFrame
<1>3. ListOf(o) = << >>
  <2>1. ListOf(o) = SubSeq(<< >>, 1, 0)
    BY <1>1 DEF ListOf, Array
  <2> QED  BY <2>1, SubSeqEmpty
<1> QED
  BY <1>1, <1>2, <1>3, MemoryAssumption DEF LatestIsServers, MadeFromLatest

\* What the informer and the other workers have is as it was: the worker's own
\* copy is what there is to look at.
LEMMA OthersLatest ==
    ASSUME IInv, LatestIsServers, NEW w \in Workers, Worker(w),
           PodTerminationStatuses' = PodTerminationStatuses,
           latest' \subseteq Objects, Live \cap latest' \subseteq latest,
           Listed' \subseteq Listed,
           \A v \in Workers \ {w} : frame'[v] = frame[v],
           MadeFromLatest(w)'
    PROVE  LatestIsServers'
<1>1. ASSUME NEW o \in (Listed \cap latest)'
      PROVE  ListOf(o)' = PodTerminationStatuses'
  <2>1. o \in Listed /\ o \in latest
    BY <1>1 DEF Live
  <2>2. StatusOf(o)' = StatusOf(o)
    BY <2>1, WorkerKeepsStatus
  <2>3. ListOf(o)' = ListOf(o)
    BY <2>2 DEF StatusOf
  <2> QED  BY <2>1, <2>3 DEF LatestIsServers
<1>2. ASSUME NEW v \in Workers \ {w}  PROVE  MadeFromLatest(v)'
  <2>1. PICK o : o = frame[v].copy
    OBVIOUS
  <2>2. SUFFICES ASSUME o \in latest'
                 PROVE  /\ frame[v].pc \in {"report", "counts"} =>
                             ListOf(o)' = PodTerminationStatuses
                        /\ frame[v].pc = "update" =>
                             ListOf(o)' \in OneCallFrom(PodTerminationStatuses)
    <3>1. frame'[v] = frame[v] /\ frame'[v].copy = o
      BY <2>1
    <3>2. ListOf(frame[v].copy)' = ListOf(o)'
      BY <3>1 DEF ListOf
    <3> QED  BY <3>1, <3>2 DEF MadeFromLatest, OneCallFrom
  <2>3. o # Nil /\ o \in Live
    BY <2>1, <2>2, MemoryAssumption DEF Live
  <2>4. ListOf(o)' = ListOf(o)
    BY <2>1, <2>3, OthersKeepList
  <2>5. o \in latest
    BY <2>2, <2>3
  <2> QED  BY <2>1, <2>4, <2>5 DEF LatestIsServers, MadeFromLatest
<1> QED  BY <1>1, <1>2 DEF LatestIsServers

LEMMA CopyReads ==
    ASSUME IInv, NEW w \in Workers, StartChange(w), NEW o, o = Fresh
    PROVE  ListOf(o)' = ListOf(frame[w].read) /\ frame[w].read \in Listed
<1> DEFINE from == frame[w].read
           l == ListOf(from)
<1>1. /\ o \in Objects /\ from \in Listed
      /\ array' = [array EXCEPT ![o] = Array(l, 0)]
      /\ object' = [object EXCEPT ![o] = [object[from] EXCEPT !.array = o]]
  BY FreshIsFree DEF StartChange, DeepCopy, IInv, FramesFit, Listed
<1>2. from \in Objects /\ l \in Seq(Entry) /\ Len(l) = object[from].len
  BY <1>1, ListsFit DEF Live
<1>3. object'[o].array = o /\ object'[o].len = Len(l)
  BY <1>1, <1>2, HeaderMoves DEF IInv, MemType
<1>4. array'[o].elements = l
  BY <1>1 DEF Array, IInv, MemType
<1>5. ListOf(o)' = SubSeq(l, 1, Len(l))
  BY <1>3, <1>4 DEF ListOf
<1> QED  BY <1>1, <1>2, <1>5, SubSeqFull

LEMMA DecodedReads ==
    ASSUME IInv, Deliver, NEW o, o = Fresh
    PROVE  ListOf(o)' = PodTerminationStatuses
<1> DEFINE l == PodTerminationStatuses
<1>1. /\ o \in Objects /\ l \in Seq(Entry)
      /\ array' = [array EXCEPT ![o] = Array(l, Spare)]
      /\ object' = [object EXCEPT
                      ![o] = [array |-> o, len |-> Len(l), replicas |-> o]]
  BY FreshIsFree DEF Deliver, Decoded, IInv, MemType
<1>2. /\ object'[o].array = o /\ object'[o].len = Len(l)
      /\ array'[o].elements = l
  BY <1>1 DEF Array, IInv, MemType
<1>3. ListOf(o)' = SubSeq(l, 1, Len(l))
  BY <1>2 DEF ListOf
<1> QED  BY <1>1, <1>3, SubSeqFull

LEMMA OnlyOwnFrame ==
    ASSUME IInv, NEW w \in Workers, Worker(w)
    PROVE  /\ \A v \in Workers \ {w} : frame'[v] = frame[v]
           /\ cached' = cached
           /\ frame'[w].read \in {frame[w].read, cached, Nil}
           /\ Listed' \subseteq Listed
<1>1. /\ cached' = cached
      /\ \E f : /\ frame' = [frame EXCEPT ![w] = f]
                /\ f.read \in {frame[w].read, cached, Nil}
  <2>1. frame[w] \in Frame
    BY DEF IInv, MemType
  <2>2. CASE ReadDatastore(w)
    <3>1. [NoFrame EXCEPT !.pc = "read", !.read = cached].read = cached
      BY DEF NoFrame
    <3> QED  BY <2>2, <3>1 DEF ReadDatastore
  <2>3. CASE StartChange(w)
    <3>1. PICK change, todo :
             frame' = [frame EXCEPT ![w] = [@ EXCEPT !.pc = change,
                                                    !.copy = Fresh,
                                                    !.todo = todo]]
      BY <2>3 DEF StartChange
    <3>2. [frame[w] EXCEPT !.pc = change, !.copy = Fresh, !.todo = todo].read
            = frame[w].read
      BY <2>1 DEF Frame
    <3> QED  BY <2>3, <3>1, <3>2 DEF StartChange
  <2>4. CASE SaveReport(w)
    <3>1. [frame[w] EXCEPT !.pc = "update", !.todo = {}].read = frame[w].read
      BY <2>1 DEF Frame
    <3> QED  BY <2>4, <3>1 DEF SaveReport
  <2>5. CASE RemoveReport(w)
    <3>1. PICK name :
             frame' = [frame EXCEPT ![w].todo = @ \ {name}]
      BY <2>5 DEF RemoveReport
    <3> DEFINE f == [frame[w] EXCEPT !.todo = @ \ {name}]
    <3>2. f.read = frame[w].read
      BY <2>1 DEF Frame
    <3>3. frame' = [frame EXCEPT ![w] = f]
      BY <3>1
    <3> QED  BY <2>5, <3>2, <3>3 DEF RemoveReport
  <2>6. CASE EndAttempt(w) \/ MirrorCounts(w)
    <3> DEFINE f == [frame[w] EXCEPT !.pc = "update"]
    <3>1. f.read = frame[w].read
      BY <2>1 DEF Frame
    <3>2. frame' = [frame EXCEPT ![w] = f] /\ cached' = cached
      BY <2>6 DEF EndAttempt, MirrorCounts
    <3> QED  BY <3>1, <3>2
  <2>7. CASE Update(w) \/ GiveUp(w)
    <3>1. NoFrame.read = Nil
      BY DEF NoFrame
    <3> QED  BY <2>7, <3>1 DEF Update, GiveUp
  <2> QED  BY <2>2, <2>3, <2>4, <2>5, <2>6, <2>7 DEF Worker
<1>2. PICK f : /\ frame' = [frame EXCEPT ![w] = f]
               /\ f.read \in {frame[w].read, cached, Nil}
  BY <1>1
<1>3. /\ \A v \in Workers \ {w} : frame'[v] = frame[v]
      /\ frame'[w] = f
  BY <1>2 DEF IInv, MemType
<1>4. \A v \in Workers : frame'[v].read \in {frame[v].read, cached, Nil}
  BY <1>2, <1>3
<1>5. Listed' \subseteq Listed
  BY <1>1, <1>4 DEF Listed
<1> QED  BY <1>1, <1>3, <1>4, <1>5

LEMMA LatestInductive ==
    ASSUME IInv, LatestIsServers, [MemNext]_memVars
    PROVE  LatestIsServers'
<1> DEFINE l == PodTerminationStatuses
<1>1. CASE UNCHANGED memVars
  BY <1>1
  DEF memVars, server, memory, LatestIsServers, MadeFromLatest, OneCallFrom,
      Listed, ListOf
<1>2. CASE Deliver
  <2>1. PICK o : o = Fresh
    OBVIOUS
  <2>2. /\ o \in Objects /\ o \notin Live /\ ListOf(o)' = l
        /\ cached' = o /\ latest' = latest \cup {o}
        /\ frame' = frame /\ l' = l
    BY <1>2, <2>1, FreshIsFree, DecodedReads DEF Deliver, server
  <2>3. ASSUME NEW p \in Live  PROVE  ListOf(p)' = ListOf(p)
    <3>1. p \in Objects /\ p # o
      BY <2>2, ListsFit
    <3>2. array'[p] = array[p] /\ object'[p] = object[p]
      BY <1>2, <2>1, <2>2, <3>1 DEF Deliver, Decoded, IInv, MemType
    <3> QED  BY <3>2, ListKept
  <2>4. Listed' \subseteq Listed \cup {o}
    BY <2>2 DEF Listed
  <2>5. ASSUME NEW p \in (Listed \cap latest)'  PROVE  ListOf(p)' = l'
    <3>1. CASE p = o
      BY <2>2, <3>1
    <3>2. CASE p # o
      <4>1. p \in Listed /\ p \in latest /\ p \in Live
        BY <2>2, <2>4, <2>5, <3>2 DEF Live
      <4> QED  BY <2>2, <2>3, <4>1 DEF LatestIsServers
    <3> QED  BY <3>1, <3>2
  <2>6. ASSUME NEW w \in Workers  PROVE  MadeFromLatest(w)'
    <3>1. PICK p : p = frame[w].copy
      OBVIOUS
    <3>2. ListOf(frame[w].copy)' = ListOf(p)' /\ frame'[w].copy = p
      BY <2>2, <3>1 DEF ListOf
    <3>3. CASE p \in latest'
      <4>1. p # Nil
        BY <2>2, <3>3, MemoryAssumption DEF LatestIsServers
      <4>2. p \in Live
        BY <3>1, <4>1 DEF Live
      <4>3. ListOf(p)' = ListOf(p) /\ p \in latest
        BY <2>2, <2>3, <3>3, <4>2
      <4> QED
        BY <2>2, <3>1, <3>2, <4>3
        DEF LatestIsServers, MadeFromLatest, OneCallFrom
    <3>4. CASE p \notin latest'
      BY <3>2, <3>4 DEF MadeFromLatest
    <3> QED  BY <3>3, <3>4
  <2> QED  BY <2>2, <2>5, <2>6 DEF LatestIsServers
<1>3. ASSUME NEW w \in Workers, Worker(w)  PROVE  LatestIsServers'
  <2>1. PICK o : o = frame[w].copy
    OBVIOUS
  <2>2. /\ Listed' \subseteq Listed
        /\ \A v \in Workers \ {w} : frame'[v] = frame[v]
    BY <1>3, OnlyOwnFrame
  <2>3. CASE ReadDatastore(w) \/ GiveUp(w)
    <3>1. frame'[w].copy = Nil /\ l' = l /\ latest' = latest
      <4>1. l' = l /\ latest' = latest
        BY <2>3 DEF ReadDatastore, GiveUp, server
      <4>2. NoFrame.copy = Nil
            /\ [NoFrame EXCEPT !.pc = "read", !.read = cached].copy = Nil
        BY DEF NoFrame
      <4>3. \E f : f.copy = Nil /\ frame' = [frame EXCEPT ![w] = f]
        BY <2>3, <4>2 DEF ReadDatastore, GiveUp
      <4> QED  BY <4>1, <4>3 DEF IInv, MemType
    <3>2. MadeFromLatest(w)'
      BY <3>1, MemoryAssumption DEF MadeFromLatest, LatestIsServers
    <3> QED  BY <1>3, <2>2, <3>1, <3>2, OthersLatest DEF LatestIsServers
  <2>4. CASE StartChange(w)
    <3>1. PICK f : f = Fresh
      OBVIOUS
    <3>2. /\ f \in Objects /\ f \notin Live /\ l' = l
          /\ latest' = IF frame[w].read \in latest THEN latest \cup {f}
                       ELSE latest \ {f}
      BY <2>4, <3>1, FreshIsFree DEF StartChange, server
    <3>3. ListOf(f)' = ListOf(frame[w].read) /\ frame[w].read \in Listed
      BY <2>4, <3>1, CopyReads
    <3>4. frame'[w].copy = f /\ frame'[w].pc \in Changes
      <4>1. PICK change \in Changes, todo \in SUBSET PodNames :
               frame' = [frame EXCEPT ![w] = [@ EXCEPT !.pc = change,
                                                      !.copy = f,
                                                      !.todo = todo]]
        BY <2>4, <3>1 DEF StartChange
      <4>2. /\ frame'[w] = [frame[w] EXCEPT !.pc = change, !.copy = f,
                                           !.todo = todo]
            /\ frame[w] \in Frame
        BY <4>1 DEF IInv, MemType
      <4> QED  BY <4>2 DEF Frame
    <3>5. f \in latest' => ListOf(f)' = l'
      BY <3>2, <3>3 DEF LatestIsServers
    <3>6. ListOf(frame[w].copy)' = ListOf(f)'
      BY <3>4 DEF ListOf
    <3>7. MadeFromLatest(w)'
      BY <3>4, <3>5, <3>6 DEF MadeFromLatest, Changes
    <3>8. latest' \subseteq Objects /\ Live \cap latest' \subseteq latest
      BY <3>2 DEF LatestIsServers
    <3> QED  BY <1>3, <2>2, <3>2, <3>7, <3>8, OthersLatest
  <2>5. ASSUME NEW new, ListOf(o)' = new,
               frame'[w].copy = o, l' = l, latest' = latest,
               o \in latest =>
                  \/ frame'[w].pc = "finish"
                  \/ frame'[w].pc = "update" /\ new \in OneCallFrom(l)
        PROVE  LatestIsServers'
    <3>1. ListOf(frame[w].copy)' = new
      BY <2>5 DEF ListOf
    <3>2. MadeFromLatest(w)'
      BY <2>5, <3>1 DEF MadeFromLatest, OneCallFrom
    <3> QED  BY <1>3, <2>2, <2>5, <3>2, OthersLatest DEF LatestIsServers
  <2>6. CASE SaveReport(w) \/ RemoveReport(w) \/ EndAttempt(w) \/ MirrorCounts(w)
    <3>1. o # Nil /\ o \in Live /\ o \in Objects
      <4>1. o # Nil
        BY <2>1, <2>6
        DEF SaveReport, RemoveReport, EndAttempt, MirrorCounts, IInv, FramesFit
      <4> QED  BY <2>1, <4>1, ListsFit DEF Live
    <3>2. l' = l /\ latest' = latest /\ frame[w] \in Frame
      BY <2>6
      DEF SaveReport, RemoveReport, EndAttempt, MirrorCounts, server, IInv,
          MemType
    <3>3. o \in latest /\ frame[w].pc \in {"report", "counts"} => ListOf(o) = l
      BY <2>1 DEF LatestIsServers, MadeFromLatest
    <3>4. CASE SaveReport(w)
      <4>1. PICK name \in PodNames, decommissioned \in BOOLEAN :
               SetInMemory(o, name, decommissioned)
        BY <2>1, <3>4, SavedName
      <4>2. ListOf(o)'
              = SetPodTerminationStatus(ListOf(o), name, decommissioned)
        BY <3>1, <4>1, SetIsSound
      <4>3. frame'[w] = [frame[w] EXCEPT !.pc = "update", !.todo = {}]
        BY <3>4 DEF SaveReport, IInv, MemType
      <4>4. frame'[w].copy = o /\ frame'[w].pc = "update"
        BY <2>1, <3>2, <4>3 DEF Frame
      <4>5. o \in latest =>
               SetPodTerminationStatus(ListOf(o), name, decommissioned)
                  \in OneCallFrom(l)
        BY <3>3, <3>4 DEF SaveReport, OneCallFrom
      <4> QED  BY <2>5, <3>2, <4>2, <4>4, <4>5
    <3>5. CASE RemoveReport(w)
      <4>1. frame'[w].copy = o /\ frame'[w].pc = "finish"
        BY <2>1, <3>5 DEF RemoveReport, IInv, MemType
      <4>2. PICK new : new = ListOf(o)'
        OBVIOUS
      <4> QED  BY <2>5, <3>2, <4>1, <4>2
    <3>6. CASE EndAttempt(w)
      <4>1. array'[o].elements = << >> /\ object'[o].array = o
            /\ object'[o].len = 0
        BY <2>1, <3>1, <3>6 DEF EndAttempt, Array, IInv, MemType
      <4>2. ListOf(o)' = SubSeq(<< >>, 1, 0)
        BY <4>1 DEF ListOf
      <4>3. ListOf(o)' = << >>
        BY <4>2, SubSeqEmpty
      <4>4. frame'[w].copy = o /\ frame'[w].pc = "update"
        BY <2>1, <3>6 DEF EndAttempt, IInv, MemType
      <4>5. << >> \in OneCallFrom(l)
        BY DEF OneCallFrom
      <4> QED  BY <2>5, <3>2, <4>3, <4>4, <4>5
    <3>7. CASE MirrorCounts(w)
      <4>1. /\ array' = array /\ object'[o].array = object[o].array
            /\ object'[o].len = object[o].len
        BY <2>1, <3>1, <3>7
        DEF MirrorCounts, PointToCounts, IInv, MemType
      <4>2. ListOf(o)' = ListOf(o)
        BY <3>1, <4>1, ListKept
      <4>3. frame'[w].copy = o /\ frame'[w].pc = "update"
        BY <2>1, <3>7 DEF MirrorCounts, IInv, MemType
      <4>4. o \in latest => ListOf(o) \in OneCallFrom(l)
        BY <3>3, <3>7 DEF MirrorCounts, OneCallFrom
      <4> QED  BY <2>5, <3>2, <4>2, <4>3, <4>4
    <3> QED  BY <2>6, <3>4, <3>5, <3>6, <3>7
  <2>7. CASE Update(w)
    <3>1. CASE latest' = {}
      BY <3>1 DEF LatestIsServers, MadeFromLatest
    <3>2. CASE latest' # {}
      <4>1. latest' = latest /\ l' = l
        BY <2>7, <3>2 DEF Update
      <4>2. frame'[w].copy = Nil
        BY <2>7 DEF Update, NoFrame, IInv, MemType
      <4>3. MadeFromLatest(w)'
        BY <4>1, <4>2, MemoryAssumption DEF MadeFromLatest, LatestIsServers
      <4> QED  BY <1>3, <2>2, <4>1, <4>3, OthersLatest DEF LatestIsServers
    <3> QED  BY <3>1, <3>2
  <2> QED  BY <1>3, <2>3, <2>4, <2>6, <2>7 DEF Worker
<1> QED  BY <1>1, <1>2, <1>3 DEF MemNext

\* What reaches the server out of the workers' memory is what the methods make
\* of the server's own list, one call at a time: nothing is saved on an old
\* list, and nothing of another copy gets into one.
THEOREM ListOfValues == MemSpec => Spec
<1>1. MemInit => Init
  BY DEF MemInit
<1>2. IInv /\ LatestIsServers /\ [MemNext]_memVars
        => [Next]_PodTerminationStatuses
  <2> SUFFICES ASSUME IInv, LatestIsServers, [MemNext]_memVars,
                      PodTerminationStatuses' # PodTerminationStatuses
               PROVE  Next
    OBVIOUS
  <2>1. PICK w \in Workers : Update(w)
    BY DEF MemNext, Worker, Deliver, ReadDatastore, StartChange, SaveReport,
           RemoveReport, EndAttempt, MirrorCounts, GiveUp, memVars, server
  <2>2. PodTerminationStatuses' \in OneCallFrom(PodTerminationStatuses)
    BY <2>1 DEF Update, StatusOf, LatestIsServers, MadeFromLatest
  <2> QED
    BY <2>2 DEF OneCallFrom, Next, SetStatus, ResetStatuses
<1> QED
  BY <1>1, <1>2, IInvInitially, IInvInductive, LatestInitially,
     LatestInductive, PTL DEF MemSpec, Spec

\* So the server's list is the map of first reports, whatever the copies share.
THEOREM FirstReports == MemSpec => FirstReportsKept
BY ListOfValues, ListImplementsMap, PTL

-----------------------------------------------------------------------------
(* The counts at the API server. *)

\* A copy points to the counts of what it was made of, which are never written,
\* or to those of its own worker.
OwnPointer(w) ==
    frame[w].copy # Nil =>
        object[frame[w].copy].replicas \in {frame[w].read, w}

CopyOfLatest(w) == frame[w].copy \in latest => frame[w].read \in latest

CountsAreServers ==
    /\ \A w \in Workers : OwnPointer(w) /\ CopyOfLatest(w)
    /\ \A o \in Listed \cap latest : cell[o] = replicas

LEMMA CountsInitially == MemInit => CountsAreServers
<1> SUFFICES ASSUME MemInit  PROVE  CountsAreServers
  OBVIOUS
<1>1. /\ \A w \in Workers : frame[w].copy = Nil
      /\ latest \subseteq Objects /\ replicas = Nil
      /\ \A o \in Objects : cell[o] = Nil
  BY DEF MemInit, NoFrame
<1> QED
  BY <1>1, MemoryAssumption DEF CountsAreServers, OwnPointer, CopyOfLatest

\* The methods of the list leave the pointer alone.
LEMMA PointerKept ==
    ASSUME IInv, NEW o \in Live, NEW name \in PodNames,
           \/ RemoveInMemory(o, name)
           \/ \E decommissioned \in BOOLEAN : SetInMemory(o, name, decommissioned)
    PROVE  object'[o].replicas = object[o].replicas
<1>1. o \in Objects /\ object[o] \in Header /\ object \in [Objects -> Header]
  BY ListsFit DEF IInv, MemType
<1>2. CASE RemoveInMemory(o, name)
  BY <1>1, <1>2 DEF RemoveInMemory, memory
<1>3. ASSUME NEW decommissioned \in BOOLEAN, SetInMemory(o, name, decommissioned)
      PROVE  object'[o].replicas = object[o].replicas
  <2>1. ASSUME NEW entry, AppendStatus(o, entry)
        PROVE  object'[o].replicas = object[o].replicas
    <3> DEFINE n == object[o].len + 1
               h == [object[o] EXCEPT !.len = n]
               m == [object[o] EXCEPT !.array = o, !.len = n]
    <3>1. \/ object' = [object EXCEPT ![o] = h]
          \/ object' = [object EXCEPT ![o] = m]
      BY <2>1, Zenon DEF AppendStatus
    <3>2. h.replicas = object[o].replicas /\ m.replicas = object[o].replicas
      BY <1>1
    <3> HIDE DEF h, m
    <3> QED  BY <1>1, <3>1, <3>2
  <2> QED  BY <1>3, <2>1 DEF SetInMemory, memory
<1> QED  BY <1>2, <1>3

\* Counts that anybody else reads are as they were.
LEMMA OthersCounts ==
    ASSUME IInv, LatestIsServers, CountsAreServers, NEW w \in Workers, Worker(w),
           replicas' = replicas, latest' \subseteq Objects,
           Live \cap latest' = Live \cap latest,
           OwnPointer(w)', CopyOfLatest(w)'
    PROVE  CountsAreServers'
<1>1. /\ Listed' \subseteq Listed
      /\ \A v \in Workers \ {w} : frame'[v] = frame[v]
  BY OnlyOwnFrame
<1>2. ASSUME NEW o \in (Listed \cap latest)'  PROVE  cell'[o] = replicas'
  <2>1. o \in Listed /\ o \in latest /\ o \in Live
    BY <1>1, <1>2 DEF Live
  <2>2. o \in Objects /\ o # w
    BY <2>1, ListsFit, MemoryAssumption
  <2>3. cell'[o] = cell[o]
    <3>1. UNCHANGED cell \/ ReadDatastore(w)
      <4>1. SaveReport(w) => UNCHANGED cell
        BY SavedName, SetIsSound DEF SaveReport, IInv, FramesFit, Live
      <4>2. RemoveReport(w) => UNCHANGED cell
        BY RemoveIsSound DEF RemoveReport, IInv, FramesFit, MemType, Frame, Live
      <4>3. StartChange(w) \/ EndAttempt(w) \/ MirrorCounts(w) \/ Update(w)
              \/ GiveUp(w) => UNCHANGED cell
        BY DEF StartChange, DeepCopy, EndAttempt, MirrorCounts, Update, GiveUp,
               memory
      <4> QED  BY <4>1, <4>2, <4>3 DEF Worker
    <3> QED  BY <2>2, <3>1 DEF ReadDatastore, IInv, MemType
  <2> QED  BY <2>1, <2>3 DEF CountsAreServers
<1>3. ASSUME NEW v \in Workers \ {w}
      PROVE  OwnPointer(v)' /\ CopyOfLatest(v)'
  <2>1. PICK o : o = frame[v].copy
    OBVIOUS
  <2>2. frame'[v] = frame[v] /\ frame'[v].copy = o
    BY <1>1, <2>1
  <2>3. CASE o = Nil
    BY <2>2, <2>3, MemoryAssumption DEF OwnPointer, CopyOfLatest
  <2>4. CASE o # Nil
    <3>1. o \in Live /\ object'[o] = object[o]
      BY <2>1, <2>4, OthersKeepMemory
    <3>2. frame[v].read # Nil /\ frame[v].read \in Live
      BY <2>1, <2>4 DEF IInv, FramesFit, Live, Listed
    <3> QED
      BY <2>1, <2>2, <3>1, <3>2 DEF CountsAreServers, OwnPointer, CopyOfLatest
  <2> QED  BY <2>3, <2>4
<1> QED  BY <1>2, <1>3 DEF CountsAreServers

LEMMA CountsInductive ==
    ASSUME IInv, LatestIsServers, CountsAreServers, [MemNext]_memVars
    PROVE  CountsAreServers'
<1>1. CASE UNCHANGED memVars
  BY <1>1
  DEF memVars, server, memory, CountsAreServers, OwnPointer, CopyOfLatest, Listed
<1>2. CASE Deliver
  <2>1. PICK o : o = Fresh
    OBVIOUS
  <2>2. /\ o \in Objects /\ o \notin Live /\ frame' = frame
        /\ cached' = o /\ latest' = latest \cup {o} /\ replicas' = replicas
        /\ cell' = [cell EXCEPT ![o] = replicas]
        /\ \A p \in Objects \ {o} : object'[p] = object[p]
        /\ cell'[o] = replicas
    BY <1>2, <2>1, FreshIsFree DEF Deliver, Decoded, server, IInv, MemType
  <2>3. Listed' \subseteq Listed \cup {o}
    BY <2>2 DEF Listed
  <2>4. ASSUME NEW p \in (Listed \cap latest)'  PROVE  cell'[p] = replicas'
    <3>1. CASE p = o
      BY <2>2, <3>1
    <3>2. CASE p # o
      <4>1. p \in Listed /\ p \in latest /\ p \in Objects
        BY <2>2, <2>3, <2>4, <3>2, ListsFit DEF Live
      <4>2. cell'[p] = cell[p]
        BY <2>2, <3>2, <4>1 DEF IInv, MemType
      <4> QED  BY <2>2, <4>1, <4>2 DEF CountsAreServers
    <3> QED  BY <3>1, <3>2
  <2>5. ASSUME NEW w \in Workers  PROVE  OwnPointer(w)' /\ CopyOfLatest(w)'
    <3>1. CASE frame[w].copy = Nil
      BY <2>2, <3>1, MemoryAssumption
      DEF OwnPointer, CopyOfLatest, LatestIsServers
    <3>2. CASE frame[w].copy # Nil
      <4>1. frame[w].copy \in Live
        BY <3>2 DEF Live
      <4>2. frame[w].copy \in Objects \ {o}
        BY <2>2, <4>1, ListsFit
      <4> QED
        BY <2>2, <3>2, <4>2 DEF CountsAreServers, OwnPointer, CopyOfLatest
    <3> QED  BY <3>1, <3>2
  <2> QED  BY <2>4, <2>5 DEF CountsAreServers
<1>3. ASSUME NEW w \in Workers, Worker(w)  PROVE  CountsAreServers'
  <2>1. frame[w] \in Frame /\ latest \subseteq Objects
    BY DEF IInv, MemType, LatestIsServers
  <2>2. ASSUME frame'[w].copy = Nil, replicas' = replicas, latest' = latest
        PROVE  CountsAreServers'
    <3>1. OwnPointer(w)' /\ CopyOfLatest(w)'
      BY <2>1, <2>2, MemoryAssumption DEF OwnPointer, CopyOfLatest
    <3> QED  BY <1>3, <2>1, <2>2, <3>1, OthersCounts
  <2>3. CASE ReadDatastore(w) \/ GiveUp(w)
    <3>1. replicas' = replicas /\ latest' = latest
      BY <2>3 DEF ReadDatastore, GiveUp, server
    <3>2. NoFrame.copy = Nil
          /\ [NoFrame EXCEPT !.pc = "read", !.read = cached].copy = Nil
      BY DEF NoFrame
    <3>3. \E f : f.copy = Nil /\ frame' = [frame EXCEPT ![w] = f]
      BY <2>3, <3>2 DEF ReadDatastore, GiveUp
    <3>4. frame'[w].copy = Nil
      BY <3>3 DEF IInv, MemType
    <3> QED  BY <2>2, <3>1, <3>4
  <2>4. CASE Update(w)
    <3>1. frame'[w].copy = Nil
      BY <2>4 DEF Update, NoFrame, IInv, MemType
    <3>2. CASE replicas' = replicas /\ latest' = latest
      BY <2>2, <3>1, <3>2
    <3>3. CASE latest' = {}
      <4>1. \A v \in Workers \ {w} : frame'[v] = frame[v] /\ object' = object
        BY <2>4 DEF Update, memory, IInv, MemType
      <4> QED
        BY <3>1, <3>3, <4>1 DEF CountsAreServers, OwnPointer, CopyOfLatest
    <3> QED  BY <2>4, <3>2, <3>3 DEF Update
  <2>5. CASE StartChange(w)
    <3>1. PICK f : f = Fresh
      OBVIOUS
    <3> DEFINE from == frame[w].read
    <3>2. /\ f \in Objects /\ f \notin Live /\ from \in Listed
          /\ replicas' = replicas
          /\ latest' = IF from \in latest THEN latest \cup {f}
                       ELSE latest \ {f}
      BY <2>5, <3>1, FreshIsFree, CopyReads DEF StartChange, server
    <3>3. frame'[w].copy = f /\ frame'[w].read = from
      <4>1. PICK change \in Changes, todo \in SUBSET PodNames :
               frame' = [frame EXCEPT ![w] = [@ EXCEPT !.pc = change,
                                                      !.copy = f,
                                                      !.todo = todo]]
        BY <2>5, <3>1 DEF StartChange
      <4>2. frame'[w] = [frame[w] EXCEPT !.pc = change, !.copy = f,
                                         !.todo = todo]
        BY <4>1 DEF IInv, MemType
      <4> QED  BY <2>1, <4>2 DEF Frame
    <3>4. object'[f].replicas = from
      <4>1. from \in Objects /\ object[from] \in Header
            /\ object[from].replicas = from
        BY <3>2, ListsFit DEF IInv, MemType, OwnMemory, Live
      <4>2. object'[f] = [object[from] EXCEPT !.array = f]
        BY <2>5, <3>1, <3>2 DEF StartChange, DeepCopy, IInv, MemType
      <4> QED  BY <4>1, <4>2
    <3>5. OwnPointer(w)' /\ CopyOfLatest(w)'
      BY <3>2, <3>3, <3>4 DEF OwnPointer, CopyOfLatest
    <3>6. latest' \subseteq Objects /\ Live \cap latest' = Live \cap latest
      BY <2>1, <3>2
    <3> QED  BY <1>3, <3>2, <3>5, <3>6, OthersCounts
  <2>6. CASE SaveReport(w) \/ RemoveReport(w) \/ EndAttempt(w) \/ MirrorCounts(w)
    <3>1. PICK o : o = frame[w].copy
      OBVIOUS
    <3>2. o # Nil /\ o \in Live /\ o \in Objects
      <4>1. o # Nil
        BY <2>6, <3>1
        DEF SaveReport, RemoveReport, EndAttempt, MirrorCounts, IInv, FramesFit
      <4> QED  BY <3>1, <4>1, ListsFit DEF Live
    <3>3. replicas' = replicas /\ latest' = latest
      BY <2>6
      DEF SaveReport, RemoveReport, EndAttempt, MirrorCounts, server
    <3>4. frame'[w].copy = o /\ frame'[w].read = frame[w].read
      <4>1. PICK step, todo :
               frame'[w] = [frame[w] EXCEPT !.pc = step, !.todo = todo]
        <5>1. ASSUME NEW step, NEW todo,
                     frame' = [frame EXCEPT ![w] = [@ EXCEPT !.pc = step,
                                                            !.todo = todo]]
              PROVE  frame'[w] = [frame[w] EXCEPT !.pc = step, !.todo = todo]
          BY <5>1 DEF IInv, MemType
        <5>2. CASE SaveReport(w)
          BY <5>1, <5>2 DEF SaveReport
        <5>3. CASE EndAttempt(w) \/ MirrorCounts(w)
          <6>1. frame'[w] = [frame[w] EXCEPT !.pc = "update"]
            BY <5>3 DEF EndAttempt, MirrorCounts, IInv, MemType
          <6>2. frame'[w] = [frame[w] EXCEPT !.pc = "update",
                                             !.todo = frame[w].todo]
            BY <2>1, <6>1 DEF Frame
          <6> QED  BY <6>2
        <5>4. CASE RemoveReport(w)
          <6>1. PICK todo : frame'[w] = [frame[w] EXCEPT !.todo = todo]
            BY <5>4 DEF RemoveReport, IInv, MemType
          <6>2. frame'[w] = [frame[w] EXCEPT !.pc = frame[w].pc, !.todo = todo]
            BY <2>1, <6>1 DEF Frame
          <6> QED  BY <6>2
        <5> QED  BY <2>6, <5>2, <5>3, <5>4
      <4> QED  BY <2>1, <3>1, <4>1 DEF Frame
    <3>5. object'[o].replicas \in {object[o].replicas, w}
      <4>1. CASE SaveReport(w)
        BY <3>1, <3>2, <4>1, SavedName, PointerKept
      <4>2. CASE RemoveReport(w)
        <5>1. PICK name \in PodNames : RemoveInMemory(o, name)
          BY <2>1, <3>1, <4>2 DEF RemoveReport, Frame
        <5> QED  BY <3>2, <5>1, PointerKept
      <4>3. CASE EndAttempt(w) \/ MirrorCounts(w)
        BY <3>1, <3>2, <4>3
        DEF EndAttempt, MirrorCounts, PointToCounts, IInv, MemType
      <4> QED  BY <2>6, <4>1, <4>2, <4>3
    <3>6. OwnPointer(w)' /\ CopyOfLatest(w)'
      BY <3>1, <3>2, <3>3, <3>4, <3>5
      DEF CountsAreServers, OwnPointer, CopyOfLatest
    <3> QED  BY <1>3, <2>1, <3>3, <3>6, OthersCounts
  <2> QED  BY <1>3, <2>3, <2>4, <2>5, <2>6 DEF Worker
<1> QED  BY <1>1, <1>2, <1>3 DEF MemNext

\* What a worker sends of the counts it did not set is what the server has.
LEMMA SentCounts ==
    ASSUME IInv, CountsAreServers, NEW w \in Workers, Update(w)
    PROVE  \/ replicas' = replicas
           \/ object[frame[w].copy].replicas = w
<1>1. /\ frame[w].copy # Nil /\ frame[w].copy \in latest
      /\ frame[w].read \in Listed
  BY DEF Update, IInv, FramesFit, Listed
<1>2. CASE object[frame[w].copy].replicas = frame[w].read
  <2>1. cell[frame[w].read] = replicas
    BY <1>1 DEF CountsAreServers, CopyOfLatest
  <2> QED  BY <1>2, <2>1 DEF Update, StatusOf
<1> QED  BY <1>1, <1>2 DEF CountsAreServers, OwnPointer

\* The counts at the server change to those that the worker which sends them has
\* read itself.
THEOREM CountsOfOneRead == MemSpec => CountsFromOwnRead
<1>1. IInv /\ LatestIsServers /\ CountsAreServers /\ [MemNext]_memVars
        => [replicas' # replicas =>
              \E w \in Workers :
                 Update(w) /\ object[frame[w].copy].replicas = w]_memVars
  <2> SUFFICES ASSUME IInv, CountsAreServers, MemNext, replicas' # replicas
               PROVE  \E w \in Workers :
                         Update(w) /\ object[frame[w].copy].replicas = w
    OBVIOUS
  <2>1. PICK w \in Workers : Update(w)
    BY DEF MemNext, Worker, Deliver, ReadDatastore, StartChange, SaveReport,
           RemoveReport, EndAttempt, MirrorCounts, GiveUp, server
  <2> QED  BY <2>1, SentCounts
<1> QED
  BY <1>1, IInvInitially, IInvInductive, LatestInitially, LatestInductive,
     CountsInitially, CountsInductive, PTL DEF MemSpec, CountsFromOwnRead

=============================================================================
