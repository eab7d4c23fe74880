-------------------------- MODULE TerminationSlices --------------------------
(***************************************************************************)
(* TerminationList as it lies in memory.  The workers share the DataStore  *)
(* that the lister returns; each changes a copy of its own and sends that  *)
(* to the API server.  A status holds its list as a slice, a window on a   *)
(* backing array that other slices may share, and its counts as pointers.  *)
(*                                                                         *)
(*   PodTerminationStatuses, replicas   the status at the API server       *)
(*   array    per object the backing array made for it: the elements       *)
(*            written so far, and how many there is room for               *)
(*   cell     per object the count made for it, and per worker that of the *)
(*            StatefulSet it has read                                      *)
(*   object   per object the header of its slice, and its pointer          *)
(*   cached   the object the lister returns                                *)
(*   latest   the objects that have the server's resourceVersion           *)
(*   frame    what each worker has in hand                                 *)
(*                                                                         *)
(* Status.Replicas stands for the status's four pointers.                  *)
(***************************************************************************)
EXTENDS TerminationList

CONSTANTS
    Workers,
    Objects,       \* room for DataStores in memory
    Sizes,         \* counts of pods
    Nil,
    Spare          \* room that decoding or growing a slice leaves

ASSUME SpareAssumption == Spare \in Nat
ASSUME MemoryAssumption == Objects \cap Workers = {} /\ Nil \notin Objects

VARIABLES replicas, array, cell, object, cached, latest, frame

memory == <<array, cell, object>>
server == <<PodTerminationStatuses, replicas>>
memVars == <<server, memory, cached, latest, frame>>

\* A frame's copy is made for one of these changes; todo are the pods whose
\* statuses it has yet to set or remove.
Changes == {"report", "finish", "restart", "counts"}

Frame == [pc : Changes \cup {"idle", "read", "update"},
          read : Objects \cup {Nil}, copy : Objects \cup {Nil},
          todo : SUBSET PodNames]

NoFrame == [pc |-> "idle", read |-> Nil, copy |-> Nil, todo |-> {}]

\* What the informer handed out, and what is in use at all.
Listed == ({cached} \cup {frame[w].read : w \in Workers}) \ {Nil}
Live == Listed \cup ({frame[w].copy : w \in Workers} \ {Nil})

Fresh == CHOOSE o \in Objects \ Live : TRUE

\* What a reader of an object finds.
ListOf(o) == SubSeq(array[object[o].array].elements, 1, object[o].len)
StatusOf(o) == [list |-> ListOf(o), replicas |-> cell[object[o].replicas]]

-----------------------------------------------------------------------------
(* Making objects. *)

Array(elements, spare) ==
    [elements |-> elements, room |-> Len(elements) + spare]

\* The decoder of an answer makes new memory for all of it.
Decoded(o) ==
    /\ array' = [array EXCEPT ![o] = Array(PodTerminationStatuses, Spare)]
    /\ cell' = [cell EXCEPT ![o] = replicas]
    /\ object' = [object EXCEPT
         ![o] = [array |-> o, len |-> Len(PodTerminationStatuses),
                 replicas |-> o]]

\* `*out = *in` alone.
ShallowCopy(o, from) ==
    /\ object' = [object EXCEPT ![o] = object[from]]
    /\ UNCHANGED <<array, cell>>

\* The slice is made anew, without room to spare.  The pointers of the status
\* are not: what `*out = *in` copied of them stays.
DeepCopy(o, from) ==
    /\ array' = [array EXCEPT ![o] = Array(ListOf(from), 0)]
    /\ object' = [object EXCEPT ![o] = [object[from] EXCEPT !.array = o]]
    /\ UNCHANGED cell

-----------------------------------------------------------------------------
(* The methods of the status, on the memory of an object. *)

\* append: in place when there is room, which overwrites what another slice
\* may have there, or else in a larger array.
AppendStatus(o, entry) ==
    LET a == object[o].array
        n == object[o].len
        longer == Append(ListOf(o), entry)
        beyond == SubSeq(array[a].elements, n + 2, Len(array[a].elements))
    IN  /\ \/ /\ n < array[a].room
              /\ array' = [array EXCEPT ![a].elements = longer \o beyond]
              /\ object' = [object EXCEPT ![o].len = n + 1]
           \/ /\ n = array[a].room
              /\ array' = [array EXCEPT ![o] = Array(longer, Spare)]
              /\ object' = [object EXCEPT ![o] = [@ EXCEPT !.array = o,
                                                           !.len = n + 1]]
        /\ UNCHANGED cell

\* Set that does not look for the pod's status first.
AddStatus(o, name, decommissioned) ==
    AppendStatus(o, [podName |-> name, decommissioned |-> decommissioned])

\* The status that is there already is changed in a copy of it only.
SetInMemory(o, name, decommissioned) ==
    \/ /\ HasEntry(ListOf(o), name)
       /\ UNCHANGED memory
    \/ /\ ~HasEntry(ListOf(o), name)
       /\ AppendStatus(o,
            [podName |-> name, decommissioned |-> decommissioned])

\* append(s[:index], s[index + 1:]...): the tail moves down within the array,
\* whose last element stays.
RemoveInMemory(o, name) ==
    \/ /\ ~HasEntry(ListOf(o), name)
       /\ UNCHANGED memory
    \/ /\ HasEntry(ListOf(o), name)
       /\ LET index == FirstEntry(ListOf(o), name)
              n == object[o].len
          IN  array' = [array EXCEPT ![object[o].array].elements =
                          [k \in DOMAIN @ |->
                             IF k \in index .. n - 1 THEN @[k + 1] ELSE @[k]]]
       /\ object' = [object EXCEPT ![o].len = @ - 1]
       /\ UNCHANGED cell

\* s.Status.Replicas = &statefulset.Status.Replicas
PointToCounts(o, w) == object' = [object EXCEPT ![o].replicas = w]

-----------------------------------------------------------------------------
(* A worker. *)

ReadDatastore(w) ==
    /\ frame[w].pc = "idle"
    /\ frame' = [frame EXCEPT ![w] = [NoFrame EXCEPT !.pc = "read",
                                                     !.read = cached]]
    /\ \E size \in Sizes : cell' = [cell EXCEPT ![w] = size]
    /\ UNCHANGED <<server, array, object, cached, latest>>

\* A finish removes the statuses of pods that were decommissioned.
StartChange(w) ==
    /\ frame[w].pc = "read"
    /\ Objects \ Live # {}
    /\ \E change \in Changes, todo \in SUBSET PodNames :
         /\ CASE change = "report" -> \E name \in PodNames : todo = {name}
              [] change = "finish" ->
                   /\ todo # {}
                   /\ \A name \in todo :
                        \E e \in GetPodTerminationStatus(
                                   ListOf(frame[w].read), name) :
                           e.decommissioned
              [] OTHER -> todo = {}
         /\ frame' = [frame EXCEPT ![w] = [@ EXCEPT !.pc = change,
                                                    !.copy = Fresh,
                                                    !.todo = todo]]
    /\ DeepCopy(Fresh, frame[w].read)
    /\ latest' = IF frame[w].read \in latest
                 THEN latest \cup {Fresh}
                 ELSE latest \ {Fresh}
    /\ UNCHANGED <<server, cached>>

SaveReport(w) ==
    /\ frame[w].pc = "report"
    /\ \E name \in frame[w].todo, decommissioned \in BOOLEAN :
         SetInMemory(frame[w].copy, name, decommissioned)
    /\ frame' = [frame EXCEPT ![w] = [@ EXCEPT !.pc = "update", !.todo = {}]]
    /\ UNCHANGED <<server, cached, latest>>

RemoveReport(w) ==
    /\ frame[w].pc = "finish"
    /\ \E name \in frame[w].todo :
         /\ RemoveInMemory(frame[w].copy, name)
         /\ frame' = [frame EXCEPT ![w].todo = @ \ {name}]
    /\ UNCHANGED <<server, cached, latest>>

\* An empty slice of its own, and the counts of the StatefulSet.
EndAttempt(w) ==
    /\ frame[w].pc \in {"finish", "restart"} /\ frame[w].todo = {}
    /\ LET o == frame[w].copy
       IN  /\ array' = [array EXCEPT ![o] = Array(<< >>, 0)]
           /\ object' = [object EXCEPT
                           ![o] = [array |-> o, len |-> 0, replicas |-> w]]
    /\ frame' = [frame EXCEPT ![w].pc = "update"]
    /\ UNCHANGED <<server, cell, cached, latest>>

\* Assigns to what the pointer of the copy points to.
OverwriteCounts(w) ==
    /\ frame[w].pc = "counts"
    /\ cell' = [cell EXCEPT ![object[frame[w].copy].replicas] = cell[w]]
    /\ frame' = [frame EXCEPT ![w].pc = "update"]
    /\ UNCHANGED <<server, array, object, cached, latest>>

MirrorCounts(w) ==
    /\ frame[w].pc = "counts"
    /\ PointToCounts(frame[w].copy, w)
    /\ frame' = [frame EXCEPT ![w].pc = "update"]
    /\ UNCHANGED <<server, array, cell, cached, latest>>

\* An Update that ignores the resourceVersion.
ForceUpdate(w) ==
    /\ frame[w].pc = "update"
    /\ LET sent == StatusOf(frame[w].copy)
       IN  /\ PodTerminationStatuses' = sent.list
           /\ replicas' = sent.replicas
           /\ latest' = IF sent.list = PodTerminationStatuses
                           /\ sent.replicas = replicas
                        THEN latest ELSE {}
    /\ frame' = [frame EXCEPT ![w] = NoFrame]
    /\ UNCHANGED <<memory, cached>>

\* What the copy holds is sent; a status that is the same makes no version.
Update(w) ==
    /\ frame[w].pc = "update"
    /\ frame[w].copy \in latest
    /\ LET sent == StatusOf(frame[w].copy)
       IN  /\ PodTerminationStatuses' = sent.list
           /\ replicas' = sent.replicas
           /\ latest' = IF sent.list = PodTerminationStatuses
                           /\ sent.replicas = replicas
                        THEN latest ELSE {}
    /\ frame' = [frame EXCEPT ![w] = NoFrame]
    /\ UNCHANGED <<memory, cached>>

\* A conflict, a call that failed, or nothing to change.
GiveUp(w) ==
    /\ frame[w].pc \in {"read", "update"}
    /\ frame' = [frame EXCEPT ![w] = NoFrame]
    /\ UNCHANGED <<server, memory, cached, latest>>

-----------------------------------------------------------------------------
(* The informer has a new version. *)

Deliver ==
    /\ cached \notin latest
    /\ Objects \ Live # {}
    /\ Decoded(Fresh)
    /\ cached' = Fresh
    /\ latest' = latest \cup {Fresh}
    /\ UNCHANGED <<server, frame>>

MemInit ==
    /\ Init
    /\ replicas = Nil
    /\ \E o \in Objects :
         /\ cached = o
         /\ array = [p \in Objects |-> Array(<< >>, Spare)]
         /\ object = [p \in Objects |->
                        [array |-> p, len |-> 0, replicas |-> p]]
         /\ latest = {o}
    /\ cell = [p \in Objects \cup Workers |-> Nil]
    /\ frame = [w \in Workers |-> NoFrame]

Worker(w) ==
    \/ ReadDatastore(w) \/ StartChange(w)
    \/ SaveReport(w) \/ RemoveReport(w) \/ EndAttempt(w) \/ MirrorCounts(w)
    \/ Update(w) \/ GiveUp(w)

MemNext == Deliver \/ \E w \in Workers : Worker(w)

MemSpec == MemInit /\ [][MemNext]_memVars

-----------------------------------------------------------------------------
(* Properties. *)

\* "NEVER modify objects from the store": as long as a worker or the cache has
\* an object that the informer handed out, what is found in it stays the same,
\* whatever the workers do to their copies.
CacheReadOnly ==
    [][\A o \in Listed \cap Listed' : StatusOf(o)' = StatusOf(o)]_memVars

\* The list in a worker's copy changes by that worker's own calls only, and
\* as a list of values would: no two copies share an array.
CopiesAreLists ==
    [][\A w \in Workers :
          LET list == ListOf(frame[w].copy)
          IN  /\ frame[w].copy # Nil
              /\ frame'[w].copy = frame[w].copy
              /\ list' # list
              => /\ frame'[w] # frame[w]
                 /\ \/ list' = << >>
                    \/ \E name \in frame[w].todo :
                          \/ list' = RemovePodTerminationStatus(list, name)
                          \/ \E decommissioned \in BOOLEAN :
                                list' = SetPodTerminationStatus(list, name,
                                                     decommissioned)]_memVars

\* The server's counts change to those that the worker which sends them has read
\* itself: what another worker stores for its own copy, or what a pointer shared
\* with the informer's object leads to, does not get into them.
CountsFromOwnRead ==
    [][replicas' # replicas =>
          \E w \in Workers :
             Update(w) /\ object[frame[w].copy].replicas = w]_memVars

=============================================================================
