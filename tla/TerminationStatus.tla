-------------------------- MODULE TerminationStatus --------------------------
(***************************************************************************)
(* The list DataStoreStatus.PodTerminationStatuses and its three methods   *)
(* (pkg/apis/datastore/v1alpha1/types.go).  A list is a sequence of        *)
(* entries [podName, decommissioned]; the operators are pure, so that the  *)
(* controller's model and the list's own state machine share them.         *)
(***************************************************************************)
EXTENDS Naturals, Sequences, SequencesExt

TerminationEntry(names) == [podName : names, decommissioned : BOOLEAN]

\* The positions of the entries kept for a pod.
EntriesOf(list, name) == {k \in DOMAIN list : list[k].podName = name}

HasEntry(list, name) == EntriesOf(list, name) # {}

\* Where the `for ... range` loops of Get and Remove stop.
FirstEntry(list, name) ==
    CHOOSE k \in EntriesOf(list, name) :
        \A j \in EntriesOf(list, name) : k <= j

\* A Set that does not look for an entry first.
AppendTerminationStatus(list, name, decommissioned) ==
    Append(list, [podName |-> name, decommissioned |-> decommissioned])

\* The loop variable of the source is a copy of the element, so that the
\* assignment to its Decommissioned field is lost: an entry that exists stays
\* as it is, and a new one is appended only when there is none.
SetPodTerminationStatus(list, name, decommissioned) ==
    IF HasEntry(list, name)
    THEN list
    ELSE Append(list, [podName |-> name, decommissioned |-> decommissioned])

\* A pointer to the entry, or nil: here the set with that entry, or the empty
\* set.
GetPodTerminationStatus(list, name) ==
    IF HasEntry(list, name) THEN {list[FirstEntry(list, name)]} ELSE {}

\* append(s[:index], s[index + 1:]...)
RemovePodTerminationStatus(list, name) ==
    IF HasEntry(list, name)
    THEN RemoveAt(list, FirstEntry(list, name))
    ELSE list

=============================================================================
