------------------------------- MODULE Adoption -------------------------------
(***************************************************************************)
(* Who owns what: DataStores that are deleted and created again under one  *)
(* name, the StatefulSet of that name with the UID in its owner reference, *)
(* and the events that make the controller look at them.  An error ends an *)
(* item and nothing puts it back, so that each thing left to do has to be  *)
(* followed by an event.                                                   *)
(*                                                                         *)
(*   dsLog      the versions of the DataStore the informer has yet to see, *)
(*              each by its UID: the first is what the lister returns, the *)
(*              last is the API server's                                   *)
(*   stsLog     the same of the StatefulSet, each by its controller        *)
(*   dsNotes    what the DataStores' informer holds for its handlers       *)
(*   stsNotes   what the StatefulSets' informer does: controllers          *)
(*   senders    the informers blocked in Enqueue, in their order; every    *)
(*              item is the key of the one name                            *)
(*   job        what each worker is about to do, for which incarnation     *)
(*   born       the UIDs given out                                         *)
(*   budget     how many more disturbances there may be                    *)
(*                                                                         *)
(* Sizes and status are left to DatastoreController: here a sync resizes   *)
(* the StatefulSet or does not, and updateDatastore, which changes no UID, *)
(* is left out.                                                            *)
(***************************************************************************)
EXTENDS Naturals, Sequences, SequencesExt

CONSTANTS
    Workers,       \* 2 in main.go
    Nil,           \* no object
    Foreign,       \* the controller of a StatefulSet that is not a DataStore
    MaxUids,       \* bound on the incarnations
    MaxLag,        \* bound on the versions and notifications under way
    MaxIncidents, MaxFaults    \* the budget

ASSUME UidsAssumption ==
    /\ MaxUids \in Nat
    /\ Nil \notin Nat /\ Foreign \notin Nat /\ Nil # Foreign
ASSUME LagAssumption == MaxLag \in Nat \ {0}
ASSUME BudgetAssumption == MaxIncidents \in Nat /\ MaxFaults \in Nat

VARIABLES dsLog, stsLog, dsNotes, stsNotes, senders, job, born, budget

server == <<dsLog, stsLog, born>>
events == <<dsNotes, stsNotes, senders>>
vars == <<dsLog, stsLog, dsNotes, stsNotes, senders, job, born, budget>>

datastore == Last(dsLog)       \* the API server's
statefulset == Last(stsLog)
Get == Head(dsLog)             \* the lister's; Nil is an error, NotFound
Uid == 1 .. born               \* UIDs of DataStores that are or were

\* A worker that is not idle has read DataStore uid; it is about to create the
\* StatefulSet, it goes on with one that it found to be its own, or it has
\* resized that.
Idle == [pc |-> "idle", uid |-> Nil]
Job == {Idle} \cup [pc : {"create", "owned"}, uid : Uid]

JobAt(pc, uid) == [pc |-> pc, uid |-> uid]

-----------------------------------------------------------------------------
(* The API server. *)

Spend(kind) ==
    /\ budget[kind] > 0
    /\ budget' = [budget EXCEPT ![kind] = @ - 1]

\* The bound on the versions under way.  A worker that is to create a StatefulSet
\* is not kept from it, and the garbage collector has room to spare: the model's
\* bounds must not make them wait for each other.
Room == Len(dsLog) - 1 + Len(stsLog) - 1 < MaxLag
RoomToSpare == Len(stsLog) <= MaxLag + 1

SetDatastore(uid) ==
    /\ Room
    /\ dsLog' = Append(dsLog, uid)
    /\ stsLog' = stsLog

SetStatefulset(owner) ==
    /\ stsLog' = IF owner = statefulset THEN stsLog ELSE Append(stsLog, owner)
    /\ dsLog' = dsLog

\* Without the owner reference.
UnownedStatefulset(uid) == Foreign

\* The StatefulSet's controller is the DataStore of the copy.
newStatefulset(uid) == uid

-----------------------------------------------------------------------------
(* The informers and their handlers. *)

\* What is left to see when the next version has come, or when a watch was lost
\* and all that there is has been listed.
Watch(log) == Tail(log)
List(log) == <<Last(log)>>

\* There is no DeleteFunc for DataStores.
DeliverDatastore ==
    /\ Len(dsLog) > 1 /\ Len(dsNotes) <= MaxLag
    /\ \E rest \in {Watch(dsLog), List(dsLog)} :
         /\ dsLog' = rest
         /\ dsNotes' = IF Head(rest) = Nil THEN dsNotes
                       ELSE Append(dsNotes, "change")
    /\ UNCHANGED <<stsLog, born, stsNotes, senders, job, budget>>

\* No DeleteFunc for StatefulSets either.
UnnoticedDelete(old, new) == IF new = Nil THEN << >> ELSE <<new>>

\* What the handlers are called with: the new object, or the one that is gone,
\* as it was last seen.  It may come in a tombstone, which handleObject opens.
Notice(old, new) ==
    IF new # Nil THEN <<new>> ELSE IF old # Nil THEN <<old>> ELSE << >>

DeliverStatefulset ==
    /\ Len(stsLog) > 1 /\ Len(stsNotes) <= MaxLag
    /\ stsLog' = Watch(stsLog)
    /\ stsNotes' = stsNotes \o Notice(stsLog[1], stsLog[2])
    /\ UNCHANGED <<dsLog, born, dsNotes, senders, job, budget>>

\* A StatefulSet that came and went before the list is never heard of.
RelistStatefulset ==
    /\ Len(stsLog) > 2 /\ Len(stsNotes) <= MaxLag
    /\ stsLog' = List(stsLog)
    /\ stsNotes' = stsNotes \o Notice(Head(stsLog), statefulset)
    /\ Spend("faults")
    /\ UNCHANGED <<dsLog, born, dsNotes, senders, job>>

\* Every 30 seconds the informers report all that they have as updated.  The
\* UpdateFunc of StatefulSets drops that at once: same resourceVersion.
ResyncDatastore ==
    /\ Get # Nil
    /\ Len(dsNotes) < MaxLag
    /\ dsNotes' = Append(dsNotes, "resync")
    /\ UNCHANGED <<server, stsNotes, senders, job, budget>>

\* An UpdateFunc that lets resyncs go by, as that for StatefulSets does.
EnqueueChanged ==
    /\ "ds" \notin ToSet(senders)
    /\ dsNotes # << >>
    /\ dsNotes' = Tail(dsNotes)
    /\ senders' = IF Head(dsNotes) = "resync" THEN senders
                  ELSE Append(senders, "ds")
    /\ UNCHANGED <<server, stsNotes, job, budget>>

enqueueDatastore ==
    /\ "ds" \notin ToSet(senders)
    /\ dsNotes # << >>
    /\ dsNotes' = Tail(dsNotes)
    /\ senders' = Append(senders, "ds")
    /\ UNCHANGED <<server, stsNotes, job, budget>>

\* Looking for the owner by its UID.
OwnerIsCached(owner) == owner = Get

\* The owner is looked up by its name.
OwnerFound(owner) == owner \in Uid /\ Get # Nil

handleObject ==
    /\ "sts" \notin ToSet(senders)
    /\ stsNotes # << >>
    /\ stsNotes' = Tail(stsNotes)
    /\ senders' = IF OwnerFound(Head(stsNotes)) THEN Append(senders, "sts")
                  ELSE senders
    /\ UNCHANGED <<server, dsNotes, job, budget>>

-----------------------------------------------------------------------------
(* syncHandler. *)

\* Goes on with a DataStore that is not there.
SyncAnything(uid, owner) ==
    CASE owner = Nil -> {JobAt("create", uid)}
      [] owner = uid -> {JobAt("owned", uid), Idle}
      [] OTHER -> {Idle}

\* By the cached DataStore and StatefulSet: the DataStore is gone, the
\* StatefulSet is missing, it is controlled by the DataStore and there may be
\* something to do, or it is not and the sync fails.
Decide(uid, owner) ==
    CASE uid = Nil -> {Idle}
      [] uid # Nil /\ owner = Nil -> {JobAt("create", uid)}
      [] uid # Nil /\ owner = uid -> {JobAt("owned", uid), Idle}
      [] OTHER -> {Idle}

StartSync(w) ==
    /\ job[w] = Idle
    /\ senders # << >>
    /\ senders' = Tail(senders)
    /\ \E j \in Decide(Get, Head(stsLog)) :
         job' = [job EXCEPT ![w] = j]
    /\ UNCHANGED <<server, dsNotes, stsNotes, budget>>

\* The StatefulSet that the server answers with is the DataStore's.
CreateStatefulset(w) ==
    /\ job[w].pc = "create"
    /\ statefulset = Nil
    /\ SetStatefulset(newStatefulset(job[w].uid))
    /\ job' = [job EXCEPT ![w].pc = "owned"]
    /\ UNCHANGED <<born, events, budget>>

AlreadyExists(w) ==
    /\ job[w].pc = "create"
    /\ statefulset # Nil
    /\ job' = [job EXCEPT ![w] = Idle]
    /\ UNCHANGED <<server, events, budget>>

CreateFails(w) ==
    /\ job[w].pc = "create"
    /\ job' = [job EXCEPT ![w] = Idle]
    /\ Spend("faults")
    /\ UNCHANGED <<server, events>>

\* The PUT has neither resourceVersion nor UID: it replaces whatever StatefulSet
\* is there by now, the owner reference included.
updateStatefulset(w) ==
    /\ job[w].pc = "owned"
    /\ statefulset # Nil
    /\ statefulset = newStatefulset(job[w].uid) \/ Room
    /\ SetStatefulset(newStatefulset(job[w].uid))
    /\ job' = [job EXCEPT ![w] = Idle]
    /\ UNCHANGED <<born, events, budget>>

\* Nothing to do, or a call that failed.
EndSync(w) ==
    /\ job[w].pc = "owned"
    /\ job' = [job EXCEPT ![w] = Idle]
    /\ UNCHANGED <<server, events, budget>>

-----------------------------------------------------------------------------
(* The process ends and is started again: both informers list what is there. *)

Crash ==
    /\ Spend("incidents")
    /\ dsLog' = List(dsLog)
    /\ stsLog' = List(stsLog)
    /\ dsNotes' = IF datastore = Nil THEN << >> ELSE <<"change">>
    /\ stsNotes' = Notice(Nil, statefulset)
    /\ senders' = << >>
    /\ job' = [w \in Workers |-> Idle]
    /\ UNCHANGED born

-----------------------------------------------------------------------------
(* The users, the StatefulSet controller and the garbage collector. *)

CreateDatastore ==
    /\ datastore = Nil
    /\ born < MaxUids
    /\ born' = born + 1
    /\ SetDatastore(born + 1)
    /\ UNCHANGED <<events, job, budget>>

DeleteDatastore ==
    /\ datastore # Nil
    /\ SetDatastore(Nil)
    /\ UNCHANGED <<born, events, job, budget>>

CreateForeigner ==
    /\ statefulset = Nil
    /\ Room
    /\ SetStatefulset(Foreign)
    /\ Spend("faults")
    /\ UNCHANGED <<born, events, job>>

DeleteStatefulset ==
    /\ statefulset # Nil
    /\ Room
    /\ SetStatefulset(Nil)
    /\ Spend("incidents")
    /\ UNCHANGED <<born, events, job>>

\* No DataStore has the UID of the owner reference.
CollectGarbage ==
    /\ statefulset \in Uid
    /\ statefulset # datastore
    /\ RoomToSpare
    /\ SetStatefulset(Nil)
    /\ UNCHANGED <<born, events, job, budget>>

-----------------------------------------------------------------------------
Init ==
    /\ dsLog = <<Nil>>
    /\ stsLog = <<Nil>>
    /\ dsNotes = << >>
    /\ stsNotes = << >>
    /\ senders = << >>
    /\ job = [w \in Workers |-> Idle]
    /\ born = 0
    /\ budget = [incidents |-> MaxIncidents, faults |-> MaxFaults]

Worker(w) ==
    \/ StartSync(w) \/ CreateStatefulset(w) \/ AlreadyExists(w)
    \/ updateStatefulset(w) \/ EndSync(w)
Informers ==
    \/ DeliverDatastore \/ DeliverStatefulset \/ RelistStatefulset
    \/ ResyncDatastore
    \/ enqueueDatastore \/ handleObject
Users ==
    \/ CreateDatastore \/ DeleteDatastore
    \/ CreateForeigner \/ DeleteStatefulset

Next ==
    \/ \E w \in Workers : Worker(w) \/ CreateFails(w)
    \/ Informers
    \/ Users
    \/ CollectGarbage
    \/ Crash

\* Goroutines run and watches deliver; the garbage collector does what an owner
\* reference asks of it.  Neither the resync nor anything a user does is fair.
Spec ==
    /\ Init /\ [][Next]_vars
    /\ \A w \in Workers : WF_vars(Worker(w))
    /\ WF_vars(DeliverDatastore) /\ WF_vars(DeliverStatefulset)
    /\ WF_vars(enqueueDatastore) /\ WF_vars(handleObject)
    /\ WF_vars(CollectGarbage)

-----------------------------------------------------------------------------
(* Properties. *)

\* Every variable holds a value of its kind; owners are DataStores that were.
TypeOK ==
    /\ born \in 0 .. MaxUids
    /\ dsLog \in Seq(Uid \cup {Nil}) /\ dsLog # << >>
    /\ stsLog \in Seq(Uid \cup {Nil, Foreign}) /\ stsLog # << >>
    /\ dsNotes \in Seq({"change", "resync"})
    /\ stsNotes \in Seq(Uid \cup {Foreign})
    /\ senders \in Seq({"ds", "sts"})
    /\ job \in [Workers -> Job]
    /\ budget \in [{"incidents", "faults"} -> Nat]

\* No StatefulSet of anybody else was ever there, no Create was refused for a
\* passing reason and no StatefulSet came and went unseen: an error that is
\* dropped then has an event to follow.
Undisturbed == budget.faults = MaxFaults

Quiet ==
    /\ Len(dsLog) = 1 /\ Len(stsLog) = 1
    /\ dsNotes = << >> /\ stsNotes = << >> /\ senders = << >>
    /\ \A w \in Workers : job[w].pc # "create"

\* When all events were handled, a DataStore that is there has a StatefulSet:
\* the last thing that made it necessary to create one was not dropped with an
\* error, nor handled too early by one worker and too late by the other.
NoLostWakeup == Undisturbed /\ Quiet /\ datastore # Nil => statefulset # Nil

\* A DataStore that stays is, from events alone and without waiting for a
\* resync, in the end the controller of its StatefulSet, although an old copy's
\* PUT may have taken that away from it.
EventsSuffice ==
    \A uid \in 1 .. MaxUids :
        []Undisturbed /\ <>[](datastore = uid) => <>[](statefulset = uid)

\* Whatever failed and whoever was in the way, resyncs make up for it.
ResyncRepairs ==
    \A uid \in 1 .. MaxUids :
        /\ []<><<ResyncDatastore>>_vars
        /\ <>[](datastore = uid)
        /\ <>[](statefulset # Foreign)
        => <>[](statefulset = uid)

\* A DataStore that is deleted for good leaves no StatefulSet behind, not even
\* one that a worker creates or resizes on behalf of it afterwards.
NothingLeftBehind ==
    []Undisturbed /\ <>[](datastore = Nil) => <>[](statefulset = Nil)

=============================================================================
