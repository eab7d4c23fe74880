------------------------- MODULE DatastoreController -------------------------
(***************************************************************************)
(* The controller's workers (controller.go) against the API server, its    *)
(* informer caches, the StatefulSet controller and the kubelet, for one    *)
(* DataStore and the StatefulSet and pods of the same name.                *)
(*                                                                         *)
(*   dsLog, stsLog   the versions of the DataStore and of the StatefulSet  *)
(*                   the informers have yet to see: the first is what the  *)
(*                   lister returns, the last is the API server's object   *)
(*   pods            the API server's pods, by ordinal                     *)
(*   podCache        the ordinals of the pods the lister returns           *)
(*   podWatch        watch events the pod informer has yet to see          *)
(*   podEvents       deleted pods the informer holds for the unbuffered    *)
(*                   work queue                                            *)
(*   job             what each worker is doing, and its local variables    *)
(*   budget          how many more user edits, faults, crashes and         *)
(*                   pod kills a behaviour may have                        *)
(*                                                                         *)
(* A resourceVersion serves one purpose in the code: Update of a DataStore *)
(* fails unless the worker's copy is the server's current version.  The    *)
(* flag job[w].current says just that.                                     *)
(***************************************************************************)
EXTENDS Integers, Sequences, SequencesExt, FiniteSets, DataStoreObject

CONSTANTS
    Workers,       \* the threadiness of Run: 2 in main.go
    MaxLag,        \* bound on the versions that the informers are behind,
                   \* and on the pod changes they have not passed on
    SlowStart,     \* whether a pod exists for a while before it is ready
    MaxEdits, MaxFaults, MaxCrashes, MaxKills    \* the budget

ASSUME LagAssumption == MaxLag \in Nat \ {0}
ASSUME SlowStartAssumption == SlowStart \in BOOLEAN
ASSUME BudgetAssumption ==
    {MaxEdits, MaxFaults, MaxCrashes, MaxKills} \subseteq Nat

VARIABLES dsLog, stsLog, pods, podCache, podWatch, podEvents, job, budget

server == <<dsLog, stsLog, pods>>
informers == <<podCache, podWatch, podEvents>>
vars == <<dsLog, stsLog, pods, podCache, podWatch, podEvents, job, budget>>

datastore == Last(dsLog)       \* the API server's object
statefulset == Last(stsLog)    \* the API server's object, or Nil

VersionsBehind == Len(dsLog) - 1 + Len(stsLog) - 1

\* The phase of a pod that is gone tells how it ended: with the termination
\* message DECOMMISSIONED, or otherwise (a pod that never was also failed).
Ending == {"decommissioned", "failed"}
Pod == [phase : {"starting", "ready"} \cup Ending, signalled : BOOLEAN]

Present == {i \in Ordinal : pods[i].phase \notin Ending}
Ready == {i \in Ordinal : pods[i].phase = "ready"}

PodChange == [pod : Ordinal, change : Ending \cup {"added"}]
PodReport == [pod : Ordinal, decommissioned : BOOLEAN]

-----------------------------------------------------------------------------
(* What a sync does, by its copies d of the DataStore and s of the           *)
(* StatefulSet.                                                              *)


ScalesUp(d, s) == Steady(d) /\ d.spec # Nil /\ d.spec > s.spec

\* Without the repair of a StatefulSet that is not at the final size.
StartsConsistently(d, s) ==
    \/ Steady(d) /\ d.spec # Nil /\ d.spec < s.spec
    \/ /\ Restarting(d)
       /\ d.status.initialReplicas = s.spec
       /\ d.status.readyReplicas = d.status.initialReplicas

\* A restarted scale-down that does not wait for the pods of the first size.
StartsUnready(d, s) ==
    \/ Steady(d) /\ d.spec # Nil /\ d.spec < s.spec
    \/ d.status.scalingDown /\ d.status.finalReplicas # s.spec
    \/ Restarting(d) /\ d.status.initialReplicas = s.spec

StartsScalingDown(d, s) ==
    \/ Steady(d) /\ d.spec # Nil /\ d.spec < s.spec
    \/ d.status.scalingDown /\ d.status.finalReplicas # s.spec
    \/ /\ Restarting(d)
       /\ d.status.initialReplicas = s.spec
       /\ d.status.readyReplicas = d.status.initialReplicas

\* The target is reached when as many pods are counted and the pod with the
\* target's ordinal is in the cache no more.
TargetReached(d, s) ==
    /\ d.status.scalingDown
    /\ d.status.finalReplicas = s.spec
    /\ d.status.replicas = d.status.finalReplicas
    /\ d.status.finalReplicas \notin podCache

\* Finishing as soon as the pods are gone, and on the report of the last pod.
FinishesWhenGone(d, s) == TargetReached(d, s)
FinishesOnLastPod(d, s) ==
    /\ TargetReached(d, s)
    /\ \E e \in GetPodTerminationStatus(d.status.podTerminationStatuses,
                                        d.status.finalReplicas) :
          e.decommissioned

Finishes(d, s) == TargetReached(d, s) /\ AllDecommissioned(d)

RestartsScaling(d, s) ==
    \/ TargetReached(d, s) /\ ~AllDecommissioned(d)
    \/ Restarting(d) /\ d.status.initialReplicas # s.spec

\* The pods to signal are those from the target of the copy's status on, not
\* from the size that is about to be written.
PodsToSignal(d) ==
    {i \in podCache : /\ d.status.finalReplicas # Nil
                      /\ i >= d.status.finalReplicas}

-----------------------------------------------------------------------------
(* The jobs of the workers.  A worker that is not idle is about to make the  *)
(* API call its pc names; what it has of the objects are copies.  What it    *)
(* reads of its own caches between two calls is read in one step.            *)

UpdateSteps == {"markDown", "finish", "markRestart", "status", "savePod"}
Steps == UpdateSteps \cup
    {"idle", "create", "scaleUp", "signal", "restart", "panic"}

\* ds      the DataStore as read, or as the last Update returned it
\* current whether that is still the server's version
\* counts  status.replicas and status.readyReplicas of the StatefulSet
\* todo    the pods that have yet to be signalled
\* initial the StatefulSet's size before startScalingDown changes it
\* report  the deleted pod of a pod item
Job ==
    [pc : Steps, ds : DataStore \cup {Nil}, current : BOOLEAN,
     counts : Counts \cup {Nil}, todo : SUBSET Ordinal,
     initial : Size \cup {Nil}, report : PodReport \cup {Nil}]

JobAt(pc, d, current) ==
    [pc |-> pc, ds |-> d, current |-> current, counts |-> Nil,
     todo |-> {}, initial |-> Nil, report |-> Nil]

Idle == JobAt("idle", Nil, FALSE)

\* What is left of syncHandler after its branches: the status update, if the
\* DataStore does not mirror the StatefulSet's counts.
Mirror(d, counts, current) ==
    IF d = WithCounts(d, counts)
    THEN Idle
    ELSE [JobAt("status", d, current) EXCEPT !.counts = counts]

\* The branches of syncHandler, up to the first call each makes.
Decide(d, s, current) ==
    CASE ScalesUp(d, s) -> JobAt("scaleUp", d, current)
      [] StartsScalingDown(d, s) ->
           [JobAt("signal", d, current) EXCEPT !.todo = PodsToSignal(d),
                                               !.initial = s.spec]
      [] Finishes(d, s) ->
           [JobAt("finish", d, current) EXCEPT !.counts = s.counts]
      [] RestartsScaling(d, s) -> JobAt("restart", d, current)
      [] OTHER -> Mirror(d, s.counts, current)

-----------------------------------------------------------------------------
(* Calls to the API server. *)

Spend(kind) ==
    /\ budget[kind] > 0
    /\ budget' = [budget EXCEPT ![kind] = @ - 1]

\* The jobs after worker w's became j, when the server's DataStore has a new
\* version: any other copy is out of date.
OutdateOthers(w, j) ==
    [v \in Workers |-> IF v = w THEN j ELSE [job[v] EXCEPT !.current = FALSE]]

\* An Update without a resourceVersion.
ForceDatastore(w, d, j) ==
    \/ /\ d = datastore
       /\ dsLog' = dsLog
       /\ job' = [job EXCEPT ![w] = j]
    \/ /\ d # datastore
       /\ VersionsBehind < MaxLag
       /\ dsLog' = Append(dsLog, d)
       /\ job' = OutdateOthers(w, j)

\* An Update of the DataStore that the server accepts: the copy it was made
\* from is the current version.  An Update that changes nothing makes no
\* version.
UpdateDatastore(w, d, j) ==
    /\ job[w].current
    /\ \/ /\ d = datastore
          /\ dsLog' = dsLog
          /\ job' = [job EXCEPT ![w] = j]
       \/ /\ d # datastore
          /\ VersionsBehind < MaxLag
          /\ dsLog' = Append(dsLog, d)
          /\ job' = OutdateOthers(w, j)

ChangeStatefulset(s) ==
    \/ /\ s = statefulset
       /\ stsLog' = stsLog
    \/ /\ s # statefulset
       /\ VersionsBehind < MaxLag
       /\ stsLog' = Append(stsLog, s)

\* The controller's PUT of the StatefulSet carries no resourceVersion: it
\* replaces the spec whatever the server holds, and leaves the status.
UpdateStatefulset(replicas) ==
    ChangeStatefulset([statefulset EXCEPT !.spec = Defaulted(replicas)])

-----------------------------------------------------------------------------
(* syncHandler.  Its item is a key, and the periodic resync of the DataStore *)
(* informer enqueues the key again every 30 seconds: an idle worker may      *)
(* start a sync at any time, also while the other one is in the middle of    *)
(* one.                                                                      *)

StartSync(w) ==
    /\ job[w].pc = "idle"
    /\ LET current == Len(dsLog) = 1
       IN  job' = [job EXCEPT ![w] =
                     IF Head(stsLog) = Nil
                     THEN JobAt("create", Head(dsLog), current)
                     ELSE Decide(Head(dsLog), Head(stsLog), current)]
    /\ UNCHANGED <<server, informers, budget>>

CreateStatefulset(w) ==
    /\ job[w].pc = "create"
    /\ statefulset = Nil
    /\ LET created == [spec |-> Defaulted(job[w].ds.spec),
                       counts |-> [replicas |-> 0, readyReplicas |-> 0]]
       IN  /\ ChangeStatefulset(created)
           /\ job' = [job EXCEPT ![w] =
                        Decide(job[w].ds, created, job[w].current)]
    /\ UNCHANGED <<dsLog, pods, informers, budget>>

ScaleUp(w) ==
    /\ job[w].pc = "scaleUp"
    /\ UpdateStatefulset(job[w].ds.spec)
    /\ job' = [job EXCEPT ![w] =
                 Mirror(job[w].ds, statefulset.counts, job[w].current)]
    /\ UNCHANGED <<dsLog, pods, informers, budget>>

SyncStatus(w) ==
    /\ job[w].pc = "status"
    /\ UpdateDatastore(w, WithCounts(job[w].ds, job[w].counts), Idle)
    /\ UNCHANGED <<stsLog, pods, informers, budget>>

-----------------------------------------------------------------------------
(* startScalingDown: signal, resize the StatefulSet, then note in the        *)
(* DataStore that it is scaling down.                                        *)

\* exec reaches the pod that has the name now; the container of a pod that
\* is not ready yet may or may not run already.
SignalDecommission(w) ==
    /\ job[w].pc = "signal"
    /\ \E i \in job[w].todo \cap podCache \cap Present :
         /\ pods' = [pods EXCEPT ![i].signalled = TRUE]
         /\ job' = [job EXCEPT ![w].todo = @ \ {i}]
    /\ UNCHANGED <<dsLog, stsLog, informers, budget>>

\* The log line after the PUT dereferences spec.replicas of the copy.
ScaleDownStatefulset(w) ==
    /\ job[w].pc = "signal"
    /\ job[w].todo = {}
    /\ UpdateStatefulset(job[w].ds.spec)
    /\ job' = [job EXCEPT ![w] =
                 [@ EXCEPT
                   !.pc = IF job[w].ds.spec = Nil THEN "panic" ELSE "markDown",
                   !.counts = statefulset.counts]]
    /\ UNCHANGED <<dsLog, pods, informers, budget>>

MarkScalingDown(w) ==
    /\ job[w].pc = "markDown"
    /\ UpdateDatastore(w,
         WithCounts(ScalingDown(job[w].ds, job[w].initial), job[w].counts),
         Idle)
    /\ UNCHANGED <<stsLog, pods, informers, budget>>

-----------------------------------------------------------------------------
(* The end of a scale-down: finish it, or restart it from its first size.    *)
(* These updates, like MarkScalingDown's, also mirror the counts, so that    *)
(* nothing is left for the end of syncHandler to do.                         *)

FinishScalingDown(w) ==
    /\ job[w].pc = "finish"
    /\ UpdateDatastore(w, WithCounts(Finished(job[w].ds), job[w].counts), Idle)
    /\ UNCHANGED <<stsLog, pods, informers, budget>>

RestartScaling(w) ==
    /\ job[w].pc = "restart"
    /\ UpdateStatefulset(job[w].ds.status.initialReplicas)
    /\ job' = [job EXCEPT ![w] =
                 [@ EXCEPT !.pc = "markRestart", !.counts = statefulset.counts]]
    /\ UNCHANGED <<dsLog, pods, informers, budget>>

MarkRestarted(w) ==
    /\ job[w].pc = "markRestart"
    /\ UpdateDatastore(w, WithCounts(Restarted(job[w].ds), job[w].counts), Idle)
    /\ UNCHANGED <<stsLog, pods, informers, budget>>

-----------------------------------------------------------------------------
(* updateDeletedPodStatus: the work item is a deleted pod. *)

\* The pod's owner and the owner's owner are looked up in the caches; while
\* the StatefulSet is not in its cache the report is dropped.
StartPodStatus(w) ==
    /\ job[w].pc = "idle"
    /\ podEvents # << >>
    /\ podEvents' = Tail(podEvents)
    /\ \/ /\ Head(stsLog) = Nil
          /\ job' = job
       \/ /\ Head(stsLog) # Nil
          /\ job' = [job EXCEPT ![w] =
                       [JobAt("savePod", Head(dsLog), Len(dsLog) = 1)
                          EXCEPT !.report = Head(podEvents)]]
    /\ UNCHANGED <<server, podCache, podWatch, budget>>

SavePodStatus(w) ==
    /\ job[w].pc = "savePod"
    /\ UpdateDatastore(w, Reported(job[w].ds, job[w].report), Idle)
    /\ UNCHANGED <<stsLog, pods, informers, budget>>

-----------------------------------------------------------------------------
(* Failures.  An error ends the item: it is logged, nothing is requeued, and *)
(* the worker takes the next item.                                           *)

GiveUp(w) == job' = [job EXCEPT ![w] = Idle]

\* An Update made from a copy that is no longer the server's version.
Conflict(w) ==
    /\ job[w].pc \in UpdateSteps
    /\ ~job[w].current
    /\ GiveUp(w)
    /\ UNCHANGED <<server, informers, budget>>

\* A Create of a StatefulSet that the cache does not show yet.
AlreadyExists(w) ==
    /\ job[w].pc = "create"
    /\ statefulset # Nil
    /\ GiveUp(w)
    /\ UNCHANGED <<server, informers, budget>>

\* An exec into a pod that is gone, or that is not ready.
SignalFails(w) ==
    /\ job[w].pc = "signal"
    /\ \E i \in job[w].todo : i \notin podCache \cap Ready
    /\ GiveUp(w)
    /\ UNCHANGED <<server, informers, budget>>

\* A call that fails for a passing reason; when the call before it was
\* carried out, this is also a call whose answer is lost.
CallFails(w) ==
    /\ job[w].pc \notin {"idle", "panic"}
    /\ GiveUp(w)
    /\ Spend("faults")
    /\ UNCHANGED <<server, informers>>

\* The process dies and is started again: the caches are listed afresh, and
\* the deleted pods that no worker has handled are forgotten.
Restart ==
    /\ job' = [w \in Workers |-> Idle]
    /\ dsLog' = <<datastore>>
    /\ stsLog' = <<statefulset>>
    /\ podCache' = Present
    /\ podWatch' = << >>
    /\ podEvents' = << >>
    /\ UNCHANGED pods

Crash == Restart /\ Spend("crashes")

\* A panic in a worker ends the process.
Panic ==
    /\ \E w \in Workers : job[w].pc = "panic"
    /\ Restart
    /\ UNCHANGED budget

\* The pod watch is lost and listed again.  Pods that went away meanwhile are
\* handed to the handler as tombstones, which its type check drops.
RelistPods ==
    /\ podWatch # << >>
    /\ podCache' = Present
    /\ podWatch' = << >>
    /\ Spend("faults")
    /\ UNCHANGED <<server, podEvents, job>>

-----------------------------------------------------------------------------
(* The informers. *)

DeliverDatastore ==
    /\ Len(dsLog) > 1
    /\ dsLog' = Tail(dsLog)
    /\ UNCHANGED <<stsLog, pods, informers, job, budget>>

DeliverStatefulset ==
    /\ Len(stsLog) > 1
    /\ stsLog' = Tail(stsLog)
    /\ UNCHANGED <<dsLog, pods, informers, job, budget>>

DeliverPod ==
    /\ podWatch # << >>
    /\ podWatch' = Tail(podWatch)
    /\ LET event == Head(podWatch)
       IN  \/ /\ event.change = "added"
              /\ podCache' = podCache \cup {event.pod}
              /\ podEvents' = podEvents
           \/ /\ event.change # "added"
              /\ podCache' = podCache \ {event.pod}
              /\ podEvents' = Append(podEvents,
                   [pod |-> event.pod,
                    decommissioned |-> event.change = "decommissioned"])
    /\ UNCHANGED <<server, job, budget>>

-----------------------------------------------------------------------------
(* The environment: the user, the StatefulSet controller and the kubelet.   *)
(* None of it is in the repository.                                         *)

UserEdit ==
    /\ \E r \in Requests \ {datastore.spec} :
         dsLog' = Append(dsLog, [datastore EXCEPT !.spec = r])
    /\ VersionsBehind < MaxLag
    /\ job' = [w \in Workers |-> [job[w] EXCEPT !.current = FALSE]]
    /\ Spend("edits")
    /\ UNCHANGED <<stsLog, pods, informers>>

NotifyPod(i, change) ==
    /\ Len(podWatch) + Len(podEvents) < MaxLag
    /\ podWatch' = Append(podWatch, [pod |-> i, change |-> change])

CreatePod ==
    /\ statefulset # Nil
    /\ \E i \in Ordinal \ Present :
         /\ i < statefulset.spec
         /\ pods' = [pods EXCEPT ![i].phase =
                                   IF SlowStart THEN "starting" ELSE "ready"]
         /\ NotifyPod(i, "added")
    /\ UNCHANGED <<dsLog, stsLog, podCache, podEvents, job, budget>>

PodReady ==
    /\ \E i \in Present \ Ready : pods' = [pods EXCEPT ![i].phase = "ready"]
    /\ UNCHANGED <<dsLog, stsLog, informers, job, budget>>

\* A pod may end decommissioned only when it was signalled.
EndPod(i) ==
    \E ending \in Ending :
        /\ ending = "decommissioned" => pods[i].signalled
        /\ pods' = [pods EXCEPT ![i] = [phase |-> ending, signalled |-> FALSE]]
        /\ NotifyPod(i, ending)

RemovePod ==
    /\ statefulset # Nil
    /\ \E i \in Present : i >= statefulset.spec /\ EndPod(i)
    /\ UNCHANGED <<dsLog, stsLog, podCache, podEvents, job, budget>>

KillPod ==
    /\ \E i \in Present : EndPod(i)
    /\ Spend("kills")
    /\ UNCHANGED <<dsLog, stsLog, podCache, podEvents, job>>

CountPods ==
    /\ statefulset # Nil
    /\ LET counts == [replicas |-> Cardinality(Present),
                      readyReplicas |-> Cardinality(Ready)]
       IN  /\ counts # statefulset.counts
           /\ ChangeStatefulset([statefulset EXCEPT !.counts = counts])
    /\ UNCHANGED <<dsLog, pods, informers, job, budget>>

-----------------------------------------------------------------------------
Init ==
    /\ \E r \in Requests : dsLog = <<[spec |-> r, status |-> NoStatus]>>
    /\ stsLog = <<Nil>>
    /\ pods = [i \in Ordinal |-> [phase |-> "failed", signalled |-> FALSE]]
    /\ podCache = {}
    /\ podWatch = << >>
    /\ podEvents = << >>
    /\ job = [w \in Workers |-> Idle]
    /\ budget = [edits |-> MaxEdits, faults |-> MaxFaults,
                 crashes |-> MaxCrashes, kills |-> MaxKills]

Sync(w) ==
    \/ StartSync(w)
    \/ CreateStatefulset(w) \/ AlreadyExists(w)
    \/ ScaleUp(w) \/ SyncStatus(w)
    \/ SignalDecommission(w) \/ SignalFails(w)
    \/ ScaleDownStatefulset(w) \/ MarkScalingDown(w)
    \/ FinishScalingDown(w)
    \/ RestartScaling(w) \/ MarkRestarted(w)
    \/ Conflict(w)

Worker(w) == Sync(w) \/ StartPodStatus(w) \/ SavePodStatus(w)

Informer == DeliverDatastore \/ DeliverStatefulset \/ DeliverPod
Kubernetes == CreatePod \/ PodReady \/ RemovePod \/ CountPods
Disturbance == UserEdit \/ KillPod \/ Crash \/ RelistPods

Next ==
    \/ \E w \in Workers : Worker(w) \/ CallFails(w)
    \/ Panic
    \/ Informer
    \/ Kubernetes
    \/ Disturbance

Spec == Init /\ [][Next]_vars

\* The resync makes StartSync possible again and again, the informers deliver
\* what they have, and a pod report waits on a channel whose senders are
\* served in order: a worker that keeps becoming idle takes it in the end.
\* The pods' side is what the StatefulSet controller and the kubelet promise.
Fairness ==
    /\ \A w \in Workers : WF_vars(Sync(w) \/ SavePodStatus(w))
    /\ \A w \in Workers : SF_vars(StartPodStatus(w))
    /\ WF_vars(Panic)
    /\ WF_vars(DeliverDatastore) /\ WF_vars(DeliverStatefulset)
    /\ WF_vars(DeliverPod)
    /\ WF_vars(CreatePod) /\ WF_vars(PodReady) /\ WF_vars(RemovePod)
    /\ WF_vars(CountPods)

FairSpec == Spec /\ Fairness

-----------------------------------------------------------------------------
(* Properties. *)

\* Every variable holds a value of its kind.  In particular no StatefulSet is
\* given a size that no user ever asked for.
TypeOK ==
    /\ dsLog \in Seq(DataStore) /\ dsLog # << >>
    /\ stsLog \in Seq(StatefulSet \cup {Nil}) /\ stsLog # << >>
    /\ pods \in [Ordinal -> Pod]
    /\ podCache \subseteq Ordinal
    /\ podWatch \in Seq(PodChange)
    /\ podEvents \in Seq(PodReport)
    /\ job \in [Workers -> Job]
    /\ budget \in [{"edits", "faults", "crashes", "kills"} -> Nat]

\* The pointers that syncHandler dereferences without a check when it finds
\* ScalingDown or RestartScaling set are set as well, in every version of the
\* DataStore that a worker may read and in every copy that a worker holds.
NoNilDereference ==
    /\ \A k \in DOMAIN dsLog : PointersSet(dsLog[k])
    /\ \A w \in Workers : job[w].pc # "idle" => PointersSet(job[w].ds)

\* Update writes the whole object, the user's spec included, but no update of
\* the controller ever undoes an edit of the user's that it has not seen.
SpecOwnedByUser == [][datastore'.spec # datastore.spec => UserEdit]_vars

\* The concurrent workers, with their stale caches, conflicts and crashes,
\* take the DataStore through nothing but the transactions of the protocol.
Protocol == INSTANCE ScaleDownProtocol WITH store <- datastore
ImplementsProtocol == Protocol!Spec

\* A scale-down is declared finished only when the server's DataStore says, at
\* that moment, that every pod that had to leave was decommissioned.
FinishHasEvidence ==
    [][datastore.status.scalingDown /\ ~Attempting(datastore')
         => AllDecommissioned(datastore)]_vars

\* No pod has two reports in the server's DataStore, although the reports of one
\* pod are saved by two workers, from copies of different versions.
OneReportPerPod ==
    \A i \in Ordinal :
        \A j, k \in EntriesOf(datastore.status.podTerminationStatuses, i) : j = k

\* A report at the server is neither lost nor changed, by an Update made from a
\* copy that lacks it or by a later report, before the attempt is finished or
\* restarted.
ReportsKept ==
    [][LET reports == datastore.status.podTerminationStatuses
       IN  \/ IsPrefix(reports, datastore'.status.podTerminationStatuses)
           \/ /\ Attempting(datastore)
              /\ datastore'.status.podTerminationStatuses = << >>]_vars

\* A restarted scale-down begins again only when the server's DataStore says, at
\* that moment, that all the pods of its first size are ready, and it begins at
\* that size, although the worker that decides it may do so on stale caches.
RestartWaits ==
    [][Restarting(datastore) /\ datastore'.status.scalingDown
         => /\ datastore.status.readyReplicas = datastore.status.initialReplicas
            /\ datastore'.status.initialReplicas
                 = datastore.status.initialReplicas]_vars

\* The caches are up to date, and the cluster has the pods, and counts the pods,
\* that the StatefulSet asks for: nothing changes unless a worker changes it.
Settled ==
    /\ VersionsBehind = 0 /\ podWatch = << >>
    /\ statefulset # Nil
    /\ Present = {i \in Ordinal : i < statefulset.spec}
    /\ Ready = Present
    /\ statefulset.counts = [replicas |-> Cardinality(Present),
                             readyReplicas |-> Cardinality(Ready)]

\* The controller never comes to rest half way.  When all has settled and
\* syncHandler finds nothing to do, no scale-down is under way or waits to be
\* restarted, the StatefulSet has the size that the user asked for, and the
\* DataStore's counts are the StatefulSet's: whatever crashes and failed calls
\* left behind, one of the branches takes it up.
RestIsDone ==
    Settled /\ Decide(datastore, statefulset, TRUE) = Idle
      => /\ Steady(datastore)
         /\ datastore.spec \in {Nil, statefulset.spec}
         /\ datastore = WithCounts(datastore, statefulset.counts)

\* A worker that is about to restart a scale-down asks for a size above the one
\* that the scale-down was for, also when it takes up a restart that another
\* worker, or an earlier process, left half done.
RestartRaises ==
    \A w \in Workers :
        job[w].pc = "restart" =>
            job[w].ds.status.initialReplicas > job[w].ds.status.finalReplicas

\* Two conditions that the liveness properties rest on.  Neither is a promise of
\* the code: two workers on one key may go on without them for ever.
\*
\* In the end syncs start from caches that are up to date; otherwise each update
\* may be lost to a conflict.
FreshSyncs ==
    <>[][\A w \in Workers :
            job[w].pc = "idle" /\ job'[w].pc \notin {"idle", "savePod"}
              => VersionsBehind = 0 /\ podWatch = << >>]_vars

\* In the end the items are handled one at a time; otherwise one worker, about to
\* note the restart that it has given the StatefulSet its first size for, may each
\* time be beaten by another one that finds the size inconsistent.
ItemsApart ==
    <>[][\A w \in Workers :
            job[w].pc = "idle" /\ job'[w].pc # "idle"
              => \A v \in Workers : job[v].pc = "idle"]_vars

\* Whatever overlapping items, crashes and failed calls made of an attempt to
\* scale down, once the workers come to take fresh items in turn, an attempt that
\* is noted is finished or restarted.
AttemptsEnd ==
    FreshSyncs /\ ItemsApart =>
        [](datastore.status.scalingDown => <>~datastore.status.scalingDown)


-----------------------------------------------------------------------------
(* What comments and messages of the source say, and the code does not do.   *)

\* "Saving pod %s decommission status (false) in datastore %s": after the update
\* that saves it, the status of the pod in the DataStore is the saved one.
SavedStatusReported ==
    [][\A w \in Workers :
          SavePodStatus(w) =>
            GetPodTerminationStatus(datastore'.status.podTerminationStatuses,
                                    job[w].report.pod)
              = {[podName |-> job[w].report.pod,
                  decommissioned |-> job[w].report.decommissioned]}]_vars

\* "Unable to signal decommission to all pods" is why a scale-down is given up:
\* one that begins has all the pods to signal, that its cache shows, above the
\* size it asks for.
LeavingPodsSignalled ==
    [][\A w \in Workers :
          job[w].pc # "signal" /\ job'[w].pc = "signal" =>
            {i \in podCache : i >= Defaulted(job'[w].ds.spec)}
              \subseteq job'[w].todo]_vars

=============================================================================
