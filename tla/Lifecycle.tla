------------------------------ MODULE Lifecycle ------------------------------
(***************************************************************************)
(* The controller's process: main.go, the signal handler, Run, the work    *)
(* queue and the goroutines on its two sides.  The queue is an unbuffered  *)
(* channel: each informer has a goroutine that calls its handlers one      *)
(* after the other and blocks in Enqueue until a worker takes the item.    *)
(*                                                                         *)
(*   main      where main and Run have got to                              *)
(*   registered  the informers in the factories' maps                      *)
(*   starting  the factories whose Start was launched and has yet to run   *)
(*   running   the informers that were started                             *)
(*   synced    the informers whose first list is in the cache              *)
(*   pending   notifications an informer holds for its handlers            *)
(*   senders   the informers blocked in Enqueue: a channel serves its      *)
(*             senders in the order in which they came                     *)
(*   closed    whether ShutDown closed the channel                         *)
(*   worker    what each worker does                                       *)
(*   signals   how many signals the process was sent                       *)
(*   exit      how the process ended                                       *)
(*                                                                         *)
(* What the workers do with an item is the module DatastoreController.     *)
(***************************************************************************)
EXTENDS Naturals, Sequences, SequencesExt

CONSTANTS
    Workers,       \* 2 in main.go
    MaxPending     \* bound on the notifications an informer holds

ASSUME PendingAssumption == MaxPending \in Nat \ {0}

VARIABLES main, registered, starting, running, synced, pending, senders, closed,
          worker, signals, exit

factories == <<registered, starting, running>>
informers == <<factories, synced, pending>>
vars == <<main, informers, senders, closed, worker, signals, exit>>

KubeInformers == {"statefulsets", "pods"}
DatastoreInformers == {"datastores"}
Informers == KubeInformers \cup DatastoreInformers
Factories == {KubeInformers, DatastoreInformers}

MainSteps == {"building", "syncing", "running", "returning", "failed"}
WorkerSteps == {"off", "receiving", "working", "done"}
Exits == {"no", "clean", "fatal", "second signal", "send panic", "item panic"}

stopped == signals > 0      \* stopCh is closed
Alive == exit = "no"

Init ==
    /\ main = "building"
    /\ registered = {}
    /\ starting = {}
    /\ running = {}
    /\ synced = {}
    /\ pending = [i \in Informers |-> 0]
    /\ senders = << >>
    /\ closed = FALSE
    /\ worker = [w \in Workers |-> "off"]
    /\ signals = 0
    /\ exit = "no"

-----------------------------------------------------------------------------
(* The factories and their informers. *)

\* NewController asks for each informer, more than once; the factory makes it the
\* first time.
InformerFor(i) ==
    /\ Alive
    /\ i \notin registered
    /\ registered' = registered \cup {i}
    /\ UNCHANGED <<main, starting, running, synced, pending, senders, closed,
                   worker, signals, exit>>

\* Before NewController has asked for the informers.
LaunchFirst ==
    /\ Alive
    /\ main = "building"
    /\ starting' = Factories
    /\ main' = "syncing"
    /\ UNCHANGED <<registered, running, synced, pending, senders, closed,
                   worker, signals, exit>>

\* `go factory.Start(stopCh)`, twice in main, beside the call of Run.
LaunchFactories ==
    /\ Alive
    /\ main = "building" /\ registered = Informers
    /\ starting' = Factories
    /\ main' = "syncing"
    /\ UNCHANGED <<registered, running, synced, pending, senders, closed,
                   worker, signals, exit>>

\* Start looks once at what its map holds.
StartFactory(group) ==
    /\ Alive
    /\ group \in starting
    /\ starting' = starting \ {group}
    /\ running' = running \cup (group \cap registered)
    /\ UNCHANGED <<main, registered, synced, pending, senders, closed, worker,
                   signals, exit>>

\* A factory that waits for the caches of informers it never started.
SyncUnstarted(i) ==
    /\ Alive /\ i \notin synced
    /\ synced' = synced \cup {i}
    /\ UNCHANGED <<main, factories, pending, senders, closed, worker, signals,
                   exit>>

\* The first list has arrived; whether its notifications were handled does not
\* matter to HasSynced.
Sync(i) ==
    /\ Alive /\ i \in running \ synced
    /\ synced' = synced \cup {i}
    /\ UNCHANGED <<main, factories, pending, senders, closed, worker, signals,
                   exit>>

\* A change, or the resync every 30 seconds.
Notify(i) ==
    /\ Alive /\ i \in running
    /\ pending[i] < MaxPending
    /\ pending' = [pending EXCEPT ![i] = @ + 1]
    /\ UNCHANGED <<main, factories, synced, senders, closed, worker, signals,
                   exit>>

\* The handler has something to enqueue, or drops the notification: a resync
\* of a StatefulSet, an object that no DataStore owns, the tombstone of a pod.
Handle(i) ==
    /\ Alive
    /\ i \notin ToSet(senders)
    /\ pending[i] > 0
    /\ pending' = [pending EXCEPT ![i] = @ - 1]
    /\ \/ senders' = Append(senders, i)
       \/ i \in KubeInformers /\ senders' = senders
    /\ UNCHANGED <<main, factories, synced, closed, worker, signals, exit>>

\* A send on a closed channel panics, and so does one that was blocked when
\* the channel was closed.
SendPanics ==
    /\ Alive
    /\ closed /\ senders # << >>
    /\ exit' = "send panic"
    /\ UNCHANGED <<main, informers, senders, closed, worker, signals>>

-----------------------------------------------------------------------------
(* The workers: wait.Until(runWorker). *)

StartWorker(w) ==
    /\ Alive
    /\ main \in {"running", "returning"} /\ worker[w] = "off"
    /\ worker' = [worker EXCEPT ![w] = IF stopped THEN "done" ELSE "receiving"]
    /\ UNCHANGED <<main, informers, senders, closed, signals, exit>>

\* A stack of waiting senders in place of a channel.
ReceiveLast(w) ==
    /\ Alive
    /\ worker[w] = "receiving"
    /\ ~closed /\ senders # << >>
    /\ senders' = Front(senders)
    /\ worker' = [worker EXCEPT ![w] = "working"]
    /\ UNCHANGED <<main, informers, closed, signals, exit>>

Receive(w) ==
    /\ Alive
    /\ worker[w] = "receiving"
    /\ ~closed /\ senders # << >>
    /\ senders' = Tail(senders)
    /\ worker' = [worker EXCEPT ![w] = "working"]
    /\ UNCHANGED <<main, informers, closed, signals, exit>>

FinishItem(w) ==
    /\ Alive
    /\ worker[w] = "working"
    /\ worker' = [worker EXCEPT ![w] = "receiving"]
    /\ UNCHANGED <<main, informers, senders, closed, signals, exit>>

\* syncHandler dereferences a nil pointer: the log line after the PUT that shrinks
\* the StatefulSet, when the DataStore has no spec.replicas.  The handler of
\* wait.Until logs the panic and panics again, which ends the process.
ItemPanics(w) ==
    /\ Alive
    /\ worker[w] = "working"
    /\ exit' = "item panic"
    /\ UNCHANGED <<main, informers, senders, closed, worker, signals>>

\* The channel is closed: runWorker returns, and wait.Until finds stopCh
\* closed.
QuitWorker(w) ==
    /\ Alive
    /\ worker[w] = "receiving" /\ closed
    /\ worker' = [worker EXCEPT ![w] = "done"]
    /\ UNCHANGED <<main, informers, senders, closed, signals, exit>>

-----------------------------------------------------------------------------
(* main and Run. *)

\* No configuration or no client: the process ends before it has a controller.
BuildFails ==
    /\ Alive
    /\ main = "building"
    /\ exit' = "fatal"
    /\ UNCHANGED <<main, informers, senders, closed, worker, signals>>

\* Waiting for the DataStores only.
DatastoresSynced ==
    /\ Alive
    /\ main = "syncing" /\ DatastoreInformers \subseteq synced
    /\ main' = "running"
    /\ UNCHANGED <<informers, senders, closed, worker, signals, exit>>

CachesSynced ==
    /\ Alive
    /\ main = "syncing" /\ synced = Informers
    /\ main' = "running"
    /\ UNCHANGED <<informers, senders, closed, worker, signals, exit>>

\* Stopped before the caches are synced: Run returns an error.
SyncAborted ==
    /\ Alive
    /\ main = "syncing" /\ stopped
    /\ main' = "failed"
    /\ closed' = TRUE
    /\ UNCHANGED <<informers, senders, worker, signals, exit>>

\* Waiting for the workers before the channel is closed, which is what they
\* wait for.
ReturnAfterWorkers ==
    /\ Alive
    /\ main = "running" /\ stopped
    /\ \A w \in Workers : worker[w] = "done"
    /\ main' = "returning"
    /\ closed' = TRUE
    /\ UNCHANGED <<informers, senders, worker, signals, exit>>

\* A Run that does not wait for stopCh: nothing in it outlives the workers' start.
ReturnAtOnce ==
    /\ Alive
    /\ main = "running"
    /\ main' = "returning"
    /\ closed' = TRUE
    /\ UNCHANGED <<informers, senders, worker, signals, exit>>

\* Run returns, its deferred ShutDown closes the channel.
ReturnFromRun ==
    /\ Alive
    /\ main = "running" /\ stopped
    /\ main' = "returning"
    /\ closed' = TRUE
    /\ UNCHANGED <<informers, senders, worker, signals, exit>>

Exit ==
    /\ Alive
    /\ \/ main = "returning" /\ exit' = "clean"
       \/ main = "failed" /\ exit' = "fatal"
    /\ UNCHANGED <<main, informers, senders, closed, worker, signals>>

\* The first signal closes stopCh, the second one exits at once.
Signal ==
    /\ Alive
    /\ signals' = signals + 1
    /\ exit' = IF stopped THEN "second signal" ELSE exit
    /\ UNCHANGED <<main, informers, senders, closed, worker>>

-----------------------------------------------------------------------------
Informer(i) == Sync(i) \/ Handle(i)
Worker(w) == StartWorker(w) \/ Receive(w) \/ FinishItem(w) \/ QuitWorker(w)
Main ==
    \/ \E i \in Informers : InformerFor(i)
    \/ LaunchFactories
    \/ CachesSynced \/ SyncAborted \/ ReturnFromRun \/ Exit

Next ==
    \/ \E group \in Factories : StartFactory(group)
    \/ \E i \in Informers : Informer(i) \/ Notify(i)
    \/ \E w \in Workers : Worker(w) \/ ItemPanics(w)
    \/ SendPanics
    \/ Main
    \/ BuildFails
    \/ Signal

\* Goroutines run; the world need not change, and nobody need send a signal.
Spec ==
    /\ Init /\ [][Next]_vars
    /\ \A group \in Factories : WF_vars(StartFactory(group))
    /\ \A i \in Informers : WF_vars(Sync(i)) /\ WF_vars(Handle(i))
    /\ \A w \in Workers : WF_vars(Worker(w))
    /\ WF_vars(Main)

-----------------------------------------------------------------------------
(* Properties. *)

\* Every variable holds a value of its kind, and only an informer that runs has
\* its cache filled.
TypeOK ==
    /\ main \in MainSteps
    /\ registered \subseteq Informers
    /\ starting \subseteq Factories
    /\ running \subseteq Informers
    /\ synced \subseteq running
    /\ pending \in [Informers -> 0 .. MaxPending]
    /\ senders \in Seq(Informers)
    /\ closed \in BOOLEAN
    /\ worker \in [Workers -> WorkerSteps]
    /\ signals \in 0 .. 2
    /\ exit \in Exits

\* No item is handled by a worker whose listers could miss objects that exist:
\* before every cache has been filled, the handlers just wait in the queue.
WorkOnSyncedCaches ==
    (\E w \in Workers : worker[w] = "working") => synced = Informers

\* No informer is left out by a Start that runs beside Run: from the moment the
\* factories are launched, each informer either runs or belongs to a factory whose
\* Start has yet to look at its map.
NoInformerLeftOut ==
    main # "building" =>
        \A i \in Informers :
            \/ i \in running
            \/ i \in registered /\ \E group \in starting : i \in group

\* A controller that was built and not told to stop keeps its queue open and its
\* workers at work: neither Run nor a worker returns, no send panics, and nothing
\* ends the process but the panic of an item that a worker of the running
\* controller is in the middle of.
RunsUntilStopped ==
    ~stopped =>
        /\ ~closed
        /\ main \notin {"returning", "failed"}
        /\ \A w \in Workers : worker[w] # "done"
        /\ \/ Alive
           \/ main = "building" /\ exit = "fatal"
           \/ /\ main = "running" /\ exit = "item panic"
              /\ \E w \in Workers : worker[w] = "working"

\* Unless it is told to stop or ends before, the process comes to run all of its
\* workers: no informer that Run waits for was left out by a Start that runs
\* beside it.
WorkersStart ==
    <>(stopped \/ ~Alive \/ \A w \in Workers : worker[w] # "off")

\* However fast one informer sends, the item of another one is taken: nobody
\* waits for ever on the unbuffered channel of a process that goes on.
EverySenderServed ==
    \A i \in Informers :
        (i \in ToSet(senders)) ~> (i \notin ToSet(senders) \/ stopped \/ ~Alive)

\* Told to stop, at whatever moment of its start, the process ends.
StopEnds == stopped ~> ~Alive

-----------------------------------------------------------------------------
(* What comments of the source say, and the code does not do. *)

\* "it will shutdown the workqueue and wait for workers to finish processing
\* their current work items": no item is cut short by a clean end.
WaitsForWorkers ==
    exit = "clean" => \A w \in Workers : worker[w] # "working"

\* "we handle the first shutdown signal gracefully": the stop that one signal
\* asks for does not itself make the process panic.
FirstSignalGraceful == exit = "send panic" => signals # 1

=============================================================================
