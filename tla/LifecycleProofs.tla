--------------------------- MODULE LifecycleProofs ---------------------------
(***************************************************************************)
(* The safety of the process's start and end, for any number of workers    *)
(* and of notifications.                                                   *)
(***************************************************************************)
EXTENDS Lifecycle, SequenceTheorems, TLAPS

\* Workers are started by Run alone, after it has seen the caches filled.  A
\* process that was sent two signals is gone.
IInv ==
    /\ TypeOK
    /\ main \in {"running", "returning"} => synced = Informers
    /\ \A w \in Workers : worker[w] # "off" => main \in {"running", "returning"}
    /\ signals = 2 => ~Alive

LEMMA IInvInitially == Init => IInv
<1> SUFFICES ASSUME Init  PROVE  IInv
  OBVIOUS
<1>1. pending \in [Informers -> 0 .. MaxPending]
  BY PendingAssumption DEF Init
<1>2. senders \in Seq(Informers)
  BY EmptySeq DEF Init
<1>3. signals \in 0 .. 2 /\ signals # 2
  BY DEF Init
<1> QED
  BY <1>1, <1>2, <1>3 DEF Init, IInv, TypeOK, MainSteps, WorkerSteps, Exits

LEMMA WorkerStep ==
    ASSUME IInv, NEW w \in Workers, Worker(w) \/ ItemPanics(w)
    PROVE  IInv'
<1> USE DEF IInv, TypeOK, informers, factories, WorkerSteps, Alive
<1>1. CASE StartWorker(w)
  BY <1>1 DEF StartWorker
<1>2. CASE Receive(w)
  BY <1>2, HeadTailProperties DEF Receive
<1>3. CASE FinishItem(w)
  BY <1>3 DEF FinishItem
<1>4. CASE QuitWorker(w)
  BY <1>4 DEF QuitWorker
<1>5. CASE ItemPanics(w)
  BY <1>5 DEF ItemPanics, Exits
<1> QED  BY <1>1, <1>2, <1>3, <1>4, <1>5 DEF Worker

LEMMA InformerSteps ==
    ASSUME IInv,
           \/ SendPanics
           \/ \E group \in Factories : StartFactory(group)
           \/ \E i \in Informers : Informer(i) \/ Notify(i)
    PROVE  IInv'
<1> USE DEF IInv, TypeOK, informers, factories, Alive
<1>1. ASSUME NEW i \in Informers, Sync(i)  PROVE  IInv'
  BY <1>1 DEF Sync
<1>2. ASSUME NEW i \in Informers, Notify(i)  PROVE  IInv'
  BY <1>2, PendingAssumption DEF Notify
<1>3. ASSUME NEW i \in Informers, Handle(i)  PROVE  IInv'
  <2>1. /\ UNCHANGED <<main, registered, starting, running, synced, closed,
                      worker, signals, exit>>
        /\ pending[i] \in 1 .. MaxPending
        /\ pending' = [pending EXCEPT ![i] = pending[i] - 1]
        /\ senders' = Append(senders, i) \/ senders' = senders
    BY <1>3, PendingAssumption DEF Handle
  <2>2. pending' \in [Informers -> 0 .. MaxPending]
    <3>1. pending[i] - 1 \in 0 .. MaxPending
      BY <2>1, PendingAssumption
    <3> QED  BY <2>1, <3>1
  <2>3. senders' \in Seq(Informers)
    <3>1. senders \in Seq(Informers)
      OBVIOUS
    <3>2. Append(senders, i) \in Seq(Informers)
      BY <3>1, AppendProperties
    <3> QED  BY <2>1, <3>1, <3>2
  <2> QED  BY <2>1, <2>2, <2>3
<1>4. ASSUME NEW group \in Factories, StartFactory(group)  PROVE  IInv'
  BY <1>4 DEF StartFactory
<1>5. CASE SendPanics
  BY <1>5 DEF SendPanics, Exits
<1> QED  BY <1>1, <1>2, <1>3, <1>4, <1>5 DEF Informer

LEMMA MainStep ==
    ASSUME IInv, Main \/ BuildFails
    PROVE  IInv'
<1> USE DEF IInv, TypeOK, informers, factories, Alive, MainSteps, Exits
<1>1. CASE CachesSynced
  BY <1>1 DEF CachesSynced
<1>2. CASE SyncAborted
  BY <1>2 DEF SyncAborted
<1>3. CASE ReturnFromRun
  BY <1>3 DEF ReturnFromRun
<1>4. CASE Exit
  BY <1>4 DEF Exit
<1>5. ASSUME NEW i \in Informers, InformerFor(i)  PROVE  IInv'
  BY <1>5 DEF InformerFor
<1>6. CASE LaunchFactories
  BY <1>6 DEF LaunchFactories
<1>7. CASE BuildFails
  BY <1>7 DEF BuildFails
<1> QED  BY <1>1, <1>2, <1>3, <1>4, <1>5, <1>6, <1>7 DEF Main

LEMMA SignalStep ==
    ASSUME IInv, Signal
    PROVE  IInv'
<1>1. /\ exit = "no" /\ signals' = signals + 1
      /\ exit' = IF signals > 0 THEN "second signal" ELSE exit
      /\ UNCHANGED <<main, registered, starting, running, synced, pending,
                     senders, closed, worker>>
  BY DEF Signal, Alive, stopped, informers, factories
<1>2. signals \in 0 .. 2 /\ signals # 2
  BY <1>1 DEF IInv, TypeOK, Alive
<1>3. signals' \in 0 .. 2 /\ (signals' = 2 => signals > 0)
  <2>1. signals' = signals + 1
    BY <1>1
  <2>2. signals \in {0, 1}
    BY <1>2
  <2> QED  BY <2>1, <2>2
<1>4. exit' \in Exits /\ (signals' = 2 => exit' # "no")
  BY <1>1, <1>3 DEF Exits
<1>5. TypeOK'
  BY <1>1, <1>3, <1>4 DEF IInv, TypeOK
<1> QED  BY <1>1, <1>4, <1>5 DEF IInv, Alive

LEMMA IInvInductive == IInv /\ [Next]_vars => IInv'
<1> SUFFICES ASSUME IInv, [Next]_vars  PROVE  IInv'
  OBVIOUS
<1>1. CASE UNCHANGED vars
  <2>1. UNCHANGED <<main, registered, starting, running, synced, pending,
                    senders, closed, worker, signals, exit>>
    BY <1>1 DEF vars, informers, factories
  <2> QED  BY <2>1 DEF IInv, TypeOK, Alive
<1>2. CASE \E w \in Workers : Worker(w) \/ ItemPanics(w)
  BY <1>2, WorkerStep
<1>3. CASE \/ SendPanics
           \/ \E group \in Factories : StartFactory(group)
           \/ \E i \in Informers : Informer(i) \/ Notify(i)
  BY <1>3, InformerSteps
<1>4. CASE Main \/ BuildFails
  BY <1>4, MainStep
<1>5. CASE Signal
  BY <1>5, SignalStep
<1> QED  BY <1>1, <1>2, <1>3, <1>4, <1>5 DEF Next

\* The kinds of the variables: no cache is filled of an informer not started.
THEOREM TypeCorrect == Spec => []TypeOK
<1>1. IInv => TypeOK
  BY DEF IInv
<1> QED  BY <1>1, IInvInitially, IInvInductive, PTL DEF Spec

\* No item is handled before every cache is filled.
THEOREM NoWorkBeforeSync == Spec => []WorkOnSyncedCaches
<1>1. IInv => WorkOnSyncedCaches
  BY DEF IInv, WorkOnSyncedCaches
<1> QED  BY <1>1, IInvInitially, IInvInductive, PTL DEF Spec

\* That no informer is left out needs no more than what it says: the factories are
\* launched when every informer is registered, and each belongs to one of them.
LEMMA LeftOutInductive == NoInformerLeftOut /\ [Next]_vars => NoInformerLeftOut'
<1> SUFFICES ASSUME NoInformerLeftOut, [Next]_vars  PROVE  NoInformerLeftOut'
  OBVIOUS
<1> USE DEF NoInformerLeftOut
<1>1. ASSUME main' = main \/ main # "building",
             registered \subseteq registered', UNCHANGED <<starting, running>>
      PROVE  NoInformerLeftOut'
  BY <1>1
<1>2. CASE LaunchFactories
  <2>1. registered' = Informers /\ starting' = Factories
    BY <1>2 DEF LaunchFactories
  <2>2. \A i \in Informers : \E group \in Factories : i \in group
    BY DEF Informers, Factories
  <2> QED  BY <2>1, <2>2
<1>3. ASSUME NEW group \in Factories, StartFactory(group)
      PROVE  NoInformerLeftOut'
  BY <1>3 DEF StartFactory
<1>4. ASSUME NEW i \in Informers, InformerFor(i)  PROVE  NoInformerLeftOut'
  BY <1>1, <1>4 DEF InformerFor
<1>5. CASE CachesSynced \/ SyncAborted \/ ReturnFromRun \/ Exit
  BY <1>1, <1>5 DEF CachesSynced, SyncAborted, ReturnFromRun, Exit, informers,
                    factories
<1>6. ASSUME NEW i \in Informers, Informer(i) \/ Notify(i)
      PROVE  NoInformerLeftOut'
  BY <1>1, <1>6 DEF Informer, Sync, Handle, Notify, factories
<1>7. ASSUME NEW w \in Workers, Worker(w) \/ ItemPanics(w)
      PROVE  NoInformerLeftOut'
  BY <1>1, <1>7 DEF Worker, StartWorker, Receive, FinishItem, QuitWorker,
                    ItemPanics, informers, factories
<1>8. CASE SendPanics \/ BuildFails \/ Signal \/ UNCHANGED vars
  BY <1>1, <1>8 DEF SendPanics, BuildFails, Signal, vars, informers, factories
<1> QED  BY <1>2, <1>3, <1>4, <1>5, <1>6, <1>7, <1>8 DEF Next, Main

\* A worker and a blocked send end when the channel is closed, and Run closes it
\* when it was told to stop.  An item is handled by a worker that Run started.
LEMMA RunsInductive ==
    IInv /\ RunsUntilStopped /\ [Next]_vars => RunsUntilStopped'
<1> SUFFICES ASSUME IInv, RunsUntilStopped, [Next]_vars, ~stopped'
             PROVE  RunsUntilStopped'
  BY DEF RunsUntilStopped
<1> USE DEF RunsUntilStopped
<1>0. TypeOK
  BY DEF IInv
<1>1. ~Signal
  <2>1. signals \in 0 .. 2
    BY <1>0 DEF TypeOK
  <2>2. signals + 1 > 0
    BY ONLY <2>1
  <2>3. ~ (signals' > 0)
    BY DEF stopped
  <2>4. Signal => signals' = signals + 1
    BY DEF Signal
  <2> QED  BY <2>2, <2>3, <2>4
<1>2. UNCHANGED signals /\ ~stopped
  <2>1. UNCHANGED signals
    BY <1>1 DEF Next, vars, Main, Informer, Worker, StartFactory, Sync, Handle,
                Notify, StartWorker, Receive, FinishItem, ItemPanics, QuitWorker,
                SendPanics, InformerFor, LaunchFactories, CachesSynced,
                SyncAborted, ReturnFromRun, Exit, BuildFails
  <2> QED  BY <2>1 DEF stopped
<1>3. ASSUME Alive, main' = main \/ main' \in {"syncing", "running"},
             UNCHANGED <<closed, worker, exit>>
      PROVE  RunsUntilStopped'
  BY <1>2, <1>3 DEF Alive
<1>4. ASSUME NEW w \in Workers, Worker(w)  PROVE  RunsUntilStopped'
  <2>1. ~QuitWorker(w)
    BY <1>2 DEF QuitWorker
  <2>2. PICK step \in {"receiving", "working"} :
           worker' = [worker EXCEPT ![w] = step]
    BY <1>2, <1>4, <2>1 DEF Worker, StartWorker, Receive, FinishItem
  <2>3. \A v \in Workers : worker'[v] # "done"
    BY <1>0, <1>2, <2>2 DEF TypeOK
  <2>4. UNCHANGED <<main, closed, exit>> /\ Alive
    BY <1>4 DEF Worker, StartWorker, Receive, FinishItem, QuitWorker
  <2> QED  BY <1>2, <2>3, <2>4 DEF Alive
<1>5. ASSUME NEW w \in Workers, ItemPanics(w)  PROVE  RunsUntilStopped'
  <2>1. main \in {"running", "returning"} /\ worker[w] = "working"
    BY <1>5 DEF IInv, ItemPanics
  <2> QED  BY <1>2, <1>5, <2>1 DEF ItemPanics
<1>6. CASE SendPanics \/ SyncAborted \/ ReturnFromRun \/ Exit
  BY <1>2, <1>6 DEF SendPanics, SyncAborted, ReturnFromRun, Exit
<1>7. CASE LaunchFactories \/ CachesSynced
  BY <1>3, <1>7 DEF LaunchFactories, CachesSynced
<1>8. CASE BuildFails
  BY <1>2, <1>8 DEF BuildFails
<1>9. ASSUME NEW i \in Informers, InformerFor(i) \/ Informer(i) \/ Notify(i)
      PROVE  RunsUntilStopped'
  BY <1>3, <1>9 DEF InformerFor, Informer, Sync, Handle, Notify
<1>10. ASSUME NEW group \in Factories, StartFactory(group)
      PROVE  RunsUntilStopped'
  BY <1>3, <1>10 DEF StartFactory
<1>11. CASE UNCHANGED vars
  BY <1>2, <1>11 DEF vars, Alive
<1> QED
  BY <1>1, <1>4, <1>5, <1>6, <1>7, <1>8, <1>9, <1>10, <1>11 DEF Next, Main

\* No Start that runs beside Run leaves an informer out.
THEOREM EveryInformerStarted == Spec => []NoInformerLeftOut
<1>1. Init => NoInformerLeftOut
  BY DEF Init, NoInformerLeftOut
<1> QED  BY <1>1, LeftOutInductive, PTL DEF Spec

\* Nothing of a controller that was built ends before a signal, unless an item
\* panics, which takes a running controller.
THEOREM NothingEndsUnasked == Spec => []RunsUntilStopped
<1>1. Init => RunsUntilStopped
  BY DEF Init, RunsUntilStopped, Alive
<1> QED  BY <1>1, IInvInitially, IInvInductive, RunsInductive, PTL DEF Spec

==================================================
