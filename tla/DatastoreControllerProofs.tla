---------------------- MODULE DatastoreControllerProofs ----------------------
(***************************************************************************)
(* The controller's safety, for any number of workers, replicas and        *)
(* versions that the caches are behind.                                    *)
(***************************************************************************)
EXTENDS DatastoreController, DataStoreObjectProofs, FiniteSetTheorems

-----------------------------------------------------------------------------
(* The logs of versions. *)

LEMMA LogEnds ==
    ASSUME NEW S, NEW log \in Seq(S), log # << >>
    PROVE  /\ Len(log) \in Nat \ {0}
           /\ Head(log) \in S /\ Last(log) \in S
           /\ 1 \in DOMAIN log /\ Head(log) = log[1]
           /\ Len(log) = 1 => Head(log) = Last(log)
BY EmptySeq, LenProperties, ElementOfSeq DEF Last

LEMMA LogGrows ==
    ASSUME NEW S, NEW log \in Seq(S), NEW e \in S
    PROVE  /\ Append(log, e) \in Seq(S) /\ Append(log, e) # << >>
           /\ Last(Append(log, e)) = e
BY AppendProperties DEF Last

LEMMA LogShrinks ==
    ASSUME NEW S, NEW log \in Seq(S), Len(log) > 1
    PROVE  /\ Tail(log) \in Seq(S) /\ Tail(log) # << >>
           /\ Last(Tail(log)) = Last(log)
<1>1. Len(log) \in Nat /\ log # << >>
  BY LenProperties, EmptySeq
<1>2. /\ Tail(log) \in Seq(S) /\ Len(Tail(log)) = Len(log) - 1
      /\ \A i \in 1 .. Len(Tail(log)) : Tail(log)[i] = log[i + 1]
  BY <1>1, HeadTailProperties
<1>3. Tail(log) # << >>
  <2>1. Len(Tail(log)) # 0
    BY <1>1, <1>2
  <2>2. Len(<< >>) = 0
    BY EmptySeq
  <2> QED  BY <2>1, <2>2
<1> QED  BY <1>1, <1>2, <1>3 DEF Last

LEMMA LogRestarts ==
    ASSUME NEW S, NEW e \in S
    PROVE  /\ <<e>> \in Seq(S) /\ <<e>> # << >>
           /\ Last(<<e>>) = e
BY DEF Last

-----------------------------------------------------------------------------
(* The inductive invariant.  TypeOK is not inductive: what a worker does at  *)
(* a step needs what it found when it decided to get there.                  *)

JobOK(j) ==
    /\ j \in Job
    /\ j.pc # "idle" => j.ds \in SoundDataStore
    /\ j.pc \in {"finish", "markDown", "markRestart", "status"}
         => j.counts \in Counts
    /\ j.pc \in {"signal", "markDown"}
         => /\ j.initial \in Size
            /\ Steady(j.ds) => j.ds.spec # Nil
            /\ MayStart(j.ds, j.initial)
    /\ j.pc = "markDown" => j.ds.spec # Nil
    /\ j.pc = "finish" => j.ds.status.scalingDown /\ AllDecommissioned(j.ds)
    /\ j.pc \in {"restart", "markRestart"} => MayRestart(j.ds)
    /\ j.pc = "savePod" => j.report \in PodReport

LogOK == dsLog \in Seq(SoundDataStore) /\ dsLog # << >>

\* A StatefulSet that any cache shows exists.
StatefulsetsOK ==
    /\ stsLog \in Seq(StatefulSet \cup {Nil}) /\ stsLog # << >>
    /\ \A k \in DOMAIN stsLog : stsLog[k] # Nil => statefulset # Nil
    /\ \A w \in Workers : job[w].pc \notin {"idle", "create"}
                            => statefulset # Nil

PodsOK ==
    /\ pods \in [Ordinal -> Pod]
    /\ podCache \subseteq Ordinal
    /\ podWatch \in Seq(PodChange)
    /\ podEvents \in Seq(PodReport)

\* The flag says what the resourceVersion of a copy does.
JobsOK ==
    /\ job \in [Workers -> Job]
    /\ \A w \in Workers : /\ JobOK(job[w])
                          /\ job[w].current => job[w].ds = datastore

BudgetOK == budget \in [{"edits", "faults", "crashes", "kills"} -> Nat]

IInv == LogOK /\ StatefulsetsOK /\ PodsOK /\ JobsOK /\ BudgetOK

LEMMA IInvImplies == IInv => TypeOK /\ NoNilDereference /\ RestartRaises
<1> SUFFICES ASSUME IInv  PROVE  TypeOK /\ NoNilDereference /\ RestartRaises
  OBVIOUS
<1>1. dsLog \in Seq(DataStore)
  BY SeqMonotonic DEF IInv, LogOK, SoundDataStore
<1>2. \A k \in DOMAIN dsLog : dsLog[k] \in SoundDataStore
  BY ElementOfSeq, LenProperties DEF IInv, LogOK
<1>3. NoNilDereference
  BY <1>2 DEF IInv, JobsOK, JobOK, NoNilDereference, SoundDataStore
<1>4. RestartRaises
  <2> SUFFICES ASSUME NEW w \in Workers, job[w].pc = "restart"
               PROVE  job[w].ds.status.initialReplicas
                        > job[w].ds.status.finalReplicas
    BY DEF RestartRaises
  <2>1. job[w].ds \in SoundDataStore /\ MayRestart(job[w].ds)
    BY DEF IInv, JobsOK, JobOK
  <2>2. PICK c \in Counts : TRUE
    <3>1. [replicas |-> 0, readyReplicas |-> 0] \in Counts
      BY ReplicasAssumption DEF Counts, Count
    <3> QED  BY <3>1
  <2> QED  BY <2>1, <2>2, SoundRestart
<1>5. TypeOK
  BY <1>1 DEF IInv, LogOK, StatefulsetsOK, PodsOK, JobsOK, BudgetOK, TypeOK
<1> QED  BY <1>3, <1>4, <1>5

LEMMA IdleOK == Idle.pc = "idle" /\ Idle.current = FALSE /\ JobOK(Idle)
<1>1. Idle \in Job
  BY DEF Idle, JobAt, Job, Steps
<1> QED  BY <1>1 DEF Idle, JobAt, JobOK

LEMMA IInvInitially == Init => IInv
<1> SUFFICES ASSUME Init  PROVE  IInv
  OBVIOUS
<1>1. LogOK
  BY SoundInitially, LogRestarts DEF Init, LogOK
<1>2. PodsOK
  BY EmptySeq DEF Init, PodsOK, Pod, Ending
<1>3. JobsOK
  BY IdleOK DEF Init, JobsOK, JobOK
<1>4. StatefulsetsOK
  <2>1. \A k \in DOMAIN <<Nil>> : <<Nil>>[k] = Nil
    OBVIOUS
  <2> QED  BY <2>1, IdleOK, LogRestarts DEF Init, StatefulsetsOK
<1>5. BudgetOK
  BY BudgetAssumption DEF Init, BudgetOK
<1> QED  BY <1>1, <1>2, <1>3, <1>4, <1>5 DEF IInv

-----------------------------------------------------------------------------
(* The decisions of syncHandler. *)

\* A job that a decision may lead to: it goes on with the copy it began with.
Follows(j, d, b) ==
    /\ JobOK(j)
    /\ j.current => b /\ j.ds = d

LEMMA JobAtOK ==
    ASSUME NEW pc \in {"create", "scaleUp", "restart"},
           NEW d \in SoundDataStore, NEW b \in BOOLEAN,
           pc = "restart" => MayRestart(d)
    PROVE  Follows(JobAt(pc, d, b), d, b)
<1>1. JobAt(pc, d, b) \in Job
  BY DEF JobAt, Job, Steps, SoundDataStore
<1> QED  BY <1>1 DEF JobAt, JobOK, Follows

LEMMA MirrorOK ==
    ASSUME NEW d \in SoundDataStore, NEW c \in Counts, NEW b \in BOOLEAN
    PROVE  Follows(Mirror(d, c, b), d, b)
<1>1. CASE d = WithCounts(d, c)
  BY <1>1, IdleOK DEF Mirror, Follows
<1>2. CASE d # WithCounts(d, c)
  <2> DEFINE j == [JobAt("status", d, b) EXCEPT !.counts = c]
  <2>1. j = [pc |-> "status", ds |-> d, current |-> b, counts |-> c,
             todo |-> {}, initial |-> Nil, report |-> Nil]
    BY DEF JobAt
  <2> HIDE DEF j
  <2>2. j \in Job
    BY <2>1 DEF Job, Steps, UpdateSteps, SoundDataStore
  <2>3. Follows(j, d, b)
    BY <2>1, <2>2 DEF Follows, JobOK
  <2> QED  BY <1>2, <2>3 DEF Mirror, j
<1> QED  BY <1>1, <1>2

LEMMA DecideOK ==
    ASSUME NEW d \in SoundDataStore, NEW s \in StatefulSet, NEW b \in BOOLEAN,
           podCache \subseteq Ordinal
    PROVE  Follows(Decide(d, s, b), d, b)
<1> DEFINE signal == [JobAt("signal", d, b) EXCEPT !.todo = PodsToSignal(d),
                                                   !.initial = s.spec]
           finish == [JobAt("finish", d, b) EXCEPT !.counts = s.counts]
<1>1. \/ Decide(d, s, b) = JobAt("scaleUp", d, b)
      \/ StartsScalingDown(d, s) /\ Decide(d, s, b) = signal
      \/ Finishes(d, s) /\ Decide(d, s, b) = finish
      \/ RestartsScaling(d, s) /\ Decide(d, s, b) = JobAt("restart", d, b)
      \/ Decide(d, s, b) = Mirror(d, s.counts, b)
  BY SMT DEF Decide
<1>2. s.spec \in Size /\ s.counts \in Counts
  BY DEF StatefulSet
<1>3. ASSUME StartsScalingDown(d, s)  PROVE  Follows(signal, d, b)
  <2>1. signal = [pc |-> "signal", ds |-> d, current |-> b, counts |-> Nil,
                  todo |-> PodsToSignal(d), initial |-> s.spec,
                  report |-> Nil]
    <3> DEFINE k == [JobAt("signal", d, b) EXCEPT !.todo = PodsToSignal(d)]
    <3>1. k = [pc |-> "signal", ds |-> d, current |-> b, counts |-> Nil,
               todo |-> PodsToSignal(d), initial |-> Nil, report |-> Nil]
      BY DEF JobAt
    <3>2. signal = [k EXCEPT !.initial = s.spec]
      OBVIOUS
    <3> HIDE DEF k, signal
    <3> QED  BY <3>1, <3>2
  <2> HIDE DEF signal
  <2>2. signal \in Job
    BY <1>2, <2>1 DEF PodsToSignal, Job, Steps, SoundDataStore
  <2>3. (Steady(d) => d.spec # Nil) /\ MayStart(d, s.spec)
    BY <1>3 DEF StartsScalingDown, MayStart, Steady, Restarting
  <2> QED  BY <1>2, <2>1, <2>2, <2>3 DEF Follows, JobOK
<1>4. ASSUME Finishes(d, s)  PROVE  Follows(finish, d, b)
  <2>1. finish = [pc |-> "finish", ds |-> d, current |-> b,
                  counts |-> s.counts, todo |-> {}, initial |-> Nil,
                  report |-> Nil]
    BY DEF JobAt
  <2> HIDE DEF finish
  <2>2. finish \in Job
    BY <1>2, <2>1 DEF Job, Steps, UpdateSteps, SoundDataStore
  <2>3. d.status.scalingDown /\ AllDecommissioned(d)
    BY <1>4 DEF Finishes, TargetReached
  <2> QED  BY <1>2, <2>1, <2>2, <2>3 DEF Follows, JobOK
<1>5. ASSUME RestartsScaling(d, s)
      PROVE  Follows(JobAt("restart", d, b), d, b)
  BY <1>5, JobAtOK DEF RestartsScaling, TargetReached, MayRestart
<1>6. Follows(JobAt("scaleUp", d, b), d, b)
  BY JobAtOK
<1>7. Follows(Mirror(d, s.counts, b), d, b)
  BY <1>2, MirrorOK
<1> HIDE DEF signal, finish
<1> QED  BY <1>1, <1>3, <1>4, <1>5, <1>6, <1>7

-----------------------------------------------------------------------------
(* The calls. *)

USE DEF datastore, statefulset

\* A job that is out of date is otherwise what it was.
LEMMA OutdatedOK ==
    ASSUME NEW j, JobOK(j)
    PROVE  LET k == [j EXCEPT !.current = FALSE]
           IN  JobOK(k) /\ k.current = FALSE /\ k.pc = j.pc
<1>1. j \in Job
  BY DEF JobOK
<1> DEFINE k == [j EXCEPT !.current = FALSE]
<1>2. /\ k \in Job /\ k.current = FALSE /\ k.pc = j.pc /\ k.ds = j.ds
      /\ k.counts = j.counts /\ k.initial = j.initial /\ k.report = j.report
  BY <1>1 DEF Job
<1> HIDE DEF k
<1>3. JobOK(k)
  BY <1>2 DEF JobOK
<1> QED  BY <1>2, <1>3 DEF k

\* An accepted Update is the server's DataStore from then on, and every other
\* worker's copy is out of date unless the Update changed nothing.
LEMMA UpdateDatastoreOK ==
    ASSUME IInv, NEW w \in Workers, NEW d \in SoundDataStore,
           UpdateDatastore(w, d, Idle), UNCHANGED stsLog
    PROVE  /\ LogOK' /\ StatefulsetsOK' /\ JobsOK'
           /\ datastore' = d
           /\ job[w].ds = datastore
<1> USE DEF IInv
<1>1. job[w].ds = datastore
  BY DEF UpdateDatastore, JobsOK
<1>2. CASE d = datastore /\ dsLog' = dsLog /\ job' = [job EXCEPT ![w] = Idle]
  <2>1. JobsOK'
    BY <1>2, IdleOK DEF JobsOK, JobOK
  <2>2. StatefulsetsOK'
    BY <1>2, IdleOK DEF StatefulsetsOK, JobsOK
  <2> QED  BY <1>1, <1>2, <2>1, <2>2 DEF LogOK
<1>3. CASE dsLog' = Append(dsLog, d) /\ job' = OutdateOthers(w, Idle)
  <2>1. LogOK' /\ datastore' = d
    BY <1>3, LogGrows DEF LogOK
  <2>2. \A v \in Workers : JobOK(job[v])
    BY DEF JobsOK
  <2>3. ASSUME NEW v \in Workers
        PROVE  /\ JobOK(job'[v]) /\ job'[v].current = FALSE
               /\ job'[v].pc \in {"idle", job[v].pc}
    <3>1. CASE v = w
      BY <1>3, <3>1, IdleOK DEF OutdateOthers
    <3>2. CASE v # w
      <4>1. job'[v] = [job[v] EXCEPT !.current = FALSE]
        BY <1>3, <3>2 DEF OutdateOthers
      <4> QED  BY <2>2, <4>1, OutdatedOK
    <3> QED  BY <3>1, <3>2
  <2>4. job' = [v \in Workers |-> job'[v]]
    BY <1>3 DEF OutdateOthers
  <2>5. JobsOK'
    BY <2>3, <2>4 DEF JobsOK, JobOK
  <2>6. StatefulsetsOK'
    BY <2>3 DEF StatefulsetsOK
  <2> QED  BY <1>1, <2>1, <2>5, <2>6
<1> QED  BY <1>2, <1>3 DEF UpdateDatastore

\* After a PUT or a Create there is a StatefulSet, in the log of versions too.
StatefulsetChanged ==
    /\ stsLog' \in Seq(StatefulSet \cup {Nil}) /\ stsLog' # << >>
    /\ statefulset' \in StatefulSet /\ statefulset' # Nil

LEMMA ChangeOK ==
    ASSUME IInv, NEW s \in StatefulSet, ChangeStatefulset(s)
    PROVE  StatefulsetChanged /\ statefulset' = s
<1>1. s # Nil
  BY NoStatefulSetAssumption
<1>2. CASE s = statefulset /\ stsLog' = stsLog
  BY <1>1, <1>2 DEF IInv, StatefulsetsOK, StatefulsetChanged
<1>3. CASE stsLog' = Append(stsLog, s)
  BY <1>1, <1>3, LogGrows DEF IInv, StatefulsetsOK, StatefulsetChanged
<1> QED  BY <1>2, <1>3 DEF ChangeStatefulset

LEMMA ExistingOK ==
    ASSUME IInv, statefulset # Nil
    PROVE  statefulset \in StatefulSet /\ statefulset.counts \in Counts
BY LogEnds DEF IInv, StatefulsetsOK, StatefulSet

LEMMA UpdateStatefulsetOK ==
    ASSUME IInv, statefulset # Nil, NEW replicas, Defaulted(replicas) \in Size,
           UpdateStatefulset(replicas)
    PROVE  StatefulsetChanged
<1>1. [statefulset EXCEPT !.spec = Defaulted(replicas)] \in StatefulSet
  BY ExistingOK DEF StatefulSet
<1> QED  BY <1>1, ChangeOK DEF UpdateStatefulset

\* One worker goes on, with the DataStore as it is.
LEMMA WorkerStepOK ==
    ASSUME IInv, NEW w \in Workers, NEW j, JobOK(j),
           j.current => j.ds = datastore,
           job' = [job EXCEPT ![w] = j], UNCHANGED dsLog,
           \/ StatefulsetChanged
           \/ /\ UNCHANGED stsLog
              /\ j.pc \notin {"idle", "create"} => statefulset # Nil
    PROVE  LogOK' /\ StatefulsetsOK' /\ JobsOK'
<1>1. LogOK' /\ datastore' = datastore
  BY DEF IInv, LogOK
<1>2. JobsOK'
  <2>1. j \in Job
    BY DEF JobOK
  <2>2. ASSUME NEW v \in Workers
        PROVE  JobOK(job'[v]) /\ (job'[v].current => job'[v].ds = datastore)
    BY DEF IInv, JobsOK
  <2>3. job' \in [Workers -> Job]
    BY <2>1 DEF IInv, JobsOK
  <2> QED  BY <1>1, <2>2, <2>3 DEF JobsOK
<1>3. StatefulsetsOK'
  <2>1. CASE StatefulsetChanged
    BY <2>1 DEF StatefulsetChanged, StatefulsetsOK
  <2>2. CASE /\ UNCHANGED stsLog
             /\ j.pc \notin {"idle", "create"} => statefulset # Nil
    BY <2>2 DEF IInv, StatefulsetsOK, JobsOK
  <2> QED  BY <2>1, <2>2
<1> QED  BY <1>1, <1>2, <1>3

LEMMA SpendOK ==
    ASSUME BudgetOK, NEW kind \in {"edits", "faults", "crashes", "kills"},
           Spend(kind)
    PROVE  BudgetOK'
<1>1. budget[kind] - 1 \in Nat
  BY DEF BudgetOK, Spend
<1> QED  BY <1>1 DEF BudgetOK, Spend

-----------------------------------------------------------------------------
(* The steps of the workers. *)

LEMMA PodsUnchanged ==
    ASSUME IInv, UNCHANGED <<pods, informers>>
    PROVE  PodsOK'
BY DEF IInv, PodsOK, informers

LEMMA StartSyncStep ==
    ASSUME IInv, NEW w \in Workers, StartSync(w)
    PROVE  IInv'
<1> DEFINE d == Head(dsLog)
           s == Head(stsLog)
           b == Len(dsLog) = 1
           j == IF s = Nil THEN JobAt("create", d, b) ELSE Decide(d, s, b)
<1>1. d \in SoundDataStore /\ b \in BOOLEAN /\ (b => d = datastore)
  BY LogEnds DEF IInv, LogOK
<1>2. /\ s \in StatefulSet \cup {Nil}
      /\ s # Nil => statefulset # Nil
  BY LogEnds DEF IInv, StatefulsetsOK
<1>3. Follows(j, d, b) /\ (s = Nil => j.pc = "create")
  <2>1. CASE s = Nil
    <3>1. Follows(JobAt("create", d, b), d, b)
      BY <1>1, JobAtOK
    <3> QED  BY <2>1, <3>1 DEF JobAt
  <2>2. CASE s # Nil
    <3>1. Follows(Decide(d, s, b), d, b)
      BY <1>1, <1>2, <2>2, DecideOK DEF IInv, PodsOK
    <3> QED  BY <2>2, <3>1
  <2> QED  BY <2>1, <2>2
<1>4. job' = [job EXCEPT ![w] = j]
  BY DEF StartSync
<1>5. UNCHANGED <<server, informers, budget>>
  BY DEF StartSync
<1> HIDE DEF d, s, b, j
<1>6. LogOK' /\ StatefulsetsOK' /\ JobsOK'
  BY <1>1, <1>2, <1>3, <1>4, <1>5, WorkerStepOK DEF Follows, server
<1> QED
  BY <1>5, <1>6, PodsUnchanged DEF IInv, BudgetOK, server

LEMMA CreateStatefulsetStep ==
    ASSUME IInv, NEW w \in Workers, CreateStatefulset(w)
    PROVE  IInv'
<1> DEFINE created == [spec |-> Defaulted(job[w].ds.spec),
                       counts |-> [replicas |-> 0, readyReplicas |-> 0]]
           j == Decide(job[w].ds, created, job[w].current)
<1>1. /\ job[w].ds \in SoundDataStore /\ job[w].current \in BOOLEAN
      /\ job[w].current => job[w].ds = datastore
  BY DEF CreateStatefulset, IInv, JobsOK, JobOK, Job
<1>2. created \in StatefulSet
  BY <1>1, Sizes, ReplicasAssumption
     DEF StatefulSet, SoundDataStore, DataStore, Counts, Count
<1>3. /\ ChangeStatefulset(created)
      /\ job' = [job EXCEPT ![w] = j]
      /\ UNCHANGED <<dsLog, pods, informers, budget>>
  BY DEF CreateStatefulset
<1>4. Follows(j, job[w].ds, job[w].current)
  BY <1>1, <1>2, DecideOK DEF IInv, PodsOK
<1> HIDE DEF created, j
<1>5. StatefulsetChanged
  BY <1>2, <1>3, ChangeOK
<1>6. LogOK' /\ StatefulsetsOK' /\ JobsOK'
  BY <1>1, <1>3, <1>4, <1>5, WorkerStepOK DEF Follows
<1> QED
  BY <1>3, <1>6, PodsUnchanged DEF IInv, BudgetOK

LEMMA ScaleUpStep ==
    ASSUME IInv, NEW w \in Workers, ScaleUp(w)
    PROVE  IInv'
<1> DEFINE j == Mirror(job[w].ds, statefulset.counts, job[w].current)
<1>1. /\ job[w].ds \in SoundDataStore /\ job[w].current \in BOOLEAN
      /\ job[w].current => job[w].ds = datastore
  BY DEF ScaleUp, IInv, JobsOK, JobOK, Job
<1>2. statefulset # Nil
  BY DEF ScaleUp, IInv, StatefulsetsOK
<1>3. /\ UpdateStatefulset(job[w].ds.spec)
      /\ job' = [job EXCEPT ![w] = j]
      /\ UNCHANGED <<dsLog, pods, informers, budget>>
  BY DEF ScaleUp
<1>4. Follows(j, job[w].ds, job[w].current)
  BY <1>1, <1>2, ExistingOK, MirrorOK
<1>5. StatefulsetChanged
  BY <1>1, <1>2, <1>3, Sizes, UpdateStatefulsetOK DEF SoundDataStore, DataStore
<1> HIDE DEF j
<1>6. LogOK' /\ StatefulsetsOK' /\ JobsOK'
  BY <1>1, <1>3, <1>4, <1>5, WorkerStepOK DEF Follows
<1> QED
  BY <1>3, <1>6, PodsUnchanged DEF IInv, BudgetOK

LEMMA SignalDecommissionStep ==
    ASSUME IInv, NEW w \in Workers, SignalDecommission(w)
    PROVE  IInv'
<1>1. PICK i \in job[w].todo \cap podCache \cap Present :
          /\ pods' = [pods EXCEPT ![i].signalled = TRUE]
          /\ job' = [job EXCEPT ![w].todo = @ \ {i}]
  BY DEF SignalDecommission
<1> DEFINE j == [job[w] EXCEPT !.todo = job[w].todo \ {i}]
<1>2. /\ job[w].pc = "signal" /\ statefulset # Nil
      /\ UNCHANGED <<dsLog, stsLog, informers, budget>>
  BY DEF SignalDecommission, IInv, StatefulsetsOK
<1>3. JobOK(job[w]) /\ job[w] \in Job
      /\ (job[w].current => job[w].ds = datastore)
  BY DEF IInv, JobsOK, JobOK
<1>4. /\ j \in Job /\ j.pc = "signal" /\ j.ds = job[w].ds
      /\ j.initial = job[w].initial /\ j.current = job[w].current
  BY <1>2, <1>3 DEF Job
<1>5. job' = [job EXCEPT ![w] = j]
  BY <1>1
<1> HIDE DEF j
<1>6. JobOK(j)
  BY <1>2, <1>3, <1>4 DEF JobOK
<1>7. LogOK' /\ StatefulsetsOK' /\ JobsOK'
  BY <1>2, <1>3, <1>4, <1>5, <1>6, WorkerStepOK
<1>8. PodsOK'
  BY <1>1, <1>2 DEF IInv, PodsOK, informers, Pod, Ending, Present
<1> QED  BY <1>2, <1>7, <1>8 DEF IInv, BudgetOK

LEMMA ScaleDownStatefulsetStep ==
    ASSUME IInv, NEW w \in Workers, ScaleDownStatefulset(w)
    PROVE  IInv'
<1> DEFINE pc == IF job[w].ds.spec = Nil THEN "panic" ELSE "markDown"
           j == [job[w] EXCEPT !.pc = pc, !.counts = statefulset.counts]
<1>1. /\ job[w].pc = "signal" /\ statefulset # Nil
      /\ UpdateStatefulset(job[w].ds.spec)
      /\ job' = [job EXCEPT ![w] = j]
      /\ UNCHANGED <<dsLog, pods, informers, budget>>
  BY DEF ScaleDownStatefulset, IInv, StatefulsetsOK
<1>2. /\ JobOK(job[w]) /\ job[w] \in Job /\ job[w].ds \in SoundDataStore
      /\ job[w].current => job[w].ds = datastore
  BY <1>1 DEF IInv, JobsOK, JobOK
<1>3. /\ pc \in {"panic", "markDown"} /\ pc \in Steps
      /\ pc = "markDown" => job[w].ds.spec # Nil
  BY DEF Steps, UpdateSteps
<1> HIDE DEF pc
<1>4. /\ j \in Job /\ j.pc = pc /\ j.counts \in Counts /\ j.ds = job[w].ds
      /\ j.initial = job[w].initial /\ j.current = job[w].current
  <2>1. statefulset.counts \in Counts
    BY <1>1, ExistingOK
  <2> DEFINE l == [job[w] EXCEPT !.pc = pc]
  <2>2. /\ l \in Job /\ l.pc = pc /\ l.ds = job[w].ds
        /\ l.initial = job[w].initial /\ l.current = job[w].current
    BY <1>2, <1>3 DEF Job
  <2>3. j = [l EXCEPT !.counts = statefulset.counts]
    OBVIOUS
  <2> HIDE DEF l, j
  <2> QED  BY <2>1, <2>2, <2>3 DEF Job
<1> HIDE DEF j
<1>5. JobOK(j)
  BY <1>1, <1>2, <1>3, <1>4 DEF JobOK
<1>6. StatefulsetChanged
  BY <1>1, <1>2, Sizes, UpdateStatefulsetOK DEF SoundDataStore, DataStore
<1>7. LogOK' /\ StatefulsetsOK' /\ JobsOK'
  BY <1>1, <1>2, <1>4, <1>5, <1>6, WorkerStepOK
<1> QED
  BY <1>1, <1>7, PodsUnchanged DEF IInv, BudgetOK

LEMMA RestartScalingStep ==
    ASSUME IInv, NEW w \in Workers, RestartScaling(w)
    PROVE  IInv'
<1> DEFINE j == [job[w] EXCEPT !.pc = "markRestart",
                               !.counts = statefulset.counts]
           initial == job[w].ds.status.initialReplicas
<1>1. /\ job[w].pc = "restart" /\ statefulset # Nil
      /\ UpdateStatefulset(initial)
      /\ job' = [job EXCEPT ![w] = j]
      /\ UNCHANGED <<dsLog, pods, informers, budget>>
  BY DEF RestartScaling, IInv, StatefulsetsOK
<1>2. /\ JobOK(job[w]) /\ job[w] \in Job /\ job[w].ds \in SoundDataStore
      /\ job[w].current => job[w].ds = datastore
      /\ MayRestart(job[w].ds)
  BY <1>1 DEF IInv, JobsOK, JobOK
<1>3. "markRestart" \in Steps
  BY DEF Steps, UpdateSteps
<1>4. /\ j \in Job /\ j.pc = "markRestart" /\ j.counts \in Counts
      /\ j.ds = job[w].ds /\ j.current = job[w].current
  <2>1. statefulset.counts \in Counts
    BY <1>1, ExistingOK
  <2> DEFINE l == [job[w] EXCEPT !.pc = "markRestart"]
  <2>2. /\ l \in Job /\ l.pc = "markRestart" /\ l.ds = job[w].ds
        /\ l.initial = job[w].initial /\ l.current = job[w].current
    BY <1>2, <1>3 DEF Job
  <2>3. j = [l EXCEPT !.counts = statefulset.counts]
    OBVIOUS
  <2> HIDE DEF l, j
  <2> QED  BY <2>1, <2>2, <2>3 DEF Job
<1> HIDE DEF j
<1>5. JobOK(j)
  BY <1>2, <1>4 DEF JobOK
<1>6. StatefulsetChanged
  <2>1. statefulset.counts \in Counts
    BY <1>1, ExistingOK
  <2>2. initial \in Size
    BY <1>2, <2>1, SoundRestart
  <2>3. Defaulted(initial) \in Size
    BY <2>2, Sizes DEF Defaulted
  <2> QED  BY <1>1, <2>3, UpdateStatefulsetOK
<1>7. LogOK' /\ StatefulsetsOK' /\ JobsOK'
  BY <1>1, <1>2, <1>4, <1>5, <1>6, WorkerStepOK
<1> QED
  BY <1>1, <1>7, PodsUnchanged DEF IInv, BudgetOK

LEMMA StartPodStatusStep ==
    ASSUME IInv, NEW w \in Workers, StartPodStatus(w)
    PROVE  IInv'
<1> DEFINE d == Head(dsLog)
           b == Len(dsLog) = 1
           j == [JobAt("savePod", d, b) EXCEPT !.report = Head(podEvents)]
<1>1. /\ podEvents # << >> /\ podEvents' = Tail(podEvents)
      /\ \/ job' = job
         \/ Head(stsLog) # Nil /\ job' = [job EXCEPT ![w] = j]
      /\ UNCHANGED <<dsLog, stsLog, pods, podCache, podWatch, budget>>
  BY DEF StartPodStatus, server
<1>2. Head(podEvents) \in PodReport /\ podEvents' \in Seq(PodReport)
  BY <1>1, HeadTailProperties DEF IInv, PodsOK
<1>3. PodsOK' /\ BudgetOK'
  BY <1>1, <1>2 DEF IInv, PodsOK, BudgetOK
<1>4. d \in SoundDataStore /\ b \in BOOLEAN /\ (b => d = datastore)
  BY LogEnds DEF IInv, LogOK
<1>5. CASE job' = job
  BY <1>1, <1>3, <1>5 DEF IInv, LogOK, StatefulsetsOK, JobsOK
<1>6. CASE Head(stsLog) # Nil /\ job' = [job EXCEPT ![w] = j]
  <2>1. statefulset # Nil
    BY <1>6, LogEnds DEF IInv, StatefulsetsOK
  <2>2. j = [pc |-> "savePod", ds |-> d, current |-> b, counts |-> Nil,
             todo |-> {}, initial |-> Nil, report |-> Head(podEvents)]
    BY DEF JobAt
  <2> HIDE DEF d, b, j
  <2>3. j \in Job
    BY <1>2, <1>4, <2>2 DEF Job, Steps, UpdateSteps, SoundDataStore
  <2>4. JobOK(j) /\ (j.current => j.ds = datastore)
    BY <1>2, <1>4, <2>2, <2>3 DEF JobOK
  <2>5. LogOK' /\ StatefulsetsOK' /\ JobsOK'
    BY <1>1, <1>6, <2>1, <2>4, WorkerStepOK
  <2> QED  BY <1>3, <2>5 DEF IInv
<1> QED  BY <1>1, <1>5, <1>6

\* The steps that end an item with an error.
LEMMA GiveUpOK ==
    ASSUME IInv, NEW w \in Workers, GiveUp(w),
           UNCHANGED <<server, informers>>, BudgetOK'
    PROVE  IInv'
<1>1. LogOK' /\ StatefulsetsOK' /\ JobsOK'
  BY IdleOK, WorkerStepOK DEF GiveUp, server
<1> QED  BY <1>1, PodsUnchanged DEF IInv, server

LEMMA ErrorStep ==
    ASSUME IInv, NEW w \in Workers,
           Conflict(w) \/ AlreadyExists(w) \/ SignalFails(w) \/ CallFails(w)
    PROVE  IInv'
<1>1. GiveUp(w) /\ UNCHANGED <<server, informers>>
  BY DEF Conflict, AlreadyExists, SignalFails, CallFails
<1>2. BudgetOK'
  <2>1. CASE CallFails(w)
    BY <2>1, SpendOK DEF CallFails, IInv
  <2>2. CASE UNCHANGED budget
    BY <2>2 DEF IInv, BudgetOK
  <2> QED  BY <2>1, <2>2 DEF Conflict, AlreadyExists, SignalFails
<1> QED  BY <1>1, <1>2, GiveUpOK

-----------------------------------------------------------------------------
(* The steps of the workers that update the DataStore: besides the invariant *)
(* they keep, the transaction that each is.                                  *)

LEMMA UpdateStep ==
    ASSUME IInv, NEW w \in Workers, NEW d \in SoundDataStore,
           UpdateDatastore(w, d, Idle),
           UNCHANGED <<stsLog, pods, informers, budget>>
    PROVE  IInv' /\ datastore' = d /\ job[w].ds = datastore
<1>1. /\ LogOK' /\ StatefulsetsOK' /\ JobsOK'
      /\ datastore' = d /\ job[w].ds = datastore
  BY UpdateDatastoreOK
<1> QED  BY <1>1, PodsUnchanged DEF IInv, BudgetOK

LEMMA SyncStatusStep ==
    ASSUME IInv, NEW w \in Workers, SyncStatus(w)
    PROVE  /\ IInv'
           /\ \E c \in Counts : datastore' = WithCounts(datastore, c)
<1>1. job[w].ds \in SoundDataStore /\ job[w].counts \in Counts
  BY DEF SyncStatus, IInv, JobsOK, JobOK
<1>2. WithCounts(job[w].ds, job[w].counts) \in SoundDataStore
  BY <1>1, SoundMirror
<1>3. /\ IInv' /\ job[w].ds = datastore
      /\ datastore' = WithCounts(job[w].ds, job[w].counts)
  BY <1>2, UpdateStep DEF SyncStatus
<1> QED  BY <1>1, <1>3

LEMMA MarkScalingDownStep ==
    ASSUME IInv, NEW w \in Workers, MarkScalingDown(w)
    PROVE  /\ IInv'
           /\ datastore.spec # Nil
           /\ \E initial \in Size, c \in Counts :
                /\ MayStart(datastore, initial)
                /\ datastore' = WithCounts(ScalingDown(datastore, initial), c)
<1>1. /\ job[w].ds \in SoundDataStore /\ job[w].counts \in Counts
      /\ job[w].initial \in Size /\ job[w].ds.spec # Nil
      /\ MayStart(job[w].ds, job[w].initial)
  BY DEF MarkScalingDown, IInv, JobsOK, JobOK
<1>2. WithCounts(ScalingDown(job[w].ds, job[w].initial), job[w].counts)
        \in SoundDataStore
  BY <1>1, SoundStart
<1>3. /\ IInv' /\ job[w].ds = datastore
      /\ datastore' = WithCounts(ScalingDown(job[w].ds, job[w].initial),
                                 job[w].counts)
  BY <1>2, UpdateStep DEF MarkScalingDown
<1> QED  BY <1>1, <1>3

LEMMA FinishScalingDownStep ==
    ASSUME IInv, NEW w \in Workers, FinishScalingDown(w)
    PROVE  /\ IInv'
           /\ datastore.status.scalingDown /\ AllDecommissioned(datastore)
           /\ \E c \in Counts : datastore' = WithCounts(Finished(datastore), c)
<1>1. /\ job[w].ds \in SoundDataStore /\ job[w].counts \in Counts
      /\ job[w].ds.status.scalingDown /\ AllDecommissioned(job[w].ds)
  BY DEF FinishScalingDown, IInv, JobsOK, JobOK
<1>2. WithCounts(Finished(job[w].ds), job[w].counts) \in SoundDataStore
  BY <1>1, SoundFinish
<1>3. /\ IInv' /\ job[w].ds = datastore
      /\ datastore' = WithCounts(Finished(job[w].ds), job[w].counts)
  BY <1>2, UpdateStep DEF FinishScalingDown
<1> QED  BY <1>1, <1>3

LEMMA MarkRestartedStep ==
    ASSUME IInv, NEW w \in Workers, MarkRestarted(w)
    PROVE  /\ IInv'
           /\ MayRestart(datastore)
           /\ \E c \in Counts : datastore' = WithCounts(Restarted(datastore), c)
<1>1. /\ job[w].ds \in SoundDataStore /\ job[w].counts \in Counts
      /\ MayRestart(job[w].ds)
  BY DEF MarkRestarted, IInv, JobsOK, JobOK
<1>2. WithCounts(Restarted(job[w].ds), job[w].counts) \in SoundDataStore
  BY <1>1, SoundRestart
<1>3. /\ IInv' /\ job[w].ds = datastore
      /\ datastore' = WithCounts(Restarted(job[w].ds), job[w].counts)
  BY <1>2, UpdateStep DEF MarkRestarted
<1> QED  BY <1>1, <1>3

LEMMA SavePodStatusStep ==
    ASSUME IInv, NEW w \in Workers, SavePodStatus(w)
    PROVE  /\ IInv'
           /\ \E r \in PodReport : datastore' = Reported(datastore, r)
<1>1. job[w].ds \in SoundDataStore /\ job[w].report \in PodReport
  BY DEF SavePodStatus, IInv, JobsOK, JobOK
<1>2. Reported(job[w].ds, job[w].report) \in SoundDataStore
  BY <1>1, SoundReport DEF PodReport
<1>3. /\ IInv' /\ job[w].ds = datastore
      /\ datastore' = Reported(job[w].ds, job[w].report)
  BY <1>2, UpdateStep DEF SavePodStatus
<1> QED  BY <1>1, <1>3

-----------------------------------------------------------------------------
(* The steps of the informers and of the environment. *)

LEMMA RestartStep ==
    ASSUME IInv, Restart, BudgetOK'
    PROVE  IInv' /\ datastore' = datastore
<1>1. LogOK' /\ datastore' = datastore
  BY LogEnds, LogRestarts DEF Restart, IInv, LogOK
<1>2. job' = [w \in Workers |-> Idle]
  BY DEF Restart
<1>3. JobsOK'
  BY <1>2, IdleOK DEF JobsOK, JobOK
<1>4. StatefulsetsOK'
  <2>1. statefulset \in StatefulSet \cup {Nil}
    BY LogEnds DEF IInv, StatefulsetsOK
  <2>2. stsLog' = <<statefulset>>
    BY DEF Restart
  <2>3. \A k \in DOMAIN stsLog' : stsLog'[k] = statefulset
    BY <2>2
  <2>4. /\ stsLog' \in Seq(StatefulSet \cup {Nil}) /\ stsLog' # << >>
        /\ statefulset' = statefulset
    BY <2>1, <2>2, LogRestarts
  <2> QED  BY <1>2, <2>3, <2>4, IdleOK DEF StatefulsetsOK
<1>5. PodsOK'
  BY EmptySeq DEF Restart, IInv, PodsOK, Present
<1> QED  BY <1>1, <1>3, <1>4, <1>5 DEF IInv

LEMMA CrashStep ==
    ASSUME IInv, Crash \/ Panic
    PROVE  IInv' /\ datastore' = datastore
<1>1. Restart
  BY DEF Crash, Panic
<1>2. BudgetOK'
  BY SpendOK DEF Crash, Panic, IInv, BudgetOK
<1> QED  BY <1>1, <1>2, RestartStep

LEMMA UnchangedStep ==
    ASSUME IInv, UNCHANGED <<dsLog, stsLog, job>>
    PROVE  LogOK' /\ StatefulsetsOK' /\ JobsOK' /\ datastore' = datastore
BY DEF IInv, LogOK, StatefulsetsOK, JobsOK

LEMMA DeliverDatastoreStep ==
    ASSUME IInv, DeliverDatastore
    PROVE  IInv' /\ datastore' = datastore
<1>1. LogOK' /\ datastore' = datastore
  BY LogShrinks DEF DeliverDatastore, IInv, LogOK
<1>2. StatefulsetsOK' /\ JobsOK' /\ BudgetOK'
  BY <1>1 DEF DeliverDatastore, IInv, StatefulsetsOK, JobsOK, BudgetOK
<1> QED  BY <1>1, <1>2, PodsUnchanged DEF DeliverDatastore, IInv

LEMMA DeliverStatefulsetStep ==
    ASSUME IInv, DeliverStatefulset
    PROVE  IInv' /\ datastore' = datastore
<1> DEFINE S == StatefulSet \cup {Nil}
<1>1. stsLog \in Seq(S) /\ Len(stsLog) > 1 /\ stsLog' = Tail(stsLog)
  BY DEF DeliverStatefulset, IInv, StatefulsetsOK
<1>2. stsLog' \in Seq(S) /\ stsLog' # << >> /\ statefulset' = statefulset
  BY <1>1, LogShrinks
<1>3. \A k \in DOMAIN stsLog' : k + 1 \in DOMAIN stsLog /\ stsLog'[k] = stsLog[k + 1]
  <2> HIDE DEF S
  <2>1. /\ Len(stsLog') = Len(stsLog) - 1 /\ Len(stsLog) \in Nat
        /\ DOMAIN stsLog' = 1 .. Len(stsLog')
        /\ DOMAIN stsLog = 1 .. Len(stsLog)
        /\ \A i \in 1 .. Len(stsLog') : stsLog'[i] = stsLog[i + 1]
    BY <1>1, <1>2, LenProperties, EmptySeq, HeadTailProperties
  <2> QED  BY <2>1
<1>4. StatefulsetsOK'
  BY <1>2, <1>3 DEF DeliverStatefulset, IInv, StatefulsetsOK
<1>5. LogOK' /\ JobsOK' /\ BudgetOK' /\ datastore' = datastore
  BY DEF DeliverStatefulset, IInv, LogOK, JobsOK, BudgetOK
<1> QED  BY <1>4, <1>5, PodsUnchanged DEF DeliverStatefulset, IInv

LEMMA DeliverPodStep ==
    ASSUME IInv, DeliverPod
    PROVE  IInv' /\ datastore' = datastore
<1> DEFINE e == Head(podWatch)
<1>1. e \in PodChange /\ podWatch' \in Seq(PodChange)
  BY HeadTailProperties DEF DeliverPod, IInv, PodsOK
<1>2. podCache' \subseteq Ordinal
  BY <1>1 DEF DeliverPod, IInv, PodsOK, PodChange
<1>3. podEvents' \in Seq(PodReport)
  <2> DEFINE r == [pod |-> e.pod, decommissioned |-> e.change = "decommissioned"]
  <2>1. r \in PodReport
    BY <1>1 DEF PodChange, PodReport
  <2>2. podEvents' = podEvents \/ podEvents' = Append(podEvents, r)
    BY DEF DeliverPod
  <2> HIDE DEF r
  <2> QED  BY <2>1, <2>2, AppendProperties DEF IInv, PodsOK
<1>4. PodsOK' /\ BudgetOK'
  BY <1>1, <1>2, <1>3 DEF DeliverPod, IInv, PodsOK, BudgetOK, server
<1> QED  BY <1>4, UnchangedStep DEF DeliverPod, IInv, server

LEMMA RelistPodsStep ==
    ASSUME IInv, RelistPods
    PROVE  IInv' /\ datastore' = datastore
<1>1. PodsOK'
  BY EmptySeq DEF RelistPods, IInv, PodsOK, Present, server
<1>2. BudgetOK'
  BY SpendOK DEF RelistPods, IInv
<1> QED  BY <1>1, <1>2, UnchangedStep DEF RelistPods, IInv, server

LEMMA UserEditStep ==
    ASSUME IInv, UserEdit
    PROVE  /\ IInv'
           /\ \E r \in Requests : datastore' = [datastore EXCEPT !.spec = r]
<1>1. PICK r \in Requests : dsLog' = Append(dsLog, [datastore EXCEPT !.spec = r])
  BY DEF UserEdit
<1>2. [datastore EXCEPT !.spec = r] \in SoundDataStore
  BY LogEnds, SoundEdit DEF IInv, LogOK
<1>3. LogOK' /\ datastore' = [datastore EXCEPT !.spec = r]
  BY <1>1, <1>2, LogGrows DEF IInv, LogOK
<1>4. job' = [w \in Workers |-> [job[w] EXCEPT !.current = FALSE]]
  BY DEF UserEdit
<1>5. \A w \in Workers : JobOK(job[w])
  BY DEF IInv, JobsOK
<1>6. ASSUME NEW w \in Workers
      PROVE  /\ JobOK(job'[w]) /\ job'[w].current = FALSE
             /\ job'[w].pc = job[w].pc
  <2>1. job'[w] = [job[w] EXCEPT !.current = FALSE]
    BY <1>4
  <2> QED  BY <1>5, <2>1, OutdatedOK
<1>7. job' = [w \in Workers |-> job'[w]]
  BY <1>4
<1>8. JobsOK'
  BY <1>6, <1>7 DEF JobsOK, JobOK
<1>9. StatefulsetsOK'
  BY <1>6 DEF UserEdit, IInv, StatefulsetsOK
<1>10. BudgetOK'
  BY SpendOK DEF UserEdit, IInv
<1> QED
  BY <1>3, <1>8, <1>9, <1>10, PodsUnchanged DEF UserEdit, IInv

LEMMA NotifyOK ==
    ASSUME IInv, NEW i \in Ordinal, NEW change \in Ending \cup {"added"},
           NotifyPod(i, change), pods' \in [Ordinal -> Pod],
           UNCHANGED <<podCache, podEvents>>
    PROVE  PodsOK'
<1>1. [pod |-> i, change |-> change] \in PodChange
  BY DEF PodChange
<1> QED  BY <1>1, AppendProperties DEF NotifyPod, IInv, PodsOK

LEMMA EndPodOK ==
    ASSUME IInv, NEW i \in Present, EndPod(i),
           UNCHANGED <<podCache, podEvents>>
    PROVE  PodsOK'
<1>1. PICK ending \in Ending :
          /\ pods' = [pods EXCEPT ![i] = [phase |-> ending, signalled |-> FALSE]]
          /\ NotifyPod(i, ending)
  BY DEF EndPod
<1>2. pods' \in [Ordinal -> Pod]
  BY <1>1 DEF IInv, PodsOK, Pod
<1> QED  BY <1>1, <1>2, NotifyOK DEF Present

LEMMA CountsOK ==
    ASSUME IInv
    PROVE  [replicas |-> Cardinality(Present),
            readyReplicas |-> Cardinality(Ready)] \in Counts
<1>1. IsFiniteSet(Ordinal) /\ Cardinality(Ordinal) = MaxReplicas
  BY FS_Interval, ReplicasAssumption DEF Ordinal
<1>2. \A s \in SUBSET Ordinal : Cardinality(s) \in Count
  BY <1>1, FS_Subset, FS_CardinalityType, ReplicasAssumption DEF Count
<1> QED  BY <1>2 DEF Present, Ready, Counts

LEMMA KubernetesStep ==
    ASSUME IInv, Kubernetes \/ KillPod
    PROVE  IInv' /\ datastore' = datastore
<1>1. CASE CreatePod
  <2>1. PICK i \in Ordinal \ Present :
            /\ pods' = [pods EXCEPT ![i].phase =
                                      IF SlowStart THEN "starting" ELSE "ready"]
            /\ NotifyPod(i, "added")
    BY <1>1 DEF CreatePod
  <2>2. pods' \in [Ordinal -> Pod]
    BY <2>1 DEF IInv, PodsOK, Pod
  <2>3. PodsOK'
    BY <1>1, <2>1, <2>2, NotifyOK DEF CreatePod
  <2> QED  BY <1>1, <2>3, UnchangedStep DEF CreatePod, IInv, BudgetOK
<1>2. CASE PodReady
  <2>1. pods' \in [Ordinal -> Pod]
    BY <1>2 DEF PodReady, Present, IInv, PodsOK, Pod
  <2>2. PodsOK' /\ BudgetOK'
    BY <1>2, <2>1 DEF PodReady, informers, IInv, PodsOK, BudgetOK
  <2> QED  BY <1>2, <2>2, UnchangedStep DEF PodReady, IInv
<1>3. CASE RemovePod
  <2>1. PodsOK'
    BY <1>3, EndPodOK DEF RemovePod
  <2> QED  BY <1>3, <2>1, UnchangedStep DEF RemovePod, IInv, BudgetOK
<1>4. CASE KillPod
  <2>1. PodsOK' /\ BudgetOK'
    BY <1>4, EndPodOK, SpendOK DEF KillPod, IInv
  <2> QED  BY <1>4, <2>1, UnchangedStep DEF KillPod, IInv
<1>5. CASE CountPods
  <2> DEFINE counts == [replicas |-> Cardinality(Present),
                        readyReplicas |-> Cardinality(Ready)]
  <2>1. counts \in Counts
    BY CountsOK
  <2>2. /\ statefulset # Nil
        /\ ChangeStatefulset([statefulset EXCEPT !.counts = counts])
        /\ UNCHANGED <<dsLog, pods, informers, job, budget>>
    BY <1>5 DEF CountPods
  <2> HIDE DEF counts
  <2>3. [statefulset EXCEPT !.counts = counts] \in StatefulSet
    BY <2>1, <2>2, ExistingOK DEF StatefulSet
  <2>4. StatefulsetChanged
    BY <2>2, <2>3, ChangeOK
  <2>5. StatefulsetsOK'
    BY <2>4 DEF StatefulsetChanged, StatefulsetsOK
  <2>6. LogOK' /\ JobsOK' /\ BudgetOK' /\ datastore' = datastore
    BY <2>2 DEF IInv, LogOK, JobsOK, BudgetOK
  <2> QED  BY <2>2, <2>5, <2>6, PodsUnchanged DEF IInv
<1> QED  BY <1>1, <1>2, <1>3, <1>4, <1>5 DEF Kubernetes

-----------------------------------------------------------------------------
(* The theorems. *)

\* What a step does to the server's DataStore.
Transaction ==
    \/ datastore' = datastore
    \/ /\ UserEdit
       /\ \E r \in Requests : datastore' = [datastore EXCEPT !.spec = r]
    \/ \E c \in Counts : datastore' = WithCounts(datastore, c)
    \/ /\ datastore.spec # Nil
       /\ \E initial \in Size, c \in Counts :
            /\ MayStart(datastore, initial)
            /\ datastore' = WithCounts(ScalingDown(datastore, initial), c)
    \/ \E r \in PodReport : datastore' = Reported(datastore, r)
    \/ /\ datastore.status.scalingDown
       /\ AllDecommissioned(datastore)
       /\ \E c \in Counts : datastore' = WithCounts(Finished(datastore), c)
    \/ /\ MayRestart(datastore)
       /\ \E c \in Counts : datastore' = WithCounts(Restarted(datastore), c)

LEMMA WorkerStep ==
    ASSUME IInv, NEW w \in Workers, Worker(w) \/ CallFails(w)
    PROVE  IInv' /\ Transaction
<1>1. CASE \/ StartSync(w) \/ CreateStatefulset(w) \/ ScaleUp(w)
           \/ SignalDecommission(w) \/ ScaleDownStatefulset(w)
           \/ RestartScaling(w) \/ StartPodStatus(w)
  <2>1. UNCHANGED dsLog
    BY <1>1 DEF StartSync, CreateStatefulset, ScaleUp, SignalDecommission,
                ScaleDownStatefulset, RestartScaling, StartPodStatus, server
  <2>2. IInv'
    BY <1>1, StartSyncStep, CreateStatefulsetStep, ScaleUpStep,
       SignalDecommissionStep, ScaleDownStatefulsetStep, RestartScalingStep,
       StartPodStatusStep
  <2> QED  BY <2>1, <2>2 DEF Transaction
<1>2. CASE Conflict(w) \/ AlreadyExists(w) \/ SignalFails(w) \/ CallFails(w)
  <2>1. UNCHANGED dsLog
    BY <1>2 DEF Conflict, AlreadyExists, SignalFails, CallFails, server
  <2> QED  BY <1>2, <2>1, ErrorStep DEF Transaction
<1>3. CASE SyncStatus(w)
  BY <1>3, SyncStatusStep DEF Transaction
<1>4. CASE MarkScalingDown(w)
  BY <1>4, MarkScalingDownStep DEF Transaction
<1>5. CASE FinishScalingDown(w)
  BY <1>5, FinishScalingDownStep DEF Transaction
<1>6. CASE MarkRestarted(w)
  BY <1>6, MarkRestartedStep DEF Transaction
<1>7. CASE SavePodStatus(w)
  BY <1>7, SavePodStatusStep DEF Transaction
<1> QED
  BY <1>1, <1>2, <1>3, <1>4, <1>5, <1>6, <1>7 DEF Worker, Sync

LEMMA IInvInductive == IInv /\ [Next]_vars => IInv' /\ Transaction
<1> SUFFICES ASSUME IInv, [Next]_vars  PROVE  IInv' /\ Transaction
  OBVIOUS
<1>1. CASE \E w \in Workers : Worker(w) \/ CallFails(w)
  BY <1>1, WorkerStep
<1>2. CASE Panic
  BY <1>2, CrashStep DEF Transaction
<1>3. CASE Informer
  BY <1>3, DeliverDatastoreStep, DeliverStatefulsetStep, DeliverPodStep
     DEF Informer, Transaction
<1>4. CASE Kubernetes
  BY <1>4, KubernetesStep DEF Transaction
<1>5. CASE Disturbance
  BY <1>5, UserEditStep, KubernetesStep, CrashStep, RelistPodsStep
     DEF Disturbance, Transaction
<1>6. CASE UNCHANGED vars
  <2>1. UNCHANGED <<dsLog, stsLog, job, budget, pods, informers>>
    BY <1>6 DEF vars, informers
  <2>2. PodsOK' /\ BudgetOK'
    BY <2>1, PodsUnchanged DEF IInv, BudgetOK
  <2> QED  BY <2>1, <2>2, UnchangedStep DEF IInv, Transaction
<1> QED  BY <1>1, <1>2, <1>3, <1>4, <1>5, <1>6 DEF Next

\* Every variable keeps to its kind: in particular a StatefulSet is never given
\* a size that no user asked for.
THEOREM TypeCorrect == Spec => []TypeOK
BY IInvInitially, IInvInductive, IInvImplies, PTL DEF Spec

\* No worker dereferences a nil pointer of the status, whichever version of the
\* DataStore it reads.
THEOREM NeverNil == Spec => []NoNilDereference
BY IInvInitially, IInvInductive, IInvImplies, PTL DEF Spec

\* A restart leads to a size above the one that was not reached, however late a
\* worker takes it up.
THEOREM RestartsRaise == Spec => []RestartRaises
BY IInvInitially, IInvInductive, IInvImplies, PTL DEF Spec

\* The server's DataStore is sound, as every version in the log is.
LEMMA ServerSound ==
    ASSUME IInv
    PROVE  datastore \in SoundDataStore
BY LogEnds DEF IInv, LogOK

\* No update of the controller takes back what the user wrote.
THEOREM UserOwnsSpec == Spec => SpecOwnedByUser
<1>1. IInv /\ Transaction => datastore'.spec = datastore.spec \/ UserEdit
  <2> SUFFICES ASSUME IInv, Transaction
               PROVE  datastore'.spec = datastore.spec \/ UserEdit
    OBVIOUS
  <2> HIDE DEF datastore
  <2> QED
    BY ServerSound, SoundMirror, SoundStart, SoundReport, SoundFinish,
       SoundRestart DEF Transaction, PodReport
<1>2. IInv /\ [Next]_vars => [datastore'.spec # datastore.spec => UserEdit]_vars
  BY <1>1, IInvInductive
<1> QED  BY <1>2, IInvInitially, IInvInductive, PTL DEF Spec, SpecOwnedByUser

\* A scale-down is finished only on the reports that the server's DataStore has
\* at that moment.
THEOREM FinishesOnEvidence == Spec => FinishHasEvidence
<1> DEFINE Evidence == datastore.status.scalingDown /\ ~Attempting(datastore')
                         => AllDecommissioned(datastore)
<1>1. IInv /\ Transaction => Evidence
  <2> SUFFICES ASSUME IInv, Transaction, datastore.status.scalingDown,
                      ~Attempting(datastore')
               PROVE  AllDecommissioned(datastore)
    OBVIOUS
  <2>1. Attempting(datastore)
    BY DEF Attempting
  <2> HIDE DEF datastore
  <2>2. CASE \E r \in Requests : datastore' = [datastore EXCEPT !.spec = r]
    BY <2>1, <2>2, ServerSound, SoundEdit DEF Attempting
  <2> QED
    BY <2>1, <2>2, ServerSound, SoundMirror, SoundStart, SoundReport,
       SoundRestart DEF Transaction, PodReport
<1>2. IInv /\ [Next]_vars => [Evidence]_vars
  BY <1>1, IInvInductive
<1> QED  BY <1>2, IInvInitially, IInvInductive, PTL DEF Spec, FinishHasEvidence

list == ReportsOf(datastore)

\* What a step does to the server's reports.
LEMMA ListSteps ==
    ASSUME IInv, Transaction
    PROVE  /\ list \in Lists(Ordinal)
           /\ \/ list' = list
              \/ Attempting(datastore) /\ list' = << >>
              \/ \E i \in Ordinal, b \in BOOLEAN :
                   list' = SetPodTerminationStatus(list, i, b)
<1> USE DEF list
<1>1. datastore \in DataStore
  BY ServerSound DEF SoundDataStore
<1> HIDE DEF datastore
<1>2. list \in Lists(Ordinal)
  BY <1>1, ReportsChange
<1>3. CASE \E r \in Requests : datastore' = [datastore EXCEPT !.spec = r]
  BY <1>1, <1>2, <1>3 DEF DataStore, ReportsOf
<1>4. CASE datastore' = datastore
  BY <1>2, <1>4
<1> QED
  BY <1>1, <1>2, <1>3, <1>4, ReportsChange
     DEF Transaction, PodReport, MayRestart, Attempting, Restarting

\* Saved from whatever copies, the reports of a pod make one entry.
THEOREM OneReport == Spec => []OneReportPerPod
<1>1. Init => OneEntryEach(list)
  <2> SUFFICES ASSUME Init  PROVE  OneEntryEach(list)
    OBVIOUS
  <2>1. PICK r \in Requests : dsLog = <<[spec |-> r, status |-> NoStatus]>>
    BY DEF Init
  <2>2. datastore = [spec |-> r, status |-> NoStatus]
    BY <2>1, LogRestarts
  <2> QED
    BY <2>2, NoStatusType, EmptySeq, LenProperties
       DEF NoStatus, OneEntryEach, list, ReportsOf
<1>2. IInv /\ OneEntryEach(list) /\ [Next]_vars => OneEntryEach(list)'
  <2> SUFFICES ASSUME IInv, OneEntryEach(list), [Next]_vars
               PROVE  OneEntryEach(list')
    BY DEF OneEntryEach
  <2> QED  BY IInvInductive, ListSteps, ReportsStepOK
<1>3. OneEntryEach(list) => OneReportPerPod
  BY DEF OneReportPerPod, OneEntryEach, EntriesOf, list, ReportsOf
<1> QED  BY <1>1, <1>2, <1>3, IInvInitially, IInvInductive, PTL DEF Spec

\* No Update, from however old a copy, loses a report before the attempt ends.
THEOREM ReportsStay == Spec => ReportsKept
<1> DEFINE Kept ==
             LET reports == datastore.status.podTerminationStatuses
             IN  \/ IsPrefix(reports, datastore'.status.podTerminationStatuses)
                 \/ /\ Attempting(datastore)
                    /\ datastore'.status.podTerminationStatuses = << >>
<1>1. IInv /\ Transaction => Kept
  <2> SUFFICES ASSUME IInv, Transaction  PROVE  Kept
    OBVIOUS
  <2>1. IsPrefix(list, list)
    BY ListSteps, LenProperties DEF IsPrefix, Lists
  <2> QED  BY <2>1, ListSteps, SetExtends DEF list, ReportsOf
<1>2. IInv /\ [Next]_vars => [Kept]_vars
  BY <1>1, IInvInductive
<1> QED  BY <1>2, IInvInitially, IInvInductive, PTL DEF Spec, ReportsKept

\* The protocol's operators on the DataStore are the controller's.
LEMMA SameOperators ==
    /\ Protocol!Counts = Counts /\ Protocol!Size = Size
    /\ Protocol!Report = PodReport /\ Protocol!NoStatus = NoStatus
    /\ \A d : /\ Protocol!Steady(d) <=> Steady(d)
              /\ Protocol!Restarting(d) <=> Restarting(d)
              /\ Protocol!AllDecommissioned(d) <=> AllDecommissioned(d)
              /\ Protocol!Finished(d) = Finished(d)
              /\ Protocol!Restarted(d) = Restarted(d)
    /\ \A d, x : /\ Protocol!WithCounts(d, x) = WithCounts(d, x)
                 /\ Protocol!ScalingDown(d, x) = ScalingDown(d, x)
                 /\ Protocol!Reported(d, x) = Reported(d, x)
<1>1. /\ Protocol!Counts = Counts /\ Protocol!Size = Size
      /\ Protocol!Report = PodReport /\ Protocol!NoStatus = NoStatus
  BY DEF Protocol!Counts, Counts, Protocol!Count, Count, Protocol!Size, Size,
         Protocol!Defaulted, Defaulted, Protocol!Report, PodReport,
         Protocol!Ordinal, Ordinal, Protocol!NoStatus, NoStatus
<1>2. \A d : /\ Protocol!Steady(d) <=> Steady(d)
             /\ Protocol!Restarting(d) <=> Restarting(d)
             /\ Protocol!Finished(d) = Finished(d)
             /\ Protocol!Restarted(d) = Restarted(d)
  BY DEF Protocol!Steady, Steady, Protocol!Restarting, Restarting,
         Protocol!Finished, Finished, Protocol!Restarted, Restarted
<1>3. \A d : Protocol!AllDecommissioned(d) <=> AllDecommissioned(d)
  BY DEF Protocol!AllDecommissioned, AllDecommissioned,
         Protocol!LeavingPods, LeavingPods, Protocol!Ordinal, Ordinal,
         Protocol!GetPodTerminationStatus, GetPodTerminationStatus,
         Protocol!HasEntry, HasEntry, Protocol!EntriesOf, EntriesOf,
         Protocol!FirstEntry, FirstEntry
<1>4. \A d, x : /\ Protocol!WithCounts(d, x) = WithCounts(d, x)
                /\ Protocol!ScalingDown(d, x) = ScalingDown(d, x)
                /\ Protocol!Reported(d, x) = Reported(d, x)
  BY DEF Protocol!WithCounts, WithCounts, Protocol!ScalingDown, ScalingDown,
         Protocol!Reported, Reported,
         Protocol!SetPodTerminationStatus, SetPodTerminationStatus,
         Protocol!HasEntry, HasEntry, Protocol!EntriesOf, EntriesOf
<1> QED  BY <1>1, <1>2, <1>3, <1>4

\* The workers, whatever they read and whenever they are interrupted, take the
\* DataStore through nothing but the transactions of the protocol.
THEOREM ControllerImplementsProtocol == Spec => ImplementsProtocol
<1>1. Init => Protocol!Init
  <2> SUFFICES ASSUME Init  PROVE  Protocol!Init
    OBVIOUS
  <2>1. PICK r \in Requests : dsLog = <<[spec |-> r, status |-> NoStatus]>>
    BY DEF Init
  <2>2. datastore = [spec |-> r, status |-> NoStatus]
    BY <2>1, LogRestarts
  <2> QED  BY <2>2, SameOperators DEF Protocol!Init
<1>2. Transaction => [Protocol!Next]_datastore
  <2> HIDE DEF datastore
  <2> USE SameOperators
          DEF Protocol!Next, Protocol!Edit, Protocol!Mirror, Protocol!Start,
              Protocol!Save, Protocol!Finish, Protocol!Restart
  <2>1. CASE \E r \in Requests : datastore' = [datastore EXCEPT !.spec = r]
    BY <2>1
  <2>2. CASE \E c \in Counts : datastore' = WithCounts(datastore, c)
    BY <2>2
  <2>3. CASE /\ datastore.spec # Nil
             /\ \E initial \in Size, c \in Counts :
                  /\ MayStart(datastore, initial)
                  /\ datastore' = WithCounts(ScalingDown(datastore, initial), c)
    BY <2>3 DEF MayStart
  <2>4. CASE \E r \in PodReport : datastore' = Reported(datastore, r)
    BY <2>4
  <2>5. CASE /\ datastore.status.scalingDown
             /\ AllDecommissioned(datastore)
             /\ \E c \in Counts : datastore' = WithCounts(Finished(datastore), c)
    BY <2>5
  <2>6. CASE /\ MayRestart(datastore)
             /\ \E c \in Counts : datastore' = WithCounts(Restarted(datastore), c)
    BY <2>6 DEF MayRestart
  <2> QED  BY <2>1, <2>2, <2>3, <2>4, <2>5, <2>6 DEF Transaction
<1>3. IInv /\ [Next]_vars => [Protocol!Next]_datastore
  BY <1>2, IInvInductive
<1> QED
  BY <1>1, <1>3, IInvInitially, IInvInductive, PTL
     DEF Spec, ImplementsProtocol, Protocol!Spec

\* A scale-down that was restarted waits for the pods of its first size, however
\* stale the caches of the worker that begins it again.
THEOREM RestartsWait == Spec => RestartWaits
<1> DEFINE Waited ==
             Restarting(datastore) /\ datastore'.status.scalingDown
               => /\ datastore.status.readyReplicas
                       = datastore.status.initialReplicas
                  /\ datastore'.status.initialReplicas
                       = datastore.status.initialReplicas
<1>1. IInv /\ Transaction => Waited
  <2> SUFFICES ASSUME IInv, Transaction, Restarting(datastore),
                      datastore'.status.scalingDown
               PROVE  /\ datastore.status.readyReplicas
                           = datastore.status.initialReplicas
                      /\ datastore'.status.initialReplicas
                           = datastore.status.initialReplicas
    OBVIOUS
  <2>1. datastore \in SoundDataStore /\ ~datastore.status.scalingDown
    BY ServerSound DEF Restarting
  <2> HIDE DEF datastore
  <2>2. datastore \in DataStore
    BY <2>1 DEF SoundDataStore
  <2>3. CASE datastore' = datastore
    BY <2>1, <2>3
  <2>4. CASE \E r \in Requests : datastore' = [datastore EXCEPT !.spec = r]
    BY <2>1, <2>2, <2>4, OnlyStartScalesDown
  <2>5. CASE \E c \in Counts : \/ datastore' = WithCounts(datastore, c)
                                \/ datastore' = WithCounts(Finished(datastore), c)
                                \/ datastore' = WithCounts(Restarted(datastore), c)
    BY <2>1, <2>2, <2>5, OnlyStartScalesDown
  <2>6. CASE \E r \in PodReport : datastore' = Reported(datastore, r)
    BY <2>1, <2>2, <2>6, OnlyStartScalesDown DEF PodReport
  <2>7. CASE /\ datastore.spec # Nil
             /\ \E initial \in Size, c \in Counts :
                  /\ MayStart(datastore, initial)
                  /\ datastore' = WithCounts(ScalingDown(datastore, initial), c)
    <3>1. PICK initial \in Size, c \in Counts :
            /\ MayStart(datastore, initial)
            /\ datastore' = WithCounts(ScalingDown(datastore, initial), c)
      BY <2>7
    <3>2. datastore'.status.initialReplicas = initial
      BY <2>1, <2>2, <2>7, <3>1, OnlyStartScalesDown
    <3> QED  BY <3>1, <3>2 DEF MayStart
  <2> QED  BY <2>3, <2>4, <2>5, <2>6, <2>7 DEF Transaction
<1>2. IInv /\ [Next]_vars => [Waited]_vars
  BY <1>1, IInvInductive
<1> QED  BY <1>2, IInvInitially, IInvInductive, PTL DEF Spec, RestartWaits

-----------------------------------------------------------------------------
(* Coming to rest. *)

Pending(i) == {k \in DOMAIN podWatch : podWatch[k].pod = i}

\* The pod informer's cache differs from the server's pods by no more than the
\* events it has yet to see: the last of a pod's says whether the pod is there.
PodsAgree ==
    \A i \in Ordinal :
        /\ Pending(i) = {} => (i \in podCache <=> i \in Present)
        /\ \A k \in Pending(i) :
             (\A l \in Pending(i) : l <= k)
               => (podWatch[k].change = "added" <=> i \in Present)

\* What a step does to the pods, the cache and the watch.
PodsChange ==
    \/ Present' = Present /\ UNCHANGED <<podCache, podWatch>>
    \/ \E i \in Ordinal, change \in Ending \cup {"added"} :
         /\ Present' = IF change = "added" THEN Present \cup {i}
                                           ELSE Present \ {i}
         /\ podWatch' = Append(podWatch, [pod |-> i, change |-> change])
         /\ podCache' = podCache
    \/ /\ Present' = Present
       /\ podWatch # << >> /\ podWatch' = Tail(podWatch)
       /\ podCache' = IF Head(podWatch).change = "added"
                      THEN podCache \cup {Head(podWatch).pod}
                      ELSE podCache \ {Head(podWatch).pod}
    \/ podCache' = Present' /\ podWatch' = << >>

LEMMA PodSteps ==
    ASSUME IInv, [Next]_vars
    PROVE  PodsChange
<1> USE DEF PodsChange
<1>1. pods \in [Ordinal -> Pod]
  BY DEF IInv, PodsOK
<1>2. ASSUME NEW w \in Workers, Worker(w) \/ CallFails(w)
      PROVE  Present' = Present /\ UNCHANGED <<podCache, podWatch>>
  <2>1. CASE SignalDecommission(w)
    <3>1. PICK i \in Ordinal : pods' = [pods EXCEPT ![i].signalled = TRUE]
      BY <2>1 DEF SignalDecommission, Present
    <3>2. \A j \in Ordinal : pods'[j].phase = pods[j].phase
      BY <1>1, <3>1 DEF Pod
    <3> QED  BY <2>1, <3>2 DEF SignalDecommission, Present, informers
  <2>2. CASE UNCHANGED <<pods, podCache, podWatch>>
    BY <2>2 DEF Present
  <2> QED
    BY <1>2, <2>1, <2>2
       DEF Worker, Sync, StartSync, CreateStatefulset, AlreadyExists, ScaleUp,
           SyncStatus, SignalFails, ScaleDownStatefulset, MarkScalingDown,
           FinishScalingDown, RestartScaling, MarkRestarted, Conflict,
           StartPodStatus, SavePodStatus, CallFails, server, informers
<1>3. CASE Panic \/ Crash
  BY <1>3 DEF Panic, Crash, Restart, Present
<1>4. CASE Informer
  BY <1>4 DEF Informer, DeliverDatastore, DeliverStatefulset, DeliverPod,
              informers, server, Present
<1>5. CASE UserEdit \/ CountPods \/ UNCHANGED vars
  BY <1>5 DEF UserEdit, CountPods, vars, informers, Present
<1>6. CASE RelistPods
  BY <1>6 DEF RelistPods, server, Present
<1>7. CASE PodReady
  <2>1. PICK i \in Present : pods' = [pods EXCEPT ![i].phase = "ready"]
    BY <1>7 DEF PodReady
  <2>2. \A j \in Ordinal : pods'[j].phase \notin Ending
                            <=> pods[j].phase \notin Ending
    BY <1>1, <2>1 DEF Pod, Present, Ending
  <2> QED  BY <1>7, <2>2 DEF PodReady, Present, informers
<1>8. CASE CreatePod
  <2>1. PICK i \in Ordinal \ Present :
            /\ pods' = [pods EXCEPT ![i].phase =
                                      IF SlowStart THEN "starting" ELSE "ready"]
            /\ NotifyPod(i, "added")
    BY <1>8 DEF CreatePod
  <2>2. pods'[i].phase \in {"starting", "ready"}
    BY <1>1, <2>1 DEF Pod
  <2>3. \A j \in Ordinal : j # i => pods'[j] = pods[j]
    BY <1>1, <2>1
  <2>4. Present' = Present \cup {i}
    BY <2>2, <2>3 DEF Present, Ending
  <2> QED  BY <1>8, <2>1, <2>4 DEF CreatePod, NotifyPod
<1>9. ASSUME NEW i \in Present, EndPod(i), UNCHANGED podCache
      PROVE  PodsChange
  <2>1. PICK ending \in Ending :
          /\ pods' = [pods EXCEPT ![i] = [phase |-> ending, signalled |-> FALSE]]
          /\ NotifyPod(i, ending)
    BY <1>9 DEF EndPod
  <2>2. i \in Ordinal /\ ending # "added"
    BY DEF Present, Ending
  <2>3. Present' = Present \ {i}
    BY <1>1, <2>1, <2>2 DEF Present
  <2> QED  BY <1>9, <2>1, <2>2, <2>3 DEF NotifyPod
<1>10. CASE RemovePod \/ KillPod
  BY <1>9, <1>10 DEF RemovePod, KillPod
<1> QED
  BY <1>2, <1>3, <1>4, <1>5, <1>6, <1>7, <1>8, <1>10
     DEF Next, Kubernetes, Disturbance

LEMMA PodsAgreeInductive ==
    ASSUME IInv, PodsAgree, PodsChange
    PROVE  PodsAgree'
<1> USE DEF PodsAgree, Pending
<1>1. /\ podWatch \in Seq(PodChange) /\ Len(podWatch) \in Nat
      /\ DOMAIN podWatch = 1 .. Len(podWatch)
  BY LenProperties DEF IInv, PodsOK
<1>2. CASE Present' = Present /\ UNCHANGED <<podCache, podWatch>>
  BY <1>2
<1>3. CASE podCache' = Present' /\ podWatch' = << >>
  BY <1>3, EmptySeq
<1>4. ASSUME NEW i \in Ordinal, NEW change \in Ending \cup {"added"},
             Present' = IF change = "added" THEN Present \cup {i}
                                            ELSE Present \ {i},
             podWatch' = Append(podWatch, [pod |-> i, change |-> change]),
             podCache' = podCache
      PROVE  PodsAgree'
  <2> DEFINE n == Len(podWatch)
             e == [pod |-> i, change |-> change]
  <2>1. /\ DOMAIN podWatch' = 1 .. n + 1
        /\ podWatch'[n + 1].pod = i /\ podWatch'[n + 1].change = change
        /\ \A k \in 1 .. n : podWatch'[k] = podWatch[k]
    <3>1. e \in PodChange
      BY DEF PodChange
    <3>2. /\ Len(podWatch') = n + 1
          /\ podWatch' \in Seq(PodChange)
          /\ podWatch'[n + 1] = e
          /\ \A k \in 1 .. n : podWatch'[k] = podWatch[k]
      BY <1>1, <1>4, <3>1, AppendProperties
    <3> QED  BY <3>2, LenProperties
  <2> HIDE DEF n, e
  <2>2. n \in Nat /\ DOMAIN podWatch = 1 .. n
    BY <1>1 DEF n
  <2>3. Pending(i)' = Pending(i) \cup {n + 1}
    BY <2>1, <2>2
  <2>4. \A j \in Ordinal : j # i => Pending(j)' = Pending(j)
    BY <2>1, <2>2
  <2>5. \A j \in Ordinal : j # i => (j \in Present' <=> j \in Present)
    BY <1>4
  <2>6. ASSUME NEW j \in Ordinal, j # i
        PROVE  /\ Pending(j)' = {} => (j \in podCache' <=> j \in Present')
               /\ \A k \in Pending(j)' :
                    (\A l \in Pending(j)' : l <= k)
                      => (podWatch'[k].change = "added" <=> j \in Present')
    <3>1. \A k \in Pending(j) : podWatch'[k] = podWatch[k]
      BY <2>1, <2>2
    <3>2. /\ Pending(j) = {} => (j \in podCache <=> j \in Present)
          /\ \A k \in Pending(j) :
               (\A l \in Pending(j) : l <= k)
                 => (podWatch[k].change = "added" <=> j \in Present)
      OBVIOUS
    <3> HIDE DEF Pending
    <3> QED  BY <1>4, <2>4, <2>5, <2>6, <3>1, <3>2
  <2>7. \A k \in Pending(i)' : (\A l \in Pending(i)' : l <= k) => k = n + 1
    <3> SUFFICES ASSUME NEW k \in Pending(i)', n + 1 <= k
                 PROVE  k = n + 1
      BY <2>3
    <3> QED  BY <2>1, <2>2
  <2>8. i \in Present' <=> change = "added"
    BY <1>4
  <2> HIDE DEF Pending
  <2> QED  BY <2>1, <2>3, <2>6, <2>7, <2>8
<1>5. ASSUME Present' = Present,
             podWatch # << >>, podWatch' = Tail(podWatch),
             podCache' = IF Head(podWatch).change = "added"
                         THEN podCache \cup {Head(podWatch).pod}
                         ELSE podCache \ {Head(podWatch).pod}
      PROVE  PodsAgree'
  <2> DEFINE n == Len(podWatch)
  <2>1. /\ n \in Nat \ {0} /\ DOMAIN podWatch = 1 .. n
        /\ Head(podWatch) = podWatch[1]
        /\ DOMAIN podWatch' = 1 .. n - 1
        /\ \A k \in 1 .. n - 1 : podWatch'[k] = podWatch[k + 1]
    <3>1. n # 0
      BY <1>1, <1>5, EmptySeq
    <3>2. /\ Head(podWatch) = podWatch[1]
          /\ podWatch' \in Seq(PodChange) /\ Len(podWatch') = n - 1
          /\ \A k \in 1 .. Len(podWatch') : podWatch'[k] = podWatch[k + 1]
      BY <1>1, <1>5, HeadTailProperties
    <3> QED  BY <1>1, <3>1, <3>2, LenProperties
  <2> HIDE DEF n
  <2> SUFFICES ASSUME NEW j \in Ordinal
               PROVE  /\ Pending(j)' = {} => (j \in podCache' <=> j \in Present')
                      /\ \A k \in Pending(j)' :
                           (\A l \in Pending(j)' : l <= k)
                             => (podWatch'[k].change = "added" <=> j \in Present')
    OBVIOUS
  <2>2. \A k : k \in Pending(j)' <=> k \in Nat \ {0} /\ k + 1 \in Pending(j)
    BY <2>1
  <2>3. /\ Pending(j) = {} => (j \in podCache <=> j \in Present)
        /\ \A k \in Pending(j) :
             (\A l \in Pending(j) : l <= k)
               => (podWatch[k].change = "added" <=> j \in Present)
    OBVIOUS
  <2>4. ASSUME Pending(j)' = {}  PROVE  j \in podCache' <=> j \in Present'
    <3>1. Pending(j) \subseteq {1}
      <4> SUFFICES ASSUME NEW k \in Pending(j), k # 1  PROVE FALSE
        OBVIOUS
      <4>1. k - 1 \in Nat \ {0} /\ (k - 1) + 1 = k
        BY <2>1
      <4> QED  BY <2>2, <2>4, <4>1
    <3>2. CASE podWatch[1].pod = j
      <4>1. Pending(j) = {1}
        BY <2>1, <3>1, <3>2
      <4>2. podWatch[1].change = "added" <=> j \in Present
        BY <2>3, <4>1
      <4> QED  BY <1>5, <2>1, <3>2, <4>2
    <3>3. CASE podWatch[1].pod # j
      <4>1. Pending(j) = {}
        BY <3>1, <3>3
      <4> QED  BY <1>5, <2>1, <2>3, <3>3, <4>1
    <3> QED  BY <3>2, <3>3
  <2>5. ASSUME NEW k \in Pending(j)', \A l \in Pending(j)' : l <= k
        PROVE  podWatch'[k].change = "added" <=> j \in Present'
    <3>1. /\ k \in Nat \ {0} /\ k + 1 \in Pending(j)
          /\ podWatch'[k] = podWatch[k + 1]
      BY <2>1, <2>2
    <3>2. ASSUME NEW l \in Pending(j)  PROVE  l <= k + 1
      <4>1. CASE l = 1
        BY <3>1, <4>1
      <4>2. CASE l # 1
        <5>1. l - 1 \in Nat \ {0} /\ (l - 1) + 1 = l
          BY <2>1, <4>2
        <5>2. l - 1 <= k
          BY <2>2, <2>5, <5>1
        <5> QED  BY <3>1, <5>1, <5>2
      <4> QED  BY <4>1, <4>2
    <3> HIDE DEF Pending
    <3> QED  BY <1>5, <2>3, <3>1, <3>2
  <2> QED  BY <2>4, <2>5
<1> QED  BY <1>2, <1>3, <1>4, <1>5 DEF PodsChange

\* As many pods as the StatefulSet asks for.
LEMMA FirstOrdinals ==
    ASSUME NEW n \in Count
    PROVE  Cardinality({i \in Ordinal : i < n}) = n
<1>1. n \in Nat /\ n <= MaxReplicas
  BY ReplicasAssumption DEF Count
<1>2. {i \in Ordinal : i < n} = 0 .. n - 1
  BY <1>1, ReplicasAssumption DEF Ordinal
<1>3. Cardinality(0 .. n - 1) = n
  <2>1. n - 1 \in Int
    BY <1>1
  <2>2. Cardinality(0 .. n - 1) = IF 0 > n - 1 THEN 0 ELSE (n - 1) - 0 + 1
    BY <2>1, FS_Interval
  <2> QED  BY <1>1, <2>2
<1> QED  BY <1>2, <1>3

\* A sync of a settled DataStore that finds nothing to do takes none of the
\* branches and finds the counts copied.
LEMMA NothingDecided ==
    ASSUME NEW d \in SoundDataStore, NEW s \in StatefulSet,
           NEW b \in BOOLEAN, Decide(d, s, b) = Idle
    PROVE  /\ ~ScalesUp(d, s) /\ ~StartsScalingDown(d, s)
           /\ ~Finishes(d, s) /\ ~RestartsScaling(d, s)
           /\ d = WithCounts(d, s.counts)
<1> DEFINE signal == [JobAt("signal", d, b) EXCEPT !.todo = PodsToSignal(d),
                                                      !.initial = s.spec]
           finish == [JobAt("finish", d, b) EXCEPT !.counts = s.counts]
           status == [JobAt("status", d, b) EXCEPT !.counts = s.counts]
<1>1. /\ JobAt("scaleUp", d, b).pc = "scaleUp"
      /\ JobAt("restart", d, b).pc = "restart"
      /\ signal.pc = "signal" /\ finish.pc = "finish" /\ status.pc = "status"
      /\ Idle.pc = "idle"
  BY DEF JobAt, Idle
<1>2. Mirror(d, s.counts, b) = Idle => d = WithCounts(d, s.counts)
  <2> HIDE DEF status
  <2> QED  BY <1>1 DEF Mirror, status
<1>3. \/ Decide(d, s, b) = JobAt("scaleUp", d, b)
      \/ Decide(d, s, b) = signal
      \/ Decide(d, s, b) = finish
      \/ Decide(d, s, b) = JobAt("restart", d, b)
      \/ /\ ~ScalesUp(d, s) /\ ~StartsScalingDown(d, s)
         /\ ~Finishes(d, s) /\ ~RestartsScaling(d, s)
         /\ Decide(d, s, b) = Mirror(d, s.counts, b)
  BY SMT DEF Decide
<1> HIDE DEF signal, finish, status
<1> QED  BY <1>1, <1>2, <1>3

\* No crash, failed call or conflict leaves the DataStore and its StatefulSet
\* half way in a scale-down that no sync takes up.
THEOREM RestsWhenDone == Spec => []RestIsDone
<1>1. Init => PodsAgree
  <2> SUFFICES ASSUME Init  PROVE  PodsAgree
    OBVIOUS
  <2>1. Present = {}
    BY DEF Init, Present, Ending
  <2> QED  BY <2>1, EmptySeq DEF Init, PodsAgree, Pending
<1>2. IInv /\ PodsAgree /\ [Next]_vars => PodsAgree'
  BY PodSteps, PodsAgreeInductive
<1>3. IInv /\ PodsAgree => RestIsDone
  <2> SUFFICES ASSUME IInv, PodsAgree, Settled,
                      Decide(datastore, statefulset, TRUE) = Idle
               PROVE  /\ Steady(datastore)
                      /\ datastore.spec \in {Nil, statefulset.spec}
                      /\ datastore = WithCounts(datastore, statefulset.counts)
    BY DEF RestIsDone
  <2> DEFINE n == statefulset.spec
  <2>1. statefulset \in StatefulSet /\ statefulset.counts \in Counts
    BY ExistingOK DEF Settled
  <2>2. n \in Size /\ n \in Count
    BY <2>1, Sizes DEF StatefulSet
  <2>3. podCache = {i \in Ordinal : i < n}
    <3>1. podCache \subseteq Ordinal /\ Present \subseteq Ordinal
      BY DEF IInv, PodsOK, Present
    <3>2. \A i \in Ordinal : i \in podCache <=> i \in Present
      BY EmptySeq DEF Settled, PodsAgree, Pending
    <3> QED  BY <3>1, <3>2 DEF Settled
  <2>4. /\ statefulset.counts.replicas = n
        /\ statefulset.counts.readyReplicas = n
    BY <2>2, FirstOrdinals DEF Settled
  <2>5. datastore \in SoundDataStore /\ datastore \in DataStore
    BY ServerSound DEF SoundDataStore
  <2>6. /\ ~ScalesUp(datastore, statefulset)
        /\ ~StartsScalingDown(datastore, statefulset)
        /\ ~Finishes(datastore, statefulset)
        /\ ~RestartsScaling(datastore, statefulset)
        /\ datastore = WithCounts(datastore, statefulset.counts)
    BY <2>1, <2>5, NothingDecided
  <2> HIDE DEF datastore, statefulset
  <2>7. datastore.status.replicas = n /\ datastore.status.readyReplicas = n
    BY <2>4, <2>5, <2>6 DEF WithCounts, DataStore, DataStoreStatus
  <2>8. ~datastore.status.scalingDown
    <3> SUFFICES ASSUME datastore.status.scalingDown  PROVE FALSE
      OBVIOUS
    <3>1. datastore.status.finalReplicas = n
      BY <2>6 DEF StartsScalingDown
    <3>2. n \notin podCache
      BY <2>2, <2>3, ReplicasAssumption DEF Count
    <3> QED
      BY <2>6, <2>7, <3>1, <3>2 DEF TargetReached, Finishes, RestartsScaling
  <2>9. ~Restarting(datastore)
    BY <2>6, <2>7 DEF StartsScalingDown, RestartsScaling
  <2>10. Steady(datastore)
    BY <2>5, <2>8, <2>9 DEF Steady, Restarting, DataStore, DataStoreStatus
  <2>11. ASSUME datastore.spec # Nil  PROVE  datastore.spec = n
    <3>1. datastore.spec \in Count
      BY <2>5, <2>11, Sizes DEF DataStore
    <3>2. ~(datastore.spec > n) /\ ~(datastore.spec < n)
      BY <2>6, <2>10, <2>11 DEF ScalesUp, StartsScalingDown
    <3>3. \A a, b \in Int : ~(a > b) /\ ~(a < b) => a = b
      OBVIOUS
    <3> QED  BY <2>2, <3>1, <3>2, <3>3, ReplicasAssumption DEF Count
  <2>12. datastore.spec \in {Nil, n}
    BY <2>11
  <2> QED  BY <2>6, <2>10, <2>12
<1> QED  BY <1>1, <1>2, <1>3, IInvInitially, IInvInductive, PTL DEF Spec

=============================================================================
