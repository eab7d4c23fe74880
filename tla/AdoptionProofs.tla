---------------------------- MODULE AdoptionProofs ----------------------------
(***************************************************************************)
(* No wakeup is lost, for any number of workers, incarnations, incidents   *)
(* and versions under way.                                                 *)
(***************************************************************************)
EXTENDS Adoption, SequenceTheorems, TLAPS

-----------------------------------------------------------------------------
(* Sequences of versions and of notifications. *)

LEMMA LogEnds ==
    ASSUME NEW S, NEW log \in Seq(S), log # << >>
    PROVE  /\ Len(log) \in Nat \ {0}
           /\ Len(log) = 1 \/ Len(log) > 1
           /\ Last(log) \in S /\ Last(log) = log[Len(log)]
           /\ Head(log) \in S /\ Head(log) = log[1]
           /\ Len(log) = 1 => Head(log) = Last(log)
<1>1. Len(log) \in Nat \ {0}
  BY EmptySeq, LenProperties
<1>2. \A n \in Nat \ {0} : n = 1 \/ n > 1
  OBVIOUS
<1>3. /\ Last(log) \in S /\ Last(log) = log[Len(log)]
      /\ Head(log) \in S /\ Head(log) = log[1]
  BY <1>1, ElementOfSeq DEF Last
<1> QED  BY <1>1, <1>2, <1>3

LEMMA LogGrows ==
    ASSUME NEW S, NEW log \in Seq(S), NEW e \in S
    PROVE  /\ Append(log, e) \in Seq(S) /\ Append(log, e) # << >>
           /\ Last(Append(log, e)) = e
           /\ Len(Append(log, e)) = Len(log) + 1
           /\ Append(log, e)[Len(log) + 1] = e
           /\ \A k \in 1 .. Len(log) : Append(log, e)[k] = log[k]
BY AppendProperties DEF Last

LEMMA LogShrinks ==
    ASSUME NEW S, NEW log \in Seq(S), Len(log) > 1
    PROVE  /\ Tail(log) \in Seq(S) /\ Tail(log) # << >>
           /\ Len(Tail(log)) = Len(log) - 1
           /\ \A k \in 1 .. Len(Tail(log)) : Tail(log)[k] = log[k + 1]
           /\ Last(Tail(log)) = Last(log)
<1>1. Len(log) \in Nat /\ log # << >>
  BY LenProperties, EmptySeq
<1>2. /\ Tail(log) \in Seq(S) /\ Len(Tail(log)) = Len(log) - 1
      /\ \A i \in 1 .. Len(Tail(log)) : Tail(log)[i] = log[i + 1]
  BY <1>1, HeadTailProperties
<1>3. Tail(log) # << >>
  <2>1. Len(Tail(log)) # 0
    BY <1>1, <1>2
  <2>2. Len(<< >>) = 0
    BY EmptySeq
  <2> QED  BY <2>1, <2>2
<1> QED  BY <1>1, <1>2, <1>3 DEF Last

LEMMA OneVersion ==
    ASSUME NEW S, NEW e \in S
    PROVE  /\ <<e>> \in Seq(S) /\ <<e>> # << >> /\ Len(<<e>>) = 1
           /\ Last(<<e>>) = e /\ <<e>>[1] = e
BY DEF Last

-----------------------------------------------------------------------------
(* The inductive invariant. *)

\* The server makes no version of a StatefulSet that is not there.
NoDeletedTwice ==
    \A k \in 1 .. Len(stsLog) - 1 : stsLog[k] = Nil => stsLog[k + 1] # Nil

NoForeigner ==
    Undisturbed => /\ stsLog \in Seq(Uid \cup {Nil})
                   /\ stsNotes \in Seq(Uid)

\* While a StatefulSet is missing, somebody will yet look.
Due ==
    \/ Len(dsLog) > 1 \/ Len(stsLog) > 1
    \/ dsNotes # << >> \/ stsNotes # << >> \/ senders # << >>
    \/ \E w \in Workers : job[w].pc = "create"

Missing == Undisturbed /\ datastore # Nil /\ statefulset = Nil

IInv ==
    /\ TypeOK /\ NoDeletedTwice /\ NoForeigner
    /\ budget.faults <= MaxFaults
    /\ Missing => Due

LEMMA IInvInitially == Init => IInv
<1> SUFFICES ASSUME Init  PROVE  IInv
  OBVIOUS
<1>1. /\ dsLog \in Seq(Uid \cup {Nil}) /\ dsLog # << >>
      /\ stsLog \in Seq(Uid \cup {Nil}) /\ stsLog # << >>
      /\ stsLog \in Seq(Uid \cup {Nil, Foreign})
      /\ Len(stsLog) = 1 /\ datastore = Nil
  BY OneVersion DEF Init, datastore
<1>2. /\ dsNotes \in Seq({"change", "resync"}) /\ senders \in Seq({"ds", "sts"})
      /\ stsNotes \in Seq(Uid) /\ stsNotes \in Seq(Uid \cup {Foreign})
  BY EmptySeq DEF Init
<1>3. /\ born \in 0 .. MaxUids
      /\ budget \in [{"incidents", "faults"} -> Nat]
      /\ budget.faults <= MaxFaults
  BY UidsAssumption, BudgetAssumption DEF Init
<1>4. job \in [Workers -> Job]
  BY DEF Init, Job
<1>5. TypeOK
  BY <1>1, <1>2, <1>3, <1>4 DEF TypeOK
<1>6. NoDeletedTwice
  BY <1>1 DEF NoDeletedTwice
<1> QED
  BY <1>1, <1>2, <1>3, <1>5, <1>6 DEF IInv, NoForeigner, Missing

-----------------------------------------------------------------------------
(* What the parts of the steps do. *)

LEMMA SpendOK ==
    ASSUME IInv, NEW kind \in {"incidents", "faults"}, Spend(kind)
    PROVE  /\ budget' \in [{"incidents", "faults"} -> Nat]
           /\ budget'.faults <= MaxFaults
           /\ kind = "faults" => ~Undisturbed'
           /\ Undisturbed' => Undisturbed
<1>1. /\ budget[kind] \in Nat \ {0}
      /\ budget' = [budget EXCEPT ![kind] = budget[kind] - 1]
      /\ budget.faults \in Nat
  BY DEF IInv, TypeOK, Spend
<1>2. CASE kind = "faults"
  BY <1>1, <1>2, BudgetAssumption DEF IInv, TypeOK, Undisturbed
<1>3. CASE kind = "incidents"
  BY <1>1, <1>3 DEF IInv, TypeOK, Undisturbed
<1> QED  BY <1>2, <1>3

LEMMA SetStatefulsetOK ==
    ASSUME IInv, NEW owner \in Uid \cup {Nil, Foreign}, SetStatefulset(owner)
    PROVE  /\ stsLog' \in Seq(Uid \cup {Nil, Foreign}) /\ stsLog' # << >>
           /\ statefulset' = owner
           /\ NoDeletedTwice'
           /\ owner = Nil /\ statefulset # Nil => Len(stsLog') > 1
           /\ Len(stsLog') >= Len(stsLog)
           /\ /\ stsLog \in Seq(Uid \cup {Nil})
              /\ owner # Foreign
              => stsLog' \in Seq(Uid \cup {Nil})
<1> DEFINE S == Uid \cup {Nil, Foreign}
<1>1. /\ stsLog \in Seq(S) /\ stsLog # << >>
      /\ Len(stsLog) \in Nat \ {0} /\ statefulset = stsLog[Len(stsLog)]
  BY LogEnds DEF IInv, TypeOK, statefulset
<1>2. CASE owner = statefulset
  BY <1>1, <1>2 DEF SetStatefulset, IInv, NoDeletedTwice, statefulset
<1>3. CASE owner # statefulset
  <2>1. stsLog' = Append(stsLog, owner)
    BY <1>3 DEF SetStatefulset
  <2>2. /\ stsLog' \in Seq(S) /\ stsLog' # << >> /\ Last(stsLog') = owner
        /\ Len(stsLog') = Len(stsLog) + 1 /\ stsLog'[Len(stsLog) + 1] = owner
        /\ \A k \in 1 .. Len(stsLog) : stsLog'[k] = stsLog[k]
    BY <1>1, <2>1, LogGrows
  <2>3. NoDeletedTwice'
    <3> SUFFICES ASSUME NEW k \in 1 .. Len(stsLog') - 1, stsLog'[k] = Nil
                 PROVE  stsLog'[k + 1] # Nil
      BY DEF NoDeletedTwice
    <3>1. CASE k = Len(stsLog)
      BY <1>1, <1>3, <2>2, <3>1
    <3>2. CASE k # Len(stsLog)
      <4>1. k \in 1 .. Len(stsLog) - 1 /\ k + 1 \in 1 .. Len(stsLog)
        BY <1>1, <2>2, <3>2
      <4> QED  BY <1>1, <2>2, <4>1 DEF IInv, NoDeletedTwice
    <3> QED  BY <3>1, <3>2
  <2>4. ASSUME stsLog \in Seq(Uid \cup {Nil}), owner # Foreign
        PROVE  stsLog' \in Seq(Uid \cup {Nil})
    BY <2>1, <2>4, LogGrows
  <2> QED  BY <1>1, <2>2, <2>3, <2>4 DEF statefulset
<1> QED  BY <1>2, <1>3

LEMMA SetDatastoreOK ==
    ASSUME IInv, NEW S, Uid \cup {Nil} \subseteq S, NEW uid \in S, SetDatastore(uid)
    PROVE  /\ dsLog' \in Seq(S) /\ dsLog' # << >>
           /\ Len(dsLog') > 1
           /\ stsLog' = stsLog
<1>1. dsLog \in Seq(S) /\ dsLog # << >> /\ Len(dsLog) \in Nat \ {0}
  <2>1. dsLog \in Seq(Uid \cup {Nil}) /\ dsLog # << >>
    BY DEF IInv, TypeOK
  <2>2. dsLog \in Seq(S)
    BY <2>1, SeqMonotonic
  <2> QED  BY <2>1, <2>2, LogEnds
<1>2. dsLog' = Append(dsLog, uid) /\ stsLog' = stsLog
  BY DEF SetDatastore
<1> QED  BY <1>1, <1>2, LogGrows

-----------------------------------------------------------------------------
(* The steps. *)

USE DEF datastore, statefulset, Get, Watch, List

\* The step leaves what the invariant says of the StatefulSet's side alone.
LEMMA SameStatefulsets ==
    ASSUME IInv, UNCHANGED <<stsLog, stsNotes, born, budget>>
    PROVE  /\ NoDeletedTwice' /\ NoForeigner'
           /\ Undisturbed' = Undisturbed
BY DEF IInv, NoDeletedTwice, NoForeigner, Undisturbed, Uid

LEMMA SameKinds ==
    ASSUME born' = born
    PROVE  Uid' = Uid /\ Job' = Job
BY DEF Uid, Job, Idle

LEMMA DeliverDatastoreStep ==
    ASSUME IInv, DeliverDatastore
    PROVE  IInv'
<1> DEFINE S == Uid \cup {Nil}
<1>1. /\ dsLog \in Seq(S) /\ dsLog # << >> /\ Len(dsLog) > 1
      /\ dsNotes \in Seq({"change", "resync"})
      /\ UNCHANGED <<stsLog, born, stsNotes, senders, job, budget>>
  BY DEF IInv, TypeOK, DeliverDatastore
<1>2. PICK rest \in {Tail(dsLog), <<datastore>>} :
         /\ dsLog' = rest
         /\ dsNotes' = IF Head(rest) = Nil THEN dsNotes
                       ELSE Append(dsNotes, "change")
  BY DEF DeliverDatastore
<1>3. /\ dsLog' \in Seq(S) /\ dsLog' # << >> /\ Last(dsLog') = Last(dsLog)
  <2>1. CASE rest = Tail(dsLog)
    BY <1>1, <1>2, <2>1, LogShrinks
  <2>2. CASE rest = <<datastore>>
    <3>1. Last(dsLog) \in S
      BY <1>1, LogEnds
    <3> QED  BY <1>2, <2>2, <3>1, OneVersion
  <2> QED  BY <2>1, <2>2
<1>4. /\ Len(dsLog') = 1 \/ Len(dsLog') > 1
      /\ Len(dsLog') = 1 => Head(rest) = Last(dsLog)
  BY <1>2, <1>3, LogEnds
<1>5. /\ dsNotes' \in Seq({"change", "resync"})
      /\ Head(rest) # Nil => dsNotes' # << >>
  BY <1>1, <1>2, LogGrows
<1>6. TypeOK'
  BY <1>1, <1>3, <1>5, SameKinds DEF IInv, TypeOK
<1>7. ASSUME Missing'  PROVE Due'
  <2>1. Last(dsLog) # Nil
    BY <1>3, <1>7 DEF Missing
  <2> QED  BY <1>4, <1>5, <2>1 DEF Due
<1> QED  BY <1>1, <1>6, <1>7, SameStatefulsets DEF IInv

LEMMA DatastoreEventSteps ==
    ASSUME IInv, ResyncDatastore \/ enqueueDatastore
    PROVE  IInv'
<1>1. /\ dsNotes \in Seq({"change", "resync"}) /\ senders \in Seq({"ds", "sts"})
      /\ UNCHANGED <<dsLog, stsLog, born, stsNotes, job, budget>>
  BY DEF IInv, TypeOK, ResyncDatastore, enqueueDatastore, server
<1>2. CASE ResyncDatastore
  <2>1. dsNotes' \in Seq({"change", "resync"}) /\ dsNotes' # << >>
    BY <1>1, <1>2, LogGrows DEF ResyncDatastore
  <2>2. TypeOK'
    BY <1>1, <1>2, <2>1, SameKinds DEF IInv, TypeOK, ResyncDatastore
  <2> QED  BY <1>1, <2>1, <2>2, SameStatefulsets DEF IInv, Due
<1>3. CASE enqueueDatastore
  <2>1. dsNotes' \in Seq({"change", "resync"})
    BY <1>1, <1>3, HeadTailProperties DEF enqueueDatastore
  <2>2. senders' \in Seq({"ds", "sts"}) /\ senders' # << >>
    BY <1>1, <1>3, LogGrows DEF enqueueDatastore
  <2>3. TypeOK'
    BY <1>1, <2>1, <2>2, SameKinds DEF IInv, TypeOK
  <2> QED  BY <1>1, <2>2, <2>3, SameStatefulsets DEF IInv, Due
<1> QED  BY <1>2, <1>3

LEMMA NoticeOK ==
    ASSUME NEW S, Nil \notin S, NEW old \in S \cup {Nil}, NEW new \in S \cup {Nil}
    PROVE  /\ Notice(old, new) \in Seq(S)
           /\ old # Nil \/ new # Nil => Notice(old, new) # << >>
BY EmptySeq, OneVersion DEF Notice

LEMMA StatefulsetTypes ==
    ASSUME IInv
    PROVE  /\ Nil \notin Uid \cup {Foreign} /\ Foreign \notin Uid
           /\ stsLog \in Seq((Uid \cup {Foreign}) \cup {Nil})
           /\ Len(stsLog) \in Nat \ {0}
           /\ Undisturbed => stsLog \in Seq(Uid \cup {Nil})
<1>1. Uid \subseteq Nat
  BY DEF IInv, TypeOK, Uid
<1>2. (Uid \cup {Foreign}) \cup {Nil} = Uid \cup {Nil, Foreign}
  OBVIOUS
<1> QED  BY <1>1, <1>2, UidsAssumption, LogEnds DEF IInv, TypeOK, NoForeigner

\* What the handlers are told of any two versions, and of adjacent ones.
LEMMA NotesOK ==
    ASSUME IInv, NEW old \in DOMAIN stsLog, NEW new \in DOMAIN stsLog,
           stsNotes' = stsNotes \o Notice(stsLog[old], stsLog[new]), born' = born
    PROVE  /\ stsNotes' \in Seq(Uid \cup {Foreign})'
           /\ Undisturbed => stsNotes' \in Seq(Uid)'
           /\ new = old + 1 => stsNotes' # << >>
<1> DEFINE told == Notice(stsLog[old], stsLog[new])
<1>1. stsNotes \in Seq(Uid \cup {Foreign}) /\ Uid' = Uid
  BY DEF IInv, TypeOK, Uid
<1>2. /\ stsLog[old] \in (Uid \cup {Foreign}) \cup {Nil}
      /\ stsLog[new] \in (Uid \cup {Foreign}) \cup {Nil}
  BY StatefulsetTypes, ElementOfSeq
<1>3. told \in Seq(Uid \cup {Foreign})
  BY <1>2, NoticeOK, StatefulsetTypes
<1>4. ASSUME new = old + 1  PROVE told # << >>
  <2>1. old \in 1 .. Len(stsLog) - 1
    BY <1>4, StatefulsetTypes, LenProperties
  <2>2. stsLog[old] # Nil \/ stsLog[new] # Nil
    BY <1>4, <2>1 DEF IInv, NoDeletedTwice
  <2> QED  BY <1>2, <2>2, NoticeOK, StatefulsetTypes
<1>5. ASSUME Undisturbed  PROVE stsNotes \in Seq(Uid) /\ told \in Seq(Uid)
  <2>1. stsLog[old] \in Uid \cup {Nil} /\ stsLog[new] \in Uid \cup {Nil}
    BY <1>5, StatefulsetTypes, ElementOfSeq
  <2> QED  BY <1>5, <2>1, NoticeOK, StatefulsetTypes DEF IInv, NoForeigner
<1> HIDE DEF told
<1>6. stsNotes' = stsNotes \o told
  BY DEF told
<1>7. stsNotes' \in Seq(Uid \cup {Foreign})
  BY <1>1, <1>3, <1>6, ConcatProperties
<1>8. Undisturbed => stsNotes' \in Seq(Uid)
  BY <1>5, <1>6, ConcatProperties
<1>9. new = old + 1 => stsNotes' # << >>
  <2> SUFFICES ASSUME new = old + 1  PROVE stsNotes' # << >>
    OBVIOUS
  <2>1. Len(told) \in Nat \ {0} /\ Len(stsNotes) \in Nat
    BY <1>1, <1>3, <1>4, LogEnds, LenProperties
  <2>2. Len(stsNotes') = Len(stsNotes) + Len(told)
    BY <1>1, <1>3, <1>6, ConcatProperties
  <2> QED  BY <2>1, <2>2, EmptySeq
<1> QED  BY <1>1, <1>7, <1>8, <1>9

LEMMA DeliverStatefulsetStep ==
    ASSUME IInv, DeliverStatefulset
    PROVE  IInv'
<1> DEFINE S == Uid \cup {Nil, Foreign}
<1>1. /\ stsLog \in Seq(S) /\ Len(stsLog) > 1 /\ Len(stsLog) \in Nat
      /\ stsLog' = Tail(stsLog)
      /\ stsNotes' = stsNotes \o Notice(stsLog[1], stsLog[2])
      /\ UNCHANGED <<dsLog, born, dsNotes, senders, job, budget>>
  BY LenProperties DEF IInv, TypeOK, DeliverStatefulset
<1>2. /\ stsLog' \in Seq(S) /\ stsLog' # << >>
      /\ Len(stsLog') = Len(stsLog) - 1
      /\ \A k \in 1 .. Len(stsLog') : stsLog'[k] = stsLog[k + 1]
  BY <1>1, LogShrinks
<1>3. /\ stsNotes' \in Seq(Uid \cup {Foreign})
      /\ Undisturbed => stsNotes' \in Seq(Uid)
      /\ stsNotes' # << >>
  <2>1. 1 \in DOMAIN stsLog /\ 2 \in DOMAIN stsLog /\ 2 = 1 + 1
    BY <1>1, LenProperties
  <2>2. Uid' = Uid
    BY <1>1, SameKinds
  <2> QED  BY <1>1, <2>1, <2>2, NotesOK
<1>4. TypeOK'
  BY <1>1, <1>2, <1>3, SameKinds DEF IInv, TypeOK
<1>5. NoDeletedTwice'
  <2> SUFFICES ASSUME NEW k \in 1 .. Len(stsLog') - 1, stsLog'[k] = Nil
               PROVE  stsLog'[k + 1] # Nil
    BY DEF NoDeletedTwice
  <2>1. /\ k + 1 \in 1 .. Len(stsLog) - 1
        /\ stsLog'[k] = stsLog[k + 1] /\ stsLog'[k + 1] = stsLog[k + 1 + 1]
    BY <1>1, <1>2
  <2> QED  BY <2>1 DEF IInv, NoDeletedTwice
<1>6. NoForeigner'
  <2>1. ASSUME Undisturbed  PROVE stsLog' \in Seq(Uid \cup {Nil})
    BY <1>1, <2>1, LogShrinks, StatefulsetTypes
  <2> QED  BY <1>1, <1>3, <2>1, SameKinds DEF NoForeigner, Undisturbed
<1>7. Due'
  BY <1>3 DEF Due
<1> QED  BY <1>1, <1>4, <1>5, <1>6, <1>7 DEF IInv

LEMMA RelistStatefulsetStep ==
    ASSUME IInv, RelistStatefulset
    PROVE  IInv'
<1>1. /\ stsLog \in Seq(Uid \cup {Nil, Foreign}) /\ stsLog # << >>
      /\ stsLog' = <<statefulset>>
      /\ stsNotes' = stsNotes \o Notice(Head(stsLog), statefulset)
      /\ UNCHANGED <<dsLog, born, dsNotes, senders, job>>
  BY DEF IInv, TypeOK, RelistStatefulset
<1>2. /\ budget' \in [{"incidents", "faults"} -> Nat]
      /\ budget'.faults <= MaxFaults /\ ~Undisturbed'
  BY SpendOK DEF RelistStatefulset
<1>3. /\ statefulset \in Uid \cup {Nil, Foreign}
      /\ 1 \in DOMAIN stsLog /\ Len(stsLog) \in DOMAIN stsLog
      /\ Head(stsLog) = stsLog[1] /\ statefulset = stsLog[Len(stsLog)]
  BY <1>1, LogEnds, LenProperties
<1>4. stsNotes' \in Seq(Uid \cup {Foreign})
  <2>1. stsNotes' = stsNotes \o Notice(stsLog[1], stsLog[Len(stsLog)])
    BY <1>1, <1>3
  <2>2. Uid' = Uid
    BY <1>1, SameKinds
  <2> QED  BY <1>1, <1>3, <2>1, <2>2, NotesOK
<1>5. /\ stsLog' \in Seq(Uid \cup {Nil, Foreign}) /\ stsLog' # << >>
      /\ Len(stsLog') = 1
  BY <1>1, <1>3, OneVersion
<1>6. TypeOK'
  BY <1>1, <1>2, <1>4, <1>5, SameKinds DEF IInv, TypeOK
<1>7. NoDeletedTwice'
  BY <1>5 DEF NoDeletedTwice
<1> QED  BY <1>2, <1>6, <1>7 DEF IInv, NoForeigner, Missing

LEMMA HandleObjectStep ==
    ASSUME IInv, handleObject
    PROVE  IInv'
<1>1. /\ stsNotes \in Seq(Uid \cup {Foreign}) /\ stsNotes # << >>
      /\ senders \in Seq({"ds", "sts"})
      /\ stsNotes' = Tail(stsNotes)
      /\ senders' = IF OwnerFound(Head(stsNotes)) THEN Append(senders, "sts")
                    ELSE senders
      /\ UNCHANGED <<dsLog, stsLog, born, dsNotes, job, budget>>
  BY DEF IInv, TypeOK, handleObject, server
<1>2. stsNotes' \in Seq(Uid \cup {Foreign})
  BY <1>1, HeadTailProperties
<1>3. /\ senders' \in Seq({"ds", "sts"})
      /\ OwnerFound(Head(stsNotes)) => senders' # << >>
  BY <1>1, LogGrows
<1>4. TypeOK'
  BY <1>1, <1>2, <1>3, SameKinds DEF IInv, TypeOK
<1>5. NoDeletedTwice' /\ Undisturbed' = Undisturbed
  BY <1>1 DEF IInv, NoDeletedTwice, Undisturbed
<1>6. ASSUME Undisturbed  PROVE stsNotes \in Seq(Uid) /\ Head(stsNotes) \in Uid
  BY <1>1, <1>6, LogEnds DEF IInv, NoForeigner
<1>7. NoForeigner'
  <2>1. Undisturbed => stsNotes' \in Seq(Uid)
    BY <1>1, <1>6, HeadTailProperties
  <2> QED  BY <1>1, <1>5, <2>1, SameKinds, StatefulsetTypes DEF NoForeigner
<1>8. ASSUME Missing'  PROVE Due'
  <2>1. CASE OwnerFound(Head(stsNotes))
    BY <1>3, <2>1 DEF Due
  <2>2. CASE ~OwnerFound(Head(stsNotes))
    <3>1. Undisturbed /\ Last(dsLog) # Nil
      BY <1>1, <1>5, <1>8 DEF Missing
    <3>2. Head(dsLog) = Nil
      BY <1>6, <2>2, <3>1 DEF OwnerFound
    <3>3. dsLog \in Seq(Uid \cup {Nil}) /\ dsLog # << >>
      BY DEF IInv, TypeOK
    <3>4. Len(dsLog) > 1
      BY <3>1, <3>2, <3>3, LogEnds
    <3> QED  BY <1>1, <3>4 DEF Due
  <2> QED  BY <2>1, <2>2
<1> QED  BY <1>1, <1>4, <1>5, <1>7, <1>8 DEF IInv

\* The steps of a worker keep the jobs typed.
LEMMA JobsTyped ==
    ASSUME IInv, NEW w \in Workers, born' = born,
           \/ job' = [job EXCEPT ![w] = Idle]
           \/ job[w].pc = "create" /\ job' = [job EXCEPT ![w].pc = "owned"]
    PROVE  job' \in [Workers -> Job']
<1>1. job[w] \in Job /\ Idle \in Job /\ Job' = Job /\ job \in [Workers -> Job]
  BY SameKinds DEF IInv, TypeOK, Job
<1>2. CASE job' = [job EXCEPT ![w] = Idle]
  BY <1>1, <1>2
<1>3. CASE job[w].pc = "create" /\ job' = [job EXCEPT ![w].pc = "owned"]
  <2>1. [job[w] EXCEPT !.pc = "owned"] \in Job
    BY <1>1, <1>3 DEF Job, Idle
  <2> QED  BY <1>1, <1>3, <2>1
<1> QED  BY <1>2, <1>3

LEMMA JobsUid ==
    ASSUME IInv, NEW w \in Workers, job[w].pc \in {"create", "owned"}
    PROVE  job[w].uid \in Uid /\ Nil \notin Uid /\ Foreign \notin Uid
BY StatefulsetTypes DEF IInv, TypeOK, Job, Idle

LEMMA StartSyncStep ==
    ASSUME IInv, NEW w \in Workers, StartSync(w)
    PROVE  IInv'
<1>1. /\ senders \in Seq({"ds", "sts"}) /\ senders # << >>
      /\ senders' = Tail(senders)
      /\ UNCHANGED <<dsLog, stsLog, born, dsNotes, stsNotes, budget>>
  BY DEF IInv, TypeOK, StartSync, server
<1>2. PICK j \in Decide(Head(dsLog), Head(stsLog)) : job' = [job EXCEPT ![w] = j]
  BY DEF StartSync
<1>3. dsLog \in Seq(Uid \cup {Nil}) /\ dsLog # << >>
  BY DEF IInv, TypeOK
<1>4. stsLog \in Seq(Uid \cup {Nil, Foreign}) /\ stsLog # << >>
  BY DEF IInv, TypeOK
<1>5. job' \in [Workers -> Job'] /\ job'[w] = j
  <2>1. Head(dsLog) \in Uid \cup {Nil}
    BY <1>3, LogEnds
  <2>2. j \in Job
    BY <2>1 DEF Decide, Job, JobAt
  <2> QED  BY <1>1, <1>2, <2>2, SameKinds DEF IInv, TypeOK
<1>6. senders' \in Seq({"ds", "sts"})
  BY <1>1, HeadTailProperties
<1>7. TypeOK'
  BY <1>1, <1>5, <1>6, SameKinds DEF IInv, TypeOK
<1>8. ASSUME Missing'  PROVE Due'
  <2>1. Last(dsLog) # Nil /\ Last(stsLog) = Nil
    BY <1>1, <1>8 DEF Missing
  <2>2. CASE Len(dsLog) > 1 \/ Len(stsLog) > 1
    BY <1>1, <2>2 DEF Due
  <2>3. CASE Len(dsLog) = 1 /\ Len(stsLog) = 1
    <3>1. Head(dsLog) # Nil /\ Head(stsLog) = Nil
      BY <1>3, <1>4, <2>1, <2>3, LogEnds
    <3>2. job'[w].pc = "create"
      BY <1>2, <1>5, <3>1 DEF Decide, JobAt
    <3> QED  BY <3>2 DEF Due
  <2>4. /\ Len(dsLog) = 1 \/ Len(dsLog) > 1
        /\ Len(stsLog) = 1 \/ Len(stsLog) > 1
    BY <1>3, <1>4, LogEnds
  <2> QED  BY <2>2, <2>3, <2>4
<1> QED  BY <1>1, <1>7, <1>8, SameStatefulsets DEF IInv

\* CreateStatefulset and updateStatefulset leave the server's StatefulSet to the
\* DataStore of the copy.
LEMMA WriteStep ==
    ASSUME IInv, NEW w \in Workers, CreateStatefulset(w) \/ updateStatefulset(w)
    PROVE  IInv'
<1>1. /\ SetStatefulset(job[w].uid) /\ job[w].pc \in {"create", "owned"}
      /\ dsLog' = dsLog
      /\ UNCHANGED <<born, dsNotes, stsNotes, senders, budget>>
  BY DEF CreateStatefulset, updateStatefulset, newStatefulset, events, SetStatefulset
<1>2. job[w].uid \in Uid /\ Nil \notin Uid /\ Foreign \notin Uid
  BY <1>1, JobsUid
<1>3. /\ stsLog' \in Seq(Uid \cup {Nil, Foreign}) /\ stsLog' # << >>
      /\ statefulset' # Nil /\ NoDeletedTwice'
      /\ stsLog \in Seq(Uid \cup {Nil}) => stsLog' \in Seq(Uid \cup {Nil})
  BY <1>1, <1>2, SetStatefulsetOK
<1>4. job' \in [Workers -> Job']
  BY <1>1, JobsTyped DEF CreateStatefulset, updateStatefulset
<1>5. TypeOK'
  BY <1>1, <1>3, <1>4, SameKinds DEF IInv, TypeOK
<1>6. NoForeigner'
  BY <1>1, <1>3, SameKinds DEF IInv, NoForeigner, Undisturbed
<1> QED  BY <1>1, <1>3, <1>5, <1>6 DEF IInv, Missing

LEMMA LeaveStep ==
    ASSUME IInv, NEW w \in Workers, AlreadyExists(w) \/ EndSync(w)
    PROVE  IInv'
<1>1. /\ job' = [job EXCEPT ![w] = Idle]
      /\ UNCHANGED <<dsLog, stsLog, born, dsNotes, stsNotes, senders, budget>>
  BY DEF AlreadyExists, EndSync, server, events
<1>2. TypeOK'
  BY <1>1, JobsTyped, SameKinds DEF IInv, TypeOK
<1>3. ASSUME Missing'  PROVE Due'
  <2>1. Missing /\ Due
    BY <1>1, <1>3 DEF IInv, Missing, Undisturbed
  <2>2. job[w].pc = "owned"
    BY <2>1 DEF AlreadyExists, EndSync, Missing
  <2>3. ASSUME NEW v \in Workers, job[v].pc = "create"  PROVE job'[v].pc = "create"
    BY <1>1, <2>2, <2>3 DEF IInv, TypeOK
  <2> QED  BY <1>1, <2>1, <2>3 DEF Due
<1> QED  BY <1>1, <1>2, <1>3, SameStatefulsets DEF IInv

LEMMA CreateFailsStep ==
    ASSUME IInv, NEW w \in Workers, CreateFails(w)
    PROVE  IInv'
<1>1. /\ job' = [job EXCEPT ![w] = Idle]
      /\ UNCHANGED <<dsLog, stsLog, born, dsNotes, stsNotes, senders>>
      /\ budget' \in [{"incidents", "faults"} -> Nat]
      /\ budget'.faults <= MaxFaults /\ ~Undisturbed'
  BY SpendOK DEF CreateFails, server, events
<1>2. TypeOK'
  BY <1>1, JobsTyped, SameKinds DEF IInv, TypeOK
<1> QED  BY <1>1, <1>2 DEF IInv, NoForeigner, NoDeletedTwice, Missing

LEMMA CrashStep ==
    ASSUME IInv, Crash
    PROVE  IInv'
<1>1. /\ dsLog \in Seq(Uid \cup {Nil}) /\ dsLog # << >>
      /\ stsLog \in Seq(Uid \cup {Nil, Foreign}) /\ stsLog # << >>
      /\ dsLog' = <<datastore>> /\ stsLog' = <<statefulset>>
      /\ dsNotes' = IF datastore = Nil THEN << >> ELSE <<"change">>
      /\ stsNotes' = Notice(Nil, statefulset)
      /\ senders' = << >> /\ job' = [w \in Workers |-> Idle]
      /\ born' = born
  BY DEF IInv, TypeOK, Crash
<1>2. /\ datastore \in Uid \cup {Nil} /\ statefulset \in Uid \cup {Nil, Foreign}
      /\ Undisturbed => statefulset \in Uid \cup {Nil}
  BY <1>1, LogEnds, StatefulsetTypes
<1>3. /\ budget' \in [{"incidents", "faults"} -> Nat]
      /\ budget'.faults <= MaxFaults
      /\ Undisturbed' => Undisturbed
  BY SpendOK DEF Crash
<1>4. /\ dsLog' \in Seq(Uid \cup {Nil}) /\ dsLog' # << >>
      /\ Last(dsLog') = datastore
      /\ stsLog' \in Seq(Uid \cup {Nil, Foreign}) /\ stsLog' # << >>
      /\ Len(stsLog') = 1
      /\ Undisturbed => stsLog' \in Seq(Uid \cup {Nil})
  BY <1>1, <1>2, OneVersion
<1>5. /\ dsNotes' \in Seq({"change", "resync"})
      /\ datastore # Nil => dsNotes' # << >>
  BY <1>1, EmptySeq, OneVersion
<1>6. /\ stsNotes' \in Seq(Uid \cup {Foreign})
      /\ Undisturbed => stsNotes' \in Seq(Uid)
  <2>1. statefulset \in (Uid \cup {Foreign}) \cup {Nil}
    BY <1>2
  <2> QED  BY <1>1, <1>2, <2>1, NoticeOK, StatefulsetTypes
<1>7. senders' \in Seq({"ds", "sts"})
  BY <1>1, EmptySeq
<1>8. job' \in [Workers -> Job']
  BY <1>1, SameKinds DEF Job
<1>9. TypeOK'
  BY <1>1, <1>3, <1>4, <1>5, <1>6, <1>7, <1>8, SameKinds DEF IInv, TypeOK
<1>10. NoDeletedTwice'
  BY <1>4 DEF NoDeletedTwice
<1>11. NoForeigner'
  BY <1>1, <1>3, <1>4, <1>6, SameKinds DEF NoForeigner
<1>12. ASSUME Missing'  PROVE Due'
  BY <1>4, <1>5, <1>12 DEF Missing, Due
<1> QED  BY <1>3, <1>9, <1>10, <1>11, <1>12 DEF IInv

LEMMA DatastoreSteps ==
    ASSUME IInv, CreateDatastore \/ DeleteDatastore
    PROVE  IInv'
<1>1. /\ UNCHANGED <<stsLog, dsNotes, stsNotes, senders, job, budget>>
      /\ born' \in 0 .. MaxUids /\ Uid \subseteq Uid'
      /\ \E uid \in Uid' \cup {Nil} : SetDatastore(uid)
  <2>1. born \in 0 .. MaxUids
    BY DEF IInv, TypeOK
  <2>2. CASE CreateDatastore
    <3>1. /\ born' = born + 1 /\ born + 1 \in 1 .. MaxUids
          /\ SetDatastore(born + 1)
          /\ UNCHANGED <<stsLog, dsNotes, stsNotes, senders, job, budget>>
      BY <2>1, <2>2, UidsAssumption DEF CreateDatastore, SetDatastore, events
    <3>2. Uid \subseteq Uid' /\ born + 1 \in Uid'
      BY <2>1, <3>1, UidsAssumption DEF Uid
    <3> QED  BY <3>1, <3>2
  <2>3. CASE DeleteDatastore
    <3>1. /\ born' = born /\ SetDatastore(Nil)
          /\ UNCHANGED <<stsLog, dsNotes, stsNotes, senders, job, budget>>
      BY <2>3 DEF DeleteDatastore, SetDatastore, events
    <3> QED  BY <2>1, <3>1, SameKinds
  <2> QED  BY <2>2, <2>3
<1>2. dsLog' \in Seq(Uid' \cup {Nil}) /\ dsLog' # << >> /\ Len(dsLog') > 1
  <2>1. PICK uid \in Uid' \cup {Nil} : SetDatastore(uid)
    BY <1>1
  <2> QED  BY <1>1, <2>1, SetDatastoreOK
<1>3. /\ stsLog' \in Seq(Uid' \cup {Nil, Foreign}) /\ stsLog' # << >>
      /\ stsNotes' \in Seq(Uid' \cup {Foreign})
  <2>1. stsLog \in Seq(Uid \cup {Nil, Foreign}) /\ stsLog # << >>
        /\ stsNotes \in Seq(Uid \cup {Foreign})
    BY DEF IInv, TypeOK
  <2>2. stsLog \in Seq(Uid' \cup {Nil, Foreign})
    BY <1>1, <2>1, SeqMonotonic
  <2>3. stsNotes \in Seq(Uid' \cup {Foreign})
    BY <1>1, <2>1, SeqMonotonic
  <2> QED  BY <1>1, <2>1, <2>2, <2>3
<1>4. job' \in [Workers -> Job']
  <2>1. Job \subseteq Job'
    BY <1>1 DEF Job, Idle
  <2> QED  BY <1>1, <2>1 DEF IInv, TypeOK
<1>5. TypeOK'
  BY <1>1, <1>2, <1>3, <1>4 DEF IInv, TypeOK
<1>6. NoDeletedTwice' /\ Undisturbed' = Undisturbed
  BY <1>1 DEF IInv, NoDeletedTwice, Undisturbed
<1>7. NoForeigner'
  <2>1. ASSUME Undisturbed
        PROVE  stsLog' \in Seq(Uid' \cup {Nil}) /\ stsNotes' \in Seq(Uid')
    <3>1. stsLog \in Seq(Uid \cup {Nil}) /\ stsNotes \in Seq(Uid)
      BY <2>1 DEF IInv, NoForeigner
    <3>2. stsLog \in Seq(Uid' \cup {Nil})
      BY <1>1, <3>1, SeqMonotonic
    <3>3. stsNotes \in Seq(Uid')
      BY <1>1, <3>1, SeqMonotonic
    <3> QED  BY <1>1, <3>2, <3>3
  <2> QED  BY <1>6, <2>1 DEF NoForeigner
<1>8. Due'
  BY <1>2 DEF Due
<1> QED  BY <1>1, <1>5, <1>6, <1>7, <1>8 DEF IInv

\* CreateForeigner, DeleteStatefulset and CollectGarbage.
LEMMA OthersSteps ==
    ASSUME IInv, CreateForeigner \/ DeleteStatefulset \/ CollectGarbage
    PROVE  IInv'
<1>1. PICK owner \in {Nil, Foreign} :
        /\ SetStatefulset(owner)
        /\ owner = Nil => statefulset # Nil
        /\ owner = Foreign => Spend("faults")
        /\ budget' = budget \/ \E kind \in {"incidents", "faults"} : Spend(kind)
        /\ UNCHANGED <<dsLog, dsNotes, stsNotes, senders, job, born>>
  <2>1. CASE CreateForeigner
    BY <2>1, UidsAssumption DEF CreateForeigner, SetStatefulset, events
  <2>2. CASE DeleteStatefulset
    BY <2>2, UidsAssumption DEF DeleteStatefulset, SetStatefulset, events
  <2>3. CASE CollectGarbage
    BY <2>3, UidsAssumption, StatefulsetTypes DEF CollectGarbage, SetStatefulset, events
  <2> QED  BY <2>1, <2>2, <2>3
<1>2. /\ stsLog' \in Seq(Uid \cup {Nil, Foreign}) /\ stsLog' # << >>
      /\ NoDeletedTwice'
      /\ owner = Nil => Len(stsLog') > 1
      /\ /\ stsLog \in Seq(Uid \cup {Nil})
         /\ owner # Foreign
         => stsLog' \in Seq(Uid \cup {Nil})
  BY <1>1, SetStatefulsetOK
<1>3. /\ budget' \in [{"incidents", "faults"} -> Nat]
      /\ budget'.faults <= MaxFaults
      /\ Undisturbed' => Undisturbed
      /\ owner = Foreign => ~Undisturbed'
  <2>1. CASE budget' = budget
    <3>1. owner # Foreign
      <4> SUFFICES ASSUME owner = Foreign  PROVE FALSE
        OBVIOUS
      <4> QED  BY <1>1, <2>1, SpendOK DEF Spend, IInv, TypeOK
    <3> QED  BY <2>1, <3>1 DEF IInv, TypeOK, Undisturbed
  <2>2. CASE \E kind \in {"incidents", "faults"} : Spend(kind)
    BY <1>1, <2>2, SpendOK
  <2> QED  BY <1>1, <2>1, <2>2
<1>4. TypeOK'
  BY <1>1, <1>2, <1>3, SameKinds DEF IInv, TypeOK
<1>5. NoForeigner'
  BY <1>1, <1>2, <1>3, SameKinds DEF IInv, NoForeigner
<1>6. ASSUME Missing'  PROVE Due'
  BY <1>1, <1>2, <1>3, <1>6, UidsAssumption DEF Missing, Due
<1> QED  BY <1>2, <1>3, <1>4, <1>5, <1>6 DEF IInv

LEMMA IInvInductive == IInv /\ [Next]_vars => IInv'
<1> SUFFICES ASSUME IInv, [Next]_vars  PROVE IInv'
  OBVIOUS
<1>1. CASE \E w \in Workers : Worker(w) \/ CreateFails(w)
  BY <1>1, StartSyncStep, WriteStep, LeaveStep, CreateFailsStep DEF Worker
<1>2. CASE Informers
  BY <1>2, DeliverDatastoreStep, DeliverStatefulsetStep, RelistStatefulsetStep,
     DatastoreEventSteps, HandleObjectStep DEF Informers
<1>3. CASE Users
  BY <1>3, DatastoreSteps, OthersSteps DEF Users
<1>4. CASE CollectGarbage
  BY <1>4, OthersSteps
<1>5. CASE Crash
  BY <1>5, CrashStep
<1>6. CASE UNCHANGED vars
  <2>1. UNCHANGED <<dsLog, stsLog, dsNotes, stsNotes, senders, job, born, budget>>
    BY <1>6 DEF vars
  <2> QED
    BY <2>1, SameKinds, SameStatefulsets DEF IInv, TypeOK, Missing, Due
<1> QED  BY <1>1, <1>2, <1>3, <1>4, <1>5, <1>6 DEF Next

\* The invariant holds in every state of every behaviour.
LEMMA IInvHolds == Spec => []IInv
BY IInvInitially, IInvInductive, PTL DEF Spec

\* Every variable keeps its kind: a StatefulSet's controller is a DataStore that
\* was there once or somebody else, and a job is one for such a DataStore.
THEOREM TypeCorrect == Spec => []TypeOK
<1>1. IInv => TypeOK
  BY DEF IInv
<1> QED  BY <1>1, IInvHolds, PTL

\* syncHandler never puts an item back, and two workers, two informers, crashes
\* and users who delete and create again may interleave as they like: when all
\* is handled, no DataStore is left without its StatefulSet.
THEOREM WakeupsKept == Spec => []NoLostWakeup
<1>1. IInv => NoLostWakeup
  <2> SUFFICES ASSUME IInv, Undisturbed, Quiet, datastore # Nil, statefulset = Nil
               PROVE  FALSE
    BY DEF NoLostWakeup
  <2>1. Due
    BY DEF IInv, Missing
  <2> QED  BY <2>1 DEF Quiet, Due
<1> QED  BY <1>1, IInvHolds, PTL

=============================================================================
