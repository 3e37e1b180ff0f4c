----------------------------- MODULE QueueProofs -----------------------------
(***************************************************************************)
(* Proofs about the two queues of src/utility.  BlockingQueue, for every   *)
(* set of threads, every capacity and every quota; then SpillQueue, for    *)
(* calls by any threads in any order and for the scan worker of            *)
(* ScanOverSpill: for all settings and any number of items and errors,     *)
(* what is pushed is popped or held, once, and an error with one file      *)
(* leaves the others alone.                                                *)
(***************************************************************************)
EXTENDS BlockingQueue, ScanOverSpill, SequenceTheorems, FiniteSetTheorems, TLAPS

Threads == Producers \cup Consumers

(* A producer stops exactly when it has made all its pushes; without this  *)
(* TypeOK is not inductive, since an extra push would overrun the quota.   *)
QuotaKept == \A p \in Producers : (pc[p] = "done") <=> (sent[p] = Quota)

TypeInv == TypeOK /\ QuotaKept

(* The critical sections and wakeups, as the case split of the proofs      *)
(* below: push waits, push appends, push is refused, pop takes an item,    *)
(* pop ends, pop waits, spurious wakeup, close.                            *)
Active(t) == pc[t] \in {"ready", "woken"}
PushWaits(p)   == /\ Active(p) /\ Len(queue) >= Capacity
                  /\ pc[p] = "ready" => ~closed
                  /\ Wait(p)
PushAppends(p) == /\ Active(p) /\ Len(queue) < Capacity
                  /\ pc[p] = "ready" => ~closed
                  /\ Enqueue(p)
PopTakes(c)    == Active(c) /\ queue # <<>> /\ Dequeue(c)
PopEnds(c)     == Active(c) /\ queue = <<>> /\ closed /\ PopNone(c)
PopWaits(c)    == Active(c) /\ queue = <<>> /\ ~closed /\ Wait(c)

LEMMA StepCases ==
    ASSUME TypeOK, [Next]_vars
    PROVE  \/ \E p \in Producers : \/ PushRefused(p)
                                   \/ PushWaits(p)
                                   \/ PushAppends(p)
           \/ \E c \in Consumers : PopTakes(c) \/ PopEnds(c) \/ PopWaits(c)
           \/ \E t \in Threads : SpuriousWakeup(t)
           \/ Close
           \/ UNCHANGED vars
<1>1. Len(queue) \in Nat BY DEF TypeOK
<1>2. ASSUME NEW p \in Producers, PushEnter(p) \/ PushResume(p)
      PROVE  PushWaits(p) \/ PushAppends(p)
  BY <1>1, <1>2, CapacityAssumption
     DEF PushEnter, PushResume, PushWaits, PushAppends, Active
<1>3. ASSUME NEW c \in Consumers, Pop(c)
      PROVE  PopTakes(c) \/ PopEnds(c) \/ PopWaits(c)
  BY <1>3 DEF Pop, PopTakes, PopEnds, PopWaits, Active
<1>4. QED BY <1>2, <1>3 DEF Next, Threads

(* notify_one moves the caller to s and wakes at most one waiting thread.  *)
LEMMA PushNotifies ==
    ASSUME TypeOK, NEW p \in Producers, NEW s \in State,
           NotifyOne(Consumers, p, s)
    PROVE  /\ pc' \in [Threads -> State]
           /\ pc'[p] = s
           /\ \A u \in Producers \ {p} : pc'[u] = pc[u]
           /\ \/ InState(Consumers, "waiting") = {}
                 /\ \A u \in Consumers : pc'[u] = pc[u]
              \/ \E w \in InState(Consumers, "waiting") :
                    /\ pc'[w] = "woken"
                    /\ \A u \in Consumers \ {w} : pc'[u] = pc[u]
BY ThreadsAssumption DEF TypeOK, NotifyOne, InState, State, Threads

LEMMA PopNotifies ==
    ASSUME TypeOK, NEW c \in Consumers, NotifyOne(Producers, c, "ready")
    PROVE  /\ pc' \in [Threads -> State]
           /\ pc'[c] = "ready"
           /\ \A u \in Consumers \ {c} : pc'[u] = pc[u]
           /\ \/ InState(Producers, "waiting") = {}
                 /\ \A u \in Producers : pc'[u] = pc[u]
              \/ \E w \in InState(Producers, "waiting") :
                    /\ pc'[w] = "woken"
                    /\ \A u \in Producers \ {w} : pc'[u] = pc[u]
BY ThreadsAssumption DEF TypeOK, NotifyOne, InState, State, Threads

-----------------------------------------------------------------------------
(* Type correctness.                                                       *)
LEMMA TypeStep == TypeInv /\ [Next]_vars => TypeInv'
<1> SUFFICES ASSUME TypeInv, [Next]_vars PROVE TypeInv'
  OBVIOUS
<1> USE QuotaAssumption DEF TypeInv, TypeOK, QuotaKept, Threads
<1>1. ASSUME NEW p \in Producers, PushRefused(p) PROVE TypeInv'
  BY <1>1 DEF PushRefused, AfterPush, State
<1>2. ASSUME NEW p \in Producers, PushWaits(p) PROVE TypeInv'
  BY <1>2 DEF PushWaits, Active, Wait, State
<1>3. ASSUME NEW p \in Producers, PushAppends(p) PROVE TypeInv'
  <2>1. AfterPush(p) \in State BY DEF AfterPush, State
  <2>2. NotifyOne(Consumers, p, AfterPush(p))
    BY <1>3 DEF PushAppends, Enqueue
  <2>3. /\ pc' \in [Threads -> State]
        /\ pc'[p] = AfterPush(p)
        /\ \A u \in Producers \ {p} : pc'[u] = pc[u]
    BY <2>1, <2>2, PushNotifies
  <2>4. sent[p] < Quota
    BY <1>3 DEF PushAppends, Active
  <2>5. <<p, sent[p] + 1>> \in Items
    BY <2>4 DEF Items
  <2>6. queue' \in Seq(Items) /\ accepted' \in Seq(Items) /\ UNCHANGED <<closed, popped>>
    BY <1>3, <2>5 DEF PushAppends, Enqueue
  <2>7. sent' \in [Producers -> 0 .. Quota] /\ sent' = [sent EXCEPT ![p] = @ + 1]
    BY <1>3, <2>4 DEF PushAppends, Enqueue
  <2>8. QuotaKept'
    BY <2>3, <2>4, <2>7 DEF AfterPush
  <2>9. QED BY <2>3, <2>6, <2>7, <2>8
<1>4. ASSUME NEW c \in Consumers, PopTakes(c) PROVE TypeInv'
  <2>1. NotifyOne(Producers, c, "ready") /\ UNCHANGED <<closed, sent, accepted>>
    BY <1>4 DEF PopTakes, Dequeue
  <2>2. /\ pc' \in [Threads -> State]
        /\ \/ \A u \in Producers : pc'[u] = pc[u]
           \/ \E w \in InState(Producers, "waiting") :
                 /\ pc'[w] = "woken"
                 /\ \A u \in Producers \ {w} : pc'[u] = pc[u]
    BY <2>1, PopNotifies
  <2>3. QuotaKept'
    BY <2>1, <2>2 DEF InState
  <2>4. queue' \in Seq(Items) /\ popped' \in Seq(Items)
    BY <1>4 DEF PopTakes, Dequeue
  <2>5. QED BY <2>1, <2>2, <2>3, <2>4
<1>5. ASSUME NEW c \in Consumers, PopEnds(c) \/ PopWaits(c) PROVE TypeInv'
  BY <1>5, ThreadsAssumption
     DEF PopEnds, PopWaits, PopNone, Wait, State
<1>6. ASSUME NEW t \in Threads, SpuriousWakeup(t) PROVE TypeInv'
  BY <1>6 DEF SpuriousWakeup, State
<1>7. CASE Close
  BY <1>7, ThreadsAssumption DEF Close, InState, State
<1>8. CASE UNCHANGED vars
  BY <1>8 DEF vars
<1>9. QED BY <1>1, <1>2, <1>3, <1>4, <1>5, <1>6, <1>7, <1>8, StepCases

LEMMA TypeInvariance == Spec => []TypeInv
<1>1. Init => TypeInv
  <2> SUFFICES ASSUME Init PROVE TypeInv
    OBVIOUS
  <2>1. pc \in [Producers \cup Consumers -> State]
    BY DEF Init, State
  <2>2. sent \in [Producers -> 0 .. Quota]
    BY QuotaAssumption DEF Init
  <2>3. TypeOK
    <3>1. queue \in Seq(Items) /\ accepted \in Seq(Items) /\ popped \in Seq(Items)
      BY DEF Init
    <3>2. closed \in BOOLEAN
      BY DEF Init
    <3>3. QED BY <2>1, <2>2, <3>1, <3>2 DEF TypeOK
  <2>4. ASSUME NEW p \in Producers
        PROVE  (pc[p] = "done") <=> (sent[p] = Quota)
    <3>1. sent[p] = 0 /\ pc[p] = IF Quota = 0 THEN "done" ELSE "ready"
      BY DEF Init
    <3>2. QED BY <3>1
  <2>5. QED BY <2>3, <2>4 DEF TypeInv, QuotaKept
<1>2. QED BY <1>1, TypeStep, PTL DEF Spec

(* The state of the queue and of its threads is always well formed.        *)
THEOREM TypeCorrect == Spec => []TypeOK
BY TypeInvariance, PTL DEF TypeInv

-----------------------------------------------------------------------------
(* The capacity is never exceeded, whatever wakeups occur.                 *)
THEOREM CapacitySafe == Spec => []CapacityRespected
<1>1. Init => CapacityRespected
  BY CapacityAssumption DEF Init, CapacityRespected
<1>2. TypeInv /\ CapacityRespected /\ [Next]_vars => CapacityRespected'
  <2> SUFFICES ASSUME TypeInv, CapacityRespected, [Next]_vars
               PROVE  CapacityRespected'
    OBVIOUS
  <2> USE CapacityAssumption DEF TypeInv, TypeOK, CapacityRespected
  <2>1. ASSUME NEW p \in Producers, PushAppends(p) PROVE CapacityRespected'
    BY <2>1 DEF PushAppends, Enqueue
  <2>2. ASSUME NEW c \in Consumers, PopTakes(c) PROVE CapacityRespected'
    BY <2>2 DEF PopTakes, Dequeue
  <2>3. CASE UNCHANGED queue
    BY <2>3
  <2>4. QED
    BY <2>1, <2>2, <2>3, StepCases
       DEF PushRefused, PushWaits, PopEnds, PopWaits, PopNone, Wait,
           SpuriousWakeup, Close, vars
<1>3. QED BY <1>1, <1>2, TypeInvariance, PTL DEF Spec

(* pop returns the accepted items in the order push accepted them.         *)
THEOREM FifoSafe == Spec => []FifoDelivery
<1>1. Init => FifoDelivery
  BY DEF Init, FifoDelivery
<1>2. TypeInv /\ FifoDelivery /\ [Next]_vars => FifoDelivery'
  <2> SUFFICES ASSUME TypeInv, FifoDelivery, [Next]_vars PROVE FifoDelivery'
    OBVIOUS
  <2> USE DEF TypeInv, TypeOK, FifoDelivery
  <2>1. ASSUME NEW p \in Producers, PushAppends(p) PROVE FifoDelivery'
    BY <2>1 DEF PushAppends, Enqueue
  <2>2. ASSUME NEW c \in Consumers, PopTakes(c) PROVE FifoDelivery'
    BY <2>2 DEF PopTakes, Dequeue
  <2>3. CASE UNCHANGED <<queue, accepted, popped>>
    BY <2>3
  <2>4. QED
    BY <2>1, <2>2, <2>3, StepCases
       DEF PushRefused, PushWaits, PopEnds, PopWaits, PopNone, Wait,
           SpuriousWakeup, Close, vars
<1>3. QED BY <1>1, <1>2, TypeInvariance, PTL DEF Spec

-----------------------------------------------------------------------------
(* No lost wakeups.  The invariants are inductive given TypeInv: a thread  *)
(* starts to wait only when the queue is empty (full), and every push      *)
(* (pop) moves one waiting thread to "woken".                              *)
LEMMA Finite ==
    ASSUME NEW T, IsFiniteSet(T), NEW s
    PROVE  /\ IsFiniteSet(InState(T, s))
           /\ Cardinality(InState(T, s)) \in Nat
<1>1. InState(T, s) \subseteq T BY DEF InState
<1>2. QED BY <1>1, FS_Subset, FS_CardinalityType

LEMMA Finite2 ==
    ASSUME NEW T, IsFiniteSet(T), NEW s
    PROVE  /\ IsFiniteSet(InState(T, s)')
           /\ Cardinality(InState(T, s)') \in Nat
<1>1. InState(T, s)' \subseteq T BY DEF InState
<1>2. QED BY <1>1, FS_Subset, FS_CardinalityType

THEOREM ConsumersNotifiedSafe == Spec => []ConsumersNotified
<1>1. Init => ConsumersNotified
  BY ThreadsAssumption DEF Init, ConsumersNotified, InState
<1>2. TypeInv /\ ConsumersNotified /\ [Next]_vars => ConsumersNotified'
  <2> SUFFICES ASSUME TypeInv, ConsumersNotified, [Next]_vars,
                      InState(Consumers, "waiting")' # {}
               PROVE  Len(queue') <= Cardinality(InState(Consumers, "woken")')
    BY DEF ConsumersNotified
  <2> DEFINE W  == InState(Consumers, "waiting")
             K  == InState(Consumers, "woken")
             Goal == Len(queue') <= Cardinality(K')
  <2>t. TypeOK BY DEF TypeInv
  <2>l. Len(queue) \in Nat /\ queue \in Seq(Items) BY <2>t DEF TypeOK
  <2>f. IsFiniteSet(K) /\ Cardinality(K) \in Nat
    BY Finite, ThreadsAssumption
  <2>g. IsFiniteSet(K') /\ Cardinality(K') \in Nat
    BY Finite2, ThreadsAssumption
  <2>h. W # {} => Len(queue) <= Cardinality(K) BY DEF ConsumersNotified
  <2>m. ASSUME K \subseteq K' PROVE Cardinality(K) <= Cardinality(K')
    BY <2>m, <2>g, FS_Subset
  <2>1. ASSUME NEW p \in Producers, PushAppends(p) PROVE Goal
    <3>1. AfterPush(p) \in State /\ NotifyOne(Consumers, p, AfterPush(p))
      BY <2>1 DEF PushAppends, Enqueue, AfterPush, State
    <3>2. W # {}
      BY <2>t, <3>1, PushNotifies DEF InState
    <3>3. PICK w \in W : /\ pc'[w] = "woken"
                         /\ \A u \in Consumers \ {w} : pc'[u] = pc[u]
      BY <2>t, <3>1, <3>2, PushNotifies
    <3>4. w \notin K /\ K' = K \cup {w}
      BY <3>3 DEF InState
    <3>5. Cardinality(K') = Cardinality(K) + 1
      BY <3>4, <2>f, FS_AddElement
    <3>6. Len(queue') = Len(queue) + 1
      BY <2>1, <2>l DEF PushAppends, Enqueue
    <3>7. QED BY <3>2, <3>5, <3>6, <2>h, <2>l, <2>f
  <2>2. ASSUME NEW c \in Consumers, PopTakes(c) PROVE Goal
    <3>1. NotifyOne(Producers, c, "ready")
      BY <2>2 DEF PopTakes, Dequeue
    <3>2. pc'[c] = "ready" /\ \A u \in Consumers \ {c} : pc'[u] = pc[u]
      BY <2>t, <3>1, PopNotifies
    <3>3. W # {} /\ K' = K \ {c}
      BY <3>2 DEF InState
    <3>4. Cardinality(K') >= Cardinality(K) - 1
      <4>1. Cardinality(K \ {c}) =
               IF c \in K THEN Cardinality(K) - 1 ELSE Cardinality(K)
        BY <2>f, FS_RemoveElement
      <4>2. QED BY <3>3, <4>1, <2>f
    <3>5. Len(queue') = Len(queue) - 1
      BY <2>2, <2>l DEF PopTakes, Dequeue
    <3>6. QED BY <3>3, <3>4, <3>5, <2>h, <2>l, <2>f, <2>g
  <2>3. ASSUME NEW c \in Consumers, PopEnds(c) \/ PopWaits(c) PROVE Goal
    <3>1. Len(queue') = 0
      BY <2>3 DEF PopEnds, PopWaits, PopNone, Wait
    <3>2. QED BY <3>1, <2>g
  <2>4. ASSUME UNCHANGED queue, K \subseteq K', W' \subseteq W PROVE Goal
    <3>1. Len(queue) <= Cardinality(K) BY <2>4, <2>h
    <3>2. QED BY <3>1, <2>4, <2>m, <2>l, <2>f, <2>g
  <2>5. ASSUME NEW p \in Producers, PushRefused(p) \/ PushWaits(p) PROVE Goal
    BY <2>4, <2>5, ThreadsAssumption, <2>t
       DEF PushRefused, PushWaits, Wait, InState, TypeOK
  <2>6. ASSUME NEW t \in Threads, SpuriousWakeup(t) PROVE Goal
    BY <2>4, <2>6, <2>t DEF SpuriousWakeup, InState, TypeOK, Threads
  <2>7. CASE Close
    BY <2>7, ThreadsAssumption, <2>t DEF Close, InState, TypeOK
  <2>8. CASE UNCHANGED vars
    BY <2>4, <2>8 DEF vars, InState
  <2>9. QED BY <2>t, <2>1, <2>2, <2>3, <2>5, <2>6, <2>7, <2>8, StepCases
<1>3. QED BY <1>1, <1>2, TypeInvariance, PTL DEF Spec

THEOREM ProducersNotifiedSafe == Spec => []ProducersNotified
<1>1. Init => ProducersNotified
  BY ThreadsAssumption DEF Init, ProducersNotified, InState
<1>2. TypeInv /\ ProducersNotified /\ [Next]_vars => ProducersNotified'
  <2> SUFFICES ASSUME TypeInv, ProducersNotified, [Next]_vars,
                      InState(Producers, "waiting")' # {}
               PROVE  Capacity <= Len(queue')
                                  + Cardinality(InState(Producers, "woken")')
    BY DEF ProducersNotified
  <2> DEFINE W  == InState(Producers, "waiting")
             K  == InState(Producers, "woken")
             Goal == Capacity <= Len(queue') + Cardinality(K')
  <2>t. TypeOK BY DEF TypeInv
  <2>l. Len(queue) \in Nat /\ queue \in Seq(Items) /\ Capacity \in Nat
    BY <2>t, CapacityAssumption DEF TypeOK
  <2>f. IsFiniteSet(K) /\ Cardinality(K) \in Nat
    BY Finite, ThreadsAssumption
  <2>g. IsFiniteSet(K') /\ Cardinality(K') \in Nat
    BY Finite2, ThreadsAssumption
  <2>h. W # {} => Capacity <= Len(queue) + Cardinality(K)
    BY DEF ProducersNotified
  <2>m. ASSUME K \subseteq K' PROVE Cardinality(K) <= Cardinality(K')
    BY <2>m, <2>g, FS_Subset
  <2>1. ASSUME NEW p \in Producers, PushAppends(p) PROVE Goal
    <3>1. AfterPush(p) \in State /\ NotifyOne(Consumers, p, AfterPush(p))
      BY <2>1 DEF PushAppends, Enqueue, AfterPush, State
    <3>2. /\ pc'[p] = AfterPush(p)
          /\ \A u \in Producers \ {p} : pc'[u] = pc[u]
      BY <2>t, <3>1, PushNotifies
    <3>3. W # {} /\ K' = K \ {p}
      BY <3>2 DEF InState, AfterPush
    <3>4. Cardinality(K') >= Cardinality(K) - 1
      <4>1. Cardinality(K \ {p}) =
               IF p \in K THEN Cardinality(K) - 1 ELSE Cardinality(K)
        BY <2>f, FS_RemoveElement
      <4>2. QED BY <3>3, <4>1, <2>f
    <3>5. Len(queue') = Len(queue) + 1
      BY <2>1, <2>l DEF PushAppends, Enqueue
    <3>6. QED BY <3>3, <3>4, <3>5, <2>h, <2>l, <2>f, <2>g
  <2>2. ASSUME NEW c \in Consumers, PopTakes(c) PROVE Goal
    <3>1. NotifyOne(Producers, c, "ready")
      BY <2>2 DEF PopTakes, Dequeue
    <3>2. W # {}
      BY <2>t, <3>1, PopNotifies DEF InState
    <3>3. PICK w \in W : /\ pc'[w] = "woken"
                         /\ \A u \in Producers \ {w} : pc'[u] = pc[u]
      BY <2>t, <3>1, <3>2, PopNotifies
    <3>4. w \notin K /\ K' = K \cup {w}
      BY <3>3 DEF InState
    <3>5. Cardinality(K') = Cardinality(K) + 1
      BY <3>4, <2>f, FS_AddElement
    <3>6. Len(queue') = Len(queue) - 1
      BY <2>2, <2>l DEF PopTakes, Dequeue
    <3>7. QED BY <3>2, <3>5, <3>6, <2>h, <2>l, <2>f
  <2>3. ASSUME NEW p \in Producers, PushWaits(p) PROVE Goal
    <3>1. Len(queue') >= Capacity
      BY <2>3 DEF PushWaits, Wait
    <3>2. UNCHANGED queue
      BY <2>3 DEF PushWaits, Wait
    <3>3. QED BY <3>1, <3>2, <2>g, <2>l
  <2>4. ASSUME UNCHANGED queue, K \subseteq K', W' \subseteq W PROVE Goal
    <3>1. Capacity <= Len(queue) + Cardinality(K) BY <2>4, <2>h
    <3>2. QED BY <3>1, <2>4, <2>m, <2>l, <2>f, <2>g
  <2>5. ASSUME NEW p \in Producers, PushRefused(p) PROVE Goal
    BY <2>4, <2>5, <2>t DEF PushRefused, AfterPush, InState, TypeOK
  <2>6. ASSUME NEW c \in Consumers, PopEnds(c) \/ PopWaits(c) PROVE Goal
    BY <2>4, <2>6, ThreadsAssumption, <2>t
       DEF PopEnds, PopWaits, PopNone, Wait, InState, TypeOK
  <2>7. ASSUME NEW t \in Threads, SpuriousWakeup(t) PROVE Goal
    BY <2>4, <2>7, <2>t DEF SpuriousWakeup, InState, TypeOK, Threads
  <2>8. CASE Close
    BY <2>4, <2>8, ThreadsAssumption, <2>t DEF Close, InState, TypeOK
  <2>9. CASE UNCHANGED vars
    BY <2>4, <2>9 DEF vars, InState
  <2>10. QED BY <2>t, <2>1, <2>2, <2>3, <2>5, <2>6, <2>7, <2>8, <2>9, StepCases
<1>3. QED BY <1>1, <1>2, TypeInvariance, PTL DEF Spec

-----------------------------------------------------------------------------
(* The end of the stream.  When no push is under way as close is called,   *)
(* none can append an item behind a consumer's None: later ones are        *)
(* refused.                                                                *)
EndInv == /\ closed => \A p \in Producers : pc[p] \in {"ready", "done"}
          /\ EndIsFinal

LEMMA EndStep ==
    ASSUME QuietClose
    PROVE  TypeInv /\ EndInv /\ [Next]_vars => EndInv'
<1> SUFFICES ASSUME TypeInv, EndInv, [Next]_vars PROVE EndInv'
  OBVIOUS
<1>t. TypeOK BY DEF TypeInv
<1> USE ThreadsAssumption DEF EndInv, EndIsFinal
<1>1. ASSUME NEW p \in Producers, PushRefused(p) PROVE EndInv'
  BY <1>1, <1>t DEF PushRefused, AfterPush, InState, TypeOK
<1>2. ASSUME NEW p \in Producers, PushWaits(p) PROVE EndInv'
  BY <1>2, <1>t DEF PushWaits, Active, Wait, InState, TypeOK
<1>3. ASSUME NEW p \in Producers, PushAppends(p) PROVE EndInv'
  <2>1. ~closed /\ ~closed'
    BY <1>3 DEF PushAppends, Active, Enqueue
  <2>2. AfterPush(p) \in State /\ NotifyOne(Consumers, p, AfterPush(p))
    BY <1>3 DEF PushAppends, Enqueue, AfterPush, State
  <2>3. \A c \in Consumers : pc'[c] = "done" => pc[c] = "done"
    BY <1>t, <2>2, PushNotifies DEF InState
  <2>4. QED BY <2>1, <2>3 DEF InState
<1>4. ASSUME NEW c \in Consumers, PopTakes(c) PROVE EndInv'
  <2>1. queue # <<>> /\ closed' = closed /\ NotifyOne(Producers, c, "ready")
    BY <1>4 DEF PopTakes, Dequeue
  <2>2. /\ \A d \in Consumers : pc'[d] = "done" => pc[d] = "done"
        /\ \A p \in Producers : pc[p] \in {"ready", "done"} => pc'[p] = pc[p]
    BY <1>t, <2>1, PopNotifies DEF InState
  <2>3. QED BY <2>1, <2>2 DEF InState
<1>5. ASSUME NEW c \in Consumers, PopEnds(c) \/ PopWaits(c) PROVE EndInv'
  <2>1. UNCHANGED <<queue, closed>> /\ \A u \in Threads \ {c} : pc'[u] = pc[u]
    BY <1>5, <1>t DEF PopEnds, PopWaits, PopNone, Wait, TypeOK, Threads
  <2>2. \A p \in Producers : pc'[p] = pc[p]
    BY <2>1 DEF Threads
  <2>3. PopEnds(c) => closed /\ queue = <<>>
    BY DEF PopEnds
  <2>4. PopWaits(c) => pc'[c] # "done"
    BY <1>t DEF PopWaits, Wait, TypeOK
  <2>5. EndIsFinal'
    BY <1>5, <2>1, <2>3, <2>4 DEF InState, Threads
  <2>6. QED BY <2>1, <2>2, <2>5
<1>6. ASSUME NEW t \in Threads, SpuriousWakeup(t) PROVE EndInv'
  BY <1>6, <1>t DEF SpuriousWakeup, InState, TypeOK, Threads
<1>7. CASE Close
  <2>1. \A p \in Producers : pc[p] \notin {"waiting", "woken"} /\ pc'[p] = pc[p]
    BY <1>7, <1>t DEF Close, InState, TypeOK
  <2>2. \A p \in Producers : pc'[p] \in {"ready", "done"}
    BY <2>1, <1>t DEF TypeOK, State
  <2>3. \A c \in Consumers : pc'[c] = "done" => pc[c] = "done"
    BY <1>7, <1>t DEF Close, InState, TypeOK
  <2>4. EndIsFinal'
    BY <1>7, <2>3 DEF Close, InState
  <2>5. QED BY <2>2, <2>4
<1>8. CASE UNCHANGED vars
  BY <1>8 DEF vars, InState
<1>9. QED BY <1>t, <1>1, <1>2, <1>3, <1>4, <1>5, <1>6, <1>7, <1>8, StepCases

LEMMA EndInvariance == ASSUME QuietClose PROVE Spec => []EndInv
<1>1. Init => EndInv
  BY ThreadsAssumption DEF Init, EndInv, EndIsFinal, InState
<1>2. QED BY <1>1, EndStep, TypeInvariance, PTL DEF Spec

(* A consumer that was told None has seen the last item there will be.     *)
THEOREM EndSafe == ASSUME QuietClose PROVE Spec => []EndIsFinal
BY EndInvariance, PTL DEF EndInv

-----------------------------------------------------------------------------
(* Refinement: the queue with its mutex, condition variables and wakeups   *)
(* is a closable FIFO channel of the given capacity.                       *)
Told == InState(Consumers, "done")

THEOREM ChannelSafe == ASSUME QuietClose PROVE Spec => ImplementsChannel
<1> USE ThreadsAssumption
<1>1. Init => ChannelView!Init
  BY DEF Init, ChannelView!Init, InState
<1>2. TypeInv /\ EndInv /\ [Next]_vars => [ChannelView!Next]_(ChannelView!vars)
  <2> SUFFICES ASSUME TypeInv, EndInv, [Next]_vars
               PROVE  [ChannelView!Next]_(ChannelView!vars)
    OBVIOUS
  <2>t. TypeOK BY DEF TypeInv
  <2>1. ASSUME UNCHANGED <<queue, closed>>, Told' = Told
        PROVE  UNCHANGED ChannelView!vars
    BY <2>1 DEF ChannelView!vars, Told
  <2>2. ASSUME NEW p \in Producers, PushAppends(p)
        PROVE  ChannelView!Next
    <3>1. ~closed BY <2>2 DEF PushAppends, Active, EndInv
    <3>2. AfterPush(p) \in State /\ NotifyOne(Consumers, p, AfterPush(p))
      BY <2>2 DEF PushAppends, Enqueue, AfterPush, State
    <3>3. \A c \in Consumers : pc'[c] = "done" <=> pc[c] = "done"
      BY <2>t, <3>2, PushNotifies DEF InState
    <3>4. Told' = Told BY <3>3 DEF Told, InState
    <3>5. <<p, sent[p] + 1>> \in Items
      <4>1. sent[p] \in 0 .. Quota /\ sent[p] # Quota
        BY <2>2 DEF PushAppends, Active, TypeInv, TypeOK, QuotaKept
      <4>2. QED BY <4>1, QuotaAssumption DEF Items
    <3>6. ChannelView!Send(<<p, sent[p] + 1>>)
      BY <2>2, <3>1, <3>4
         DEF PushAppends, Enqueue, ChannelView!Send, Told
    <3>7. QED BY <3>5, <3>6 DEF ChannelView!Next
  <2>3. ASSUME NEW c \in Consumers, PopTakes(c) PROVE ChannelView!Next
    <3>1. NotifyOne(Producers, c, "ready")
      BY <2>3 DEF PopTakes, Dequeue
    <3>2. \A d \in Consumers : pc'[d] = "done" <=> pc[d] = "done"
      BY <2>t, <3>1, <2>3, PopNotifies DEF PopTakes, Active
    <3>3. Told' = Told /\ c \notin Told
      BY <3>2, <2>3 DEF Told, InState, PopTakes, Active
    <3>4. ChannelView!Receive(c)
      BY <2>3, <3>3 DEF PopTakes, Dequeue, ChannelView!Receive, Told
    <3>5. QED BY <3>4 DEF ChannelView!Next
  <2>4. ASSUME NEW c \in Consumers, PopEnds(c) PROVE ChannelView!Next
    <3>1. Told' = Told \cup {c}
      BY <2>4, <2>t DEF PopEnds, PopNone, Told, InState, TypeOK
    <3>2. ChannelView!End(c)
      BY <2>4, <3>1 DEF PopEnds, PopNone, ChannelView!End, Told
    <3>3. QED BY <3>2 DEF ChannelView!Next
  <2>5. ASSUME NEW c \in Consumers, PopWaits(c)
        PROVE  UNCHANGED ChannelView!vars
    BY <2>5, <2>1, <2>t DEF PopWaits, Active, Wait, Told, InState, TypeOK
  <2>6. ASSUME NEW p \in Producers, PushRefused(p) \/ PushWaits(p)
        PROVE  UNCHANGED ChannelView!vars
    BY <2>6, <2>1, <2>t
       DEF PushRefused, PushWaits, Wait, Told, InState, TypeOK
  <2>7. ASSUME NEW t \in Threads, SpuriousWakeup(t)
        PROVE  UNCHANGED ChannelView!vars
    BY <2>7, <2>1, <2>t DEF SpuriousWakeup, Told, InState, TypeOK, Threads
  <2>8. CASE Close
    <3>1. Told' = Told
      BY <2>8, <2>t DEF Close, Told, InState, TypeOK
    <3>2. ChannelView!Close
      BY <2>8, <3>1 DEF Close, ChannelView!Close, Told
    <3>3. QED BY <3>2 DEF ChannelView!Next
  <2>9. CASE UNCHANGED vars
    BY <2>9, <2>1 DEF vars, Told, InState
  <2>10. QED
    BY <2>t, <2>2, <2>3, <2>4, <2>5, <2>6, <2>7, <2>8, <2>9, StepCases
<1>3. QED
  BY <1>1, <1>2, TypeInvariance, EndInvariance, PTL
     DEF Spec, ImplementsChannel, ChannelView!Spec

-----------------------------------------------------------------------------
(* Any threads push and pop, in the order they get the mutex, and somebody *)
(* may change the setting, but for the batch size.                         *)
QueueNext == Push \/ SpillPop \/ (SetConfig /\ Batch(config') = Batch(config))
QueueSpec == NewQueue /\ [][QueueNext]_spillVars

Item == 1 .. MaxItems
Stores == [memory : Seq(Item), unspilled : Nat, disk : Seq(Seq(Item))]
Here == Store(memory, unspilled, disk)

(* The files were written, and are read, with one batch size.              *)
Fit(d, n) == \A k \in DOMAIN d : Len(d[k]) <= n

ItemsIn(s) == ToSet(s.memory) \cup InFiles(s.disk)
Once(s) == IsInjective(s.memory) /\ Separate(s.disk) /\ ToSet(s.memory) \cap InFiles(s.disk) = {}

SpillTypeInv == SpillTypeOK /\ ValidConfig(config)
FilesFit == Fit(disk, Batch(config))

Inv == SpillTypeInv /\ FilesFit /\ NothingLost /\ CountNotOver

-----------------------------------------------------------------------------
(* Two sequences, one behind the other, hold the items of both.            *)
LEMMA JoinItems ==
    ASSUME NEW S, NEW s \in Seq(S), NEW t \in Seq(S)
    PROVE  /\ s \o t \in Seq(S) /\ ToSet(s \o t) = ToSet(s) \cup ToSet(t)
           /\ IsInjective(s \o t) <=>
                 IsInjective(s) /\ IsInjective(t) /\ ToSet(s) \cap ToSet(t) = {}
<1>1. /\ s \o t \in Seq(S) /\ Len(s \o t) = Len(s) + Len(t)
      /\ \A i \in 1 .. Len(s) + Len(t) : (s \o t)[i] = IF i <= Len(s) THEN s[i] ELSE t[i - Len(s)]
    BY ConcatProperties
<1>2. Len(s) \in Nat /\ Len(t) \in Nat /\ DOMAIN s = 1 .. Len(s) /\ DOMAIN t = 1 .. Len(t)
      /\ DOMAIN (s \o t) = 1 .. Len(s) + Len(t)
    BY <1>1, LenProperties
<1>3. \A i \in DOMAIN s : i \in DOMAIN (s \o t) /\ (s \o t)[i] = s[i]
    BY <1>1, <1>2
<1>4. \A j \in DOMAIN t : Len(s) + j \in DOMAIN (s \o t) /\ (s \o t)[Len(s) + j] = t[j]
    <2> SUFFICES ASSUME NEW j \in DOMAIN t
                 PROVE  Len(s) + j \in DOMAIN (s \o t) /\ (s \o t)[Len(s) + j] = t[j]
        OBVIOUS
    <2>1. j \in Nat /\ j >= 1 /\ Len(s) + j \in 1 .. Len(s) + Len(t) /\ ~ (Len(s) + j <= Len(s))
          /\ Len(s) + j - Len(s) = j
        BY <1>2
    <2> QED BY <2>1, <1>1, <1>2
<1>5. \A i \in DOMAIN (s \o t) : i \in DOMAIN s \/ \E j \in DOMAIN t : i = Len(s) + j
    <2> SUFFICES ASSUME NEW i \in DOMAIN (s \o t), i \notin DOMAIN s
                 PROVE  \E j \in DOMAIN t : i = Len(s) + j
        OBVIOUS
    <2>1. i - Len(s) \in DOMAIN t /\ i = Len(s) + (i - Len(s))
        BY <1>2
    <2> QED BY <2>1
<1>6. ToSet(s \o t) = ToSet(s) \cup ToSet(t)
    <2>1. ToSet(s \o t) \subseteq ToSet(s) \cup ToSet(t)
        <3> SUFFICES ASSUME NEW i \in DOMAIN (s \o t) PROVE (s \o t)[i] \in ToSet(s) \cup ToSet(t)
            BY DEF ToSet
        <3> QED BY <1>3, <1>4, <1>5 DEF ToSet
    <2>2. ToSet(s) \subseteq ToSet(s \o t)
        BY <1>3 DEF ToSet
    <2>3. ToSet(t) \subseteq ToSet(s \o t)
        <3> SUFFICES ASSUME NEW j \in DOMAIN t PROVE t[j] \in ToSet(s \o t)
            BY DEF ToSet
        <3> QED BY <1>4 DEF ToSet
    <2> QED BY <2>1, <2>2, <2>3
<1>7. ASSUME IsInjective(s \o t)
      PROVE  IsInjective(s) /\ IsInjective(t) /\ ToSet(s) \cap ToSet(t) = {}
    <2>1. IsInjective(s)
        BY <1>7, <1>3 DEF IsInjective
    <2>2. IsInjective(t)
        <3> SUFFICES ASSUME NEW i \in DOMAIN t, NEW j \in DOMAIN t, t[i] = t[j] PROVE i = j
            BY DEF IsInjective
        <3>1. Len(s) + i = Len(s) + j
            BY <1>7, <1>4 DEF IsInjective
        <3> QED BY <3>1, <1>2
    <2>3. \A i \in DOMAIN s, j \in DOMAIN t : s[i] # t[j]
        <3> SUFFICES ASSUME NEW i \in DOMAIN s, NEW j \in DOMAIN t, s[i] = t[j] PROVE FALSE
            OBVIOUS
        <3>1. i = Len(s) + j
            BY <1>7, <1>3, <1>4 DEF IsInjective
        <3> QED BY <3>1, <1>2
    <2> QED BY <2>1, <2>2, <2>3 DEF ToSet
<1>8. ASSUME IsInjective(s), IsInjective(t), ToSet(s) \cap ToSet(t) = {}
      PROVE  IsInjective(s \o t)
    <2> SUFFICES ASSUME NEW a \in DOMAIN (s \o t), NEW b \in DOMAIN (s \o t), (s \o t)[a] = (s \o t)[b]
                 PROVE  a = b
        BY DEF IsInjective
    <2>1. \A i \in DOMAIN s, j \in DOMAIN t : s[i] # t[j]
        BY <1>8 DEF ToSet
    <2>2. CASE a \in DOMAIN s /\ b \in DOMAIN s
        BY <2>2, <1>3, <1>8 DEF IsInjective
    <2>3. CASE a \in DOMAIN s /\ b \notin DOMAIN s
        BY <2>3, <1>3, <1>4, <1>5, <2>1
    <2>4. CASE a \notin DOMAIN s /\ b \in DOMAIN s
        BY <2>4, <1>3, <1>4, <1>5, <2>1
    <2>5. CASE a \notin DOMAIN s /\ b \notin DOMAIN s
        <3>1. PICK i \in DOMAIN t : a = Len(s) + i
            BY <2>5, <1>5
        <3>2. PICK j \in DOMAIN t : b = Len(s) + j
            BY <2>5, <1>5
        <3> QED BY <3>1, <3>2, <1>4, <1>8 DEF IsInjective
    <2> QED BY <2>2, <2>3, <2>4, <2>5
<1> QED BY <1>1, <1>6, <1>7, <1>8

(* The last n items of a sequence and those before them make it up.        *)
LEMMA CutItems ==
    ASSUME NEW S, NEW s \in Seq(S), NEW n \in Nat
    PROVE  /\ AllBut(s, n) \in Seq(S) /\ LastOf(s, n) \in Seq(S)
           /\ s = AllBut(s, n) \o LastOf(s, n) /\ Len(LastOf(s, n)) <= n
<1> DEFINE m == Least(n, Len(s))
<1>1. Len(s) \in Nat /\ m \in Nat /\ m <= n /\ m <= Len(s)
    BY LenProperties DEF Least
<1> HIDE DEF m
<1>2. AllBut(s, n) = SubSeq(s, 1, Len(s) - m) /\ LastOf(s, n) = SubSeq(s, Len(s) - m + 1, Len(s))
    BY DEF AllBut, LastOf, m
<1>3. \A i \in 1 .. Len(s) : s[i] \in S
    BY ElementOfSeq
<1>4. AllBut(s, n) \in Seq(S)
    <2>1. 1 \in Int /\ Len(s) - m \in Int /\ \A i \in 1 .. Len(s) - m : s[i] \in S
        BY <1>1, <1>3
    <2> QED BY <1>2, <2>1, SubSeqProperties
<1>5. LastOf(s, n) \in Seq(S) /\ Len(LastOf(s, n)) = m
    <2>1. Len(s) - m + 1 \in Int /\ Len(s) \in Int /\ \A i \in Len(s) - m + 1 .. Len(s) : s[i] \in S
        BY <1>1, <1>3
    <2>2. Len(SubSeq(s, Len(s) - m + 1, Len(s))) =
             IF Len(s) - m + 1 <= Len(s) THEN Len(s) - (Len(s) - m + 1) + 1 ELSE 0
        BY <2>1, SubSeqProperties
    <2>3. SubSeq(s, Len(s) - m + 1, Len(s)) \in Seq(S)
        BY <2>1, SubSeqProperties
    <2> QED BY <1>1, <1>2, <2>2, <2>3
<1>6. s = AllBut(s, n) \o LastOf(s, n)
    <2>1. 1 \in 1 .. Len(s) + 1 /\ Len(s) - m \in 1 - 1 .. Len(s) /\ Len(s) \in Len(s) - m .. Len(s)
        BY <1>1
    <2>2. SubSeq(s, 1, Len(s) - m) \o SubSeq(s, Len(s) - m + 1, Len(s)) = SubSeq(s, 1, Len(s))
        BY <2>1, ConcatAdjacentSubSeq
    <2> QED BY <2>2, <1>2, SubSeqFull
<1> QED BY <1>1, <1>4, <1>5, <1>6

(* A file behind the others.                                               *)
LEMMA FilesGrow ==
    ASSUME NEW S, NEW d \in Seq(Seq(S)), NEW b \in Seq(S)
    PROVE  /\ Append(d, b) \in Seq(Seq(S)) /\ Append(d, b) # <<>>
           /\ InFiles(Append(d, b)) = InFiles(d) \cup ToSet(b)
           /\ \A n : Fit(d, n) /\ Len(b) <= n => Fit(Append(d, b), n)
           /\ Separate(d) /\ IsInjective(b) /\ InFiles(d) \cap ToSet(b) = {} => Separate(Append(d, b))
<1> DEFINE e == Append(d, b)
<1>1. /\ e \in Seq(Seq(S)) /\ e # <<>> /\ Len(e) = Len(d) + 1 /\ Len(d) \in Nat
      /\ DOMAIN d = 1 .. Len(d) /\ DOMAIN e = 1 .. Len(e)
      /\ \A i \in 1 .. Len(d) : e[i] = d[i]
      /\ e[Len(d) + 1] = b
    BY AppendProperties, LenProperties
<1> HIDE DEF e
<1>2. DOMAIN e = DOMAIN d \cup {Len(d) + 1} /\ Len(d) + 1 \notin DOMAIN d
    BY <1>1
<1>3. InFiles(e) = InFiles(d) \cup ToSet(b)
    <2>1. ToSet(e) \subseteq ToSet(d) \cup {b}
        <3> SUFFICES ASSUME NEW i \in DOMAIN e PROVE e[i] \in ToSet(d) \cup {b}
            BY DEF ToSet
        <3> QED BY <1>1, <1>2 DEF ToSet
    <2>2. ToSet(d) \subseteq ToSet(e)
        <3> SUFFICES ASSUME NEW i \in DOMAIN d PROVE d[i] \in ToSet(e)
            BY DEF ToSet
        <3>1. i \in DOMAIN e /\ e[i] = d[i]
            BY <1>1, <1>2
        <3> QED BY <3>1 DEF ToSet
    <2>3. b \in ToSet(e)
        <3>1. Len(d) + 1 \in DOMAIN e
            BY <1>2
        <3> QED BY <3>1, <1>1 DEF ToSet
    <2>4. ToSet(e) = ToSet(d) \cup {b}
        BY <2>1, <2>2, <2>3
    <2> QED BY <2>4 DEF InFiles
<1>4. \A n : Fit(d, n) /\ Len(b) <= n => Fit(e, n)
    BY <1>1, <1>2 DEF Fit
<1>5. ASSUME Separate(d), IsInjective(b), InFiles(d) \cap ToSet(b) = {} PROVE Separate(e)
    <2>1. \A k \in DOMAIN d : ToSet(d[k]) \subseteq InFiles(d)
        BY DEF InFiles, ToSet
    <2>2. \A k \in DOMAIN d : ToSet(d[k]) \cap ToSet(b) = {} /\ ToSet(b) \cap ToSet(d[k]) = {}
        BY <2>1, <1>5
    <2>3. ASSUME NEW j \in DOMAIN e, NEW k \in DOMAIN e
          PROVE  IF j = k THEN IsInjective(e[k]) ELSE ToSet(e[j]) \cap ToSet(e[k]) = {}
        <3>1. CASE j \in DOMAIN d /\ k \in DOMAIN d
            BY <3>1, <1>5, <1>1 DEF Separate
        <3>2. CASE j \in DOMAIN d /\ k = Len(d) + 1
            BY <3>2, <2>2, <1>1, <1>2
        <3>3. CASE j = Len(d) + 1 /\ k \in DOMAIN d
            BY <3>3, <2>2, <1>1, <1>2
        <3>4. CASE j = Len(d) + 1 /\ k = Len(d) + 1
            BY <3>4, <1>5, <1>1
        <3> QED BY <3>1, <3>2, <3>3, <3>4, <1>2
    <2> QED BY <2>3 DEF Separate
<1> QED BY <1>1, <1>3, <1>4, <1>5 DEF e

(* The front file taken from the others.                                   *)
LEMMA FilesShrink ==
    ASSUME NEW S, NEW d \in Seq(Seq(S)), d # <<>>
    PROVE  /\ Tail(d) \in Seq(Seq(S)) /\ Head(d) \in Seq(S) /\ Len(Head(d)) \in Nat
           /\ InFiles(d) = ToSet(Head(d)) \cup InFiles(Tail(d))
           /\ \A n : Fit(d, n) => Fit(Tail(d), n) /\ Len(Head(d)) <= n
           /\ Separate(d) => /\ Separate(Tail(d)) /\ IsInjective(Head(d))
                             /\ ToSet(Head(d)) \cap InFiles(Tail(d)) = {}
<1> DEFINE e == Tail(d)
           h == Head(d)
<1>1. /\ e \in Seq(Seq(S)) /\ h \in Seq(S) /\ Len(e) = Len(d) - 1 /\ Len(d) \in Nat /\ Len(e) \in Nat
      /\ \A i \in 1 .. Len(e) : e[i] = d[i + 1]
      /\ DOMAIN d = 1 .. Len(d) /\ DOMAIN e = 1 .. Len(e) /\ Len(h) \in Nat
    BY HeadTailProperties, LenProperties
<1>2. h = d[1]
    OBVIOUS
<1> HIDE DEF e, h
<1>3. 1 \in DOMAIN d /\ \A i \in DOMAIN e : i + 1 \in DOMAIN d /\ i + 1 # 1
    BY <1>1
<1>4. \A k \in DOMAIN d : k = 1 \/ \E i \in DOMAIN e : k = i + 1
    <2> SUFFICES ASSUME NEW k \in DOMAIN d, k # 1 PROVE \E i \in DOMAIN e : k = i + 1
        OBVIOUS
    <2>1. k - 1 \in DOMAIN e /\ k = (k - 1) + 1
        BY <1>1
    <2> QED BY <2>1
<1>5. InFiles(d) = ToSet(h) \cup InFiles(e)
    <2>1. ToSet(d) \subseteq {h} \cup ToSet(e)
        <3> SUFFICES ASSUME NEW k \in DOMAIN d PROVE d[k] \in {h} \cup ToSet(e)
            BY DEF ToSet
        <3>1. CASE k = 1
            BY <3>1, <1>2
        <3>2. CASE k # 1
            <4>1. PICK i \in DOMAIN e : k = i + 1
                BY <3>2, <1>4
            <4>2. d[k] = e[i]
                BY <4>1, <1>1
            <4> QED BY <4>2 DEF ToSet
        <3> QED BY <3>1, <3>2
    <2>2. h \in ToSet(d)
        BY <1>2, <1>3 DEF ToSet
    <2>3. ToSet(e) \subseteq ToSet(d)
        <3> SUFFICES ASSUME NEW i \in DOMAIN e PROVE e[i] \in ToSet(d)
            BY DEF ToSet
        <3> QED BY <1>1, <1>3 DEF ToSet
    <2>4. ToSet(d) = {h} \cup ToSet(e)
        BY <2>1, <2>2, <2>3
    <2> QED BY <2>4 DEF InFiles
<1>6. \A n : Fit(d, n) => Fit(e, n) /\ Len(h) <= n
    BY <1>1, <1>2, <1>3 DEF Fit
<1>7. ASSUME Separate(d)
      PROVE  Separate(e) /\ IsInjective(h) /\ ToSet(h) \cap InFiles(e) = {}
    <2>1. IsInjective(h)
        BY <1>7, <1>2, <1>3 DEF Separate
    <2>2. \A i \in DOMAIN e : ToSet(h) \cap ToSet(e[i]) = {}
        BY <1>7, <1>1, <1>2, <1>3 DEF Separate
    <2>3. ToSet(h) \cap InFiles(e) = {}
        <3> SUFFICES ASSUME NEW x \in InFiles(e) PROVE x \notin ToSet(h)
            OBVIOUS
        <3>1. PICK b \in ToSet(e) : x \in ToSet(b)
            BY DEF InFiles
        <3>2. PICK i \in DOMAIN e : b = e[i]
            BY DEF ToSet
        <3> QED BY <3>1, <3>2, <2>2
    <2>4. ASSUME NEW j \in DOMAIN e, NEW k \in DOMAIN e
          PROVE  IF j = k THEN IsInjective(e[k]) ELSE ToSet(e[j]) \cap ToSet(e[k]) = {}
        <3>1. e[j] = d[j + 1] /\ e[k] = d[k + 1] /\ j + 1 \in DOMAIN d /\ k + 1 \in DOMAIN d
            BY <1>1, <1>3
        <3>2. j \in Nat /\ k \in Nat
            BY <1>1
        <3>3. j = k <=> j + 1 = k + 1
            BY <3>2
        <3> QED BY <3>1, <3>3, <1>7 DEF Separate
    <2> QED BY <2>1, <2>3, <2>4 DEF Separate
<1> QED BY <1>1, <1>5, <1>6, <1>7 DEF e, h

-----------------------------------------------------------------------------
(* spill_to_disk moves items from memory to a new file.                    *)
LEMMA SpilledKeeps ==
    ASSUME NEW s \in Stores, ValidConfig(config), config \in Configs, ~ SpillRefused(s)
    PROVE  /\ Spilled(s) \in Stores /\ ItemsIn(Spilled(s)) = ItemsIn(s)
           /\ InFiles(s.disk) \subseteq InFiles(Spilled(s).disk)
           /\ Fit(s.disk, Batch(config)) => Fit(Spilled(s).disk, Batch(config))
           /\ Once(s) => Once(Spilled(s))
<1> DEFINE n == Batch(config)
           r == RepushCount(s)
           kept == AllBut(s.memory, r)
           repush == LastOf(s.memory, r)
           older == AllBut(kept, n)
           batch == LastOf(kept, n)
<1>1. n \in Nat
    BY ConfigsAssumption DEF Batch
<1>2. s.memory \in Seq(Item) /\ s.unspilled \in Nat /\ s.disk \in Seq(Seq(Item))
    BY DEF Stores
<1>3. r \in Nat /\ AfterSpillCount(s) \in Nat
    BY <1>1, <1>2 DEF RepushCount, AfterSpillCount, SpillRefused
<1>4. Spilled(s) = Store(older \o repush, AfterSpillCount(s), Append(s.disk, batch))
    BY DEF Spilled
<1> HIDE DEF n, r
<1>5. /\ kept \in Seq(Item) /\ repush \in Seq(Item) /\ s.memory = kept \o repush
    BY <1>2, <1>3, CutItems
<1> HIDE DEF kept, repush
<1>6. /\ older \in Seq(Item) /\ batch \in Seq(Item) /\ kept = older \o batch /\ Len(batch) <= n
    BY <1>1, <1>5, CutItems
<1> HIDE DEF older, batch
<1> DEFINE memory2 == older \o repush
           disk2 == Append(s.disk, batch)
<1>7. /\ memory2 \in Seq(Item) /\ ToSet(memory2) = ToSet(older) \cup ToSet(repush)
      /\ IsInjective(older) /\ IsInjective(repush) /\ ToSet(older) \cap ToSet(repush) = {}
            => IsInjective(memory2)
    BY <1>5, <1>6, JoinItems
<1>8. /\ ToSet(kept) = ToSet(older) \cup ToSet(batch)
      /\ IsInjective(kept) => IsInjective(older) /\ IsInjective(batch) /\ ToSet(older) \cap ToSet(batch) = {}
    BY <1>6, JoinItems
<1>9. /\ ToSet(s.memory) = ToSet(kept) \cup ToSet(repush)
      /\ IsInjective(s.memory) => /\ IsInjective(kept) /\ IsInjective(repush)
                                  /\ ToSet(kept) \cap ToSet(repush) = {}
    BY <1>5, JoinItems
<1>10. /\ disk2 \in Seq(Seq(Item)) /\ InFiles(disk2) = InFiles(s.disk) \cup ToSet(batch)
       /\ Fit(s.disk, n) => Fit(disk2, n)
       /\ Separate(s.disk) /\ IsInjective(batch) /\ InFiles(s.disk) \cap ToSet(batch) = {} => Separate(disk2)
    BY <1>2, <1>6, FilesGrow
<1> HIDE DEF memory2, disk2
<1>11. Spilled(s) = Store(memory2, AfterSpillCount(s), disk2)
    BY <1>4 DEF memory2, disk2
<1>12. /\ Spilled(s).memory = memory2 /\ Spilled(s).disk = disk2 /\ Spilled(s) \in Stores
    BY <1>3, <1>7, <1>10, <1>11 DEF Store, Stores
<1>13. ItemsIn(Spilled(s)) = ItemsIn(s)
    BY <1>7, <1>8, <1>9, <1>10, <1>12 DEF ItemsIn
<1>14. ASSUME Once(s) PROVE Once(Spilled(s))
    <2>1. IsInjective(s.memory) /\ Separate(s.disk) /\ ToSet(s.memory) \cap InFiles(s.disk) = {}
        BY <1>14 DEF Once
    <2>2. ToSet(older) \subseteq ToSet(kept) /\ ToSet(batch) \subseteq ToSet(kept)
          /\ ToSet(kept) \subseteq ToSet(s.memory) /\ ToSet(repush) \subseteq ToSet(s.memory)
        BY <1>8, <1>9
    <2>3. ToSet(older) \cap ToSet(repush) = {} /\ ToSet(batch) \cap ToSet(repush) = {}
          /\ ToSet(older) \cap ToSet(batch) = {} /\ InFiles(s.disk) \cap ToSet(batch) = {}
        BY <2>1, <2>2, <1>8, <1>9
    <2>4. IsInjective(memory2) /\ Separate(disk2)
        BY <2>1, <2>3, <1>7, <1>8, <1>9, <1>10
    <2>5. ToSet(memory2) \cap InFiles(disk2) = {}
        BY <2>1, <2>2, <2>3, <1>7, <1>10
    <2> QED BY <2>4, <2>5, <1>12 DEF Once
<1> QED BY <1>10, <1>12, <1>13, <1>14 DEF n

(* Where it fails the files are as they were.                              *)
LEMMA SpillFails ==
    ASSUME NEW s \in Stores, ValidConfig(config), config \in Configs, ~ SpillRefused(s),
           NEW f \in SpillFailures(s)
    PROVE  f \in Stores /\ f.disk = s.disk
<1> DEFINE kept == AllBut(s.memory, RepushCount(s))
<1>1. Batch(config) \in Nat
    BY ConfigsAssumption DEF Batch
<1>2. s.memory \in Seq(Item) /\ s.unspilled \in Nat /\ s.disk \in Seq(Seq(Item))
    BY DEF Stores
<1>3. RepushCount(s) \in Nat /\ AfterSpillCount(s) \in Nat
    BY <1>1, <1>2 DEF RepushCount, AfterSpillCount, SpillRefused
<1>4. kept \in Seq(Item)
    BY <1>2, <1>3, CutItems
<1>5. f \in {Store(kept, AfterSpillCount(s), s.disk),
             Store(AllBut(kept, Batch(config)), AfterSpillCount(s), s.disk)}
    BY DEF SpillFailures
<1> HIDE DEF kept
<1>6. AllBut(kept, Batch(config)) \in Seq(Item)
    BY <1>1, <1>4, CutItems
<1> QED BY <1>2, <1>3, <1>4, <1>5, <1>6 DEF Store, Stores

(* load_from_disk moves the items of the front file to memory.             *)
LEMMA LoadedKeeps ==
    ASSUME NEW s \in Stores, ValidConfig(config), config \in Configs, s.disk # <<>>,
           Fit(s.disk, Batch(config))
    PROVE  /\ Loaded(s) \in Stores /\ ItemsIn(Loaded(s)) = ItemsIn(s)
           /\ Loaded(s).disk = Tail(s.disk) /\ Fit(Loaded(s).disk, Batch(config))
           /\ ToSet(s.memory) \subseteq ToSet(Loaded(s).memory)
           /\ Once(s) => Once(Loaded(s))
<1> DEFINE n == Batch(config)
           older == AllBut(s.memory, s.unspilled)
           newer == LastOf(s.memory, s.unspilled)
           h == Head(s.disk)
           left == IF Len(s.disk) = 1 THEN 0 ELSE s.unspilled
<1>1. n \in Nat
    BY ConfigsAssumption DEF Batch
<1>2. s.memory \in Seq(Item) /\ s.unspilled \in Nat /\ s.disk \in Seq(Seq(Item))
    BY DEF Stores
<1>3. /\ Tail(s.disk) \in Seq(Seq(Item)) /\ h \in Seq(Item) /\ Len(h) \in Nat
      /\ InFiles(s.disk) = ToSet(h) \cup InFiles(Tail(s.disk))
      /\ Fit(Tail(s.disk), n) /\ Len(h) <= n
      /\ Separate(s.disk) => /\ Separate(Tail(s.disk)) /\ IsInjective(h)
                             /\ ToSet(h) \cap InFiles(Tail(s.disk)) = {}
    BY <1>2, FilesShrink
<1>4. SubSeq(h, 1, Least(n, Len(h))) = h
    <2>1. Least(n, Len(h)) = Len(h)
        BY <1>1, <1>3 DEF Least
    <2> QED BY <2>1, <1>3, SubSeqFull
<1>5. Loaded(s) = Store(older \o h \o newer, left, Tail(s.disk))
    BY <1>4 DEF Loaded
<1>6. older \in Seq(Item) /\ newer \in Seq(Item) /\ s.memory = older \o newer
    BY <1>2, CutItems
<1> HIDE DEF n, older, newer, h
<1>7. left \in Nat
    BY <1>2
<1> HIDE DEF left
<1> DEFINE front == older \o h
           memory2 == front \o newer
<1>8. /\ front \in Seq(Item) /\ ToSet(front) = ToSet(older) \cup ToSet(h)
      /\ IsInjective(older) /\ IsInjective(h) /\ ToSet(older) \cap ToSet(h) = {} => IsInjective(front)
    BY <1>3, <1>6, JoinItems
<1> HIDE DEF front
<1>9. /\ memory2 \in Seq(Item) /\ ToSet(memory2) = ToSet(front) \cup ToSet(newer)
      /\ IsInjective(front) /\ IsInjective(newer) /\ ToSet(front) \cap ToSet(newer) = {}
            => IsInjective(memory2)
    BY <1>6, <1>8, JoinItems
<1> HIDE DEF memory2
<1>10. /\ ToSet(s.memory) = ToSet(older) \cup ToSet(newer)
       /\ IsInjective(s.memory) => /\ IsInjective(older) /\ IsInjective(newer)
                                   /\ ToSet(older) \cap ToSet(newer) = {}
    BY <1>6, JoinItems
<1>11. Loaded(s) = Store(memory2, left, Tail(s.disk))
    BY <1>5 DEF memory2, front
<1>12. /\ Loaded(s).memory = memory2 /\ Loaded(s).disk = Tail(s.disk) /\ Loaded(s) \in Stores
    BY <1>3, <1>7, <1>9, <1>11 DEF Store, Stores
<1>13. ItemsIn(Loaded(s)) = ItemsIn(s)
    BY <1>3, <1>8, <1>9, <1>10, <1>12 DEF ItemsIn
<1>14. ASSUME Once(s) PROVE Once(Loaded(s))
    <2>1. IsInjective(s.memory) /\ Separate(s.disk) /\ ToSet(s.memory) \cap InFiles(s.disk) = {}
        BY <1>14 DEF Once
    <2>2. ToSet(older) \subseteq ToSet(s.memory) /\ ToSet(newer) \subseteq ToSet(s.memory)
          /\ ToSet(h) \subseteq InFiles(s.disk) /\ InFiles(Tail(s.disk)) \subseteq InFiles(s.disk)
        BY <1>3, <1>10
    <2>3. ToSet(older) \cap ToSet(h) = {} /\ ToSet(h) \cap ToSet(newer) = {}
        BY <2>1, <2>2
    <2>4. IsInjective(front) /\ ToSet(front) \cap ToSet(newer) = {}
        BY <2>1, <2>3, <1>3, <1>8, <1>10
    <2>5. IsInjective(memory2) /\ Separate(Tail(s.disk))
        BY <2>1, <2>4, <1>3, <1>9, <1>10
    <2>6. ToSet(memory2) \cap InFiles(Tail(s.disk)) = {}
        BY <2>1, <2>2, <1>3, <1>8, <1>9
    <2> QED BY <2>5, <2>6, <1>12 DEF Once
<1>15. ToSet(s.memory) \subseteq ToSet(Loaded(s).memory)
    BY <1>8, <1>9, <1>10, <1>12
<1> QED BY <1>3, <1>12, <1>13, <1>14, <1>15 DEF n

(* Where it fails no file is lost with items that are not in memory.       *)
LEMMA LoadFails ==
    ASSUME NEW s \in Stores, ValidConfig(config), config \in Configs, s.disk # <<>>,
           Fit(s.disk, Batch(config)), NEW f \in LoadFailures(s)
    PROVE  f \in Stores /\ Fit(f.disk, Batch(config)) /\ InFiles(s.disk) \subseteq ItemsIn(f)
<1> DEFINE n == Batch(config)
           older == AllBut(s.memory, s.unspilled)
           h == Head(s.disk)
<1>1. n \in Nat
    BY ConfigsAssumption DEF Batch
<1>2. s.memory \in Seq(Item) /\ s.unspilled \in Nat /\ s.disk \in Seq(Seq(Item))
    BY DEF Stores
<1>3. h \in Seq(Item) /\ Len(h) \in Nat
    BY <1>2, FilesShrink
<1>4. older \in Seq(Item)
    BY <1>2, CutItems
<1>5. CASE f = s
    BY <1>5 DEF ItemsIn
<1>6. CASE f = Loaded(s)
    BY <1>6, LoadedKeeps DEF ItemsIn
<1>7. CASE \E k \in 0 .. Least(n, Len(h)) - 1 : f = Store(older \o SubSeq(h, 1, k), s.unspilled, s.disk)
    <2>1. PICK k \in 0 .. Least(n, Len(h)) - 1 : f = Store(older \o SubSeq(h, 1, k), s.unspilled, s.disk)
        BY <1>7
    <2>2. k \in Int /\ 1 \in Int /\ k <= Len(h)
        BY <1>1, <1>3 DEF Least
    <2>3. \A i \in 1 .. k : h[i] \in Item
        BY <1>3, <2>2, ElementOfSeq
    <2>4. SubSeq(h, 1, k) \in Seq(Item)
        BY <2>2, <2>3, SubSeqProperties
    <2>5. older \o SubSeq(h, 1, k) \in Seq(Item)
        BY <1>4, <2>4, JoinItems
    <2>6. f \in Stores /\ f.disk = s.disk
        BY <2>1, <2>5, <1>2 DEF Store, Stores
    <2> QED BY <2>6 DEF ItemsIn
<1> QED BY <1>5, <1>6, <1>7 DEF LoadFailures

(* pop_front takes one item of memory.                                     *)
LEMMA FrontTaken ==
    ASSUME NEW s \in Stores, s.memory # <<>>
    PROVE  LET t == Store(Tail(s.memory), s.unspilled, s.disk)
               x == Head(s.memory)
           IN /\ t \in Stores /\ t.disk = s.disk /\ x \in Item
              /\ Len(s.memory) = Len(t.memory) + 1 /\ Len(t.memory) \in Nat
              /\ ItemsIn(s) = ItemsIn(t) \cup {x} /\ ToSet(s.memory) = ToSet(t.memory) \cup {x}
              /\ Once(s) => Once(t) /\ x \notin ItemsIn(t)
<1> DEFINE m == s.memory
           x == Head(m)
           r == Tail(m)
           one == <<x>>
           t == Store(r, s.unspilled, s.disk)
<1>1. m \in Seq(Item) /\ m # <<>> /\ s.unspilled \in Nat /\ s.disk \in Seq(Seq(Item))
    BY DEF Stores
<1>2. /\ x \in Item /\ r \in Seq(Item) /\ Len(r) = Len(m) - 1 /\ Len(m) \in Nat /\ Len(r) \in Nat
      /\ \A i \in 1 .. Len(r) : r[i] = m[i + 1]
    BY <1>1, HeadTailProperties, LenProperties
<1>3. x = m[1]
    OBVIOUS
<1>4. t.memory = r /\ t.disk = s.disk /\ t \in Stores
    BY <1>1, <1>2 DEF Store, Stores
<1> HIDE DEF t, r, x
<1>5. one \in Seq(Item) /\ Len(one) = 1 /\ one[1] = x /\ ToSet(one) = {x} /\ IsInjective(one)
    BY <1>2 DEF ToSet, IsInjective
<1> HIDE DEF one
<1>6. m = one \o r
    <2>1. /\ one \o r \in Seq(Item) /\ Len(one \o r) = 1 + Len(r)
          /\ \A i \in 1 .. 1 + Len(r) : (one \o r)[i] = IF i <= 1 THEN one[i] ELSE r[i - 1]
        <3>1. /\ one \o r \in Seq(Item) /\ Len(one \o r) = Len(one) + Len(r)
              /\ \A i \in 1 .. Len(one) + Len(r) :
                    (one \o r)[i] = IF i <= Len(one) THEN one[i] ELSE r[i - Len(one)]
            <4>1. one \in Seq(Item) /\ r \in Seq(Item)
                BY <1>2, <1>5
            <4> QED BY <4>1, ConcatProperties
        <3> QED BY <3>1, <1>5
    <2>2. ASSUME NEW i \in 1 .. Len(m) PROVE m[i] = (one \o r)[i]
        <3>1. CASE i = 1
            BY <3>1, <2>1, <1>2, <1>3, <1>5
        <3>2. CASE i # 1
            <4>1. i - 1 \in 1 .. Len(r) /\ (i - 1) + 1 = i /\ ~ (i <= 1)
                BY <3>2, <1>2
            <4> QED BY <4>1, <2>1, <1>2
        <3> QED BY <3>1, <3>2
    <2>3. Len(m) = Len(one \o r)
        BY <2>1, <1>2
    <2> QED BY <1>1, <2>1, <2>2, <2>3, SeqEqual
<1>7. /\ ToSet(m) = {x} \cup ToSet(r)
      /\ IsInjective(m) => IsInjective(r) /\ x \notin ToSet(r)
    BY <1>2, <1>5, <1>6, JoinItems
<1>8. ItemsIn(s) = ItemsIn(t) \cup {x}
    BY <1>4, <1>7 DEF ItemsIn
<1>9. Once(s) => Once(t) /\ x \notin ItemsIn(t)
    BY <1>4, <1>7 DEF Once, ItemsIn
<1>10. Len(m) = Len(r) + 1
    BY <1>2
<1> QED BY <1>2, <1>4, <1>7, <1>8, <1>9, <1>10 DEF t, r, x

(* A sequence has no more items than places.                               *)
LEMMA FewItems ==
    ASSUME NEW S, NEW s \in Seq(S)
    PROVE  IsFiniteSet(ToSet(s)) /\ Cardinality(ToSet(s)) <= Len(s)
<1>1. Len(s) \in Nat /\ DOMAIN s = 1 .. Len(s)
    BY LenProperties
<1>2. IsFiniteSet(1 .. Len(s)) /\ Cardinality(1 .. Len(s)) = Len(s)
    BY <1>1, FS_Interval
<1>3. s \in Surjection(1 .. Len(s), ToSet(s))
    <2>1. s \in [1 .. Len(s) -> ToSet(s)]
        BY <1>1, IsASeq DEF ToSet
    <2>2. \A y \in ToSet(s) : \E i \in 1 .. Len(s) : s[i] = y
        BY <1>1 DEF ToSet
    <2> QED BY <2>1, <2>2 DEF Surjection
<1> QED BY <1>2, <1>3, FS_Surjection

-----------------------------------------------------------------------------
Distinct == Once(Here)

(* The store an operation begins with.                                     *)
LEMMA HereIs ==
    /\ Here.memory = memory /\ Here.unspilled = unspilled /\ Here.disk = disk
    /\ Held = ItemsIn(Here)
    /\ SpillTypeOK => Here \in Stores
BY DEF Here, Store, Held, ItemsIn, SpillTypeOK, Stores, Item

(* The queue is left with a store.                                         *)
LEMMA SetTo ==
    ASSUME NEW s \in Stores, Set(s)
    PROVE  /\ memory' \in Seq(Item) /\ unspilled' \in Nat /\ disk' \in Seq(Seq(Item)) /\ disk' = s.disk
           /\ Held' = ItemsIn(s) /\ (Distinct' <=> Once(s))
<1>1. memory' = s.memory /\ unspilled' = s.unspilled /\ disk' = s.disk
    BY DEF Set
<1>2. s.memory \in Seq(Item) /\ s.unspilled \in Nat /\ s.disk \in Seq(Seq(Item))
    BY DEF Stores
<1>3. Held' = ItemsIn(s)
    BY <1>1 DEF Held, ItemsIn
<1>4. Distinct' <=> Once(s)
    BY <1>1 DEF Distinct, Here, Store, Once
<1> QED BY <1>1, <1>2, <1>3, <1>4

-----------------------------------------------------------------------------
(* What a call does to the items, if no error is added.                    *)
Fails == faults' = faults + 1 /\ UNCHANGED out
Keeps == /\ UNCHANGED <<faults, out, pushed>> /\ itemCount' <= itemCount
         /\ Held' = Held /\ (Distinct => Distinct')
Pushes == /\ UNCHANGED <<faults, out>> /\ pushed' = pushed + 1 /\ itemCount' = itemCount + 1
          /\ Held' = Held \cup {pushed + 1} /\ (Distinct /\ pushed + 1 \notin Held => Distinct')
Pops(x) == /\ UNCHANGED <<faults, pushed>> /\ out' = Append(out, x) /\ itemCount' = itemCount - 1
           /\ Held = Held' \cup {x} /\ (Distinct => Distinct' /\ x \notin Held')

Typed ==
    /\ memory' \in Seq(Item) /\ unspilled' \in Nat /\ disk' \in Seq(Seq(Item))
    /\ itemCount' \in Nat /\ pushed' \in 0 .. MaxItems /\ out' \in Seq(Item)
    /\ result' \in {"pushed", "item", "none", "error"} /\ faults' \in 0 .. MaxFaults
    /\ Fit(disk', Batch(config))

Left == ToSet(out') \cup Held'
Survived == disk # <<>> => /\ Cardinality(InFiles(disk) \ Left) <= Lower(config)
                           /\ InFiles(Tail(disk)) \subseteq Left

LEMMA ConfigNumbers ==
    ASSUME config \in Configs
    PROVE  Upper(config) \in Nat /\ Lower(config) \in Nat /\ Batch(config) \in Nat
BY ConfigsAssumption DEF Upper, Lower, Batch

(* The rest of pop, with the store its first load left.                    *)
LEMMA TakeStep ==
    ASSUME SpillTypeInv, NEW s \in Stores, Fit(s.disk, Batch(config)), Held = ItemsIn(s),
           Distinct => Once(s), itemCount > 0, UNCHANGED pushed, Take(s)
    PROVE  /\ Typed /\ (Fails \/ Keeps \/ \E x \in Item : Pops(x))
           /\ InFiles(s.disk) \subseteq Held'
           /\ ToSet(s.memory) \subseteq Left \/ Len(s.memory) <= Lower(config)
<1> DEFINE t == Store(IF s.memory = <<>> THEN <<>> ELSE Tail(s.memory), s.unspilled, s.disk)
           x == Head(s.memory)
           short == Len(t.memory) < Lower(config) /\ t.disk # <<>>
           Return == /\ out' = IF s.memory = <<>> THEN out ELSE Append(out, x)
                     /\ result' = IF s.memory = <<>> THEN "none" ELSE "item"
                     /\ NoFail
           After(n) == IF s.memory = <<>> THEN ItemsIn(s) = ItemsIn(n) /\ (Once(s) => Once(n))
                       ELSE ItemsIn(s) = ItemsIn(n) \cup {x} /\ (Once(s) => Once(n) /\ x \notin ItemsIn(n))
<1>1. /\ itemCount' = itemCount - 1
      /\ \/ ~ short /\ Set(t) /\ Return
         \/ short /\ Set(Loaded(t)) /\ Return
         \/ /\ short /\ \E f \in LoadFailures(t) : Set(f)
            /\ Fail /\ result' = "error" /\ UNCHANGED out
    BY DEF Take
<1>2. /\ config \in Configs /\ ValidConfig(config) /\ Batch(config) \in Nat /\ Lower(config) \in Nat
      /\ itemCount \in Nat /\ pushed \in 0 .. MaxItems /\ out \in Seq(Item) /\ faults \in 0 .. MaxFaults
      /\ MaxFaults \in Nat
    BY ConfigNumbers, BoundsAssumption DEF SpillTypeInv, SpillTypeOK, Item
<1>3. s.memory \in Seq(Item) /\ s.unspilled \in Nat /\ s.disk \in Seq(Seq(Item))
    BY DEF Stores
<1>4. /\ t \in Stores /\ t.disk = s.disk /\ After(t)
      /\ s.memory # <<>> => /\ x \in Item /\ Len(s.memory) = Len(t.memory) + 1 /\ Len(t.memory) \in Nat
                            /\ ToSet(s.memory) = ToSet(t.memory) \cup {x}
      /\ s.memory = <<>> => ToSet(s.memory) = {} /\ Len(s.memory) = 0
    <2>1. CASE s.memory # <<>>
        BY <2>1, FrontTaken
    <2>2. CASE s.memory = <<>>
        <3>1. t.memory = s.memory /\ t.disk = s.disk /\ t.unspilled = s.unspilled /\ t \in Stores
            BY <2>2, <1>3 DEF Store, Stores
        <3>2. ToSet(s.memory) = {} /\ Len(s.memory) = 0
            BY <2>2 DEF ToSet
        <3> QED BY <2>2, <3>1, <3>2 DEF ItemsIn, Once
    <2> QED BY <2>1, <2>2
<1> HIDE DEF t, x
<1>5. itemCount' \in Nat /\ itemCount' <= itemCount /\ pushed' = pushed
    BY <1>1, <1>2
<1>6. ASSUME NEW n \in Stores, Set(n), Return, ItemsIn(n) = ItemsIn(t), Once(t) => Once(n),
             Fit(n.disk, Batch(config)), InFiles(s.disk) \subseteq ItemsIn(n)
      PROVE  /\ Typed /\ (Keeps \/ \E y \in Item : Pops(y))
             /\ InFiles(s.disk) \subseteq Held' /\ ToSet(s.memory) \subseteq Left
    <2>1. /\ memory' \in Seq(Item) /\ unspilled' \in Nat /\ disk' \in Seq(Seq(Item)) /\ disk' = n.disk
          /\ Held' = ItemsIn(n) /\ (Distinct' <=> Once(n))
        BY <1>6, SetTo
    <2>2. faults' = faults
        BY <1>6 DEF NoFail
    <2>3. CASE s.memory = <<>>
        <3>1. out' = out /\ result' = "none"
            BY <2>3, <1>6
        <3>2. Held' = Held /\ (Distinct => Distinct')
            BY <2>1, <2>3, <1>4, <1>6
        <3>3. Keeps
            BY <3>1, <3>2, <2>2, <1>5 DEF Keeps
        <3>4. Typed
            BY <3>1, <2>1, <2>2, <1>2, <1>5, <1>6 DEF Typed
        <3>5. ToSet(s.memory) \subseteq Left
            BY <2>3, <1>4
        <3> QED BY <3>3, <3>4, <3>5, <2>1, <1>6
    <2>4. CASE s.memory # <<>>
        <3>1. out' = Append(out, x) /\ result' = "item" /\ x \in Item
            BY <2>4, <1>4, <1>6
        <3>2. Held = Held' \cup {x} /\ (Distinct => Distinct' /\ x \notin Held')
            BY <2>1, <2>4, <1>4, <1>6
        <3>3. Pops(x)
            BY <3>1, <3>2, <2>2, <1>1, <1>5 DEF Pops
        <3>4. /\ out' \in Seq(Item) /\ Len(out') = Len(out) + 1 /\ Len(out) \in Nat
              /\ out'[Len(out) + 1] = x /\ DOMAIN out' = 1 .. Len(out')
            BY <3>1, <1>2, AppendProperties, LenProperties
        <3>5. Typed
            BY <3>1, <3>4, <2>1, <2>2, <1>2, <1>5, <1>6 DEF Typed
        <3>6. ToSet(s.memory) \subseteq Left
            <4>1. Len(out) + 1 \in DOMAIN out'
                BY <3>4
            <4>2. x \in ToSet(out')
                BY <4>1, <3>4 DEF ToSet
            <4>3. ToSet(t.memory) \subseteq Held'
                BY <2>1, <1>6 DEF ItemsIn
            <4> QED BY <4>2, <4>3, <2>4, <1>4 DEF Left
        <3> QED BY <3>1, <3>3, <3>5, <3>6, <2>1, <1>6
    <2> QED BY <2>3, <2>4
<1>7. CASE ~ short /\ Set(t) /\ Return
    <2>1. InFiles(s.disk) \subseteq ItemsIn(t)
        BY <1>4 DEF ItemsIn
    <2> QED BY <1>4, <1>6, <1>7, <2>1
<1>8. CASE short /\ Set(Loaded(t)) /\ Return
    <2>1. PICK n : n = Loaded(t)
        OBVIOUS
    <2>2. n \in Stores /\ ItemsIn(n) = ItemsIn(t) /\ (Once(t) => Once(n)) /\ Fit(n.disk, Batch(config))
        BY <1>2, <1>4, <1>8, <2>1, LoadedKeeps
    <2>3. InFiles(s.disk) \subseteq ItemsIn(n)
        BY <2>2, <1>4 DEF ItemsIn
    <2> QED BY <1>6, <1>8, <2>1, <2>2, <2>3
<1>9. CASE /\ short /\ \E f \in LoadFailures(t) : Set(f)
           /\ Fail /\ result' = "error" /\ UNCHANGED out
    <2>1. PICK f \in LoadFailures(t) : Set(f)
        BY <1>9
    <2>2. f \in Stores /\ Fit(f.disk, Batch(config)) /\ InFiles(s.disk) \subseteq ItemsIn(f)
        BY <1>2, <1>4, <1>9, LoadFails
    <2>3. /\ memory' \in Seq(Item) /\ unspilled' \in Nat /\ disk' \in Seq(Seq(Item)) /\ disk' = f.disk
          /\ Held' = ItemsIn(f)
        BY <2>1, <2>2, SetTo
    <2>4. faults' = faults + 1 /\ faults' \in 0 .. MaxFaults /\ Fails
        BY <1>2, <1>9 DEF Fail, Fails
    <2>5. Typed
        BY <2>2, <2>3, <2>4, <1>2, <1>5, <1>9 DEF Typed
    <2>6. Len(s.memory) <= Lower(config)
        BY <1>2, <1>4, <1>9
    <2> QED BY <2>2, <2>3, <2>4, <2>5, <2>6
<1> QED BY <1>1, <1>6, <1>7, <1>8, <1>9

(* Nothing of the files is missing where all of it is left.                *)
LEMMA AllLeft ==
    ASSUME SpillTypeInv, InFiles(disk) \subseteq Left
    PROVE  Survived
<1> SUFFICES ASSUME disk # <<>>
             PROVE  Cardinality(InFiles(disk) \ Left) <= Lower(config) /\ InFiles(Tail(disk)) \subseteq Left
    BY DEF Survived
<1>1. InFiles(disk) \ Left = {}
    OBVIOUS
<1>2. Cardinality({}) = 0 /\ Lower(config) \in Nat
    BY FS_EmptySet, ConfigNumbers DEF SpillTypeInv, SpillTypeOK
<1>3. disk \in Seq(Seq(Item))
    BY DEF SpillTypeInv, SpillTypeOK, Item
<1>4. InFiles(Tail(disk)) \subseteq InFiles(disk)
    BY <1>3, FilesShrink
<1>5. Cardinality(InFiles(disk) \ Left) <= Lower(config)
    <2>1. Cardinality(InFiles(disk) \ Left) = 0
        BY <1>1, <1>2, Zenon
    <2> QED BY <1>2, <2>1
<1>6. InFiles(Tail(disk)) \subseteq Left
    BY <1>4
<1> QED BY <1>5, <1>6

LEMMA PushStep ==
    ASSUME SpillTypeInv, FilesFit, Push
    PROVE  Typed /\ (Fails \/ Pushes) /\ Survived
<1> DEFINE x == pushed + 1
           m == Append(memory, x)
           u == IF disk = <<>> THEN unspilled ELSE unspilled + 1
           s == Store(m, u, disk)
<1>1. /\ config \in Configs /\ ValidConfig(config) /\ Batch(config) \in Nat
      /\ memory \in Seq(Item) /\ unspilled \in Nat /\ disk \in Seq(Seq(Item))
      /\ itemCount \in Nat /\ pushed \in 0 .. MaxItems /\ out \in Seq(Item) /\ faults \in 0 .. MaxFaults
      /\ MaxFaults \in Nat /\ MaxItems \in Nat /\ Fit(disk, Batch(config))
    BY ConfigNumbers, BoundsAssumption DEF SpillTypeInv, SpillTypeOK, Item, FilesFit
<1>2. /\ pushed < MaxItems /\ pushed' = x /\ itemCount' = itemCount + 1 /\ UNCHANGED <<config, out>>
      /\ \/ Len(s.memory) <= Upper(config) /\ Set(s) /\ result' = "pushed" /\ NoFail
         \/ SpillRefused(s) /\ Set(s) /\ result' = "error" /\ NoFail
         \/ ~ SpillRefused(s) /\ Set(Spilled(s)) /\ result' = "pushed" /\ NoFail
         \/ /\ ~ SpillRefused(s) /\ \E f \in SpillFailures(s) : Set(f)
            /\ result' = "error" /\ Fail
    BY DEF Push
<1>3. x \in Item /\ pushed' \in 0 .. MaxItems /\ itemCount' \in Nat
    BY <1>1, <1>2 DEF Item
<1> DEFINE one == <<x>>
<1>4. one \in Seq(Item) /\ ToSet(one) = {x} /\ IsInjective(one)
    BY <1>3 DEF ToSet, IsInjective
<1>5. m = memory \o one
    BY <1>1, <1>3, AppendIsConcat
<1> HIDE DEF x, one
<1>6. /\ m \in Seq(Item) /\ ToSet(m) = ToSet(memory) \cup {x}
      /\ IsInjective(memory) /\ x \notin ToSet(memory) => IsInjective(m)
    <2>1. /\ memory \o one \in Seq(Item) /\ ToSet(memory \o one) = ToSet(memory) \cup ToSet(one)
          /\ IsInjective(memory) /\ IsInjective(one) /\ ToSet(memory) \cap ToSet(one) = {}
                => IsInjective(memory \o one)
        BY <1>1, <1>4, JoinItems
    <2> QED BY <2>1, <1>4, <1>5
<1>7. u \in Nat
    BY <1>1
<1> HIDE DEF m, u
<1>8. s \in Stores /\ s.memory = m /\ s.disk = disk
    BY <1>1, <1>6, <1>7 DEF Store, Stores
<1> HIDE DEF s
<1>9. ItemsIn(s) = Held \cup {x} /\ (Distinct /\ x \notin Held => Once(s))
    BY <1>6, <1>8 DEF ItemsIn, Held, Distinct, Once, Here, Store
<1>10. ASSUME NEW n \in Stores, Set(n), NoFail, result' \in {"pushed", "error"},
              ItemsIn(n) = ItemsIn(s), Once(s) => Once(n), Fit(n.disk, Batch(config))
       PROVE  Typed /\ Pushes /\ Survived
    <2>1. /\ memory' \in Seq(Item) /\ unspilled' \in Nat /\ disk' \in Seq(Seq(Item)) /\ disk' = n.disk
          /\ Held' = ItemsIn(n) /\ (Distinct' <=> Once(n))
        BY <1>10, SetTo
    <2>2. faults' = faults /\ out' = out
        BY <1>2, <1>10 DEF NoFail
    <2>3. Typed
        BY <2>1, <2>2, <1>1, <1>3, <1>10 DEF Typed
    <2>4. Held' = Held \cup {x} /\ (Distinct /\ x \notin Held => Distinct')
        BY <2>1, <1>9, <1>10
    <2>5. Pushes
        BY <2>2, <2>4, <1>2 DEF Pushes, x
    <2>6. InFiles(disk) \subseteq Left
        BY <2>4 DEF Held, Left
    <2> QED BY <2>3, <2>5, <2>6, AllLeft
<1>11. CASE (Len(s.memory) <= Upper(config) \/ SpillRefused(s)) /\ Set(s)
            /\ result' \in {"pushed", "error"} /\ NoFail
    BY <1>1, <1>8, <1>10, <1>11
<1>12. CASE ~ SpillRefused(s) /\ Set(Spilled(s)) /\ result' = "pushed" /\ NoFail
    <2>1. PICK n : n = Spilled(s)
        OBVIOUS
    <2>2. n \in Stores /\ ItemsIn(n) = ItemsIn(s) /\ (Once(s) => Once(n)) /\ Fit(n.disk, Batch(config))
        BY <1>1, <1>8, <1>12, <2>1, SpilledKeeps
    <2> QED BY <1>10, <1>12, <2>1, <2>2
<1>13. CASE /\ ~ SpillRefused(s) /\ \E f \in SpillFailures(s) : Set(f)
            /\ result' = "error" /\ Fail
    <2>1. PICK f \in SpillFailures(s) : Set(f)
        BY <1>13
    <2>2. f \in Stores /\ f.disk = disk
        BY <1>1, <1>8, <1>13, <2>1, SpillFails
    <2>3. memory' \in Seq(Item) /\ unspilled' \in Nat /\ disk' = disk
        BY <2>1, <2>2, SetTo
    <2>4. faults' = faults + 1 /\ faults' \in 0 .. MaxFaults /\ Fails
        BY <1>1, <1>2, <1>13 DEF Fail, Fails
    <2>5. Typed
        BY <2>3, <2>4, <1>1, <1>2, <1>3, <1>13 DEF Typed
    <2>6. InFiles(disk) \subseteq Left
        BY <2>3 DEF Held, Left
    <2> QED BY <2>4, <2>5, <2>6, AllLeft
<1> QED BY <1>2, <1>11, <1>12, <1>13

LEMMA PopStep ==
    ASSUME SpillTypeInv, FilesFit, SpillPop
    PROVE  Typed /\ (Fails \/ Keeps \/ \E x \in Item : Pops(x)) /\ Survived
<1> DEFINE s == Store(memory, unspilled, disk)
           empty == memory = <<>> /\ disk # <<>>
<1>1. /\ config \in Configs /\ ValidConfig(config) /\ Batch(config) \in Nat /\ Lower(config) \in Nat
      /\ memory \in Seq(Item) /\ unspilled \in Nat /\ disk \in Seq(Seq(Item))
      /\ itemCount \in Nat /\ pushed \in 0 .. MaxItems /\ out \in Seq(Item) /\ faults \in 0 .. MaxFaults
      /\ MaxFaults \in Nat /\ Fit(disk, Batch(config))
      /\ result \in {"pushed", "item", "none", "error"}
    BY ConfigNumbers, BoundsAssumption DEF SpillTypeInv, SpillTypeOK, Item, FilesFit
<1>2. /\ UNCHANGED <<config, pushed>>
      /\ \/ /\ itemCount = 0 /\ result' = "none" /\ NoFail
            /\ UNCHANGED <<memory, unspilled, disk, itemCount, out>>
         \/ itemCount > 0 /\ ~ empty /\ Take(s)
         \/ itemCount > 0 /\ empty /\ ~ LoadRefused(s) /\ Take(Loaded(s))
         \/ itemCount > 0 /\ empty /\ PopFails(s)
    BY DEF SpillPop
<1>3. /\ s \in Stores /\ s.memory = memory /\ s.disk = disk /\ Held = ItemsIn(s) /\ (Distinct <=> Once(s))
    BY <1>1, HereIs DEF Here, Store, Stores, SpillTypeInv, Distinct
<1> HIDE DEF s
<1>4. CASE /\ itemCount = 0 /\ result' = "none" /\ NoFail
           /\ UNCHANGED <<memory, unspilled, disk, itemCount, out>>
    <2>1. Held' = Held /\ (Distinct' <=> Distinct)
        BY <1>4 DEF Held, Distinct, Here, Store, Once
    <2>2. Keeps
        BY <2>1, <1>1, <1>2, <1>4 DEF Keeps, NoFail
    <2>3. Typed
        BY <1>1, <1>2, <1>4 DEF Typed, NoFail
    <2>4. InFiles(disk) \subseteq Left
        BY <2>1 DEF Held, Left
    <2> QED BY <2>2, <2>3, <2>4, AllLeft
<1>5. CASE itemCount > 0 /\ ~ empty /\ Take(s)
    <2>1. /\ Typed /\ (Fails \/ Keeps \/ \E x \in Item : Pops(x)) /\ InFiles(disk) \subseteq Held'
        BY <1>1, <1>2, <1>3, <1>5, TakeStep
    <2> QED BY <2>1, AllLeft DEF Left
<1>6. CASE itemCount > 0 /\ empty /\ ~ LoadRefused(s) /\ Take(Loaded(s))
    <2>1. PICK n : n = Loaded(s)
        OBVIOUS
    <2>2. /\ n \in Stores /\ ItemsIn(n) = ItemsIn(s) /\ (Once(s) => Once(n)) /\ Fit(n.disk, Batch(config))
          /\ n.disk = Tail(disk)
        BY <1>1, <1>3, <1>6, <2>1, LoadedKeeps
    <2>3. /\ Typed /\ (Fails \/ Keeps \/ \E x \in Item : Pops(x)) /\ InFiles(n.disk) \subseteq Held'
          /\ (ToSet(n.memory) \subseteq Left \/ Len(n.memory) <= Lower(config))
        BY <1>2, <1>3, <1>6, <2>1, <2>2, TakeStep
    <2>4. InFiles(disk) \subseteq ToSet(n.memory) \cup Left
        BY <2>2, <2>3, <1>3 DEF ItemsIn, Left
    <2>5. CASE ToSet(n.memory) \subseteq Left
        BY <2>3, <2>4, <2>5, AllLeft
    <2>6. CASE Len(n.memory) <= Lower(config)
        <3>1. InFiles(disk) \ Left \in SUBSET ToSet(n.memory)
            BY <2>4
        <3>2. n.memory \in Seq(Item)
            BY <2>2 DEF Stores
        <3>3. /\ IsFiniteSet(ToSet(n.memory)) /\ Cardinality(ToSet(n.memory)) \in Nat
              /\ Cardinality(ToSet(n.memory)) <= Len(n.memory) /\ Len(n.memory) \in Nat
            BY <3>2, FewItems, FS_CardinalityType, LenProperties
        <3>4. /\ Cardinality(InFiles(disk) \ Left) \in Nat
              /\ Cardinality(InFiles(disk) \ Left) <= Cardinality(ToSet(n.memory))
            BY <3>1, <3>3, FS_Subset, FS_CardinalityType
        <3>5. Cardinality(InFiles(disk) \ Left) <= Lower(config)
            BY <3>3, <3>4, <2>6, <1>1
        <3>6. InFiles(Tail(disk)) \subseteq Left
            BY <2>2, <2>3 DEF Left
        <3> QED BY <3>5, <3>6, <2>3 DEF Survived
    <2> QED BY <2>3, <2>5, <2>6
<1>7. CASE itemCount > 0 /\ empty /\ PopFails(s)
    <2>1. /\ result' = "error" /\ UNCHANGED <<itemCount, out>>
          /\ \/ Set(s) /\ NoFail
             \/ Fail /\ \E f \in LoadFailures(s) : Set(f)
        BY <1>7 DEF PopFails
    <2>2. CASE Set(s) /\ NoFail
        <3>1. /\ memory' \in Seq(Item) /\ unspilled' \in Nat /\ disk' \in Seq(Seq(Item)) /\ disk' = disk
              /\ Held' = Held /\ (Distinct' <=> Distinct)
            BY <1>3, <2>2, SetTo
        <3>2. Keeps
            BY <3>1, <2>1, <2>2, <1>1, <1>2 DEF Keeps, NoFail
        <3>3. Typed
            BY <3>1, <2>1, <2>2, <1>1, <1>2 DEF Typed, NoFail
        <3>4. InFiles(disk) \subseteq Left
            BY <3>1 DEF Held, Left
        <3> QED BY <3>2, <3>3, <3>4, AllLeft
    <2>3. CASE Fail /\ \E f \in LoadFailures(s) : Set(f)
        <3>1. PICK f \in LoadFailures(s) : Set(f)
            BY <2>3
        <3>2. f \in Stores /\ Fit(f.disk, Batch(config)) /\ InFiles(disk) \subseteq ItemsIn(f)
            BY <1>1, <1>3, <1>7, <3>1, LoadFails
        <3>3. /\ memory' \in Seq(Item) /\ unspilled' \in Nat /\ disk' \in Seq(Seq(Item)) /\ disk' = f.disk
              /\ Held' = ItemsIn(f)
            BY <3>1, <3>2, SetTo
        <3>4. faults' = faults + 1 /\ faults' \in 0 .. MaxFaults /\ Fails
            BY <1>1, <2>1, <2>3 DEF Fail, Fails
        <3>5. Typed
            BY <3>2, <3>3, <3>4, <2>1, <1>1, <1>2 DEF Typed
        <3>6. InFiles(disk) \subseteq Left
            BY <3>2, <3>3 DEF Left
        <3> QED BY <3>4, <3>5, <3>6, AllLeft
    <2> QED BY <2>1, <2>2, <2>3
<1> QED BY <1>2, <1>4, <1>5, <1>6, <1>7

-----------------------------------------------------------------------------
LEMMA InvInit == NewQueue => Inv
<1> SUFFICES ASSUME NewQueue PROVE Inv
    OBVIOUS
<1>1. /\ config \in Configs /\ ValidConfig(config)
      /\ memory = <<>> /\ unspilled = 0 /\ disk = <<>> /\ itemCount = 0
      /\ pushed = 0 /\ out = <<>> /\ result = "pushed" /\ faults = 0
    BY DEF NewQueue
<1>2. \A S : <<>> \in Seq(S)
    OBVIOUS
<1>3. SpillTypeInv
    BY <1>1, <1>2, BoundsAssumption DEF SpillTypeInv, SpillTypeOK
<1>4. FilesFit
    BY <1>1 DEF FilesFit, Fit
<1>5. ToSet(out) = {} /\ ToSet(memory) = {} /\ InFiles(disk) = {}
    BY <1>1 DEF ToSet, InFiles
<1>6. Held = {} /\ Cardinality({}) = 0 /\ 1 .. pushed = {}
    BY <1>1, <1>5, FS_EmptySet DEF Held
<1>7. IsInjective(out) /\ IsInjective(memory) /\ Separate(disk)
    BY <1>1 DEF IsInjective, Separate
<1>8. NothingLost
    BY <1>5, <1>6, <1>7 DEF NothingLost
<1>9. CountNotOver
    <2>1. Cardinality(Held) = 0
        BY <1>6, Zenon
    <2> QED BY <2>1, <1>1 DEF CountNotOver
<1> QED BY <1>3, <1>4, <1>8, <1>9 DEF Inv

(* Without errors the items are in one place each, and counted.            *)
Kept ==
    /\ ToSet(out) \cup Held = 1 .. pushed /\ IsInjective(out) /\ Distinct
    /\ ToSet(out) \cap Held = {} /\ itemCount <= Cardinality(Held)

LEMMA KeptIs == NothingLost /\ CountNotOver <=> (faults = 0 => Kept)
BY DEF NothingLost, CountNotOver, Kept, Distinct, Here, Store, Once, Held

LEMMA KeptStep ==
    ASSUME SpillTypeInv, Typed, Kept, Keeps \/ Pushes \/ \E x \in Item : Pops(x)
    PROVE  Kept'
<1>1. /\ itemCount \in Nat /\ pushed \in Nat /\ out \in Seq(Item) /\ itemCount' \in Nat
    BY DEF SpillTypeInv, SpillTypeOK, Typed, Item
<1>2. /\ ToSet(out) \cup Held = 1 .. pushed /\ IsInjective(out) /\ Distinct
      /\ ToSet(out) \cap Held = {} /\ itemCount <= Cardinality(Held)
    BY DEF Kept
<1>3. IsFiniteSet(Held) /\ Cardinality(Held) \in Nat
    <2>1. IsFiniteSet(1 .. pushed)
        BY <1>1, FS_Interval
    <2>2. Held \in SUBSET (1 .. pushed)
        BY <1>2
    <2> QED BY <2>1, <2>2, FS_Subset, FS_CardinalityType
<1>4. CASE Keeps
    <2>1. UNCHANGED <<out, pushed>> /\ itemCount' <= itemCount /\ Held' = Held /\ Distinct'
        BY <1>2, <1>4 DEF Keeps
    <2>2. itemCount' <= Cardinality(Held')
        BY <2>1, <1>1, <1>2, <1>3
    <2>3. ToSet(out') \cup Held' = 1 .. pushed' /\ IsInjective(out') /\ ToSet(out') \cap Held' = {}
        BY <2>1, <1>2
    <2> QED BY <2>1, <2>2, <2>3 DEF Kept
<1>5. CASE Pushes
    <2>1. /\ out' = out /\ pushed' = pushed + 1 /\ itemCount' = itemCount + 1
          /\ Held' = Held \cup {pushed + 1} /\ (Distinct /\ pushed + 1 \notin Held => Distinct')
        BY <1>5 DEF Pushes
    <2>2. 1 .. pushed + 1 = (1 .. pushed) \cup {pushed + 1} /\ pushed + 1 \notin 1 .. pushed
        BY <1>1
    <2>3. pushed + 1 \notin Held /\ pushed + 1 \notin ToSet(out)
        BY <2>2, <1>2
    <2>4. Cardinality(Held') = Cardinality(Held) + 1
        <3>1. Cardinality(Held \cup {pushed + 1}) = Cardinality(Held) + 1
            BY <2>3, <1>3, FS_AddElement
        <3> QED BY <2>1, <3>1, Zenon
    <2>5. itemCount' <= Cardinality(Held')
        BY <2>1, <2>4, <1>1, <1>2, <1>3
    <2>6. ToSet(out') \cup Held' = 1 .. pushed' /\ IsInjective(out') /\ ToSet(out') \cap Held' = {}
        BY <2>1, <2>2, <2>3, <1>2
    <2> QED BY <2>1, <2>3, <2>5, <2>6, <1>2 DEF Kept
<1>6. CASE \E x \in Item : Pops(x)
    <2>1. PICK x \in Item : Pops(x)
        BY <1>6
    <2>2. /\ pushed' = pushed /\ out' = Append(out, x) /\ itemCount' = itemCount - 1
          /\ Held = Held' \cup {x} /\ Distinct' /\ x \notin Held'
        BY <2>1, <1>2 DEF Pops
    <2> DEFINE one == <<x>>
    <2>3. one \in Seq(Item) /\ ToSet(one) = {x} /\ IsInjective(one)
        BY DEF ToSet, IsInjective
    <2>4. out' = out \o one
        BY <2>2, <1>1, AppendIsConcat
    <2> HIDE DEF one
    <2>5. x \notin ToSet(out)
        BY <2>2, <1>2
    <2>6. ToSet(out') = ToSet(out) \cup {x} /\ IsInjective(out')
        <3>1. /\ ToSet(out \o one) = ToSet(out) \cup ToSet(one)
              /\ IsInjective(out) /\ IsInjective(one) /\ ToSet(out) \cap ToSet(one) = {}
                    => IsInjective(out \o one)
            BY <2>3, <1>1, JoinItems
        <3> QED BY <3>1, <2>3, <2>4, <2>5, <1>2
    <2>7. Cardinality(Held) = Cardinality(Held') + 1 /\ Cardinality(Held') \in Nat
        <3>1. PICK h : h = Held'
            OBVIOUS
        <3>2. h \in SUBSET Held
            BY <3>1, <2>2
        <3>3. IsFiniteSet(h) /\ Cardinality(h) \in Nat
            BY <3>2, <1>3, FS_Subset, FS_CardinalityType
        <3>4. Cardinality(h \cup {x}) = Cardinality(h) + 1
            BY <3>1, <3>3, <2>2, FS_AddElement
        <3>5. Held = h \cup {x}
            BY <3>1, <2>2
        <3>6. Cardinality(Held) = Cardinality(h \cup {x})
            BY <3>5, Zenon
        <3> QED BY <3>1, <3>3, <3>4, <3>6
    <2>8. itemCount' <= Cardinality(Held')
        BY <2>2, <2>7, <1>1, <1>2
    <2>9. ToSet(out') \cup Held' = 1 .. pushed' /\ ToSet(out') \cap Held' = {}
        BY <2>2, <2>6, <1>2
    <2> QED BY <2>2, <2>6, <2>8, <2>9 DEF Kept
<1> QED BY <1>4, <1>5, <1>6

LEMMA InvStep == Inv /\ [QueueNext]_spillVars => Inv'
<1> SUFFICES ASSUME Inv, [QueueNext]_spillVars PROVE Inv'
    OBVIOUS
<1>1. SpillTypeInv /\ FilesFit /\ (faults = 0 => Kept)
    BY KeptIs DEF Inv
<1>2. CASE Push \/ SpillPop
    <2>1. config' = config
        BY <1>2 DEF Push, SpillPop
    <2>2. Typed /\ (Fails \/ Keeps \/ Pushes \/ \E x \in Item : Pops(x))
        BY <1>1, <1>2, PushStep, PopStep
    <2>3. SpillTypeInv'
        BY <1>1, <2>1, <2>2 DEF SpillTypeInv, SpillTypeOK, Typed, Item
    <2>4. FilesFit'
        BY <2>1, <2>2 DEF FilesFit, Typed
    <2>5. faults' = 0 => Kept'
        <3>1. SUFFICES ASSUME faults' = 0 PROVE Kept'
            OBVIOUS
        <3>2. faults \in Nat
            BY <1>1 DEF SpillTypeInv, SpillTypeOK
        <3>3. ~ Fails
            BY <3>1, <3>2 DEF Fails
        <3>4. faults = 0
            BY <3>1, <3>3, <2>2 DEF Keeps, Pushes, Pops
        <3> QED BY <3>3, <3>4, <1>1, <2>2, KeptStep
    <2>6. (NothingLost /\ CountNotOver)'
        BY <2>5 DEF NothingLost, CountNotOver, Kept, Distinct, Here, Store, Once, Held
    <2> QED BY <2>3, <2>4, <2>6 DEF Inv
<1>3. CASE SetConfig /\ Batch(config') = Batch(config)
    <2>1. /\ config' \in Configs /\ ValidConfig(config')
          /\ UNCHANGED <<memory, unspilled, disk, itemCount, pushed, out, result, faults>>
        BY <1>3 DEF SetConfig
    <2>2. SpillTypeInv'
        BY <1>1, <2>1 DEF SpillTypeInv, SpillTypeOK
    <2>3. FilesFit'
        BY <1>1, <1>3, <2>1 DEF FilesFit
    <2>4. (NothingLost /\ CountNotOver)'
        BY <2>1 DEF Inv, NothingLost, CountNotOver, Held
    <2> QED BY <2>2, <2>3, <2>4 DEF Inv
<1>4. CASE UNCHANGED spillVars
    BY <1>4 DEF spillVars, Inv, SpillTypeInv, SpillTypeOK, FilesFit, NothingLost, CountNotOver, Held
<1> QED BY <1>2, <1>3, <1>4 DEF QueueNext

(* The inductive invariant: types and valid settings, files no longer than *)
(* a batch, which load_from_disk needs to read them whole, and the items.  *)
THEOREM QueueInvariance == QueueSpec => []Inv
<1> QED BY InvInit, InvStep, PTL DEF QueueSpec

(* Whoever calls push, pop and set_config (but for the batch size), in any *)
(* order and with any settings: without I/O errors each item pushed is     *)
(* popped or held, once.                                                   *)
THEOREM NothingIsLost == QueueSpec => []NothingLost
<1>1. Inv => NothingLost
    BY DEF Inv
<1> QED BY <1>1, QueueInvariance, PTL

(* item_count does not promise more than there is.                         *)
THEOREM CountIsNotOver == QueueSpec => []CountNotOver
<1>1. Inv => CountNotOver
    BY DEF Inv
<1> QED BY <1>1, QueueInvariance, PTL

LEMMA SurvivedStep ==
    ASSUME Inv, [QueueNext]_spillVars
    PROVE  Survived
<1>1. SpillTypeInv /\ FilesFit
    BY DEF Inv
<1>2. CASE Push \/ SpillPop
    BY <1>1, <1>2, PushStep, PopStep
<1>3. CASE UNCHANGED <<memory, disk>>
    <2>1. InFiles(disk) \subseteq Left
        BY <1>3 DEF Left, Held
    <2> QED BY <1>1, <2>1, AllLeft
<1> QED BY <1>2, <1>3 DEF QueueNext, SetConfig, spillVars

(* An error with one batch leaves the files behind it as they are, and     *)
(* costs of its own file no more than the lower bound.                     *)
THEOREM FilesDoSurvive == QueueSpec => FilesSurvive
<1>1. Inv /\ [QueueNext]_spillVars =>
         LET left == ToSet(out') \cup Held' IN
         disk # <<>> => /\ Cardinality(InFiles(disk) \ left) <= Lower(config)
                        /\ InFiles(Tail(disk)) \subseteq left
    BY SurvivedStep DEF Survived, Left
<1> QED BY <1>1, QueueInvariance, PTL DEF QueueSpec, FilesSurvive

(* The scan worker only calls the queue: all of this holds of its scan.    *)
THEOREM ScanCallsQueue == ScanSpec => QueueSpec
<1>1. ScanInit => NewQueue
    BY DEF ScanInit
<1>2. [ScanNext]_scanVars => [QueueNext]_spillVars
    BY DEF ScanNext, scanVars, EnqueueRoot, PopDir, EnqueueSubdir, LeaveDir, Reconfigure, Exited, QueueNext
<1> QED BY <1>1, <1>2, PTL DEF ScanSpec, QueueSpec

(* The scan's directories are neither lost nor doubled without an error,   *)
(* item_count promises no more than there are, and an error in a file      *)
(* costs no directory of the files behind it.                              *)
THEOREM ScanLosesNothing == ScanSpec => []NothingLost /\ []CountNotOver /\ FilesSurvive
<1> QED BY ScanCallsQueue, NothingIsLost, CountIsNotOver, FilesDoSurvive, PTL

=============================================================================
