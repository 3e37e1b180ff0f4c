---------------------------- MODULE BlockingQueue ----------------------------
(***************************************************************************)
(* utility/blocking_queue.rs: a bounded queue guarded by one mutex and two *)
(* condition variables, with the threads that use it.  A call of push or   *)
(* pop is one critical section up to the point where it returns or waits,  *)
(* and another one after each wakeup, so the actions below are exactly the *)
(* critical sections.                                                      *)
(***************************************************************************)
EXTENDS Naturals, Sequences, FiniteSets

CONSTANTS Producers,        \* threads that call push
          Consumers,        \* threads that call pop until it returns None
          Capacity,         \* argument of BlockingQueue::new
          Quota,            \* bound: pushes each producer makes
          QuietClose        \* does close come only while no push is under way?

ASSUME ThreadsAssumption ==
    /\ Producers \cap Consumers = {}
    /\ IsFiniteSet(Producers) /\ IsFiniteSet(Consumers)

(* BlockingQueue::new panics unless the capacity is positive.              *)
ASSUME CapacityAssumption == Capacity \in Nat \ {0}

ASSUME QuotaAssumption == Quota \in Nat /\ QuietClose \in BOOLEAN

VARIABLES
    queue,    \* inner.0
    closed,   \* inner.2
    pc,       \* where each thread is, see State
    sent,     \* pushes each producer has completed, accepted or refused
    accepted, \* history: the items push has returned Ok for, in lock order
    popped    \* history: the items pop has returned, in lock order

vars == <<queue, closed, pc, sent, accepted, popped>>

Items == Producers \X (1 .. Quota)

(* "ready": outside the queue, about to call it; "waiting": inside         *)
(* Condvar::wait; "woken": notified, about to retake the mutex; "done":    *)
(* will not call the queue again.                                          *)
State == {"ready", "waiting", "woken", "done"}

InState(T, s) == {t \in T : pc[t] = s}

-----------------------------------------------------------------------------
Init ==
    /\ queue = <<>>
    /\ closed = FALSE
    /\ pc = [t \in Producers \cup Consumers |->
                IF t \in Producers /\ Quota = 0 THEN "done" ELSE "ready"]
    /\ sent = [p \in Producers |-> 0]
    /\ accepted = <<>>
    /\ popped = <<>>

(* Faulty variant: the notification is forgotten.                          *)
NotifyOne_Forgotten(T, t, s) == pc' = [pc EXCEPT ![t] = s]

(* notify_one on the condition variable the threads T wait on, in the same *)
(* step as thread t moves to state s.                                      *)
NotifyOne(T, t, s) ==
    IF InState(T, "waiting") = {}
    THEN pc' = [pc EXCEPT ![t] = s]
    ELSE \E w \in InState(T, "waiting") :
            pc' = [pc EXCEPT ![t] = s, ![w] = "woken"]

(* Where producer p goes when a push returns.                              *)
AfterPush(p) == IF sent[p] + 1 = Quota THEN "done" ELSE "ready"

Wait(t) ==
    /\ pc' = [pc EXCEPT ![t] = "waiting"]
    /\ UNCHANGED <<queue, closed, sent, accepted, popped>>

(* push_back, then notify_one(not_empty).                                  *)
Enqueue(p) ==
    LET item == <<p, sent[p] + 1>> IN
    /\ queue' = Append(queue, item)
    /\ accepted' = Append(accepted, item)
    /\ sent' = [sent EXCEPT ![p] = @ + 1]
    /\ NotifyOne(Consumers, p, AfterPush(p))
    /\ UNCHANGED <<closed, popped>>

(* push on a closed queue returns Err(item).                               *)
PushRefused(p) ==
    /\ pc[p] = "ready" /\ closed
    /\ sent' = [sent EXCEPT ![p] = @ + 1]
    /\ pc' = [pc EXCEPT ![p] = AfterPush(p)]
    /\ UNCHANGED <<queue, closed, accepted, popped>>

(* push, up to its first wait: closed is tested here and nowhere else.     *)
PushEnter(p) ==
    /\ pc[p] = "ready" /\ ~closed
    /\ IF Len(queue) >= Capacity THEN Wait(p) ELSE Enqueue(p)

(* push after not_full.wait returned: only the length is tested again.     *)
PushResume(p) ==
    /\ pc[p] = "woken"
    /\ IF Len(queue) >= Capacity THEN Wait(p) ELSE Enqueue(p)

(* Faulty variant: the queue is popped at the back.                        *)
Dequeue_Back(c) ==
    /\ popped' = Append(popped, queue[Len(queue)])
    /\ queue' = SubSeq(queue, 1, Len(queue) - 1)
    /\ NotifyOne(Producers, c, "ready")
    /\ UNCHANGED <<closed, sent, accepted>>

(* Faulty variant: pop makes room without notifying not_full.              *)
Dequeue_Silent(c) ==
    /\ popped' = Append(popped, Head(queue))
    /\ queue' = Tail(queue)
    /\ pc' = [pc EXCEPT ![c] = "ready"]
    /\ UNCHANGED <<closed, sent, accepted>>

(* pop takes the front item and notifies not_full.                         *)
Dequeue(c) ==
    /\ popped' = Append(popped, Head(queue))
    /\ queue' = Tail(queue)
    /\ NotifyOne(Producers, c, "ready")
    /\ UNCHANGED <<closed, sent, accepted>>

(* pop on an empty, closed queue returns None.                             *)
PopNone(c) ==
    /\ pc' = [pc EXCEPT ![c] = "done"]
    /\ UNCHANGED <<queue, closed, sent, accepted, popped>>

(* Faulty variant: a closed queue gives None before it is drained.         *)
Pop_ClosedFirst(c) ==
    /\ pc[c] \in {"ready", "woken"}
    /\ \/ closed /\ PopNone(c)
       \/ ~closed /\ queue # <<>> /\ Dequeue(c)
       \/ ~closed /\ queue = <<>> /\ Wait(c)

(* pop, both on entry and after a wakeup: the loop makes the same tests.   *)
Pop(c) ==
    /\ pc[c] \in {"ready", "woken"}
    /\ \/ queue # <<>> /\ Dequeue(c)
       \/ queue = <<>> /\ closed /\ PopNone(c)
       \/ queue = <<>> /\ ~closed /\ Wait(c)

(* Condvar::wait may return although nobody notified it.                   *)
SpuriousWakeup(t) ==
    /\ pc[t] = "waiting"
    /\ pc' = [pc EXCEPT ![t] = "woken"]
    /\ UNCHANGED <<queue, closed, sent, accepted, popped>>

(* close sets the flag and notifies every thread waiting on not_empty; the *)
(* threads waiting on not_full are not notified.  The scanner's terminator *)
(* joins the threads that push before it calls close, one way to make sure *)
(* that no push is under way (QuietClose).                                 *)
Close ==
    /\ ~closed
    /\ QuietClose => InState(Producers, "waiting") \cup InState(Producers, "woken") = {}
    /\ closed' = TRUE
    /\ pc' = [t \in DOMAIN pc |->
                IF t \in InState(Consumers, "waiting") THEN "woken" ELSE pc[t]]
    /\ UNCHANGED <<queue, sent, accepted, popped>>

(* Every call has returned: the threads have nothing left to do.           *)
Finished == closed /\ \A t \in DOMAIN pc : pc[t] = "done"

Next ==
    \/ \E p \in Producers : PushRefused(p) \/ PushEnter(p) \/ PushResume(p)
    \/ \E c \in Consumers : Pop(c)
    \/ \E t \in Producers \cup Consumers : SpuriousWakeup(t)
    \/ Close
    \/ Finished /\ UNCHANGED vars

Spec == Init /\ [][Next]_vars

(* Each thread keeps running, and the owner eventually calls close.  No    *)
(* fairness is assumed of spurious wakeups.                                *)
Fairness ==
    /\ \A p \in Producers :
          WF_vars(PushRefused(p) \/ PushEnter(p) \/ PushResume(p))
    /\ \A c \in Consumers : WF_vars(Pop(c))
    /\ WF_vars(Close)

FairSpec == Spec /\ Fairness

-----------------------------------------------------------------------------
TypeOK ==
    /\ queue \in Seq(Items)
    /\ closed \in BOOLEAN
    /\ pc \in [Producers \cup Consumers -> State]
    /\ sent \in [Producers -> 0 .. Quota]
    /\ accepted \in Seq(Items)
    /\ popped \in Seq(Items)

(* However many producers are woken at once, the capacity given to         *)
(* BlockingQueue::new is never exceeded: a woken push tests the length     *)
(* again because another producer may have taken the free slot.            *)
CapacityRespected == Len(queue) <= Capacity

(* No item is lost, duplicated or overtaken: what pop has returned,        *)
(* followed by what is still queued, is what push accepted, in order.      *)
FifoDelivery == accepted = popped \o queue

(* No wakeup of a consumer is lost: as long as some consumer waits, every  *)
(* queued item has a woken consumer on its way to take it.  notify_one     *)
(* wakes a single thread, so this needs a notification for every push.     *)
ConsumersNotified ==
    InState(Consumers, "waiting") # {} =>
        Len(queue) <= Cardinality(InState(Consumers, "woken"))

(* No wakeup of a producer is lost: as long as some producer waits, every  *)
(* free slot has a woken producer on its way to fill it.                   *)
ProducersNotified ==
    InState(Producers, "waiting") # {} =>
        Capacity <= Len(queue) + Cardinality(InState(Producers, "woken"))

(* A consumer is told None only after the queue was closed, and then for   *)
(* good: nothing is queued behind its back.  It holds only if no push is   *)
(* under way at the time of close.                                         *)
EndIsFinal ==
    InState(Consumers, "done") # {} => closed /\ queue = <<>>

(* Every accepted item is eventually delivered and every thread's calls    *)
(* return, so that the pipeline around the queue can be joined.            *)
AllDelivered == <>(popped = accepted /\ Finished)

(* The queue implements the closable FIFO channel its callers rely on.     *)
ChannelView == INSTANCE Channel WITH
    Receivers <- Consumers, buffer <- queue, open <- ~closed,
    ended <- InState(Consumers, "done")

ImplementsChannel == ChannelView!Spec
=============================================================================
