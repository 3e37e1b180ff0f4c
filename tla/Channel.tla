------------------------------- MODULE Channel -------------------------------
(***************************************************************************)
(* What utility/blocking_queue.rs promises its callers: a closable FIFO    *)
(* channel of bounded capacity.  Locks, condition variables and waiting    *)
(* are absent; BlockingQueue is shown to implement this module.            *)
(***************************************************************************)
EXTENDS Naturals, Sequences

CONSTANTS Items,      \* what can be sent
          Receivers,  \* who may receive
          Capacity    \* the capacity given to BlockingQueue::new

VARIABLES buffer,     \* items accepted and not yet received, oldest first
          open,       \* FALSE once close has been called
          ended       \* the receivers that were told the stream has ended

vars == <<buffer, open, ended>>

Init == buffer = <<>> /\ open = TRUE /\ ended = {}

(* An item is accepted only while the channel is open and has room.        *)
Send(i) ==
    /\ open
    /\ Len(buffer) < Capacity
    /\ buffer' = Append(buffer, i)
    /\ UNCHANGED <<open, ended>>

Receive(r) ==
    /\ r \notin ended
    /\ buffer # <<>>
    /\ buffer' = Tail(buffer)
    /\ UNCHANGED <<open, ended>>

Close ==
    /\ open' = FALSE
    /\ UNCHANGED <<buffer, ended>>

(* The end of the stream is announced only once closed and drained.        *)
End(r) ==
    /\ ~open /\ buffer = <<>>
    /\ ended' = ended \cup {r}
    /\ UNCHANGED <<buffer, open>>

Next ==
    \/ \E i \in Items : Send(i)
    \/ \E r \in Receivers : Receive(r) \/ End(r)
    \/ Close

Spec == Init /\ [][Next]_vars
=============================================================================
