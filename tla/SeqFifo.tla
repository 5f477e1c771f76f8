------------------------------- MODULE SeqFifo -------------------------------
(***************************************************************************)
(* What the queue of madt.h promises a program built without threads: a    *)
(* FIFO queue whose enqueue answers -1 when it is full and whose dequeue   *)
(* answers NULL when it is empty.  mqueue_vacuum is not to be noticed.     *)
(***************************************************************************)
EXTENDS Naturals, Sequences

CONSTANTS Items,
          NoItem,    \* NULL
          Full,      \* -1 as the uint64_t that is returned
          MaxSize    \* 0: unlimited

VARIABLES queue,   \* the items on the queue, oldest first
          ret,     \* the value of the last call
          stopped  \* the process is gone, or the queue is destroyed

vars == <<queue, ret, stopped>>

Init == queue = <<>> /\ ret = NoItem /\ stopped = FALSE

Enqueue(item) ==
    \/ /\ MaxSize > 0 /\ Len(queue) = MaxSize
       /\ ret' = Full
       /\ UNCHANGED <<queue, stopped>>
    \/ /\ MaxSize = 0 \/ Len(queue) < MaxSize
       /\ queue' = Append(queue, item)
       /\ ret' = Len(queue')
       /\ UNCHANGED stopped

Dequeue ==
    \/ queue = <<>> /\ ret' = NoItem /\ UNCHANGED <<queue, stopped>>
    \/ /\ queue # <<>>
       /\ ret' = Head(queue)
       /\ queue' = Tail(queue)
       /\ UNCHANGED stopped

Size == ret' = Len(queue) /\ UNCHANGED <<queue, stopped>>

\* The items go with the process, or with mqueue_destroy.
Stop == stopped' = TRUE /\ queue' = <<>> /\ UNCHANGED ret

Next == ~stopped /\ (Dequeue \/ Size \/ Stop \/ \E item \in Items : Enqueue(item))

Spec == Init /\ [][Next]_vars
=============================================================================
