------------------------------ MODULE FifoQueue ------------------------------
(***************************************************************************)
(* What the thread-safe queue of madt.h promises to its clients: a FIFO    *)
(* queue whose calls take effect atomically, at one instant between the    *)
(* call and its return.  A call that has to wait for room or for an item   *)
(* stays pending; nothing is said about how it waits.                      *)
(***************************************************************************)
EXTENDS Naturals, Sequences

CONSTANTS Producers, Consumers, Observers, Items, None,
          MaxSize    \* 0: unlimited

VARIABLES
    queue,    \* the items on the queue, oldest first
    phase,    \* per thread: "idle", "pending" (called), "done" (took effect)
    arg,      \* per thread: the item it is enqueueing
    ret,      \* per thread: the value of its last completed call
    stopped   \* the process is gone, or the queue is destroyed

vars == <<queue, phase, arg, ret, stopped>>

Threads == Producers \cup Consumers \cup Observers

Init ==
    /\ queue = <<>>
    /\ phase = [t \in Threads |-> "idle"]
    /\ arg = [t \in Threads |-> None]
    /\ ret = [t \in Threads |-> None]
    /\ stopped = FALSE

Call(t) ==
    /\ phase[t] = "idle"
    /\ phase' = [phase EXCEPT ![t] = "pending"]
    /\ \/ t \in Producers /\ \E item \in Items : arg' = [arg EXCEPT ![t] = item]
       \/ t \notin Producers /\ UNCHANGED arg
    /\ UNCHANGED <<queue, ret, stopped>>

\* The instant a pending call takes effect, with value v.
Effect(t, v) ==
    /\ phase[t] = "pending"
    /\ phase' = [phase EXCEPT ![t] = "done"]
    /\ ret' = [ret EXCEPT ![t] = v]
    /\ UNCHANGED <<arg, stopped>>

\* An enqueue returns the new number of items.
Enqueue(t) ==
    /\ t \in Producers
    /\ MaxSize = 0 \/ Len(queue) < MaxSize
    /\ queue' = Append(queue, arg[t])
    /\ Effect(t, Len(queue) + 1)

\* A dequeue returns the oldest item.
Dequeue(t) ==
    /\ t \in Consumers
    /\ queue # <<>>
    /\ queue' = Tail(queue)
    /\ Effect(t, Head(queue))

Size(t) ==
    /\ t \in Observers
    /\ UNCHANGED queue
    /\ Effect(t, Len(queue))

Return(t) ==
    /\ phase[t] = "done"
    /\ phase' = [phase EXCEPT ![t] = "idle"]
    /\ UNCHANGED <<queue, arg, ret, stopped>>

\* The items go with the process, or with mqueue_destroy.
Stop ==
    /\ stopped' = TRUE
    /\ queue' = <<>>
    /\ UNCHANGED <<phase, arg, ret>>

Next ==
    /\ ~stopped
    /\ \/ \E t \in Threads : Call(t) \/ Enqueue(t) \/ Dequeue(t) \/ Size(t) \/ Return(t)
       \/ Stop

Spec == Init /\ [][Next]_vars
=============================================================================
