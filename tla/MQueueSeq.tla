------------------------------ MODULE MQueueSeq ------------------------------
(***************************************************************************)
(* mqueue_t built without MIKELIBC_THREADS: the same array, no locking, an *)
(* enqueue that fails instead of waiting, a dequeue that returns NULL, and *)
(* mqueue_vacuum called whenever the program likes, as madt.h allows.      *)
(* Each function is one action: nothing runs beside it.                    *)
(***************************************************************************)
EXTENDS MQueueOps

CONSTANT NoItem   \* NULL

VARIABLES
    q,        \* the mqueue_t
    ret,      \* the value of the last call
    process   \* "running", "aborted" (assert), "destroyed" (mqueue_destroy)

vars == <<q, ret, process>>

Init ==
    /\ q = mqueue_init(InitialSize, MaxSize)
    /\ ret = NoItem
    /\ process = "running"

\* Mutant: the test for a full queue compares with > instead of ==.
mqueue_enqueue_Over(item) ==
    \/ /\ MaxSize > 0 /\ mqueue_size_int(q) > MaxSize
       /\ ret' = Wrap(-1)
       /\ UNCHANGED <<q, process>>
    \/ /\ ~(MaxSize > 0 /\ mqueue_size_int(q) > MaxSize)
       /\ NeedsRealloc(q) => ReallocFits(q)
       /\ q' = EnqueueItem(q, item)
       /\ ret' = mqueue_size_int(q')
       /\ UNCHANGED process

mqueue_enqueue(item) ==
    \/ /\ AtMaxSize(q)
       /\ ret' = Wrap(-1)
       /\ UNCHANGED <<q, process>>
    \/ /\ ~AtMaxSize(q)
       /\ NeedsRealloc(q) => ReallocFits(q)
       /\ q' = EnqueueItem(q, item)
       /\ ret' = mqueue_size_int(q')
       /\ UNCHANGED process
    \/ /\ ~AtMaxSize(q)           \* realloc failed: assert
       /\ NeedsRealloc(q)
       /\ q' = EnqueueLost(q)
       /\ process' = "aborted"
       /\ UNCHANGED ret

mqueue_dequeue ==
    \/ /\ mqueue_size_int(q) = 0
       /\ ret' = NoItem
       /\ UNCHANGED <<q, process>>
    \/ /\ mqueue_size_int(q) # 0
       /\ ret' = DequeueItem(q)
       /\ q' = DequeueRest(q)
       /\ UNCHANGED process

mqueue_size == ret' = mqueue_size_int(q) /\ UNCHANGED <<q, process>>

\* Mutant: the vacuum takes over the housekeeping and uses the countdown up,
\* so that the next dequeue decrements gc_run below zero.
Vacuum_StopsCountdown == q' = [mqueue_vacuum(q) EXCEPT !.gc_run = 0] /\ UNCHANGED <<ret, process>>

Vacuum == q' = mqueue_vacuum(q) /\ UNCHANGED <<ret, process>>

mqueue_destroy == process' = "destroyed" /\ UNCHANGED <<q, ret>>

\* The process has ended; so that an end is not taken for a deadlock.
Ended == process # "running" /\ UNCHANGED vars

Next ==
    \/ /\ process = "running"
       /\ \/ \E item \in Items : mqueue_enqueue(item)
          \/ mqueue_dequeue
          \/ mqueue_size
          \/ Vacuum
          \/ mqueue_destroy
    \/ Ended

Spec == Init /\ [][Next]_vars

-----------------------------------------------------------------------------
\* The array and its indexes stay consistent under every sequence of calls,
\* vacuums at any moment and failed enqueues included, until an assertion ends
\* the process.
SeqQueueInv == QueueType(q) /\ (process # "aborted" => LiveSlotsOK(q) /\ CountdownOK(q))

\* A queue with a maximum size never outgrows AllocBound, however the client
\* mixes its calls with vacuums of its own.
SeqBoundedMemory == MaxSize > 0 => q.alloc_size <= AllocBound

SeqQueue == INSTANCE SeqFifo WITH
                queue <- IF process = "running" THEN Contents(q) ELSE <<>>,
                Full <- Wrap(-1), stopped <- (process # "running")

\* The calls behave like those of a FIFO queue of MaxSize items, and neither
\* the housekeeping nor a vacuum of the client's shows.
ImplementsSeqFifo == SeqQueue!Spec
=============================================================================
