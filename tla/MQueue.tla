------------------------------- MODULE MQueue -------------------------------
(***************************************************************************)
(* The thread-safe mqueue_t of madt.c, built with MIKELIBC_THREADS: one    *)
(* mutex and two condition variables around the array of MQueueOps.        *)
(*                                                                         *)
(* The clients are those of t/test_mqueue.c and perf/perf.c: the queue is  *)
(* initialised, threads that each make a fixed number of calls of one kind *)
(* are started and joined, and the queue is destroyed.                     *)
(*                                                                         *)
(* A call runs through pc[t]:                                              *)
(*    "idle" -> "lock"     the function is called, wants the mutex         *)
(*           -> "check"    holds the mutex, is about to test the queue     *)
(*           -> "wait"     in cnd_wait; in full or empty while asleep,     *)
(*                         in neither once woken and wanting the mutex     *)
(*           -> "unlock"   has changed the queue, holds the mutex          *)
(* All accesses to the queue between mtx_lock and mtx_unlock (or the       *)
(* release in cnd_wait) are one step, because the mutex is held.           *)
(***************************************************************************)
EXTENDS MQueueOps, FiniteSets

CONSTANTS
    Producers,    \* threads that call mqueue_enqueue
    Consumers,    \* threads that call mqueue_dequeue
    Observers,    \* threads that call mqueue_size
    Calls,        \* how many calls each thread makes
    MaxSpurious,  \* bound: spurious returns from cnd_wait in a behaviour
    None          \* no thread, no value

Threads == Producers \cup Consumers \cup Observers

ASSUME ThreadConstants ==
    /\ IsFiniteSet(Producers) /\ IsFiniteSet(Consumers) /\ IsFiniteSet(Observers)
    /\ Producers \cap Consumers = {}
    /\ Producers \cap Observers = {}
    /\ Consumers \cap Observers = {}
    /\ Calls \in [Threads -> Nat]
    /\ MaxSpurious \in Nat
    /\ None \notin Threads

VARIABLES
    q,          \* the mqueue_t
    mutex,      \* queue->mutex: the thread that holds it, or None
    full,       \* threads asleep on queue->full (producers)
    empty,      \* threads asleep on queue->empty (consumers)
    pc,         \* where each thread is in its call
    arg,        \* the item argument of a producer's call
    ret,        \* the value of a thread's last call
    todo,       \* calls each thread still has to make
    process,    \* "running", "aborted" (assert), "destroyed" (mqueue_destroy)
    spurious    \* spurious wakeups so far

vars == <<q, mutex, full, empty, pc, arg, ret, todo, process, spurious>>

Init ==
    /\ q = mqueue_init(InitialSize, MaxSize)
    /\ mutex = None
    /\ full = {}
    /\ empty = {}
    /\ pc = [t \in Threads |-> "idle"]
    /\ arg = [t \in Threads |-> None]
    /\ ret = [t \in Threads |-> None]
    /\ todo = Calls
    /\ process = "running"
    /\ spurious = 0

-----------------------------------------------------------------------------
(***************************************************************************)
(* mtx_t and cnd_t                                                         *)
(***************************************************************************)
\* cnd_signal: one sleeper, if there is one, leaves the set.
Signal(set, newset) ==
    \/ set = {} /\ newset = set
    \/ \E t \in set : newset = set \ {t}

\* mtx_lock at the head of the three functions.
Lock(t) ==
    /\ pc[t] = "lock"
    /\ mutex = None
    /\ mutex' = t
    /\ pc' = [pc EXCEPT ![t] = "check"]
    /\ UNCHANGED <<q, full, empty, arg, ret, todo, process, spurious>>

\* Mutant: a woken thread goes on without waiting for the mutex.
Relock_NoMutex(t) ==
    /\ pc[t] = "wait"
    /\ t \notin full \cup empty
    /\ mutex' = t
    /\ pc' = [pc EXCEPT ![t] = "check"]
    /\ UNCHANGED <<q, full, empty, arg, ret, todo, process, spurious>>

\* A woken thread gets the mutex back inside cnd_wait and tests again.
Relock(t) ==
    /\ pc[t] = "wait"
    /\ t \notin full \cup empty
    /\ mutex = None
    /\ mutex' = t
    /\ pc' = [pc EXCEPT ![t] = "check"]
    /\ UNCHANGED <<q, full, empty, arg, ret, todo, process, spurious>>

\* mtx_unlock and return.
Unlock(t) ==
    /\ pc[t] = "unlock"
    /\ mutex' = None
    /\ pc' = [pc EXCEPT ![t] = "idle"]
    /\ UNCHANGED <<q, full, empty, arg, ret, todo, process, spurious>>

\* cnd_wait may return although nobody signalled.
SpuriousWakeup(t) ==
    /\ t \in full \cup empty
    /\ spurious < MaxSpurious
    /\ spurious' = spurious + 1
    /\ full' = full \ {t}
    /\ empty' = empty \ {t}
    /\ UNCHANGED <<q, mutex, pc, arg, ret, todo, process>>

\* The call itself: the client's loop enters one of the functions.
Call(t) ==
    /\ pc[t] = "idle"
    /\ todo[t] > 0
    /\ todo' = [todo EXCEPT ![t] = @ - 1]
    /\ pc' = [pc EXCEPT ![t] = "lock"]
    /\ \/ t \in Producers /\ \E item \in Items : arg' = [arg EXCEPT ![t] = item]
       \/ t \notin Producers /\ UNCHANGED arg
    /\ UNCHANGED <<q, mutex, full, empty, ret, process, spurious>>

-----------------------------------------------------------------------------
(***************************************************************************)
(* mqueue_enqueue                                                          *)
(***************************************************************************)
\* At the maximum size: wait on full, which releases the mutex.
EnqueueWait(t) ==
    /\ t \in Producers
    /\ pc[t] = "check"
    /\ AtMaxSize(q)
    /\ full' = full \cup {t}
    /\ mutex' = None
    /\ pc' = [pc EXCEPT ![t] = "wait"]
    /\ UNCHANGED <<q, empty, arg, ret, todo, process, spurious>>

\* Mutant: consumers are signalled only when the queue was empty before.
EnqueueStore_SignalIfFirst(t) ==
    /\ t \in Producers
    /\ pc[t] = "check"
    /\ ~AtMaxSize(q)
    /\ NeedsRealloc(q) => ReallocFits(q)
    /\ q' = EnqueueItem(q, arg[t])
    /\ ret' = [ret EXCEPT ![t] = mqueue_size_int(q')]
    /\ IF mqueue_size_int(q) = 0 THEN Signal(empty, empty') ELSE UNCHANGED empty
    /\ pc' = [pc EXCEPT ![t] = "unlock"]
    /\ UNCHANGED <<mutex, full, arg, todo, process, spurious>>

\* Mutant: the signal goes to the producers' condition variable.
EnqueueStore_SignalFull(t) ==
    /\ t \in Producers
    /\ pc[t] = "check"
    /\ ~AtMaxSize(q)
    /\ NeedsRealloc(q) => ReallocFits(q)
    /\ q' = EnqueueItem(q, arg[t])
    /\ ret' = [ret EXCEPT ![t] = mqueue_size_int(q')]
    /\ Signal(full, full')
    /\ pc' = [pc EXCEPT ![t] = "unlock"]
    /\ UNCHANGED <<mutex, empty, arg, todo, process, spurious>>

\* Room: store the item, growing the array if needed, and signal a consumer.
EnqueueStore(t) ==
    /\ t \in Producers
    /\ pc[t] = "check"
    /\ ~AtMaxSize(q)
    /\ NeedsRealloc(q) => ReallocFits(q)
    /\ q' = EnqueueItem(q, arg[t])
    /\ ret' = [ret EXCEPT ![t] = mqueue_size_int(q')]
    /\ Signal(empty, empty')
    /\ pc' = [pc EXCEPT ![t] = "unlock"]
    /\ UNCHANGED <<mutex, full, arg, todo, process, spurious>>

\* realloc returned NULL: assert( queue->data != NULL ) ends the process.
EnqueueNoMemory(t) ==
    /\ t \in Producers
    /\ pc[t] = "check"
    /\ ~AtMaxSize(q)
    /\ NeedsRealloc(q)
    /\ q' = EnqueueLost(q)
    /\ process' = "aborted"
    /\ UNCHANGED <<mutex, full, empty, pc, arg, ret, todo, spurious>>

(***************************************************************************)
(* mqueue_dequeue                                                          *)
(***************************************************************************)
DequeueWait(t) ==
    /\ t \in Consumers
    /\ pc[t] = "check"
    /\ mqueue_size_int(q) = 0
    /\ empty' = empty \cup {t}
    /\ mutex' = None
    /\ pc' = [pc EXCEPT ![t] = "wait"]
    /\ UNCHANGED <<q, full, arg, ret, todo, process, spurious>>

\* Mutant: the emptiness test is not repeated after cnd_wait (if for while);
\* a woken consumer, and only it, arrives here with the queue empty again.
DequeueTake_NoRecheck(t) ==
    /\ t \in Consumers
    /\ pc[t] = "check"
    /\ mqueue_size_int(q) # 0 \/ spurious > 0
    /\ ret' = [ret EXCEPT ![t] = DequeueItem(q)]
    /\ q' = DequeueRest(q)
    /\ Signal(full, full')
    /\ pc' = [pc EXCEPT ![t] = "unlock"]
    /\ UNCHANGED <<mutex, empty, arg, todo, process, spurious>>

\* An item: take it, vacuum when it is due, and signal a producer.
DequeueTake(t) ==
    /\ t \in Consumers
    /\ pc[t] = "check"
    /\ mqueue_size_int(q) # 0
    /\ ret' = [ret EXCEPT ![t] = DequeueItem(q)]
    /\ q' = DequeueRest(q)
    /\ Signal(full, full')
    /\ pc' = [pc EXCEPT ![t] = "unlock"]
    /\ UNCHANGED <<mutex, empty, arg, todo, process, spurious>>

(***************************************************************************)
(* mqueue_size                                                             *)
(***************************************************************************)
SizeRead(t) ==
    /\ t \in Observers
    /\ pc[t] = "check"
    /\ ret' = [ret EXCEPT ![t] = mqueue_size_int(q)]
    /\ pc' = [pc EXCEPT ![t] = "unlock"]
    /\ UNCHANGED <<q, mutex, full, empty, arg, todo, process, spurious>>

(***************************************************************************)
(* mqueue_destroy, called by the main thread after it has joined the rest. *)
(***************************************************************************)
AllJoined == \A t \in Threads : pc[t] = "idle" /\ todo[t] = 0

mqueue_destroy ==
    /\ AllJoined
    /\ process' = "destroyed"
    /\ UNCHANGED <<q, mutex, full, empty, pc, arg, ret, todo, spurious>>

-----------------------------------------------------------------------------
Step(t) ==
    \/ Call(t) \/ Lock(t) \/ Relock(t) \/ Unlock(t)
    \/ EnqueueWait(t) \/ EnqueueStore(t) \/ EnqueueNoMemory(t)
    \/ DequeueWait(t) \/ DequeueTake(t)
    \/ SizeRead(t)

\* The process has ended; so that an end is not taken for a deadlock.
Ended == process # "running" /\ UNCHANGED vars

Next ==
    \/ /\ process = "running"
       /\ \/ \E t \in Threads : Step(t) \/ SpuriousWakeup(t)
          \/ mqueue_destroy
    \/ Ended

Spec == Init /\ [][Next]_vars

(***************************************************************************)
(* Every thread that can run is run eventually.  Nothing is assumed about  *)
(* who gets a contended mutex or which sleeper a signal wakes.             *)
(***************************************************************************)
Fairness ==
    /\ \A t \in Threads : WF_vars(process = "running" /\ Step(t))
    /\ WF_vars(process = "running" /\ mqueue_destroy)

FairSpec == Spec /\ Fairness

-----------------------------------------------------------------------------
(***************************************************************************)
(* Properties                                                              *)
(***************************************************************************)
Value == Items \cup {Garbage, None} \cup Index

\* The state has the shape mqueue_t and the client programs give it.
TypeOK ==
    /\ QueueType(q)
    /\ mutex \in Threads \cup {None}
    /\ full \in SUBSET Producers
    /\ empty \in SUBSET Consumers
    /\ pc \in [Threads -> {"idle", "lock", "check", "wait", "unlock"}]
    /\ arg \in [Threads -> Items \cup {None}]
    /\ ret \in [Threads -> Value]
    /\ todo \in [Threads -> Nat]
    /\ process \in {"running", "aborted", "destroyed"}
    /\ spurious \in 0 .. MaxSpurious

\* The thread in the critical section is the one that holds the mutex, a
\* thread asleep on a condition variable is in cnd_wait, and a producer in a
\* call carries its item.
LockInv ==
    /\ \A t \in Threads : pc[t] \in {"check", "unlock"} <=> mutex = t
    /\ \A t \in full \cup empty : pc[t] = "wait"
    /\ \A t \in Producers : pc[t] # "idle" => arg[t] \in Items

\* The array and its indexes agree, whatever the sequence of wrap-arounds,
\* reallocs and vacuums: front..rear lies inside the allocated array, every
\* slot of it holds an item some client enqueued, there are never more than
\* max_size of them, and the dead slots before front are fewer than the
\* dequeues since the last vacuum.  (Not once an assertion has ended the process:
\* rear is then one too far.)
QueueInv == process # "aborted" => LiveSlotsOK(q) /\ CountdownOK(q)

\* A queue with a maximum size lives in bounded memory for ever, although
\* dequeueing frees no slot: the vacuum every GC_COUNT dequeues keeps the
\* doublings from going on.
BoundedMemory == MaxSize > 0 => q.alloc_size <= AllocBound

\* Threads that will test the queue without anyone waking them first.
OnTheWay(S) == {t \in S : pc[t] = "check" \/ (pc[t] = "wait" /\ t \notin full \cup empty)}

\* No wakeup is lost.  While a consumer sleeps on empty, every item on the
\* queue has a consumer of its own on the way to it, and while a producer
\* sleeps on full, every free place has a producer on the way: one
\* cnd_signal per enqueue and per dequeue is enough, whoever barges in.
NoLostWakeup ==
    process # "aborted" =>
        /\ empty # {} => mqueue_size_int(q) <= Cardinality(OnTheWay(Consumers))
        /\ full # {} => MaxSize - mqueue_size_int(q) <= Cardinality(OnTheWay(Producers))

\* Every client gets through its calls and the queue is destroyed, unless
\* the process runs out of memory.
Termination == <>(process \in {"destroyed", "aborted"})

(***************************************************************************)
(* The queue is a linearisable FIFO queue: it implements FifoQueue, with   *)
(* the array between front and rear as the sequence of items, which are    *)
(* gone with the process or after mqueue_destroy.                          *)
(***************************************************************************)
Phase == [t \in Threads |-> CASE pc[t] = "idle" -> "idle"
                              [] pc[t] = "unlock" -> "done"
                              [] OTHER -> "pending"]

Fifo == INSTANCE FifoQueue WITH
            queue <- IF process = "running" THEN Contents(q) ELSE <<>>,
            phase <- Phase, stopped <- (process # "running")

\* Every call takes effect atomically and in FIFO order (madt.h: "A
\* thread-safe queue").
ImplementsFifo == Fifo!Spec
=============================================================================
