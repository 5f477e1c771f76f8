------------------------------ MODULE MQueueOps ------------------------------
(***************************************************************************)
(* The data structure behind mqueue_t (madt.h, madt.c): an array of void*  *)
(* that is filled at the rear, emptied at the front, doubled when the rear *)
(* reaches its end and compacted ("vacuumed") every GC_COUNT dequeues.     *)
(*                                                                         *)
(* The operators are the bodies of the C functions, without the locking:   *)
(* they map a queue record to the queue record the function leaves behind. *)
(* The fields front, rear, gc_run, alloc_size and max_size are uint64_t,   *)
(* so all arithmetic on them is modulo Word (2^64 in the program).  That   *)
(* matters: an empty compacted queue has rear = (uint64_t)-1.              *)
(***************************************************************************)
EXTENDS Integers, Sequences

CONSTANTS
    Items,        \* the pointers clients put on the queue
    Garbage,      \* what a slot holds that was allocated and never written
    GC_COUNT,     \* dequeues between two vacuums (100 in madt.c)
    Word,         \* 2^64, the modulus of uint64_t
    MemCells,     \* the longest array of pointers the heap can serve
    InitialSize,  \* the arguments of the mqueue_init call
    MaxSize

Max2(a, b) == IF a >= b THEN a ELSE b

ASSUME QueueConstants ==
    /\ Garbage \notin Items
    /\ GC_COUNT \in Nat \ {0}
    /\ Word \in Nat
    /\ MemCells \in Nat
    /\ MemCells < Word
    /\ InitialSize \in Nat
    /\ MaxSize \in Nat
    /\ MaxSize < Word
    /\ GC_COUNT < Word
    /\ Max2(InitialSize, 1) <= MemCells

\* uint64_t arithmetic.
Wrap(n) == n % Word

\* Reading a slot; a slot outside the array holds nothing a client put there.
Slot(q, i) == IF i \in DOMAIN q.data THEN q.data[i] ELSE Garbage

-----------------------------------------------------------------------------
(***************************************************************************)
(* mqueue_size_int                                                         *)
(***************************************************************************)
mqueue_size_int(q) == Wrap(q.rear + 1 - q.front)

(***************************************************************************)
(* mqueue_init: at least one slot, rear is -1, i.e. Word - 1.              *)
(***************************************************************************)
\* Mutant: the lower bound of one slot is forgotten.
mqueue_init_NoMinimum(initial_size, max_size) ==
    [ data       |-> [i \in 0 .. initial_size - 1 |-> Garbage],
      front      |-> 0,
      rear       |-> Wrap(-1),
      max_size   |-> max_size,
      gc_run     |-> GC_COUNT,
      alloc_size |-> initial_size ]

mqueue_init(initial_size, max_size) ==
    LET alloc_size == IF initial_size < 1 THEN 1 ELSE initial_size
    IN  [ data       |-> [i \in 0 .. alloc_size - 1 |-> Garbage],
          front      |-> 0,
          rear       |-> Wrap(-1),
          max_size   |-> max_size,
          gc_run     |-> GC_COUNT,
          alloc_size |-> alloc_size ]

-----------------------------------------------------------------------------
(***************************************************************************)
(* mqueue_enqueue after its admission check: advance rear, double the      *)
(* array when rear has reached its end, store the item.                    *)
(***************************************************************************)
AtMaxSize(q) == q.max_size > 0 /\ mqueue_size_int(q) = q.max_size

\* Mutant: the array is grown one enqueue too late.
NeedsRealloc_Late(q) == Wrap(q.rear + 1) = q.alloc_size + 1

NeedsRealloc(q) == Wrap(q.rear + 1) = q.alloc_size

\* realloc can serve the doubled array.  It may also fail for other reasons.
ReallocFits(q) == 2 * q.alloc_size <= MemCells

\* realloc has returned NULL: rear has been advanced, and the pointer to the array,
\* alloc_size slots in the heap, is gone.
EnqueueLost(q) == [q EXCEPT !.rear = Wrap(@ + 1), !.data = [i \in DOMAIN @ |-> Garbage]]

EnqueueItem(q, item) ==
    LET rear       == Wrap(q.rear + 1)
        alloc_size == IF NeedsRealloc(q) THEN Wrap(2 * q.alloc_size)
                                         ELSE q.alloc_size
    IN  [q EXCEPT !.rear = rear,
                  !.alloc_size = alloc_size,
                  !.data = [i \in 0 .. alloc_size - 1 |->
                              IF i = rear THEN item ELSE Slot(q, i)]]

-----------------------------------------------------------------------------
(***************************************************************************)
(* mqueue_vacuum: memmove the live slots to the start of the array.  The   *)
(* array keeps its length and the slots behind the live ones their values. *)
(***************************************************************************)
MoveToStart(q) ==
    [i \in DOMAIN q.data |->
        IF i < mqueue_size_int(q) THEN Slot(q, q.front + i) ELSE q.data[i]]

\* Mutant: the indexes move and the items stay.
mqueue_vacuum_NoMove(q) ==
    IF q.front = 0 THEN q
    ELSE [q EXCEPT !.rear = Wrap(q.rear - q.front), !.front = 0]

mqueue_vacuum(q) ==
    IF q.front = 0 THEN q
    ELSE [q EXCEPT !.data  = MoveToStart(q),
                   !.rear  = Wrap(q.rear - q.front),
                   !.front = 0]

(***************************************************************************)
(* mqueue_dequeue after its emptiness check: the item at front is handed   *)
(* out, and every GC_COUNT-th time the queue is vacuumed.                  *)
(***************************************************************************)
DequeueItem(q) == Slot(q, q.front)

\* Mutant: the housekeeping never runs.
DequeueRest_NoVacuum(q) == [q EXCEPT !.front = Wrap(@ + 1)]

DequeueRest(q) ==
    LET q1 == [q EXCEPT !.front = Wrap(@ + 1), !.gc_run = Wrap(@ - 1)]
    IN  IF q1.gc_run = 0
        THEN [mqueue_vacuum(q1) EXCEPT !.gc_run = GC_COUNT]
        ELSE q1

-----------------------------------------------------------------------------
(***************************************************************************)
(* What the record stands for: the items between front and rear, oldest    *)
(* first.                                                                  *)
(***************************************************************************)
Contents(q) == [i \in 1 .. mqueue_size_int(q) |-> Slot(q, q.front + i - 1)]

(***************************************************************************)
(* The longest array a queue with a maximum size ever needs: between two   *)
(* vacuums at most GC_COUNT - 1 dead slots pile up before at most MaxSize  *)
(* live ones, and the array doubles only when all of it is in use.         *)
(***************************************************************************)
AllocBound == Max2(Max2(InitialSize, 1), 2 * (GC_COUNT + MaxSize - 2))

(***************************************************************************)
(* The consistency of the record, as the two builds of the queue need it.  *)
(***************************************************************************)
Index == 0 .. Word - 1

QueueType(q) ==
    /\ q = [data |-> q.data, front |-> q.front, rear |-> q.rear, max_size |-> MaxSize,
            gc_run |-> q.gc_run, alloc_size |-> q.alloc_size]
    /\ q.data \in [0 .. q.alloc_size - 1 -> Items \cup {Garbage}]
    /\ q.front \in Index
    /\ q.rear \in Index
    /\ q.gc_run \in Index
    /\ q.alloc_size \in 1 .. MemCells

\* The slot after the last live one; 0 when rear has wrapped around.
End(q) == Wrap(q.rear + 1)

\* front .. rear lies inside the allocated array, every slot of it holds an
\* item some client enqueued, and there are never more than max_size of them.
LiveSlotsOK(q) ==
    /\ q.front <= End(q)
    /\ End(q) <= q.alloc_size
    /\ \A i \in q.front .. End(q) - 1 : q.data[i] \in Items
    /\ MaxSize > 0 => End(q) - q.front <= MaxSize

\* The countdown to the next vacuum bounds the dead slots before front.
CountdownOK(q) ==
    /\ q.gc_run >= 1
    /\ q.front + q.gc_run <= GC_COUNT
=============================================================================
