--------------------------- MODULE MQueueSeqProofs ---------------------------
(***************************************************************************)
(* Proofs about the queue built without threads.                           *)
(***************************************************************************)
EXTENDS MQueueSeq, MQueueOpsProofs

\* The memory bound rests on the countdown, so the two go together.
SeqInv == SeqQueueInv /\ SeqBoundedMemory

\* mqueue_init establishes the invariant.
LEMMA SeqInitInv == Init => SeqInv
  BY InitQueue DEF Init, SeqInv, SeqQueueInv, SeqBoundedMemory

\* Every call preserves it, and is a call of the abstract queue.
LEMMA SeqStep ==
    ASSUME SeqInv, process = "running", Next
    PROVE  SeqInv' /\ [SeqQueue!Next]_SeqQueue!vars
<1>0. /\ QueueType(q) /\ LiveSlotsOK(q) /\ CountdownOK(q)
      /\ MaxSize > 0 => q.alloc_size <= AllocBound
  BY DEF SeqInv, SeqQueueInv, SeqBoundedMemory
<1>1. /\ Len(Contents(q)) = mqueue_size_int(q) /\ Contents(q) \in Seq(Items)
      /\ mqueue_size_int(q) \in Nat /\ MaxSize \in Nat /\ q.max_size = MaxSize
      /\ MaxSize > 0 => mqueue_size_int(q) <= MaxSize
  BY <1>0, ContentsType, SizeValue, QueueConstants DEF LiveSlotsOK, QueueType
<1>2. QueueType(q') /\ LiveSlotsOK(q') /\ CountdownOK(q') /\ q'.alloc_size = q.alloc_size => SeqInv'
  BY <1>0 DEF SeqInv, SeqQueueInv, SeqBoundedMemory
<1>3. ASSUME process = "running", NEW item \in Items, mqueue_enqueue(item)
      PROVE  SeqInv' /\ [SeqQueue!Next]_SeqQueue!vars
  <2>1. CASE AtMaxSize(q) /\ ret' = Wrap(-1) /\ UNCHANGED <<q, process>>
    <3>1. MaxSize > 0 /\ Len(Contents(q)) = MaxSize
      BY <2>1, <1>1 DEF AtMaxSize
    <3>2. SeqQueue!Enqueue(item)
      BY <2>1, <3>1 DEF SeqQueue!Enqueue
    <3> QED
      BY <1>0, <1>2, <1>3, <2>1, <3>2 DEF SeqQueue!Next
  <2>2. CASE /\ ~AtMaxSize(q)
             /\ NeedsRealloc(q) => ReallocFits(q)
             /\ q' = EnqueueItem(q, item)
             /\ ret' = mqueue_size_int(q')
             /\ UNCHANGED process
    <3>1. /\ QueueType(q') /\ LiveSlotsOK(q') /\ CountdownOK(q')
          /\ mqueue_size_int(q') = mqueue_size_int(q) + 1
          /\ Contents(q') = Append(Contents(q), item)
          /\ (MaxSize > 0 /\ q.alloc_size <= AllocBound) => q'.alloc_size <= AllocBound
      BY <1>0, <2>2, EnqueueQueue
    <3>2. SeqInv'
      BY <1>0, <3>1 DEF SeqInv, SeqQueueInv, SeqBoundedMemory
    <3>3. MaxSize = 0 \/ Len(Contents(q)) < MaxSize
      BY <2>2, <1>1 DEF AtMaxSize
    <3>4. ret' = Len(Contents(q'))
      BY <2>2, <3>1, ContentsType
    <3>5. SeqQueue!Enqueue(item)
      BY <2>2, <3>1, <3>3, <3>4 DEF SeqQueue!Enqueue
    <3> QED
      BY <1>3, <3>2, <3>5 DEF SeqQueue!Next
  <2>3. CASE q' = EnqueueLost(q) /\ process' = "aborted" /\ ret' = ret
    <3>1. SeqQueue!Stop
      BY <2>3 DEF SeqQueue!Stop
    <3>2. SeqInv'
      BY <1>0, <2>3, LostQueue DEF SeqInv, SeqQueueInv, SeqBoundedMemory
    <3> QED
      BY <1>3, <3>1, <3>2 DEF SeqQueue!Next
  <2> QED
    BY <1>3, <2>1, <2>2, <2>3 DEF mqueue_enqueue
<1>4. CASE process = "running" /\ mqueue_dequeue
  <2>1. CASE mqueue_size_int(q) = 0
    <3>1. Contents(q) = <<>>
      BY <2>1, <1>1, EmptySeq
    <3>2. SeqQueue!Dequeue /\ UNCHANGED q
      BY <1>4, <2>1, <3>1 DEF mqueue_dequeue, SeqQueue!Dequeue
    <3> QED
      BY <1>0, <1>2, <1>4, <3>2 DEF SeqQueue!Next
  <2>2. CASE mqueue_size_int(q) # 0
    <3>1. q' = DequeueRest(q) /\ ret' = DequeueItem(q) /\ process' = process
      BY <1>4, <2>2 DEF mqueue_dequeue
    <3>2. /\ QueueType(q') /\ LiveSlotsOK(q') /\ CountdownOK(q') /\ q'.alloc_size = q.alloc_size
          /\ Contents(q) # <<>> /\ DequeueItem(q) = Head(Contents(q))
          /\ Contents(q') = Tail(Contents(q))
      BY <1>0, <2>2, <3>1, DequeueQueue
    <3>3. SeqInv'
      BY <1>0, <3>2 DEF SeqInv, SeqQueueInv, SeqBoundedMemory
    <3>4. SeqQueue!Dequeue
      BY <3>1, <3>2 DEF SeqQueue!Dequeue
    <3> QED
      BY <1>4, <3>3, <3>4 DEF SeqQueue!Next
  <2> QED
    BY <2>1, <2>2
<1>5. CASE process = "running" /\ mqueue_size
  <2>1. SeqQueue!Size /\ UNCHANGED q
    BY <1>5, <1>1 DEF mqueue_size, SeqQueue!Size
  <2> QED
    BY <1>0, <1>2, <1>5, <2>1 DEF SeqQueue!Next
<1>6. CASE process = "running" /\ Vacuum
  <2>1. /\ QueueType(q') /\ LiveSlotsOK(q')
        /\ q'.front = 0 /\ q'.gc_run = q.gc_run /\ q'.alloc_size = q.alloc_size
        /\ Contents(q') = Contents(q)
    BY <1>0, <1>6, VacuumQueue DEF Vacuum
  <2>2. CountdownOK(q')
    <3>1. q.front \in Nat /\ q.gc_run \in Nat /\ GC_COUNT \in Nat
      BY <1>0, QueueConstants DEF QueueType, Index
    <3> QED
      BY <1>0, <2>1, <3>1 DEF CountdownOK
  <2>3. SeqInv'
    BY <1>0, <2>1, <2>2 DEF SeqInv, SeqQueueInv, SeqBoundedMemory
  <2> QED
    BY <1>6, <2>1, <2>3 DEF Vacuum, SeqQueue!vars
<1>7. CASE process = "running" /\ mqueue_destroy
  <2>1. SeqQueue!Stop /\ UNCHANGED q
    BY <1>7 DEF mqueue_destroy, SeqQueue!Stop
  <2> QED
    BY <1>0, <1>2, <1>7, <2>1 DEF SeqQueue!Next
<1> QED
  BY <1>3, <1>4, <1>5, <1>6, <1>7 DEF Next, Ended

\* So does a step, of a process that may have ended.
LEMMA SeqNext ==
    ASSUME SeqInv, [Next]_vars
    PROVE  SeqInv' /\ [SeqQueue!Next]_SeqQueue!vars
<1>1. CASE process = "running" /\ Next
  BY <1>1, SeqStep
<1>2. CASE UNCHANGED vars
  BY <1>2 DEF vars, SeqQueue!vars, SeqInv, SeqQueueInv, SeqBoundedMemory
<1> QED
  BY <1>1, <1>2 DEF Next, Ended

\* Every sequence of calls keeps the array consistent.
THEOREM SeqQueueConsistent == Spec => []SeqQueueInv
<1>1. SeqInv => SeqQueueInv
  BY DEF SeqInv
<1>2. SeqInv /\ [Next]_vars => SeqInv'
  BY SeqNext
<1> QED
  BY <1>1, <1>2, SeqInitInv, PTL DEF Spec

\* A client's own vacuums never upset the memory bound.
THEOREM SeqMemoryBounded == Spec => []SeqBoundedMemory
<1>1. SeqInv => SeqBoundedMemory
  BY DEF SeqInv
<1>2. SeqInv /\ [Next]_vars => SeqInv'
  BY SeqNext
<1> QED
  BY <1>1, <1>2, SeqInitInv, PTL DEF Spec

\* The unthreaded queue implements the sequential FIFO queue.
THEOREM SeqQueueIsFifo == Spec => ImplementsSeqFifo
<1>1. Init => SeqQueue!Init
  BY InitQueue DEF Init, SeqQueue!Init
<1>2. SeqInv /\ [Next]_vars => SeqInv' /\ [SeqQueue!Next]_SeqQueue!vars
  BY SeqNext
<1> QED
  BY <1>1, <1>2, SeqInitInv, PTL DEF Spec, ImplementsSeqFifo, SeqQueue!Spec
=============================================================================
