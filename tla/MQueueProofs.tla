---------------------------- MODULE MQueueProofs ----------------------------
(***************************************************************************)
(* Proofs about the thread-safe queue, for any number of threads and calls *)
(* and every size, bound and word length the assumptions admit.            *)
(***************************************************************************)
EXTENDS MQueue, MQueueOpsProofs, FiniteSetTheorems

-----------------------------------------------------------------------------
(***************************************************************************)
(* The inductive invariant.  The consistency of the array needs the item a *)
(* producer carries (LockInv), and the memory bound needs the countdown    *)
(* (QueueInv); none of the parts is inductive alone.                       *)
(***************************************************************************)
IInv == TypeOK /\ LockInv /\ QueueInv /\ BoundedMemory

\* The threads' part of TypeOK.
ThreadTypes ==
    /\ mutex \in Threads \cup {None}
    /\ full \in SUBSET Producers
    /\ empty \in SUBSET Consumers
    /\ pc \in [Threads -> {"idle", "lock", "check", "wait", "unlock"}]
    /\ arg \in [Threads -> Items \cup {None}]
    /\ ret \in [Threads -> Value]
    /\ todo \in [Threads -> Nat]
    /\ process \in {"running", "aborted", "destroyed"}
    /\ spurious \in 0 .. MaxSpurious

QueuePart == QueueType(q) /\ LiveSlotsOK(q) /\ CountdownOK(q) /\ BoundedMemory

\* The array when the process has not been, or has been, ended by an assertion.
ArrayPart == QueueType(q) /\ BoundedMemory /\ (process # "aborted" => QueuePart)

\* The invariant splits into what the threads and what the array contribute.
LEMMA IInvParts == IInv <=> ThreadTypes /\ LockInv /\ ArrayPart
  BY DEF IInv, TypeOK, ThreadTypes, ArrayPart, QueuePart, QueueInv

LEMMA IInvPartsPrime == IInv' <=> ThreadTypes' /\ LockInv' /\ ArrayPart'
  BY DEF IInv, TypeOK, ThreadTypes, ArrayPart, QueuePart, QueueInv

\* A consistent array is one whatever has become of the process.
LEMMA ArrayParts == (QueuePart => ArrayPart) /\ (QueuePart' => ArrayPart')
  BY DEF ArrayPart, QueuePart

\* mqueue_init and the idle clients satisfy the invariant.
LEMMA InitIInv == Init => IInv
<1> SUFFICES ASSUME Init PROVE IInv
  OBVIOUS
<1>1. QueuePart
  BY InitQueue DEF Init, QueuePart, BoundedMemory
<1>2. ThreadTypes
  BY ThreadConstants DEF Init, ThreadTypes, Value
<1>3. LockInv
  BY ThreadConstants DEF Init, LockInv, Threads
<1> QED
  BY <1>1, <1>2, <1>3, IInvParts, ArrayParts

\* The size of a consistent queue is a word.
LEMMA SizeIsIndex ==
    ASSUME NEW x, QueueType(x), LiveSlotsOK(x)
    PROVE  mqueue_size_int(x) \in Index
<1>1. /\ mqueue_size_int(x) = End(x) - x.front /\ mqueue_size_int(x) \in Nat
      /\ End(x) \in Nat /\ End(x) < Word
  BY SizeValue DEF LiveSlotsOK
<1>2. x.front \in Nat /\ Word \in Nat
  BY QueueConstants DEF QueueType, Index
<1> QED
  BY <1>1, <1>2 DEF Index

\* What a call returns is a value of the right kind.
LEMMA ReturnValues ==
    ASSUME QueuePart
    PROVE  /\ mqueue_size_int(q) \in Value
           /\ mqueue_size_int(q) # 0 => DequeueItem(q) \in Value
<1>1. mqueue_size_int(q) \in Index
  BY SizeIsIndex DEF QueuePart
<1>2. mqueue_size_int(q) # 0 => DequeueItem(q) \in Items
  BY DequeueQueue DEF QueuePart
<1> QED
  BY <1>1, <1>2 DEF Value

\* cnd_signal only takes a thread out of the set of sleepers.
LEMMA SignalSubset ==
    ASSUME NEW S, NEW T, Signal(S, T)
    PROVE  T \subseteq S
  BY DEF Signal

\* Every step of a running process preserves the invariant.
LEMMA StepIInv ==
    ASSUME IInv, process = "running", NEW t \in Threads, Step(t) \/ SpuriousWakeup(t)
    PROVE  IInv'
<1> USE IInvParts, IInvPartsPrime, ArrayParts
<1>0. ThreadTypes /\ LockInv /\ QueuePart
  BY DEF ArrayPart
<1>d. Producers \cap Consumers = {} /\ Producers \cap Observers = {} /\ Consumers \cap Observers = {}
      /\ None \notin Threads /\ Producers \subseteq Threads /\ Consumers \subseteq Threads
  BY ThreadConstants DEF Threads
<1>q. UNCHANGED q => QueuePart'
  BY <1>0 DEF QueuePart, BoundedMemory
<1>1. CASE Call(t)
  <2>1. ThreadTypes'
    BY <1>0, <1>1 DEF Call, ThreadTypes
  <2>2. LockInv'
    BY <1>0, <1>d, <1>1 DEF Call, ThreadTypes, LockInv
  <2> QED
    BY <1>1, <1>q, <2>1, <2>2 DEF Call
<1>2. CASE Lock(t)
  <2>1. ThreadTypes'
    BY <1>0, <1>2 DEF Lock, ThreadTypes
  <2>2. LockInv'
    BY <1>0, <1>d, <1>2 DEF Lock, ThreadTypes, LockInv
  <2> QED
    BY <1>2, <1>q, <2>1, <2>2 DEF Lock
<1>3. CASE Relock(t)
  <2>1. ThreadTypes'
    BY <1>0, <1>3 DEF Relock, ThreadTypes
  <2>2. LockInv'
    BY <1>0, <1>d, <1>3 DEF Relock, ThreadTypes, LockInv
  <2> QED
    BY <1>3, <1>q, <2>1, <2>2 DEF Relock
<1>4. CASE Unlock(t)
  <2>1. ThreadTypes'
    BY <1>0, <1>4 DEF Unlock, ThreadTypes
  <2>2. LockInv'
    BY <1>0, <1>d, <1>4 DEF Unlock, ThreadTypes, LockInv
  <2> QED
    BY <1>4, <1>q, <2>1, <2>2 DEF Unlock
<1>5. CASE EnqueueWait(t)
  <2>1. ThreadTypes'
    BY <1>0, <1>5 DEF EnqueueWait, ThreadTypes
  <2>2. LockInv'
    BY <1>0, <1>d, <1>5 DEF EnqueueWait, ThreadTypes, LockInv
  <2> QED
    BY <1>5, <1>q, <2>1, <2>2 DEF EnqueueWait
<1>6. CASE EnqueueStore(t)
  <2>1. arg[t] \in Items
    BY <1>0, <1>6 DEF EnqueueStore, LockInv
  <2>2. QueuePart'
    <3>1. q' = EnqueueItem(q, arg[t]) /\ ~AtMaxSize(q) /\ (NeedsRealloc(q) => ReallocFits(q))
      BY <1>6 DEF EnqueueStore
    <3>2. QueueType(q') /\ LiveSlotsOK(q') /\ CountdownOK(q')
          /\ ((MaxSize > 0 /\ q.alloc_size <= AllocBound) => q'.alloc_size <= AllocBound)
      BY <1>0, <2>1, <3>1, EnqueueQueue DEF QueuePart
    <3> QED
      BY <1>0, <3>2 DEF QueuePart, BoundedMemory
  <2>3. mqueue_size_int(q') \in Value
    BY <2>2, SizeIsIndex DEF QueuePart, Value
  <2>4. ThreadTypes'
    <3>1. empty' \subseteq empty
      BY <1>6, SignalSubset DEF EnqueueStore
    <3> QED
      BY <1>0, <1>6, <2>3, <3>1 DEF EnqueueStore, ThreadTypes
  <2>5. LockInv'
    <3>1. empty' \subseteq empty
      BY <1>6, SignalSubset DEF EnqueueStore
    <3> QED
      BY <1>0, <1>d, <1>6, <3>1 DEF EnqueueStore, ThreadTypes, LockInv
  <2> QED
    BY <2>2, <2>4, <2>5
<1>7. CASE EnqueueNoMemory(t)
  <2>1. ThreadTypes' /\ LockInv'
    BY <1>0, <1>7 DEF EnqueueNoMemory, ThreadTypes, LockInv
  <2>2. QueueType(q') /\ q'.alloc_size = q.alloc_size
    BY <1>0, <1>7, LostQueue DEF EnqueueNoMemory, QueuePart
  <2>3. process' = "aborted"
    BY <1>7 DEF EnqueueNoMemory
  <2>4. ArrayPart'
    BY <1>0, <2>2, <2>3 DEF ArrayPart, QueuePart, BoundedMemory
  <2> QED
    BY <2>1, <2>4
<1>8. CASE DequeueWait(t)
  <2>1. ThreadTypes'
    BY <1>0, <1>8 DEF DequeueWait, ThreadTypes
  <2>2. LockInv'
    BY <1>0, <1>d, <1>8 DEF DequeueWait, ThreadTypes, LockInv
  <2> QED
    BY <1>8, <1>q, <2>1, <2>2 DEF DequeueWait
<1>9. CASE DequeueTake(t)
  <2>1. mqueue_size_int(q) # 0 /\ q' = DequeueRest(q)
    BY <1>9 DEF DequeueTake
  <2>2. QueuePart'
    <3>1. QueueType(q') /\ LiveSlotsOK(q') /\ CountdownOK(q') /\ q'.alloc_size = q.alloc_size
      BY <1>0, <2>1, DequeueQueue DEF QueuePart
    <3> QED
      BY <1>0, <3>1 DEF QueuePart, BoundedMemory
  <2>3. DequeueItem(q) \in Value
    BY <1>0, <2>1, ReturnValues
  <2>4. full' \subseteq full
    BY <1>9, SignalSubset DEF DequeueTake
  <2>5. ThreadTypes'
    BY <1>0, <1>9, <2>3, <2>4 DEF DequeueTake, ThreadTypes
  <2>6. LockInv'
    BY <1>0, <1>d, <1>9, <2>4 DEF DequeueTake, ThreadTypes, LockInv
  <2> QED
    BY <2>2, <2>5, <2>6
<1>10. CASE SizeRead(t)
  <2>1. ThreadTypes'
    BY <1>0, <1>10, ReturnValues DEF SizeRead, ThreadTypes
  <2>2. LockInv'
    BY <1>0, <1>d, <1>10 DEF SizeRead, ThreadTypes, LockInv
  <2> QED
    BY <1>10, <1>q, <2>1, <2>2 DEF SizeRead
<1>11. CASE SpuriousWakeup(t)
  <2>1. ThreadTypes'
    <3>1. MaxSpurious \in Nat
      BY ThreadConstants
    <3> QED
      BY <1>0, <1>11, <3>1 DEF SpuriousWakeup, ThreadTypes
  <2>2. LockInv'
    BY <1>0, <1>d, <1>11 DEF SpuriousWakeup, ThreadTypes, LockInv
  <2> QED
    BY <1>11, <1>q, <2>1, <2>2 DEF SpuriousWakeup
<1> QED
  BY <1>1, <1>2, <1>3, <1>4, <1>5, <1>6, <1>7, <1>8, <1>9, <1>10, <1>11 DEF Step

\* The invariant is inductive.
LEMMA NextIInv == IInv /\ [Next]_vars => IInv'
<1> SUFFICES ASSUME IInv, [Next]_vars PROVE IInv'
  OBVIOUS
<1>1. ASSUME process = "running", NEW t \in Threads, Step(t) \/ SpuriousWakeup(t)
      PROVE  IInv'
  BY <1>1, StepIInv
<1>2. CASE process = "running" /\ mqueue_destroy
  <2>1. ThreadTypes' /\ LockInv' /\ ArrayPart'
    BY <1>2, IInvParts
       DEF mqueue_destroy, ThreadTypes, LockInv, ArrayPart, QueuePart, BoundedMemory
  <2> QED
    BY <2>1, IInvPartsPrime
<1>3. CASE UNCHANGED vars
  <2>1. ThreadTypes' /\ LockInv' /\ ArrayPart'
    BY <1>3, IInvParts DEF vars, ThreadTypes, LockInv, ArrayPart, QueuePart, BoundedMemory
  <2> QED
    BY <2>1, IInvPartsPrime
<1> QED
  BY <1>1, <1>2, <1>3 DEF Next, Ended

\* The mqueue_t and its clients always have the types the code gives them.
THEOREM TypeCorrect == Spec => []TypeOK
<1>1. IInv => TypeOK
  BY DEF IInv
<1> QED
  BY <1>1, InitIInv, NextIInv, PTL DEF Spec

\* Mutual exclusion: at most the thread that holds queue->mutex is between
\* mtx_lock and mtx_unlock, sleepers are in cnd_wait.
THEOREM LocksCorrect == Spec => []LockInv
<1>1. IInv => LockInv
  BY DEF IInv
<1> QED
  BY <1>1, InitIInv, NextIInv, PTL DEF Spec

\* The array and its indexes agree in every reachable state of every instance.
THEOREM QueueConsistent == Spec => []QueueInv
<1>1. IInv => QueueInv
  BY DEF IInv
<1> QED
  BY <1>1, InitIInv, NextIInv, PTL DEF Spec

\* A queue with a maximum size never allocates more than AllocBound slots.
THEOREM MemoryBounded == Spec => []BoundedMemory
<1>1. IInv => BoundedMemory
  BY DEF IInv
<1> QED
  BY <1>1, InitIInv, NextIInv, PTL DEF Spec

-----------------------------------------------------------------------------
(***************************************************************************)
(* No lost wakeup.                                                         *)
(***************************************************************************)
\* OnTheWay and its cardinality after a step that adds, removes or keeps.
LEMMA CountTheWay ==
    ASSUME NEW S, IsFiniteSet(S), NEW A \in SUBSET S, NEW B \in SUBSET S
    PROVE  /\ Cardinality(A) \in Nat
           /\ Cardinality(B) \in Nat
           /\ A \subseteq B => Cardinality(A) <= Cardinality(B)
           /\ \A t \in A : B = A \ {t} => Cardinality(B) = Cardinality(A) - 1
           /\ \A t : t \notin A /\ B = A \cup {t} => Cardinality(B) = Cardinality(A) + 1
<1>1. IsFiniteSet(A) /\ IsFiniteSet(B)
  BY FS_Subset
<1>2. Cardinality(A) \in Nat /\ Cardinality(B) \in Nat
  BY <1>1, FS_CardinalityType
<1>3. A \subseteq B => Cardinality(A) <= Cardinality(B)
  BY <1>1, FS_Subset
<1>4. \A t \in A : B = A \ {t} => Cardinality(B) = Cardinality(A) - 1
  BY <1>1, FS_RemoveElement
<1>5. \A t : t \notin A /\ B = A \cup {t} => Cardinality(B) = Cardinality(A) + 1
  BY <1>1, FS_AddElement
<1> QED
  BY <1>2, <1>3, <1>4, <1>5

\* The typing facts the counting needs.
LEMMA CountFacts ==
    ASSUME IInv, process # "aborted"
    PROVE  /\ mqueue_size_int(q) \in Nat /\ MaxSize \in Nat
           /\ Cardinality(OnTheWay(Consumers)) \in Nat
           /\ Cardinality(OnTheWay(Producers)) \in Nat
<1>1. mqueue_size_int(q) \in Nat
  BY SizeValue DEF IInv, TypeOK, QueueInv, LiveSlotsOK
<1>2. OnTheWay(Consumers) \in SUBSET Consumers /\ OnTheWay(Producers) \in SUBSET Producers
  BY DEF OnTheWay
<1> QED
  BY <1>1, <1>2, CountTheWay, ThreadConstants, QueueConstants

\* A step that leaves the queue alone, wakes whom it likes and keeps everyone
\* on the way there loses no wakeup.
LEMMA KeepsTheWay ==
    ASSUME IInv, NoLostWakeup, process = "running", UNCHANGED q,
           empty' \subseteq empty, full' \subseteq full,
           OnTheWay(Consumers) \subseteq OnTheWay(Consumers)',
           OnTheWay(Producers) \subseteq OnTheWay(Producers)'
    PROVE  NoLostWakeup'
<1> DEFINE C == OnTheWay(Consumers)
           P == OnTheWay(Producers)
<1>1. C \in SUBSET Consumers /\ C' \in SUBSET Consumers /\ P \in SUBSET Producers /\ P' \in SUBSET Producers
  BY DEF OnTheWay
<1>2. Cardinality(C) <= Cardinality(C') /\ Cardinality(C) \in Nat /\ Cardinality(C') \in Nat
  BY <1>1, CountTheWay, ThreadConstants
<1>3. Cardinality(P) <= Cardinality(P') /\ Cardinality(P) \in Nat /\ Cardinality(P') \in Nat
  BY <1>1, CountTheWay, ThreadConstants
<1>4. mqueue_size_int(q) \in Nat /\ MaxSize \in Nat /\ mqueue_size_int(q') = mqueue_size_int(q)
  BY CountFacts
<1>5. empty' # {} => mqueue_size_int(q') <= Cardinality(C')
  <2>1. empty' # {} => mqueue_size_int(q) <= Cardinality(C)
    BY DEF NoLostWakeup
  <2> HIDE DEF C
  <2> QED
    BY <2>1, <1>2, <1>4
<1>6. full' # {} => MaxSize - mqueue_size_int(q') <= Cardinality(P')
  <2>1. full' # {} => MaxSize - mqueue_size_int(q) <= Cardinality(P)
    BY DEF NoLostWakeup
  <2> HIDE DEF P
  <2> QED
    BY <2>1, <1>3, <1>4
<1> QED
  BY <1>5, <1>6 DEF NoLostWakeup

\* A signal on a condition variable puts one sleeper on the way, if there is
\* one: the threads on the way become more by one than those in B.
LEMMA SignalCounts ==
    ASSUME NEW S, IsFiniteSet(S), NEW A \in SUBSET S, NEW B \in SUBSET S,
           NEW sleep \in SUBSET S, NEW sleep2, Signal(sleep, sleep2), sleep2 # {},
           sleep \cap A = {},
           \A u \in sleep : sleep2 = sleep \ {u} => B = A \cup {u}
    PROVE  Cardinality(B) = Cardinality(A) + 1
<1>1. PICK u \in sleep : sleep2 = sleep \ {u}
  BY DEF Signal
<1>2. u \notin A /\ B = A \cup {u}
  BY <1>1
<1> QED
  BY <1>2, CountTheWay

\* Every step of a thread keeps NoLostWakeup.
LEMMA StepNoLostWakeup ==
    ASSUME IInv, IInv', NoLostWakeup, process = "running",
           NEW t \in Threads, Step(t) \/ SpuriousWakeup(t)
    PROVE  NoLostWakeup'
<1> DEFINE C == OnTheWay(Consumers)
           P == OnTheWay(Producers)
<1>0. ThreadTypes /\ LockInv /\ QueuePart
  BY IInvParts DEF ArrayPart
<1>d. /\ Producers \cap Consumers = {} /\ Producers \cap Observers = {}
      /\ Consumers \cap Observers = {}
      /\ Producers \subseteq Threads /\ Consumers \subseteq Threads
      /\ IsFiniteSet(Producers) /\ IsFiniteSet(Consumers)
  BY ThreadConstants DEF Threads
<1>c. C \in SUBSET Consumers /\ C' \in SUBSET Consumers /\ P \in SUBSET Producers /\ P' \in SUBSET Producers
  BY DEF OnTheWay
<1>n. /\ mqueue_size_int(q) \in Nat /\ MaxSize \in Nat
      /\ Cardinality(C) \in Nat /\ Cardinality(C') \in Nat
      /\ Cardinality(P) \in Nat /\ Cardinality(P') \in Nat
  BY <1>c, <1>d, CountFacts, CountTheWay
<1>1. CASE Call(t)
  BY <1>0, <1>1, KeepsTheWay DEF Call, ThreadTypes, OnTheWay
<1>2. CASE Lock(t)
  BY <1>0, <1>2, KeepsTheWay DEF Lock, ThreadTypes, OnTheWay
<1>3. CASE Relock(t)
  BY <1>0, <1>3, KeepsTheWay DEF Relock, ThreadTypes, OnTheWay
<1>4. CASE Unlock(t)
  BY <1>0, <1>4, KeepsTheWay DEF Unlock, ThreadTypes, OnTheWay
<1>5. CASE EnqueueWait(t)
  <2>1. C \subseteq C'
    BY <1>0, <1>5, <1>d DEF EnqueueWait, ThreadTypes, OnTheWay
  <2>2. Cardinality(C) <= Cardinality(C')
    BY <2>1, <1>c, <1>d, CountTheWay
  <2>3. q' = q /\ empty' = empty
    BY <1>5 DEF EnqueueWait
  <2>4. empty' # {} => mqueue_size_int(q') <= Cardinality(C')
    <3>1. empty' # {} => mqueue_size_int(q) <= Cardinality(C)
      BY <2>3 DEF NoLostWakeup
    <3> HIDE DEF C
    <3> QED
      BY <3>1, <2>2, <2>3, <1>n
  <2>5. MaxSize - mqueue_size_int(q') <= Cardinality(P')
    <3>1. mqueue_size_int(q) = MaxSize
      BY <1>0, <1>5 DEF EnqueueWait, AtMaxSize, QueuePart, QueueType
    <3> HIDE DEF P
    <3> QED
      BY <3>1, <2>3, <1>n
  <2> QED
    BY <2>4, <2>5 DEF NoLostWakeup
<1>6. CASE EnqueueStore(t)
  <2>1. mqueue_size_int(q') = mqueue_size_int(q) + 1
    <3>1. arg[t] \in Items
      BY <1>0, <1>6 DEF EnqueueStore, LockInv
    <3> QED
      BY <1>0, <1>6, <3>1, EnqueueQueue DEF EnqueueStore, QueuePart
  <2>2. full' # {} => MaxSize - mqueue_size_int(q') <= Cardinality(P')
    <3>1. full' = full /\ t \in P
      BY <1>0, <1>6 DEF EnqueueStore, OnTheWay
    <3>2. P' = P \ {t}
      <4>1. /\ pc' = [pc EXCEPT ![t] = "unlock"] /\ full' = full /\ empty' \subseteq empty
            /\ pc[t] = "check" /\ pc \in [Threads -> {"idle", "lock", "check", "wait", "unlock"}]
        BY <1>0, <1>6, SignalSubset DEF EnqueueStore, ThreadTypes
      <4>2. \A u \in Producers : u \in Threads /\ u \notin empty /\ u \notin empty'
        BY <1>0, <1>d, <4>1 DEF ThreadTypes
      <4> QED
        BY <4>1, <4>2 DEF OnTheWay
    <3>3. Cardinality(P') = Cardinality(P) - 1
      BY <3>1, <3>2, <1>c, <1>d, CountTheWay
    <3>4. full' # {} => MaxSize - mqueue_size_int(q) <= Cardinality(P)
      BY <3>1 DEF NoLostWakeup
    <3> HIDE DEF P
    <3> QED
      BY <3>3, <3>4, <2>1, <1>n
  <2>3. empty' # {} => mqueue_size_int(q') <= Cardinality(C')
    <3> SUFFICES ASSUME empty' # {} PROVE mqueue_size_int(q') <= Cardinality(C')
      OBVIOUS
    <3>1. Signal(empty, empty')
      BY <1>6 DEF EnqueueStore
    <3>2. empty \cap C = {} /\ empty \in SUBSET Consumers
      BY <1>0 DEF OnTheWay, LockInv, ThreadTypes
    <3>3. ASSUME NEW u \in empty, empty' = empty \ {u}
          PROVE  C' = C \cup {u}
      <4>1. pc[u] = "wait" /\ u \in Consumers /\ u \notin full /\ u # t
        BY <1>0, <1>d, <1>6 DEF LockInv, ThreadTypes, EnqueueStore
      <4> QED
        BY <1>0, <1>d, <1>6, <3>3, <4>1 DEF EnqueueStore, ThreadTypes, OnTheWay
    <3>4. Cardinality(C') = Cardinality(C) + 1
      BY <3>1, <3>2, <3>3, <1>c, <1>d, SignalCounts
    <3>5. empty # {}
      BY <3>1 DEF Signal
    <3>6. mqueue_size_int(q) <= Cardinality(C)
      BY <3>5 DEF NoLostWakeup
    <3> HIDE DEF C
    <3> QED
      BY <3>4, <3>6, <2>1, <1>n
  <2> QED
    BY <2>2, <2>3 DEF NoLostWakeup
<1>7. CASE EnqueueNoMemory(t)
  BY <1>7 DEF EnqueueNoMemory, NoLostWakeup
<1>8. CASE DequeueWait(t)
  <2>1. P \subseteq P'
    BY <1>0, <1>8, <1>d DEF DequeueWait, ThreadTypes, OnTheWay
  <2>2. Cardinality(P) <= Cardinality(P')
    BY <2>1, <1>c, <1>d, CountTheWay
  <2>3. q' = q /\ full' = full
    BY <1>8 DEF DequeueWait
  <2>4. full' # {} => MaxSize - mqueue_size_int(q') <= Cardinality(P')
    <3>1. full' # {} => MaxSize - mqueue_size_int(q) <= Cardinality(P)
      BY <2>3 DEF NoLostWakeup
    <3> HIDE DEF P
    <3> QED
      BY <3>1, <2>2, <2>3, <1>n
  <2>5. mqueue_size_int(q') <= Cardinality(C')
    <3>1. mqueue_size_int(q) = 0
      BY <1>8 DEF DequeueWait
    <3> HIDE DEF C
    <3> QED
      BY <3>1, <2>3, <1>n
  <2> QED
    BY <2>4, <2>5 DEF NoLostWakeup
<1>9. CASE DequeueTake(t)
  <2>1. mqueue_size_int(q') = mqueue_size_int(q) - 1
    BY <1>0, <1>9, DequeueQueue DEF DequeueTake, QueuePart
  <2>2. empty' # {} => mqueue_size_int(q') <= Cardinality(C')
    <3>1. empty' = empty /\ t \in C
      BY <1>0, <1>9 DEF DequeueTake, OnTheWay
    <3>2. C' = C \ {t}
      <4>1. /\ pc' = [pc EXCEPT ![t] = "unlock"] /\ empty' = empty /\ full' \subseteq full
            /\ pc[t] = "check" /\ pc \in [Threads -> {"idle", "lock", "check", "wait", "unlock"}]
        BY <1>0, <1>9, SignalSubset DEF DequeueTake, ThreadTypes
      <4>2. \A u \in Consumers : u \in Threads /\ u \notin full /\ u \notin full'
        BY <1>0, <1>d, <4>1 DEF ThreadTypes
      <4> QED
        BY <4>1, <4>2 DEF OnTheWay
    <3>3. Cardinality(C') = Cardinality(C) - 1
      BY <3>1, <3>2, <1>c, <1>d, CountTheWay
    <3>4. empty' # {} => mqueue_size_int(q) <= Cardinality(C)
      BY <3>1 DEF NoLostWakeup
    <3> HIDE DEF C
    <3> QED
      BY <3>3, <3>4, <2>1, <1>n
  <2>3. full' # {} => MaxSize - mqueue_size_int(q') <= Cardinality(P')
    <3> SUFFICES ASSUME full' # {} PROVE MaxSize - mqueue_size_int(q') <= Cardinality(P')
      OBVIOUS
    <3>1. Signal(full, full')
      BY <1>9 DEF DequeueTake
    <3>2. full \cap P = {} /\ full \in SUBSET Producers
      BY <1>0 DEF OnTheWay, LockInv, ThreadTypes
    <3>3. ASSUME NEW u \in full, full' = full \ {u}
          PROVE  P' = P \cup {u}
      <4>1. pc[u] = "wait" /\ u \in Producers /\ u \notin empty /\ u # t
        BY <1>0, <1>d, <1>9 DEF LockInv, ThreadTypes, DequeueTake
      <4> QED
        BY <1>0, <1>d, <1>9, <3>3, <4>1 DEF DequeueTake, ThreadTypes, OnTheWay
    <3>4. Cardinality(P') = Cardinality(P) + 1
      BY <3>1, <3>2, <3>3, <1>c, <1>d, SignalCounts
    <3>5. full # {}
      BY <3>1 DEF Signal
    <3>6. MaxSize - mqueue_size_int(q) <= Cardinality(P)
      BY <3>5 DEF NoLostWakeup
    <3> HIDE DEF P
    <3> QED
      BY <3>4, <3>6, <2>1, <1>n
  <2> QED
    BY <2>2, <2>3 DEF NoLostWakeup
<1>10. CASE SizeRead(t)
  BY <1>0, <1>d, <1>10, KeepsTheWay DEF SizeRead, ThreadTypes, OnTheWay
<1>11. CASE SpuriousWakeup(t)
  BY <1>0, <1>11, KeepsTheWay DEF SpuriousWakeup, ThreadTypes, OnTheWay
<1> QED
  BY <1>1, <1>2, <1>3, <1>4, <1>5, <1>6, <1>7, <1>8, <1>9, <1>10, <1>11 DEF Step

\* No wakeup is lost, for any number of producers and consumers: one cnd_signal
\* per operation is enough.
THEOREM WakeupsNotLost == Spec => []NoLostWakeup
<1>1. Init => NoLostWakeup
  BY DEF Init, NoLostWakeup
<1>2. IInv /\ IInv' /\ NoLostWakeup /\ [Next]_vars => NoLostWakeup'
  <2> SUFFICES ASSUME IInv, IInv', NoLostWakeup, [Next]_vars PROVE NoLostWakeup'
    OBVIOUS
  <2>1. ASSUME process = "running", NEW t \in Threads, Step(t) \/ SpuriousWakeup(t)
        PROVE  NoLostWakeup'
    BY <2>1, StepNoLostWakeup
  <2>2. CASE process = "running" /\ mqueue_destroy
    BY <2>2 DEF mqueue_destroy, NoLostWakeup, OnTheWay
  <2>3. CASE UNCHANGED vars
    BY <2>3 DEF vars, NoLostWakeup, OnTheWay
  <2> QED
    BY <2>1, <2>2, <2>3 DEF Next, Ended
<1> QED
  BY <1>1, <1>2, InitIInv, NextIInv, PTL DEF Spec

-----------------------------------------------------------------------------
(***************************************************************************)
(* The refinement.                                                         *)
(***************************************************************************)
\* How the abstract phase of a call follows the program counter.
LEMMA PhaseStep ==
    ASSUME ThreadTypes, NEW t \in Threads,
           NEW x \in {"idle", "lock", "check", "wait", "unlock"},
           pc' = [pc EXCEPT ![t] = x]
    PROVE  /\ Phase' = [Phase EXCEPT ![t] = CASE x = "idle" -> "idle"
                                               [] x = "unlock" -> "done"
                                               [] OTHER -> "pending"]
           /\ Phase[t] = CASE pc[t] = "idle" -> "idle"
                            [] pc[t] = "unlock" -> "done"
                            [] OTHER -> "pending"
           /\ Phase[t] = (CASE x = "idle" -> "idle" [] x = "unlock" -> "done" [] OTHER -> "pending")
                => Phase' = Phase
<1>1. pc' \in [Threads -> {"idle", "lock", "check", "wait", "unlock"}] /\ pc'[t] = x
      /\ \A u \in Threads : u # t => pc'[u] = pc[u]
  BY DEF ThreadTypes
<1> QED
  BY <1>1 DEF Phase

\* A step of a thread is a step of the FIFO queue or leaves it alone.
LEMMA StepFifo ==
    ASSUME IInv, IInv', process = "running", NEW t \in Threads, Step(t) \/ SpuriousWakeup(t)
    PROVE  Fifo!Next \/ UNCHANGED Fifo!vars
<1>0. ThreadTypes /\ LockInv /\ QueuePart /\ t \in Fifo!Threads
  BY IInvParts DEF ArrayPart, Threads, Fifo!Threads
<1>p. pc[t] \in {"idle", "lock", "check", "wait", "unlock"}
  BY <1>0 DEF ThreadTypes
<1>1. CASE Call(t)
  <2>1. Phase[t] = "idle" /\ Phase' = [Phase EXCEPT ![t] = "pending"]
    BY <1>0, <1>1, PhaseStep DEF Call
  <2>2. Fifo!Call(t)
    BY <1>1, <2>1 DEF Call, Fifo!Call
  <2> QED
    BY <1>0, <2>2 DEF Fifo!Next
<1>2. CASE Lock(t)
  <2>1. Phase' = Phase
    BY <1>0, <1>2, PhaseStep DEF Lock
  <2> QED
    BY <1>2, <2>1 DEF Lock, Fifo!vars
<1>3. CASE Relock(t)
  <2>1. Phase' = Phase
    BY <1>0, <1>3, PhaseStep DEF Relock
  <2> QED
    BY <1>3, <2>1 DEF Relock, Fifo!vars
<1>4. CASE Unlock(t)
  <2>1. Phase[t] = "done" /\ Phase' = [Phase EXCEPT ![t] = "idle"]
    BY <1>0, <1>4, PhaseStep DEF Unlock
  <2>2. Fifo!Return(t)
    BY <1>4, <2>1 DEF Unlock, Fifo!Return
  <2> QED
    BY <1>0, <2>2 DEF Fifo!Next
<1>5. CASE EnqueueWait(t)
  <2>1. Phase' = Phase
    BY <1>0, <1>5, PhaseStep DEF EnqueueWait
  <2> QED
    BY <1>5, <2>1 DEF EnqueueWait, Fifo!vars
<1>6. CASE EnqueueStore(t)
  <2>1. Phase[t] = "pending" /\ Phase' = [Phase EXCEPT ![t] = "done"]
    BY <1>0, <1>6, PhaseStep DEF EnqueueStore
  <2>2. arg[t] \in Items /\ t \in Producers
    BY <1>0, <1>6 DEF EnqueueStore, LockInv
  <2>3. /\ Contents(q') = Append(Contents(q), arg[t])
        /\ mqueue_size_int(q') = mqueue_size_int(q) + 1
    BY <1>0, <1>6, <2>2, EnqueueQueue DEF EnqueueStore, QueuePart
  <2>4. Len(Contents(q)) = mqueue_size_int(q)
    BY <1>0, ContentsType DEF QueuePart
  <2>5. MaxSize = 0 \/ Len(Contents(q)) < MaxSize
    <3>1. MaxSize \in Nat /\ mqueue_size_int(q) \in Nat
      BY CountFacts
    <3>2. MaxSize > 0 => mqueue_size_int(q) # MaxSize
      BY <1>0, <1>6 DEF EnqueueStore, AtMaxSize, QueuePart, QueueType
    <3>3. MaxSize > 0 => mqueue_size_int(q) <= MaxSize
      BY <1>0, SizeValue DEF QueuePart, LiveSlotsOK
    <3> QED
      BY <3>1, <3>2, <3>3, <2>4
  <2>6. ret' = [ret EXCEPT ![t] = Len(Contents(q)) + 1] /\ arg' = arg /\ process' = process
    BY <1>6, <2>3, <2>4 DEF EnqueueStore
  <2>7. Fifo!Enqueue(t)
    BY <2>1, <2>2, <2>3, <2>5, <2>6 DEF Fifo!Enqueue, Fifo!Effect
  <2> QED
    BY <1>0, <2>7 DEF Fifo!Next
<1>7. CASE EnqueueNoMemory(t)
  <2>1. Phase' = Phase
    BY <1>7 DEF EnqueueNoMemory, Phase
  <2>2. Fifo!Stop
    BY <1>7, <2>1 DEF EnqueueNoMemory, Fifo!Stop
  <2> QED
    BY <2>2 DEF Fifo!Next
<1>8. CASE DequeueWait(t)
  <2>1. Phase' = Phase
    BY <1>0, <1>8, PhaseStep DEF DequeueWait
  <2> QED
    BY <1>8, <2>1 DEF DequeueWait, Fifo!vars
<1>9. CASE DequeueTake(t)
  <2>1. Phase[t] = "pending" /\ Phase' = [Phase EXCEPT ![t] = "done"]
    BY <1>0, <1>9, PhaseStep DEF DequeueTake
  <2>2. /\ Contents(q) # <<>> /\ DequeueItem(q) = Head(Contents(q))
        /\ Contents(q') = Tail(Contents(q))
    BY <1>0, <1>9, DequeueQueue DEF DequeueTake, QueuePart
  <2>3. /\ t \in Consumers /\ ret' = [ret EXCEPT ![t] = Head(Contents(q))]
        /\ arg' = arg /\ process' = process
    BY <1>9, <2>2 DEF DequeueTake
  <2>4. Fifo!Dequeue(t)
    BY <2>1, <2>2, <2>3 DEF Fifo!Dequeue, Fifo!Effect
  <2> QED
    BY <1>0, <2>4 DEF Fifo!Next
<1>10. CASE SizeRead(t)
  <2>1. Phase[t] = "pending" /\ Phase' = [Phase EXCEPT ![t] = "done"]
    BY <1>0, <1>10, PhaseStep DEF SizeRead
  <2>2. Len(Contents(q)) = mqueue_size_int(q)
    BY <1>0, ContentsType DEF QueuePart
  <2>3. Fifo!Size(t)
    BY <1>10, <2>1, <2>2 DEF SizeRead, Fifo!Size, Fifo!Effect
  <2> QED
    BY <1>0, <2>3 DEF Fifo!Next
<1>11. CASE SpuriousWakeup(t)
  BY <1>11 DEF SpuriousWakeup, Fifo!vars, Phase
<1> QED
  BY <1>1, <1>2, <1>3, <1>4, <1>5, <1>6, <1>7, <1>8, <1>9, <1>10, <1>11 DEF Step

\* The array queue with its mutex and condition variables implements the
\* linearisable FIFO queue.
THEOREM QueueIsFifo == Spec => ImplementsFifo
<1>1. Init => Fifo!Init
  BY InitQueue DEF Init, Fifo!Init, Phase, Threads, Fifo!Threads
<1>2. IInv /\ IInv' /\ [Next]_vars => [Fifo!Next]_Fifo!vars
  <2> SUFFICES ASSUME IInv, IInv', [Next]_vars PROVE Fifo!Next \/ UNCHANGED Fifo!vars
    OBVIOUS
  <2>1. ASSUME process = "running", NEW t \in Threads, Step(t) \/ SpuriousWakeup(t)
        PROVE  Fifo!Next \/ UNCHANGED Fifo!vars
    BY <2>1, StepFifo
  <2>2. CASE process = "running" /\ mqueue_destroy
    <3>1. Fifo!Stop
      BY <2>2 DEF mqueue_destroy, Fifo!Stop, Phase
    <3> QED
      BY <2>2, <3>1 DEF Fifo!Next
  <2>3. CASE UNCHANGED vars
    BY <2>3 DEF vars, Fifo!vars, Phase
  <2> QED
    BY <2>1, <2>2, <2>3 DEF Next, Ended
<1> QED
  BY <1>1, <1>2, InitIInv, NextIInv, PTL DEF Spec, ImplementsFifo, Fifo!Spec
=============================================================================
