--------------------------- MODULE MQueueOpsProofs ---------------------------
(***************************************************************************)
(* What the operations on the array of MQueueOps preserve and return, for  *)
(* every word size, heap, initial and maximum size and vacuum interval.    *)
(***************************************************************************)
EXTENDS MQueueOps, SequenceTheorems, TLAPS

\* uint64_t arithmetic on the values that occur: the identity below Word, 0 at
\* Word, and Word - n for a small negative number (rear = -1, rear -= front).
LEMMA WrapValue ==
    /\ \A n \in 0 .. Word - 1 : Wrap(n) = n
    /\ Wrap(Word) = 0
    /\ \A n \in 1 .. Word : Wrap(0 - n) = Word - n
<1>1. Word \in Nat /\ Word > 0
  BY QueueConstants DEF Max2
<1>2. \A n \in 0 .. Word - 1 : Wrap(n) = n
  BY <1>1 DEF Wrap
<1>3. Wrap(Word) = 0
  BY <1>1 DEF Wrap
<1>4. \A n \in 1 .. Word : Wrap(0 - n) = Word - n
  BY <1>1 DEF Wrap
<1> QED
  BY <1>2, <1>3, <1>4

\* In a consistent queue mqueue_size_int is the distance from front to the slot
\* after rear, wrapped or not.
LEMMA SizeValue ==
    ASSUME NEW q, QueueType(q), q.front <= End(q), End(q) <= q.alloc_size
    PROVE  /\ mqueue_size_int(q) = End(q) - q.front
           /\ mqueue_size_int(q) \in Nat
           /\ End(q) \in Nat
           /\ End(q) < Word
           /\ q.rear = IF End(q) = 0 THEN Word - 1 ELSE End(q) - 1
<1>1. /\ Word \in Nat /\ MemCells \in Nat /\ MemCells < Word /\ Word > 0
      /\ q.front \in 0 .. Word - 1 /\ q.rear \in 0 .. Word - 1
      /\ q.alloc_size \in 1 .. MemCells
  BY QueueConstants DEF QueueType, Index
<1>2. CASE q.rear = Word - 1
  <2>1. End(q) = 0
    BY <1>1, <1>2, WrapValue DEF End
  <2>2. q.front = 0
    BY <1>1, <2>1
  <2>3. mqueue_size_int(q) = Wrap(Word)
    BY <1>1, <1>2, <2>2 DEF mqueue_size_int
  <2> QED
    BY <1>1, <1>2, <2>1, <2>2, <2>3, WrapValue
<1>3. CASE q.rear # Word - 1
  <2>1. q.rear + 1 \in 0 .. Word - 1
    BY <1>1, <1>3
  <2>2. End(q) = q.rear + 1
    BY <1>1, <2>1, WrapValue DEF End
  <2>3. q.rear + 1 - q.front \in 0 .. Word - 1
    BY <1>1, <2>1, <2>2
  <2>4. mqueue_size_int(q) = q.rear + 1 - q.front
    BY <2>3, WrapValue DEF mqueue_size_int
  <2> QED
    BY <1>1, <1>3, <2>1, <2>2, <2>3, <2>4
<1> QED
  BY <1>2, <1>3

\* A function on 1..n is a sequence of length n.
LEMMA FunctionIsSeq ==
    ASSUME NEW S, NEW n \in Nat, NEW f \in [1 .. n -> S]
    PROVE  f \in Seq(S) /\ Len(f) = n
<1>1. f \in Seq(S)
  BY SeqDef
<1>2. Len(f) \in Nat /\ DOMAIN f = 1 .. Len(f)
  BY <1>1, LenProperties
<1>3. 1 .. n = 1 .. Len(f)
  BY <1>2
<1> QED
  BY <1>1, <1>2, <1>3

\* The contents of a consistent queue are a sequence of items.
LEMMA ContentsType ==
    ASSUME NEW q, QueueType(q), LiveSlotsOK(q)
    PROVE  /\ Contents(q) \in Seq(Items)
           /\ Len(Contents(q)) = mqueue_size_int(q)
           /\ \A i \in 1 .. mqueue_size_int(q) : Contents(q)[i] = q.data[q.front + i - 1]
<1>1. /\ mqueue_size_int(q) = End(q) - q.front
      /\ mqueue_size_int(q) \in Nat
      /\ End(q) \in Nat
  BY SizeValue DEF LiveSlotsOK
<1>2. q.front \in Nat /\ q.alloc_size \in Nat
  BY QueueConstants DEF QueueType, Index
<1>3. DOMAIN q.data = 0 .. q.alloc_size - 1
  BY DEF QueueType
<1>4. ASSUME NEW i \in 1 .. mqueue_size_int(q)
      PROVE  /\ q.front + i - 1 \in q.front .. End(q) - 1
             /\ q.front + i - 1 \in 0 .. q.alloc_size - 1
  BY <1>1, <1>2 DEF LiveSlotsOK
<1>5. \A i \in 1 .. mqueue_size_int(q) :
          /\ Slot(q, q.front + i - 1) = q.data[q.front + i - 1]
          /\ Slot(q, q.front + i - 1) \in Items
  BY <1>3, <1>4 DEF Slot, LiveSlotsOK
<1>6. Contents(q) \in [1 .. mqueue_size_int(q) -> Items]
  BY <1>5 DEF Contents
<1>7. Contents(q) \in Seq(Items) /\ Len(Contents(q)) = mqueue_size_int(q)
  BY <1>1, <1>6, FunctionIsSeq
<1>8. \A i \in 1 .. mqueue_size_int(q) : Contents(q)[i] = q.data[q.front + i - 1]
  BY <1>5 DEF Contents
<1> QED
  BY <1>7, <1>8

\* An enqueue whose realloc fails leaves a record of the same shape, no longer.
LEMMA LostQueue ==
    ASSUME NEW q, QueueType(q)
    PROVE  QueueType(EnqueueLost(q)) /\ EnqueueLost(q).alloc_size = q.alloc_size
<1> DEFINE r == EnqueueLost(q)
           d == [i \in DOMAIN q.data |-> Garbage]
           e == Wrap(q.rear + 1)
<1>1. e \in Index
  <2>1. q.rear + 1 \in Int /\ Word \in Nat /\ Word > 0
    BY WrapValue, QueueConstants DEF QueueType, Index
  <2> QED
    BY <2>1 DEF Wrap, Index
<1>2. d \in [0 .. q.alloc_size - 1 -> Items \cup {Garbage}]
  BY DEF QueueType
<1>3. r = [q EXCEPT !.rear = e, !.data = d]
  BY DEF EnqueueLost
<1> HIDE DEF d, r, e
<1>4. PICK d0, f, r0, g, a0 :
           q = [data |-> d0, front |-> f, rear |-> r0, max_size |-> MaxSize,
                gc_run |-> g, alloc_size |-> a0]
  BY DEF QueueType
<1>5. r = [data |-> d, front |-> f, rear |-> e, max_size |-> MaxSize,
           gc_run |-> g, alloc_size |-> a0]
  BY <1>3, <1>4
<1>6. f = q.front /\ g = q.gc_run /\ a0 = q.alloc_size
  BY <1>4
<1>7. QueueType(r) /\ r.alloc_size = q.alloc_size
  BY <1>1, <1>2, <1>5, <1>6 DEF QueueType
<1> QED
  BY <1>7 DEF r

\* mqueue_init leaves an empty, consistent queue within the memory bound, also
\* when it is asked for no slots at all.
LEMMA InitQueue ==
    LET q0 == mqueue_init(InitialSize, MaxSize)
    IN  /\ QueueType(q0) /\ LiveSlotsOK(q0) /\ CountdownOK(q0)
        /\ mqueue_size_int(q0) = 0
        /\ Contents(q0) = <<>>
        /\ q0.alloc_size <= AllocBound
<1> DEFINE q0 == mqueue_init(InitialSize, MaxSize)
           a  == IF InitialSize < 1 THEN 1 ELSE InitialSize
<1>1. /\ Word \in Nat /\ Word > 0 /\ Word > 1 /\ a \in 1 .. MemCells /\ a = Max2(InitialSize, 1)
      /\ GC_COUNT \in Nat /\ GC_COUNT >= 1 /\ GC_COUNT < Word /\ MaxSize \in Nat /\ InitialSize \in Nat
  BY QueueConstants DEF Max2
<1>2. Wrap(-1) = Word - 1
  <2>1. Wrap(0 - 1) = Word - 1
    BY <1>1, WrapValue
  <2> QED
    BY <2>1
<1>3. q0 = [data |-> [i \in 0 .. a - 1 |-> Garbage], front |-> 0, rear |-> Word - 1,
            max_size |-> MaxSize, gc_run |-> GC_COUNT, alloc_size |-> a]
  BY <1>2 DEF mqueue_init
<1>4. QueueType(q0)
  BY <1>1, <1>3 DEF QueueType, Index
<1>5. End(q0) = 0
  <2>1. q0.rear + 1 = Word
    BY <1>1, <1>3
  <2> QED
    BY <2>1, WrapValue DEF End
<1>6. LiveSlotsOK(q0)
  BY <1>1, <1>3, <1>5 DEF LiveSlotsOK
<1>7. CountdownOK(q0)
  BY <1>1, <1>3 DEF CountdownOK
<1>8. mqueue_size_int(q0) = 0
  BY <1>1, <1>3, <1>4, <1>5, SizeValue
<1>9. Contents(q0) = <<>>
  <2>1. Contents(q0) \in Seq(Items) /\ Len(Contents(q0)) = 0
    BY <1>4, <1>6, <1>8, ContentsType
  <2> QED
    BY <2>1, EmptySeq
<1>10. q0.alloc_size <= AllocBound
  BY <1>1, <1>3 DEF AllocBound, Max2
<1> QED
  BY <1>4, <1>6, <1>7, <1>8, <1>9, <1>10

\* Storing an item keeps the queue consistent, appends the item and, if the
\* array has to be doubled, stays within the memory bound.
LEMMA EnqueueQueue ==
    ASSUME NEW q, QueueType(q), LiveSlotsOK(q), CountdownOK(q), ~AtMaxSize(q),
           NeedsRealloc(q) => ReallocFits(q), NEW item \in Items
    PROVE  LET r == EnqueueItem(q, item)
           IN  /\ QueueType(r) /\ LiveSlotsOK(r) /\ CountdownOK(r)
               /\ mqueue_size_int(r) = mqueue_size_int(q) + 1
               /\ Contents(r) = Append(Contents(q), item)
               /\ (MaxSize > 0 /\ q.alloc_size <= AllocBound) => r.alloc_size <= AllocBound
<1> DEFINE r == EnqueueItem(q, item)
           e == End(q)
           a == IF e = q.alloc_size THEN 2 * q.alloc_size ELSE q.alloc_size
<1>1. /\ Word \in Nat /\ MemCells \in Nat /\ MemCells < Word /\ Word > 0
      /\ GC_COUNT \in Nat /\ MaxSize \in Nat
      /\ q.front \in 0 .. Word - 1 /\ q.gc_run \in 0 .. Word - 1
      /\ q.alloc_size \in 1 .. MemCells
      /\ q.data \in [0 .. q.alloc_size - 1 -> Items \cup {Garbage}]
  BY QueueConstants DEF QueueType, Index
<1>2. /\ mqueue_size_int(q) = e - q.front /\ e \in Nat /\ e < Word
      /\ q.front <= e /\ e <= q.alloc_size
  BY SizeValue DEF LiveSlotsOK
<1>3. a \in 1 .. MemCells /\ q.alloc_size <= a /\ e < a /\ a < Word
  BY <1>1, <1>2 DEF NeedsRealloc, ReallocFits, End
<1>4. a = IF NeedsRealloc(q) THEN Wrap(2 * q.alloc_size) ELSE q.alloc_size
  <2>1. CASE NeedsRealloc(q)
    BY <1>1, <1>3, <2>1, WrapValue DEF NeedsRealloc, End
  <2>2. CASE ~NeedsRealloc(q)
    BY <2>2 DEF NeedsRealloc, End
  <2> QED
    BY <2>1, <2>2
<1>5. r = [data |-> [i \in 0 .. a - 1 |-> IF i = e THEN item ELSE Slot(q, i)],
           front |-> q.front, rear |-> e, max_size |-> MaxSize,
           gc_run |-> q.gc_run, alloc_size |-> a]
  <2>1. q = [data |-> q.data, front |-> q.front, rear |-> q.rear, max_size |-> MaxSize,
             gc_run |-> q.gc_run, alloc_size |-> q.alloc_size]
    BY DEF QueueType
  <2> DEFINE d == [i \in 0 .. a - 1 |-> IF i = e THEN item ELSE Slot(q, i)]
  <2> HIDE DEF a
  <2>2. r = [q EXCEPT !.rear = e, !.alloc_size = a, !.data = d]
    BY <1>4 DEF EnqueueItem, End
  <2> HIDE DEF d, r, e
  <2>3. PICK d0, f, r0, g, a0 :
             q = [data |-> d0, front |-> f, rear |-> r0, max_size |-> MaxSize,
                  gc_run |-> g, alloc_size |-> a0]
    BY <2>1
  <2>4. r = [data |-> d, front |-> f, rear |-> e, max_size |-> MaxSize,
             gc_run |-> g, alloc_size |-> a]
    BY <2>2, <2>3
  <2>5. f = q.front /\ g = q.gc_run
    BY <2>3
  <2> QED
    BY <2>4, <2>5 DEF d
<1> HIDE DEF r, a, e
<1>s. r.front = q.front /\ r.rear = e /\ r.gc_run = q.gc_run /\ r.alloc_size = a
  BY <1>5
<1>6. r.data = [i \in 0 .. a - 1 |-> IF i = e THEN item ELSE Slot(q, i)]
  BY <1>5
<1>7. QueueType(r)
  <2>1. \A i \in 0 .. a - 1 : Slot(q, i) \in Items \cup {Garbage}
    BY <1>1 DEF Slot
  <2>2. r.data \in [0 .. a - 1 -> Items \cup {Garbage}]
    BY <1>s, <1>6, <2>1
  <2> QED
    BY <1>1, <1>2, <1>3, <1>5, <1>s, <1>6, <2>2 DEF QueueType, Index
<1>8. End(r) = e + 1
  <2>1. e + 1 \in 0 .. Word - 1
    BY <1>1, <1>2, <1>3
  <2> QED
    BY <1>s, <1>6, <2>1, WrapValue DEF End
<1>9. \A i \in q.front .. e - 1 : r.data[i] = q.data[i]
  BY <1>1, <1>2, <1>3, <1>6 DEF Slot
<1>10. r.data[e] = item
  BY <1>2, <1>3, <1>6
<1>11. LiveSlotsOK(r)
  <2>1. \A i \in r.front .. End(r) - 1 : r.data[i] \in Items
    <3> TAKE i \in r.front .. End(r) - 1
    <3>1. CASE i = e
      BY <3>1, <1>10
    <3>2. CASE i # e
      <4>1. i \in q.front .. e - 1
        BY <1>1, <1>2, <1>s, <1>6, <1>8, <3>2
      <4> QED
        BY <4>1, <1>9 DEF LiveSlotsOK, e
    <3> QED
      BY <3>1, <3>2
  <2>2. MaxSize > 0 => End(r) - r.front <= MaxSize
    <3>1. MaxSize > 0 => e - q.front # MaxSize
      <4>1. q.max_size = MaxSize
        BY DEF QueueType
      <4> QED
        BY <4>1, <1>2 DEF AtMaxSize
    <3>2. MaxSize > 0 => e - q.front <= MaxSize
      BY DEF LiveSlotsOK, e
    <3> QED
      BY <3>1, <3>2, <1>1, <1>2, <1>s, <1>8
  <2> QED
    BY <1>1, <1>2, <1>3, <1>s, <1>8, <2>1, <2>2 DEF LiveSlotsOK
<1>12. CountdownOK(r)
  BY <1>s DEF CountdownOK
<1>13. mqueue_size_int(r) = mqueue_size_int(q) + 1
  <2>1. mqueue_size_int(r) = End(r) - r.front
    BY <1>7, <1>11, SizeValue DEF LiveSlotsOK
  <2> QED
    BY <2>1, <1>1, <1>2, <1>s, <1>6, <1>8
<1>14. Contents(r) = Append(Contents(q), item)
  <2> DEFINE n == mqueue_size_int(q)
             s == Contents(q)
             t == Contents(r)
             u == Append(s, item)
  <2>1. /\ s \in Seq(Items) /\ Len(s) = n /\ n \in Nat
        /\ \A i \in 1 .. n : s[i] = q.data[q.front + i - 1]
    BY <1>2, ContentsType, SizeValue DEF LiveSlotsOK
  <2>2. /\ t \in Seq(Items) /\ Len(t) = n + 1
        /\ \A i \in 1 .. n + 1 : t[i] = r.data[r.front + i - 1]
    BY <1>7, <1>11, <1>13, ContentsType
  <2>3. /\ u \in Seq(Items) /\ Len(u) = n + 1
        /\ \A i \in 1 .. n : u[i] = s[i]
        /\ u[n + 1] = item
    BY <2>1, AppendProperties
  <2>4. n = e - q.front /\ n \in Nat
    BY <1>2, <2>1
  <2> HIDE DEF n, s, t, u
  <2>5. \A i \in 1 .. n + 1 : t[i] = u[i]
    <3> TAKE i \in 1 .. n + 1
    <3>1. CASE i = n + 1
      <4>1. r.front + i - 1 = e
        BY <3>1, <2>4, <1>1, <1>2, <1>s
      <4> QED
        BY <3>1, <4>1, <2>2, <2>3, <1>10
    <3>2. CASE i # n + 1
      <4>1. i \in 1 .. n /\ r.front + i - 1 \in q.front .. e - 1
        BY <3>2, <2>4, <1>1, <1>2, <1>s
      <4>2. t[i] = q.data[q.front + i - 1]
        BY <4>1, <2>2, <1>s, <1>9
      <4> QED
        BY <4>1, <4>2, <2>1, <2>3
    <3> QED
      BY <3>1, <3>2
  <2>6. t = u
    BY <2>2, <2>3, <2>5, SeqEqual
  <2> QED
    BY <2>6 DEF t, u, s
<1>15. (MaxSize > 0 /\ q.alloc_size <= AllocBound) => r.alloc_size <= AllocBound
  <2> SUFFICES ASSUME MaxSize > 0, q.alloc_size <= AllocBound
               PROVE  a <= AllocBound
    BY <1>s
  <2>1. CASE e # q.alloc_size
    BY <2>1 DEF a
  <2>2. CASE e = q.alloc_size
    <3>1. e + 1 - q.front <= MaxSize
      <4>1. End(r) - r.front <= MaxSize
        BY <1>11 DEF LiveSlotsOK
      <4> QED
        BY <4>1, <1>1, <1>2, <1>s, <1>8
    <3>2. q.front <= GC_COUNT - 1
      BY <1>1 DEF CountdownOK
    <3>3. 2 * q.alloc_size <= 2 * (GC_COUNT + MaxSize - 2)
      BY <2>2, <3>1, <3>2, <1>1, <1>2
    <3>4. 2 * (GC_COUNT + MaxSize - 2) <= AllocBound
      BY <1>1, QueueConstants DEF AllocBound, Max2
    <3>5. AllocBound \in Int
      BY <1>1, QueueConstants DEF AllocBound, Max2
    <3> QED
      BY <2>2, <3>3, <3>4, <3>5, <1>1 DEF a
  <2> QED
    BY <2>1, <2>2
<1> QED
  BY <1>7, <1>11, <1>12, <1>13, <1>14, <1>15 DEF r

\* The vacuum moves the items and the indexes together: same contents, same
\* array length, front at 0.  It also holds for an empty queue, whose rear
\* becomes -1 again.
LEMMA VacuumQueue ==
    ASSUME NEW q, QueueType(q), LiveSlotsOK(q)
    PROVE  LET r == mqueue_vacuum(q)
           IN  /\ QueueType(r) /\ LiveSlotsOK(r)
               /\ r.front = 0 /\ r.gc_run = q.gc_run /\ r.alloc_size = q.alloc_size
               /\ mqueue_size_int(r) = mqueue_size_int(q)
               /\ Contents(r) = Contents(q)
<1> DEFINE r == mqueue_vacuum(q)
           e == End(q)
           n == mqueue_size_int(q)
<1>1. /\ Word \in Nat /\ MemCells \in Nat /\ MemCells < Word /\ Word > 0 /\ MaxSize \in Nat
      /\ q.front \in 0 .. Word - 1 /\ q.gc_run \in 0 .. Word - 1 /\ q.rear \in 0 .. Word - 1
      /\ q.alloc_size \in 1 .. MemCells
      /\ q.data \in [0 .. q.alloc_size - 1 -> Items \cup {Garbage}]
  BY QueueConstants DEF QueueType, Index
<1>2. /\ n = e - q.front /\ n \in Nat /\ e \in Nat /\ e < Word
      /\ q.front <= e /\ e <= q.alloc_size
      /\ q.rear = IF e = 0 THEN Word - 1 ELSE e - 1
  BY SizeValue DEF LiveSlotsOK
<1>3. CASE q.front = 0
  BY <1>3 DEF mqueue_vacuum
<1>4. CASE q.front # 0
  <2> DEFINE d  == MoveToStart(q)
             rr == Wrap(q.rear - q.front)
  <2>1. r = [q EXCEPT !.data = d, !.rear = rr, !.front = 0]
    BY <1>4 DEF mqueue_vacuum
  <2>2. PICK d0, f, r0, g, a0 :
             q = [data |-> d0, front |-> f, rear |-> r0, max_size |-> MaxSize,
                  gc_run |-> g, alloc_size |-> a0]
    BY DEF QueueType
  <2> HIDE DEF d, rr, r, e, n
  <2>3. r = [data |-> d, front |-> 0, rear |-> rr, max_size |-> MaxSize,
             gc_run |-> g, alloc_size |-> a0]
    BY <2>1, <2>2
  <2>4. q.gc_run = g /\ q.alloc_size = a0
    BY <2>2
  <2>5. /\ r.data = d /\ r.front = 0 /\ r.rear = rr
        /\ r.gc_run = q.gc_run /\ r.alloc_size = q.alloc_size
    BY <2>3, <2>4
  <2>6. rr \in 0 .. Word - 1 /\ Wrap(rr + 1) = n
    <3>1. q.rear = e - 1 /\ q.rear - q.front = n - 1
      BY <1>1, <1>2, <1>4
    <3>2. CASE n = 0
      <4>1. rr = Word - 1
        <5>1. q.rear - q.front = 0 - 1 /\ 1 \in 1 .. Word
          BY <3>1, <3>2, <1>1
        <5> QED
          BY <5>1, WrapValue DEF rr
      <4>2. Wrap(rr + 1) = 0
        <5>1. rr + 1 = Word
          BY <4>1, <1>1
        <5> QED
          BY <5>1, WrapValue
      <4> QED
        BY <4>1, <4>2, <3>2, <1>1
    <3>3. CASE n # 0
      <4>1. n - 1 \in 0 .. Word - 1 /\ n \in 0 .. Word - 1
        BY <3>3, <1>1, <1>2
      <4>2. rr = n - 1
        BY <4>1, <3>1, WrapValue DEF rr
      <4>3. rr + 1 = n
        BY <4>1, <4>2
      <4> QED
        BY <4>1, <4>2, <4>3, WrapValue
    <3> QED
      BY <3>2, <3>3
  <2>7. End(r) = n
    BY <2>5, <2>6 DEF End
  <2>8. d = [i \in 0 .. q.alloc_size - 1 |-> IF i < n THEN Slot(q, q.front + i) ELSE q.data[i]]
    BY <1>1 DEF d, MoveToStart, n
  <2>9. \A i \in 0 .. n - 1 : d[i] = q.data[q.front + i] /\ d[i] \in Items
    <3> TAKE i \in 0 .. n - 1
    <3>0. /\ i \in Nat /\ i <= n - 1 /\ n \in Int /\ q.front \in Nat
          /\ q.alloc_size \in Int /\ e \in Int /\ n = e - q.front /\ e <= q.alloc_size
      <4>1. n \in Nat /\ i \in 0 .. n - 1
        BY <1>2
      <4>2. q.alloc_size \in Int /\ q.front \in Nat
        BY <1>1
      <4> QED
        BY <4>1, <4>2, <1>2
    <3>1. /\ i \in 0 .. q.alloc_size - 1 /\ i < n
          /\ q.front + i \in 0 .. q.alloc_size - 1
          /\ q.front + i \in q.front .. e - 1
      BY <3>0
    <3>2. d[i] = q.data[q.front + i]
      BY <2>8, <3>1, <1>1 DEF Slot
    <3>3. q.data[q.front + i] \in Items
      BY <3>1 DEF LiveSlotsOK, e
    <3> QED
      BY <3>2, <3>3
  <2>10. QueueType(r)
    <3>1. \A i \in 0 .. q.alloc_size - 1 : d[i] \in Items \cup {Garbage}
      BY <2>8, <1>1 DEF Slot
    <3>2. d \in [0 .. q.alloc_size - 1 -> Items \cup {Garbage}]
      BY <2>8, <3>1
    <3>3. r = [data |-> r.data, front |-> r.front, rear |-> r.rear, max_size |-> MaxSize,
               gc_run |-> r.gc_run, alloc_size |-> r.alloc_size]
      BY <2>3
    <3> QED
      BY <1>1, <2>5, <2>6, <3>2, <3>3 DEF QueueType, Index
  <2>11. LiveSlotsOK(r)
    <3>1. \A i \in r.front .. End(r) - 1 : r.data[i] \in Items
      BY <2>5, <2>7, <2>9
    <3>2. MaxSize > 0 => n <= MaxSize
      BY <1>2 DEF LiveSlotsOK, e
    <3> QED
      BY <1>1, <1>2, <2>5, <2>7, <3>1, <3>2 DEF LiveSlotsOK
  <2>12. mqueue_size_int(r) = n
    <3>1. mqueue_size_int(r) = End(r) - r.front
      BY <2>10, <2>11, SizeValue DEF LiveSlotsOK
    <3> QED
      BY <3>1, <2>5, <2>7, <1>2
  <2>13. Contents(r) = Contents(q)
    <3>1. /\ Contents(q) \in Seq(Items) /\ Len(Contents(q)) = n
          /\ \A i \in 1 .. n : Contents(q)[i] = q.data[q.front + i - 1]
      BY ContentsType DEF n
    <3>2. /\ Contents(r) \in Seq(Items) /\ Len(Contents(r)) = n
          /\ \A i \in 1 .. n : Contents(r)[i] = r.data[r.front + i - 1]
      BY <2>10, <2>11, <2>12, ContentsType
    <3>3. \A i \in 1 .. n : Contents(r)[i] = Contents(q)[i]
      <4> TAKE i \in 1 .. n
      <4>1. i - 1 \in 0 .. n - 1 /\ r.front + i - 1 = i - 1 /\ q.front + i - 1 = q.front + (i - 1)
        BY <1>1, <1>2, <2>5
      <4>2. Contents(r)[i] = d[i - 1]
        BY <3>2, <4>1, <2>5
      <4> QED
        BY <4>1, <4>2, <3>1, <2>9
    <3> QED
      BY <3>1, <3>2, <3>3, SeqEqual
  <2> QED
    BY <2>5, <2>10, <2>11, <2>12, <2>13 DEF r, n
<1> QED
  BY <1>3, <1>4

\* The countdown gc_run is not part of what the queue holds.
LEMMA SetGcRun ==
    ASSUME NEW q, QueueType(q), LiveSlotsOK(q), NEW g \in Index
    PROVE  LET r == [q EXCEPT !.gc_run = g]
           IN  /\ QueueType(r) /\ LiveSlotsOK(r)
               /\ r.front = q.front /\ r.gc_run = g /\ r.alloc_size = q.alloc_size
               /\ mqueue_size_int(r) = mqueue_size_int(q)
               /\ Contents(r) = Contents(q)
<1> DEFINE r == [q EXCEPT !.gc_run = g]
<1>1. PICK d0, f, r0, g0, a0 :
           q = [data |-> d0, front |-> f, rear |-> r0, max_size |-> MaxSize,
                gc_run |-> g0, alloc_size |-> a0]
  BY DEF QueueType
<1>2. r = [data |-> d0, front |-> f, rear |-> r0, max_size |-> MaxSize,
           gc_run |-> g, alloc_size |-> a0]
  BY <1>1
<1> HIDE DEF r
<1>3. /\ r.data = q.data /\ r.front = q.front /\ r.rear = q.rear
      /\ r.gc_run = g /\ r.alloc_size = q.alloc_size
  BY <1>1, <1>2
<1>4. r = [data |-> r.data, front |-> r.front, rear |-> r.rear, max_size |-> MaxSize,
           gc_run |-> r.gc_run, alloc_size |-> r.alloc_size]
  BY <1>2
<1>5. QueueType(r)
  BY <1>3, <1>4 DEF QueueType
<1>6. LiveSlotsOK(r)
  BY <1>3 DEF LiveSlotsOK, End
<1>7. mqueue_size_int(r) = mqueue_size_int(q)
  BY <1>3 DEF mqueue_size_int
<1>8. Contents(r) = Contents(q)
  BY <1>3, <1>7 DEF Contents, Slot
<1> QED
  BY <1>3, <1>5, <1>6, <1>7, <1>8 DEF r

\* Taking an item keeps the queue consistent whether or not the vacuum is due:
\* the item is the head of the contents and the rest is their tail.
LEMMA DequeueQueue ==
    ASSUME NEW q, QueueType(q), LiveSlotsOK(q), CountdownOK(q), mqueue_size_int(q) # 0
    PROVE  LET r == DequeueRest(q)
           IN  /\ QueueType(r) /\ LiveSlotsOK(r) /\ CountdownOK(r)
               /\ mqueue_size_int(r) = mqueue_size_int(q) - 1
               /\ r.alloc_size = q.alloc_size
               /\ Contents(q) # <<>>
               /\ DequeueItem(q) = Head(Contents(q))
               /\ DequeueItem(q) \in Items
               /\ Contents(r) = Tail(Contents(q))
<1> DEFINE r  == DequeueRest(q)
           q1 == [q EXCEPT !.front = Wrap(@ + 1), !.gc_run = Wrap(@ - 1)]
           e  == End(q)
           n  == mqueue_size_int(q)
           c  == Contents(q)
<1>1. /\ Word \in Nat /\ Word > 0 /\ MemCells \in Nat /\ MemCells < Word /\ MaxSize \in Nat
      /\ GC_COUNT \in 1 .. Word - 1
      /\ q.front \in 0 .. Word - 1 /\ q.gc_run \in 1 .. Word - 1
      /\ q.alloc_size \in 1 .. MemCells
      /\ q.front + q.gc_run <= GC_COUNT
  BY QueueConstants DEF QueueType, Index, CountdownOK
<1>2. /\ n = e - q.front /\ n \in Nat /\ e \in Nat /\ e < Word
      /\ q.front <= e /\ e <= q.alloc_size /\ n # 0
  BY SizeValue DEF LiveSlotsOK
<1>3. /\ c \in Seq(Items) /\ Len(c) = n
      /\ \A i \in 1 .. n : c[i] = q.data[q.front + i - 1]
  BY ContentsType
<1>4. PICK d0, f, r0, g, a0 :
           q = [data |-> d0, front |-> f, rear |-> r0, max_size |-> MaxSize,
                gc_run |-> g, alloc_size |-> a0]
  BY DEF QueueType
<1>5. f = q.front /\ g = q.gc_run /\ d0 = q.data /\ r0 = q.rear /\ a0 = q.alloc_size
  BY <1>4
<1>6. Wrap(f + 1) = f + 1 /\ Wrap(g - 1) = g - 1
  <2>1. f + 1 \in 0 .. Word - 1 /\ g - 1 \in 0 .. Word - 1
    BY <1>1, <1>2, <1>5
  <2> QED
    BY <2>1, WrapValue
<1>7. q1 = [data |-> d0, front |-> f + 1, rear |-> r0, max_size |-> MaxSize,
            gc_run |-> g - 1, alloc_size |-> a0]
  <2> DEFINE nf == f + 1
             ng == g - 1
  <2>1. q1 = [q EXCEPT !.front = nf, !.gc_run = ng]
    BY <1>5, <1>6
  <2> HIDE DEF q1, nf, ng
  <2>2. q1 = [data |-> d0, front |-> nf, rear |-> r0, max_size |-> MaxSize,
              gc_run |-> ng, alloc_size |-> a0]
    BY <1>4, <2>1
  <2> QED
    BY <2>2 DEF nf, ng
<1> HIDE DEF q1, e, n, c, r
<1>8. /\ q1.data = q.data /\ q1.front = q.front + 1 /\ q1.rear = q.rear
      /\ q1.gc_run = q.gc_run - 1 /\ q1.alloc_size = q.alloc_size
  BY <1>5, <1>7
<1>9. QueueType(q1)
  <2>1. q1 = [data |-> q1.data, front |-> q1.front, rear |-> q1.rear, max_size |-> MaxSize,
              gc_run |-> q1.gc_run, alloc_size |-> q1.alloc_size]
    BY <1>7
  <2>2. q1.front \in Index /\ q1.gc_run \in Index
    BY <1>1, <1>2, <1>8 DEF Index
  <2> QED
    BY <1>8, <2>1, <2>2 DEF QueueType
<1>10. End(q1) = e
  BY <1>8 DEF End, e
<1>11. LiveSlotsOK(q1)
  <2>1. q1.front <= End(q1) /\ End(q1) <= q1.alloc_size
    BY <1>1, <1>2, <1>8, <1>10
  <2>2. \A i \in q1.front .. End(q1) - 1 : q1.data[i] \in Items
    <3> TAKE i \in q1.front .. End(q1) - 1
    <3>1. i \in q.front .. e - 1
      BY <1>1, <1>2, <1>8, <1>10
    <3> QED
      BY <3>1, <1>8 DEF LiveSlotsOK, e
  <2>3. MaxSize > 0 => End(q1) - q1.front <= MaxSize
    <3>1. MaxSize > 0 => e - q.front <= MaxSize
      BY DEF LiveSlotsOK, e
    <3> QED
      BY <3>1, <1>1, <1>2, <1>8, <1>10
  <2> QED
    BY <2>1, <2>2, <2>3 DEF LiveSlotsOK
<1>12. mqueue_size_int(q1) = n - 1
  <2>1. mqueue_size_int(q1) = End(q1) - q1.front
    BY <1>9, <1>11, SizeValue DEF LiveSlotsOK
  <2> QED
    BY <2>1, <1>1, <1>2, <1>8, <1>10
<1>13. c # <<>> /\ DequeueItem(q) = Head(c) /\ DequeueItem(q) \in Items
  <2>1. c # <<>> /\ Head(c) = c[1]
    BY <1>2, <1>3, HeadTailProperties, EmptySeq
  <2>2. c[1] = q.data[q.front]
    <3>1. 1 \in 1 .. n /\ q.front + 1 - 1 = q.front
      BY <1>1, <1>2
    <3>2. c[1] = q.data[q.front + 1 - 1]
      BY <3>1, <1>3
    <3> QED
      BY <3>1, <3>2
  <2>3. q.front \in 0 .. q.alloc_size - 1 /\ q.front \in q.front .. e - 1
    BY <1>1, <1>2
  <2>4. DequeueItem(q) = q.data[q.front]
    BY <2>3 DEF DequeueItem, Slot, QueueType
  <2>5. q.data[q.front] \in Items
    BY <2>3 DEF LiveSlotsOK, e
  <2> QED
    BY <2>1, <2>2, <2>4, <2>5
<1>14. Contents(q1) = Tail(c)
  <2> DEFINE t == Contents(q1)
             u == Tail(c)
  <2>1. /\ t \in Seq(Items) /\ Len(t) = n - 1
        /\ \A i \in 1 .. n - 1 : t[i] = q1.data[q1.front + i - 1]
    BY <1>9, <1>11, <1>12, ContentsType
  <2>2. /\ u \in Seq(Items) /\ Len(u) = n - 1
        /\ \A i \in 1 .. n - 1 : u[i] = c[i + 1]
    BY <1>3, <1>13, HeadTailProperties
  <2> HIDE DEF t, u
  <2>3. \A i \in 1 .. n - 1 : t[i] = u[i]
    <3> TAKE i \in 1 .. n - 1
    <3>1. i + 1 \in 1 .. n /\ q1.front + i - 1 = q.front + (i + 1) - 1
      BY <1>1, <1>2, <1>8
    <3>2. t[i] = q.data[q.front + (i + 1) - 1]
      BY <2>1, <3>1, <1>8
    <3> QED
      BY <2>2, <3>1, <3>2, <1>3
  <2>4. t = u
    BY <2>1, <2>2, <2>3, SeqEqual
  <2> QED
    BY <2>4 DEF t, u
<1>15. CASE q1.gc_run = 0
  <2> DEFINE v == mqueue_vacuum(q1)
  <2>1. /\ QueueType(v) /\ LiveSlotsOK(v) /\ v.front = 0 /\ v.alloc_size = q1.alloc_size
        /\ mqueue_size_int(v) = n - 1 /\ Contents(v) = Tail(c)
    BY <1>9, <1>11, <1>12, <1>14, VacuumQueue
  <2>2. r = [v EXCEPT !.gc_run = GC_COUNT]
    BY <1>15 DEF r, DequeueRest, q1
  <2>3. GC_COUNT \in Index
    BY <1>1 DEF Index
  <2> HIDE DEF v
  <2>4. /\ QueueType(r) /\ LiveSlotsOK(r) /\ r.front = 0 /\ r.gc_run = GC_COUNT
        /\ r.alloc_size = q1.alloc_size
        /\ mqueue_size_int(r) = n - 1 /\ Contents(r) = Tail(c)
    BY <2>1, <2>2, <2>3, SetGcRun
  <2>5. CountdownOK(r)
    BY <2>4, <1>1 DEF CountdownOK
  <2> QED
    BY <2>4, <2>5, <1>8, <1>13 DEF r, n, c
<1>16. CASE q1.gc_run # 0
  <2>1. r = q1
    BY <1>16 DEF r, DequeueRest, q1
  <2>2. CountdownOK(q1)
    BY <1>1, <1>8, <1>16 DEF CountdownOK
  <2> QED
    BY <2>1, <2>2, <1>8, <1>9, <1>11, <1>12, <1>13, <1>14 DEF r, n, c
<1> QED
  BY <1>15, <1>16
=============================================================================
