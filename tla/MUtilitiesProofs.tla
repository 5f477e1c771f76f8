-------------------------- MODULE MUtilitiesProofs --------------------------
(***************************************************************************)
(* Proofs about the list macros, followlink, the ciphers and the Fibonacci *)
(* generator, for any number of nodes, places, calls and octets.           *)
(*                                                                         *)
(* Three of the definitions the code is compared with are recursive        *)
(* functions: the chain a walk sees, the way that links lead, and the      *)
(* Fibonacci numbers.  That each of them satisfies its own equation is     *)
(* proved first, by solutions for ever larger domains.                     *)
(***************************************************************************)
EXTENDS MLinkedList, MFollowLink, MCrypto, MFibonacci, FiniteSetTheorems, SequenceTheorems,
        WellFoundedInduction, TLAPS

\* A set that holds 0 and with every number the next one holds them all: otherwise
\* there would be a least number outside.
LEMMA NatInductive ==
    ASSUME NEW T, 0 \in T, \A n \in Nat : n \in T => n + 1 \in T
    PROVE  Nat \subseteq T
<1> DEFINE R == OpToRel(<, Nat)
           Others == Nat \ T
<1>1. \A x, y \in Nat : <<y, x>> \in R <=> y < x
  BY Zenon DEF OpToRel
<1>2. IsWellFoundedOn(R, Nat)
  BY NatLessThanWellFounded, Zenon
<1> HIDE DEF R
<1> SUFFICES ASSUME Others # {} PROVE FALSE
  OBVIOUS
<1>3. PICK n \in Others : \A m \in Others : ~(<<m, n>> \in R)
  BY <1>2, WFMin
<1>4. n \in Nat /\ n # 0 /\ n - 1 \in Nat /\ n - 1 < n
  BY <1>3
<1>5. n - 1 \in T
  BY <1>1, <1>3, <1>4
<1>6. n - 1 + 1 \in T
  BY <1>4, <1>5
<1> QED
  BY <1>3, <1>4, <1>6

-----------------------------------------------------------------------------
\* c is the chain from start: distinct nodes in use, linked in order, of distinct handles.
Chain(c) ==
    /\ c \in Seq(Nodes)
    /\ start = IF c = <<>> THEN NULL ELSE c[1]
    /\ \A k \in 1 .. Len(c) :
           /\ c[k] \in allocated
           /\ c[k] # freenode
           /\ next[c[k]] = IF k = Len(c) THEN NULL ELSE c[k + 1]
    /\ \A j, k \in 1 .. Len(c) : handleOf[c[j]] = handleOf[c[k]] => j = k

\* A chain is no longer than there are nodes.
LEMMA ChainLength ==
    ASSUME NEW c, Chain(c)
    PROVE  Len(c) \in Nat /\ Cardinality(Nodes) \in Nat /\ Len(c) <= Cardinality(Nodes)
<1>1. Len(c) \in Nat /\ c \in [1 .. Len(c) -> Nodes]
  BY LenProperties DEF Chain
<1>2. \A j, k \in 1 .. Len(c) : c[j] = c[k] => j = k
  BY DEF Chain
<1>3. c \in Injection(1 .. Len(c), Nodes)
  BY <1>1, <1>2 DEF Injection, IsInjective
<1>4. Cardinality(1 .. Len(c)) <= Cardinality(Nodes)
  BY <1>3, FS_Injection, ListConstants
<1>5. Cardinality(1 .. Len(c)) = Len(c)
  <2>1. 1 \in Int /\ Len(c) \in Int
    BY <1>1
  <2>2. Cardinality(1 .. Len(c)) = IF 1 > Len(c) THEN 0 ELSE Len(c) - 1 + 1
    BY <2>1, FS_Interval, Zenon
  <2> QED
    BY <1>1, <2>2
<1>6. Cardinality(Nodes) \in Nat
  BY FS_CardinalityType, ListConstants
<1> QED
  BY <1>1, <1>4, <1>5, <1>6

\* visit satisfies the equation it is defined by.
LEMMA VisitEquation ==
    visit = [k \in 0 .. Cardinality(Nodes) |->
        [n \in Pointer |-> IF n = NULL \/ k = 0 THEN <<>> ELSE <<n>> \o visit[k - 1][next[n]]]]
<1> DEFINE Body(g, k) ==
               [n \in Pointer |-> IF n = NULL \/ k = 0 THEN <<>> ELSE <<n>> \o g[k - 1][next[n]]]
           Solves(g, N) == g = [k \in 0 .. N |-> Body(g, k)]
           T == {N \in Nat : \E g : Solves(g, N)}
<1>1. 0 \in T
  <2> DEFINE g == [k \in 0 .. 0 |-> [n \in Pointer |-> <<>>]]
  <2>1. Solves(g, 0)
    OBVIOUS
  <2> HIDE DEF g, Solves
  <2> QED
    BY <2>1
<1>2. ASSUME NEW N \in Nat, N \in T PROVE N + 1 \in T
  <2>1. PICK g : Solves(g, N)
    BY <1>2
  <2> DEFINE h == [k \in 0 .. N + 1 |-> IF k = N + 1 THEN Body(g, k) ELSE g[k]]
  <2>2. ASSUME NEW k \in 0 .. N + 1 PROVE h[k] = Body(h, k)
    <3>1. \A m \in 0 .. N : h[m] = g[m]
      OBVIOUS
    <3>2. h[k] = IF k = N + 1 THEN Body(g, k) ELSE g[k]
      OBVIOUS
    <3>3. k # N + 1 => g[k] = Body(g, k)
      <4> HIDE DEF Body
      <4>1. k # N + 1 => k \in 0 .. N
        OBVIOUS
      <4> QED
        BY <2>1, <4>1
    <3> HIDE DEF h
    <3>4. Body(h, k) = Body(g, k)
      <4>1. CASE k = 0
        BY <4>1
      <4>2. CASE k # 0
        <5>1. k - 1 \in 0 .. N
          BY <4>2
        <5>2. h[k - 1] = g[k - 1]
          <6> HIDE DEF Body
          <6> QED
            BY <3>1, <5>1, Zenon
        <5> QED
          BY <5>2
      <4> QED
        BY <4>1, <4>2
    <3> HIDE DEF Body
    <3> QED
      BY <3>2, <3>3, <3>4
  <2>3. Solves(h, N + 1)
    BY <2>2
  <2>4. N + 1 \in Nat
    OBVIOUS
  <2> HIDE DEF h, Solves
  <2> QED
    BY <2>3, <2>4
<1>3. PICK g : Solves(g, Cardinality(Nodes))
  <2>1. Nat \subseteq T
    <3> HIDE DEF T
    <3> QED
      BY <1>1, <1>2, NatInductive
  <2>2. Cardinality(Nodes) \in T
    BY <2>1, FS_CardinalityType, ListConstants
  <2> QED
    BY <2>2
<1>4. visit = CHOOSE f : Solves(f, Cardinality(Nodes))
  BY DEF visit
<1> HIDE DEF Solves
<1>5. Solves(visit, Cardinality(Nodes))
  BY <1>3, <1>4
<1> QED
  BY <1>5 DEF Solves

\* The equation, for one number of steps and one pointer.
LEMMA VisitValue ==
    ASSUME NEW k \in 0 .. Cardinality(Nodes), NEW n \in Pointer
    PROVE  visit[k][n] = IF n = NULL \/ k = 0 THEN <<>> ELSE <<n>> \o visit[k - 1][next[n]]
<1> DEFINE e(m) == [p \in Pointer |->
                       IF p = NULL \/ m = 0 THEN <<>> ELSE <<p>> \o visit[m - 1][next[p]]]
<1>1. visit = [m \in 0 .. Cardinality(Nodes) |-> e(m)]
  BY VisitEquation
<1>2. visit[k] = e(k)
  <2> HIDE DEF e
  <2> QED
    BY <1>1
<1>3. visit[k][n] = e(k)[n]
  BY <1>2
<1> QED
  BY <1>3

\* A walk with steps left begins with the node it starts at.
LEMMA VisitNode ==
    ASSUME NEW m \in Nat, m + 1 <= Cardinality(Nodes), NEW n \in Nodes
    PROVE  visit[m + 1][n] = <<n>> \o visit[m][next[n]]
<1> DEFINE k == m + 1
<1>1. Cardinality(Nodes) \in Nat
  BY FS_CardinalityType, ListConstants
<1>2. k \in 0 .. Cardinality(Nodes) /\ k # 0 /\ k - 1 = m
  BY <1>1
<1>3. n \in Pointer /\ n # NULL
  BY ListConstants DEF Pointer
<1> HIDE DEF k
<1>4. visit[k][n] = <<n>> \o visit[k - 1][next[n]]
  BY <1>2, <1>3, VisitValue
<1> QED
  BY <1>2, <1>4 DEF k

\* A walk from NULL visits nothing.
LEMMA VisitNull == ASSUME NEW k \in 0 .. Cardinality(Nodes) PROVE visit[k][NULL] = <<>>
  BY VisitValue DEF Pointer

\* A walk from anywhere in the chain sees the rest of it.
LEMMA VisitChain ==
    ASSUME NEW c, Chain(c)
    PROVE  \A k \in 0 .. Cardinality(Nodes), j \in 1 .. Len(c) :
               Len(c) - j + 1 <= k => visit[k][c[j]] = SubSeq(c, j, Len(c))
<1> SUFFICES ASSUME NEW k \in 0 .. Cardinality(Nodes), NEW j \in 1 .. Len(c),
                    Len(c) - j + 1 <= k
             PROVE  visit[k][c[j]] = SubSeq(c, j, Len(c))
  OBVIOUS
<1> DEFINE T == {m \in Nat : m <= Cardinality(Nodes) =>
                     \A i \in 1 .. Len(c) :
                         Len(c) - i + 1 <= m => visit[m][c[i]] = SubSeq(c, i, Len(c))}
<1>1. Len(c) \in Nat /\ Cardinality(Nodes) \in Nat
  BY ChainLength
<1>2. 0 \in T
  BY <1>1
<1>3. ASSUME NEW m \in Nat, m \in T PROVE m + 1 \in T
  <2> SUFFICES ASSUME m + 1 <= Cardinality(Nodes), NEW i \in 1 .. Len(c), Len(c) - i + 1 <= m + 1
               PROVE  visit[m + 1][c[i]] = SubSeq(c, i, Len(c))
    OBVIOUS
  <2>1. /\ m + 1 \in 1 .. Cardinality(Nodes)
        /\ m \in 0 .. Cardinality(Nodes)
        /\ m + 1 - 1 = m
    BY <1>1
  <2>2. c[i] \in Nodes /\ next[c[i]] = IF i = Len(c) THEN NULL ELSE c[i + 1]
    BY DEF Chain
  <2>3. visit[m + 1][c[i]] = <<c[i]>> \o visit[m][next[c[i]]]
    BY <2>1, <2>2, VisitNode
  <2>4. SubSeq(c, i, Len(c)) = <<c[i]>> \o SubSeq(c, i + 1, Len(c))
    BY SubSeqRecursiveFirst, <1>1 DEF Chain
  <2>5. CASE i = Len(c)
    <3>1. visit[m][next[c[i]]] = <<>>
      BY <2>1, <2>2, <2>5, VisitNull
    <3>2. SubSeq(c, i + 1, Len(c)) = <<>>
      BY <1>1, <2>5, SubSeqEmpty
    <3> QED
      BY <2>3, <2>4, <3>1, <3>2
  <2>6. CASE i # Len(c)
    <3>1. i + 1 \in 1 .. Len(c) /\ Len(c) - (i + 1) + 1 <= m
      BY <1>1, <2>6
    <3>2. m <= Cardinality(Nodes)
      BY <2>1
    <3>3. visit[m][c[i + 1]] = SubSeq(c, i + 1, Len(c))
      BY <1>3, <3>1, <3>2
    <3> QED
      BY <2>2, <2>3, <2>4, <2>6, <3>3
  <2> QED
    BY <2>5, <2>6
<1>4. k \in T
  <2> HIDE DEF T
  <2>1. k \in Nat
    BY <1>1
  <2> QED
    BY <1>2, <1>3, <2>1, NatInductive
<1> QED
  BY <1>1, <1>4

\* A walk from start sees the whole chain: it is not cut off.
LEMMA WalkChain == ASSUME NEW c, Chain(c) PROVE Walk(start) = c
<1>1. /\ Len(c) \in Nat /\ Cardinality(Nodes) \in Nat /\ Len(c) <= Cardinality(Nodes)
      /\ Cardinality(Nodes) \in 0 .. Cardinality(Nodes)
  BY ChainLength
<1>2. CASE c = <<>>
  BY <1>1, <1>2, VisitNull DEF Walk, Chain
<1>3. CASE c # <<>>
  <2>1. 1 \in 1 .. Len(c)
    BY <1>3, EmptySeq DEF Chain
  <2>2. Walk(start) = visit[Cardinality(Nodes)][c[1]]
    BY <1>3 DEF Walk, Chain
  <2>3. Len(c) - 1 + 1 <= Cardinality(Nodes)
    BY <1>1
  <2>4. Walk(start) = SubSeq(c, 1, Len(c))
    <3>1. \A k \in 0 .. Cardinality(Nodes), j \in 1 .. Len(c) :
              Len(c) - j + 1 <= k => visit[k][c[j]] = SubSeq(c, j, Len(c))
      BY VisitChain, Zenon
    <3> QED
      BY <1>1, <2>1, <2>2, <2>3, <3>1
  <2> QED
    BY <2>4, SubSeqFull DEF Chain
<1> QED
  BY <1>2, <1>3

-----------------------------------------------------------------------------
\* The function by which Without is defined.
IsKept(f, s, h) ==
    f = [k \in 0 .. Len(s) |->
            IF k = 0 THEN <<>>
            ELSE IF check(h, s[k]) THEN f[k - 1]
            ELSE Append(f[k - 1], s[k])]

\* The function Without is defined by satisfies its own equation.
LEMMA WithoutIsKept ==
    ASSUME NEW s \in Seq(Nodes), NEW h
    PROVE  \E f : IsKept(f, s, h) /\ Without(s, h) = f[Len(s)]
<1> DEFINE Body(g, k) == IF k = 0 THEN <<>>
                          ELSE IF check(h, s[k]) THEN g[k - 1]
                          ELSE Append(g[k - 1], s[k])
           Solves(g, N) == g = [k \in 0 .. N |-> Body(g, k)]
           T == {N \in Nat : \E g : Solves(g, N)}
<1>1. 0 \in T
  <2> DEFINE g == [k \in 0 .. 0 |-> <<>>]
  <2>1. Solves(g, 0)
    OBVIOUS
  <2> HIDE DEF g, Solves
  <2> QED
    BY <2>1
<1>2. ASSUME NEW N \in Nat, N \in T PROVE N + 1 \in T
  <2>1. PICK g : Solves(g, N)
    BY <1>2
  <2> DEFINE f == [k \in 0 .. N + 1 |-> IF k = N + 1 THEN Body(g, k) ELSE g[k]]
  <2>2. ASSUME NEW k \in 0 .. N + 1 PROVE f[k] = Body(f, k)
    <3>1. \A m \in 0 .. N : f[m] = g[m]
      OBVIOUS
    <3>2. f[k] = IF k = N + 1 THEN Body(g, k) ELSE g[k]
      OBVIOUS
    <3>3. k # N + 1 => g[k] = Body(g, k)
      <4> HIDE DEF Body
      <4>1. k # N + 1 => k \in 0 .. N
        OBVIOUS
      <4> QED
        BY <2>1, <4>1
    <3> HIDE DEF f
    <3>4. Body(f, k) = Body(g, k)
      <4>1. CASE k = 0
        BY <4>1
      <4>2. CASE k # 0
        <5>1. f[k - 1] = g[k - 1]
          BY <3>1, <4>2
        <5> QED
          BY <5>1
      <4> QED
        BY <4>1, <4>2
    <3> HIDE DEF Body
    <3> QED
      BY <3>2, <3>3, <3>4
  <2>3. Solves(f, N + 1)
    BY <2>2
  <2>4. N + 1 \in Nat
    OBVIOUS
  <2> HIDE DEF f, Solves
  <2> QED
    BY <2>3, <2>4
<1>3. PICK g : Solves(g, Len(s))
  <2>1. Nat \subseteq T
    <3> HIDE DEF T
    <3> QED
      BY <1>1, <1>2, NatInductive
  <2>2. Len(s) \in T
    BY <2>1, LenProperties
  <2> QED
    BY <2>2
<1> DEFINE kept == CHOOSE f : Solves(f, Len(s))
<1>4. Without(s, h) = kept[Len(s)]
  BY DEF Without
<1> HIDE DEF Solves
<1>5. Solves(kept, Len(s))
  BY <1>3
<1> QED
  BY <1>4, <1>5 DEF Solves, IsKept

\* An element appended to the second of two sequences is appended to both together.
LEMMA AppendToConcat ==
    ASSUME NEW a \in Seq(Nodes), NEW b \in Seq(Nodes), NEW x \in Nodes
    PROVE  Append(a \o b, x) = a \o (b \o <<x>>)
<1>1. <<x>> \in Seq(Nodes) /\ a \o b \in Seq(Nodes)
  BY ConcatProperties
<1>2. \A c \in Seq(Nodes) : (a \o b) \o c = a \o (b \o c)
  BY <1>1, ConcatAssociative
<1>3. Append(a \o b, x) = (a \o b) \o <<x>>
  BY <1>1, AppendIsConcat
<1> QED
  BY <1>1, <1>2, <1>3

\* Where at most one place m of a sequence matches, all but m is kept.
LEMMA WithoutOne ==
    ASSUME NEW s \in Seq(Nodes), NEW h, NEW m \in 1 .. Len(s) + 1,
           \A k \in 1 .. Len(s) : check(h, s[k]) <=> k = m
    PROVE  /\ m = Len(s) + 1 => Without(s, h) = s
           /\ m # Len(s) + 1 => Without(s, h) = SubSeq(s, 1, m - 1) \o SubSeq(s, m + 1, Len(s))
<1>1. Len(s) \in Nat /\ m \in Nat \ {0}
  BY LenProperties
<1>2. PICK f : IsKept(f, s, h) /\ Without(s, h) = f[Len(s)]
  BY WithoutIsKept
<1> DEFINE part(k) == IF k < m THEN SubSeq(s, 1, k) ELSE SubSeq(s, 1, m - 1) \o SubSeq(s, m + 1, k)
           T == {k \in Nat : k <= Len(s) => f[k] = part(k)}
<1>3. 0 \in T
  <2>1. f[0] = <<>>
    BY <1>1, <1>2 DEF IsKept
  <2>2. SubSeq(s, 1, 0) = <<>>
    BY SubSeqEmpty
  <2>3. part(0) = SubSeq(s, 1, 0)
    BY <1>1
  <2> HIDE DEF part
  <2> QED
    BY <2>1, <2>2, <2>3
<1>4. ASSUME NEW n \in Nat, n \in T PROVE n + 1 \in T
  <2> SUFFICES ASSUME n + 1 <= Len(s) PROVE f[n + 1] = part(n + 1)
    OBVIOUS
  <2> DEFINE k == n + 1
  <2>1. k \in 1 .. Len(s) /\ k \in 0 .. Len(s) /\ k # 0 /\ k - 1 = n
    BY <1>1
  <2>2. f[n] = part(n)
    BY <1>1, <1>4
  <2> HIDE DEF k
  <2>3. f[k] = IF check(h, s[k]) THEN f[n] ELSE Append(f[n], s[k])
    BY <1>2, <2>1 DEF IsKept
  <2>4. s[k] \in Nodes
    BY <2>1, ElementOfSeq
  <2>5. CASE k < m
    <3>1. f[k] = Append(SubSeq(s, 1, n), s[k])
      BY <2>1, <2>2, <2>3, <2>5
    <3>2. SubSeq(s, 1, n) \in Seq(Nodes)
      BY <1>1, <2>1
    <3>3. SubSeq(s, 1, k) = SubSeq(s, 1, n) \o <<s[k]>>
      BY <1>1, <2>1, SubSeqRecursiveSecond
    <3>4. f[k] = SubSeq(s, 1, k)
      BY <2>4, <3>1, <3>2, <3>3, AppendIsConcat
    <3> QED
      BY <2>5, <3>4 DEF k
  <2>6. CASE k = m
    <3>1. f[k] = SubSeq(s, 1, m - 1)
      BY <2>1, <2>2, <2>3, <2>6
    <3>2. SubSeq(s, 1, m - 1) \in Seq(Nodes)
      BY <1>1, <2>1, <2>6
    <3>3. SubSeq(s, m + 1, k) = <<>>
      BY <1>1, <2>6, SubSeqEmpty
    <3>4. f[k] = SubSeq(s, 1, m - 1) \o SubSeq(s, m + 1, k)
      BY <3>1, <3>2, <3>3, ConcatEmptySeq
    <3> QED
      BY <1>1, <2>6, <3>4 DEF k
  <2>7. CASE k > m
    <3> DEFINE a == SubSeq(s, 1, m - 1)
               b == SubSeq(s, m + 1, n)
    <3>1. f[k] = Append(a \o b, s[k])
      BY <1>1, <2>1, <2>2, <2>3, <2>7
    <3>2. a \in Seq(Nodes) /\ b \in Seq(Nodes) /\ <<s[k]>> \in Seq(Nodes)
      BY <1>1, <2>1, <2>4, <2>7
    <3>3. SubSeq(s, m + 1, k) = b \o <<s[k]>>
      BY <1>1, <2>1, <2>7, SubSeqRecursiveSecond
    <3> HIDE DEF a, b
    <3>4. f[k] = a \o (b \o <<s[k]>>)
      BY <2>4, <3>1, <3>2, AppendToConcat
    <3>5. f[k] = a \o SubSeq(s, m + 1, k)
      BY <3>3, <3>4
    <3>6. ~(k < m)
      BY <1>1, <2>1, <2>7
    <3>7. f[k] = SubSeq(s, 1, m - 1) \o SubSeq(s, m + 1, k)
      BY <3>5 DEF a
    <3>8. f[k] = part(k)
      BY <3>6, <3>7, Zenon
    <3> QED
      BY <3>8 DEF k
  <2> QED
    BY <1>1, <2>1, <2>5, <2>6, <2>7
<1>5. Len(s) \in T
  <2> HIDE DEF T
  <2> QED
    BY <1>1, <1>3, <1>4, NatInductive
<1>6. Without(s, h) = part(Len(s))
  BY <1>1, <1>2, <1>5
<1>7. SubSeq(s, 1, Len(s)) = s
  BY SubSeqFull
<1>8. m = Len(s) + 1 <=> Len(s) < m
  BY <1>1
<1>9. /\ Len(s) < m => part(Len(s)) = SubSeq(s, 1, Len(s))
      /\ ~(Len(s) < m) => part(Len(s)) = SubSeq(s, 1, m - 1) \o SubSeq(s, m + 1, Len(s))
  BY Zenon
<1> HIDE DEF part
<1> QED
  BY <1>6, <1>7, <1>8, <1>9

-----------------------------------------------------------------------------
\* The shape of the caller's variables and of the nodes.
ListTypeOK ==
    /\ start \in Pointer
    /\ next \in [Nodes -> Pointer]
    /\ handleOf \in [Nodes -> Handles \cup {NULL}]
    /\ allocated \subseteq Nodes
    /\ freenode \in allocated \cup {NULL}
    /\ pc \in {"idle", "remove"}
    /\ list \in Seq(Nodes)

\* The sequence c without its m-th node.
WithoutNth(c, m) == SubSeq(c, 1, m - 1) \o SubSeq(c, m + 1, Len(c))

\* The loop is at the j-th node of the chain c, the m-th of which is to be removed.
Searching(c, j, m) ==
    /\ Chain(c)
    /\ \A k \in 1 .. Len(c) : check(wanted, c[k]) <=> k = m
    /\ list = IF m = Len(c) + 1 THEN c ELSE WithoutNth(c, m)
    /\ j <= m
    /\ current = IF j = Len(c) + 1 THEN NULL ELSE c[j]
    /\ previous = IF j = 1 THEN NULL ELSE c[j - 1]

\* The node has been removed, and the loop goes on to the end.
Removed ==
    /\ Chain(list)
    /\ \A k \in 1 .. Len(list) : ~check(wanted, list[k])
    /\ current = NULL \/ \E k \in 1 .. Len(list) : current = list[k]

\* Between two uses of the macros the chain is the list.  Inside the loop of the
\* removal it still is the list before, and the loop on its way to the node, or the
\* node is out.
ListIInv ==
    /\ ListTypeOK
    /\ pc = "idle" => Chain(list)
    /\ pc = "remove" =>
           \/ Removed
           \/ \E c \in Seq(Nodes) : \E j, m \in 1 .. Len(c) + 1 : Searching(c, j, m)

\* What is left when the m-th node is taken out.
LEMMA WithoutNthProperties ==
    ASSUME NEW c \in Seq(Nodes), NEW m \in 1 .. Len(c)
    PROVE  /\ WithoutNth(c, m) \in Seq(Nodes)
           /\ Len(WithoutNth(c, m)) = Len(c) - 1
           /\ \A k \in 1 .. Len(c) - 1 : WithoutNth(c, m)[k] = IF k < m THEN c[k] ELSE c[k + 1]
<1> DEFINE a == SubSeq(c, 1, m - 1)
           b == SubSeq(c, m + 1, Len(c))
<1>1. Len(c) \in Nat /\ m \in Nat /\ \A k \in 1 .. Len(c) : c[k] \in Nodes
  BY LenProperties, ElementOfSeq
<1>2. a \in Seq(Nodes) /\ Len(a) = m - 1 /\ \A k \in 1 .. m - 1 : a[k] = c[k]
  BY <1>1
<1>3. b \in Seq(Nodes) /\ Len(b) = Len(c) - m /\ \A k \in 1 .. Len(c) - m : b[k] = c[k + m]
  BY <1>1
<1>4. WithoutNth(c, m) = a \o b
  BY DEF WithoutNth
<1> HIDE DEF a, b
<1>5. /\ a \o b \in Seq(Nodes)
      /\ Len(a \o b) = Len(c) - 1
      /\ \A k \in 1 .. Len(c) - 1 : (a \o b)[k] = IF k <= m - 1 THEN a[k] ELSE b[k - (m - 1)]
  <2>1. /\ a \o b \in Seq(Nodes)
        /\ Len(a \o b) = Len(a) + Len(b)
        /\ \A k \in 1 .. Len(a) + Len(b) :
               (a \o b)[k] = IF k <= Len(a) THEN a[k] ELSE b[k - Len(a)]
    BY <1>2, <1>3, ConcatProperties
  <2>2. Len(a) + Len(b) = Len(c) - 1
    BY <1>1, <1>2, <1>3
  <2> QED
    BY <1>2, <2>1, <2>2
<1>6. ASSUME NEW k \in 1 .. Len(c) - 1
      PROVE  (a \o b)[k] = IF k < m THEN c[k] ELSE c[k + 1]
  <2>1. CASE k < m
    BY <1>1, <1>2, <1>5, <2>1
  <2>2. CASE ~(k < m)
    <3>1. k - (m - 1) \in 1 .. Len(c) - m /\ k - (m - 1) + m = k + 1 /\ ~(k <= m - 1)
      BY <1>1, <2>2
    <3>2. b[k - (m - 1)] = c[k + 1]
      BY <1>3, <3>1
    <3> QED
      BY <1>5, <2>2, <3>1, <3>2
  <2> QED
    BY <2>1, <2>2
<1> QED
  BY <1>4, <1>5, <1>6

\* The caller starts with an empty list.
LEMMA ListInitial == ListInit => ListIInv
  BY EmptySeq DEF ListInit, ListIInv, ListTypeOK, Chain, Pointer

\* mlinked_list_add makes the new node the last of the chain.
LEMMA AddKeepsChain ==
    ASSUME ListIInv, UniqueHandles, NEW n \in Nodes, NEW h \in Handles, mlinked_list_add(n, h)
    PROVE  ListIInv'
<1>1. Chain(list) /\ Walk(start) = list
  BY WalkChain DEF ListIInv, mlinked_list_add
<1>2. Len(list) \in Nat /\ list \in Seq(Nodes) /\ \A k \in 1 .. Len(list) : list[k] \in Nodes
  BY LenProperties, ElementOfSeq DEF ListIInv, ListTypeOK
<1>3. n \notin allocated /\ n # NULL /\ n # freenode
  BY ListConstants DEF mlinked_list_add, ListIInv, ListTypeOK
<1>4. \A k \in 1 .. Len(list) : handleOf[list[k]] # h /\ list[k] # n
  BY <1>1, <1>2, <1>3 DEF mlinked_list_add, Chain, ToSet
<1>5. /\ list' \in Seq(Nodes) /\ Len(list') = Len(list) + 1
      /\ \A k \in 1 .. Len(list) : list'[k] = list[k]
      /\ list'[Len(list) + 1] = n /\ list' # <<>>
  BY <1>2, AppendProperties DEF mlinked_list_add
<1>6. /\ handleOf' \in [Nodes -> Handles \cup {NULL}]
      /\ handleOf'[n] = h /\ \A x \in Nodes : x # n => handleOf'[x] = handleOf[x]
  BY DEF mlinked_list_add, ListIInv, ListTypeOK
<1>7. /\ start' = list'[1]
      /\ next' \in [Nodes -> Pointer]
      /\ \A k \in 1 .. Len(list) + 1 :
             next'[list'[k]] = IF k = Len(list) + 1 THEN NULL ELSE list'[k + 1]
  <2>1. CASE start = NULL
    <3>1. list = <<>> /\ Len(list) = 0
      BY <1>1, <1>2, <2>1, ListConstants, EmptySeq DEF Chain
    <3> QED
      BY <1>5, <2>1, <3>1 DEF mlinked_list_add, ListIInv, ListTypeOK, Pointer
  <2>2. CASE start # NULL
    <3> DEFINE last == list[Len(list)]
    <3>1. list # <<>> /\ Len(list) >= 1 /\ start = list[1]
      BY <1>1, <1>2, <2>2, EmptySeq DEF Chain
    <3>2. last \in Nodes /\ last # n
      BY <1>2, <1>4, <3>1
    <3>3. start' = start /\ next' = [next EXCEPT ![n] = NULL, ![last] = n]
      BY <1>1, <2>2 DEF mlinked_list_add, Last
    <3>4. /\ next' \in [Nodes -> Pointer] /\ next'[n] = NULL /\ next'[last] = n
          /\ \A x \in Nodes : x # n /\ x # last => next'[x] = next[x]
      BY <3>2, <3>3 DEF ListIInv, ListTypeOK, Pointer
    <3>5. ASSUME NEW k \in 1 .. Len(list) + 1
          PROVE  next'[list'[k]] = IF k = Len(list) + 1 THEN NULL ELSE list'[k + 1]
      <4>1. CASE k = Len(list) + 1
        BY <1>5, <3>4, <4>1
      <4>2. CASE k = Len(list)
        BY <1>2, <1>5, <3>1, <3>4, <4>2
      <4>3. CASE k < Len(list)
        <5>1. k \in 1 .. Len(list) /\ k + 1 \in 1 .. Len(list) /\ k # Len(list)
          BY <1>2, <4>3
        <5>2. list[k] # last
          BY <1>1, <1>2, <3>1, <5>1 DEF Chain
        <5>3. next'[list[k]] = list[k + 1]
          BY <1>1, <1>2, <1>4, <3>4, <5>1, <5>2 DEF Chain
        <5> QED
          BY <1>2, <1>5, <5>1, <5>3, <4>3
      <4> QED
        BY <1>2, <4>1, <4>2, <4>3
    <3> QED
      BY <1>2, <1>5, <3>1, <3>3, <3>4, <3>5
  <2> QED
    BY <2>1, <2>2
<1>8. \A j, k \in 1 .. Len(list') : handleOf'[list'[j]] = handleOf'[list'[k]] => j = k
  <2> SUFFICES ASSUME NEW j \in 1 .. Len(list'), NEW k \in 1 .. Len(list'),
                      handleOf'[list'[j]] = handleOf'[list'[k]]
               PROVE  j = k
    OBVIOUS
  <2>1. \A i \in 1 .. Len(list) : handleOf'[list'[i]] = handleOf[list[i]] /\ handleOf[list[i]] # h
    BY <1>2, <1>4, <1>5, <1>6
  <2>2. handleOf'[list'[Len(list) + 1]] = h
    BY <1>5, <1>6
  <2>3. /\ j \in 1 .. Len(list) \/ j = Len(list) + 1
        /\ k \in 1 .. Len(list) \/ k = Len(list) + 1
    BY <1>2, <1>5
  <2> QED
    BY <1>1, <2>1, <2>2, <2>3 DEF Chain
<1>9. \A k \in 1 .. Len(list') : list'[k] \in allocated' /\ list'[k] # freenode'
  <2>1. allocated' = allocated \cup {n} /\ freenode' = freenode
    BY DEF mlinked_list_add
  <2>2. \A k \in 1 .. Len(list') : k \in 1 .. Len(list) \/ k = Len(list) + 1
    BY <1>2, <1>5
  <2> QED
    BY <1>1, <1>3, <1>5, <2>1, <2>2 DEF Chain
<1>10. Chain(list)'
  BY <1>5, <1>7, <1>8, <1>9 DEF Chain
<1>11. pc' = "idle" /\ freenode' \in allocated' \cup {NULL} /\ allocated' \subseteq Nodes
  BY DEF mlinked_list_add, ListIInv, ListTypeOK
<1>12. start' \in Pointer
  BY <1>5, <1>7, <1>2, ElementOfSeq DEF Pointer
<1> QED
  BY <1>5, <1>6, <1>7, <1>10, <1>11, <1>12 DEF ListIInv, ListTypeOK

\* mlinked_list_remove starts at the head, with at most one node to take out.
LEMMA BeginFindsChain ==
    ASSUME ListIInv, FreshPointers, NEW h \in Handles, RemoveBegin(h)
    PROVE  ListIInv'
<1>1. Chain(list) /\ list # <<>>
  BY DEF ListIInv, RemoveBegin, Chain
<1>2. Len(list) \in Nat /\ Len(list) >= 1 /\ list \in Seq(Nodes)
      /\ \A k \in 1 .. Len(list) : list[k] \in Nodes
  BY <1>1, LenProperties, ElementOfSeq, EmptySeq DEF Chain
<1>3. PICK m \in 1 .. Len(list) + 1 : \A k \in 1 .. Len(list) : check(h, list[k]) <=> k = m
  <2>1. CASE \E m \in 1 .. Len(list) : check(h, list[m])
    <3>1. PICK m \in 1 .. Len(list) : check(h, list[m])
      BY <2>1
    <3>2. \A k \in 1 .. Len(list) : check(h, list[k]) <=> k = m
      BY <1>1, <3>1 DEF Chain, check
    <3>3. m \in 1 .. Len(list) + 1
      BY <1>2
    <3> QED
      BY <3>2, <3>3
  <2>2. CASE \A m \in 1 .. Len(list) : ~check(h, list[m])
    <3>1. Len(list) + 1 \in 1 .. Len(list) + 1 /\ \A k \in 1 .. Len(list) : k # Len(list) + 1
      BY <1>2
    <3> QED
      BY <2>2, <3>1
  <2> QED
    BY <2>1, <2>2
<1>4. /\ pc' = "remove" /\ current' = start /\ previous' = NULL /\ freenode' = NULL /\ wanted' = h
      /\ UNCHANGED <<start, next, handleOf, allocated>>
  BY DEF RemoveBegin
<1>5. list' = IF m = Len(list) + 1 THEN list ELSE WithoutNth(list, m)
  <2>1. list' = Without(list, h)
    BY DEF RemoveBegin
  <2> QED
    BY <1>2, <1>3, <2>1, WithoutOne DEF WithoutNth
<1>6. list' \in Seq(Nodes)
  BY <1>2, <1>5, WithoutNthProperties
<1>7. ListTypeOK'
  BY <1>4, <1>6 DEF ListIInv, ListTypeOK
<1> DEFINE c == list
<1>8. (pc = "remove" => \E d \in Seq(Nodes) : \E j, n \in 1 .. Len(d) + 1 : Searching(d, j, n))'
  <2>1. /\ c \in Seq(Nodes)
        /\ start' = IF c = <<>> THEN NULL ELSE c[1]
        /\ \A k \in 1 .. Len(c) :
               /\ c[k] \in allocated'
               /\ c[k] # freenode'
               /\ next'[c[k]] = IF k = Len(c) THEN NULL ELSE c[k + 1]
        /\ \A j, k \in 1 .. Len(c) : handleOf'[c[j]] = handleOf'[c[k]] => j = k
    BY <1>1, <1>2, <1>4, ListConstants DEF Chain
  <2>2. \A k \in 1 .. Len(c) : handleOf'[c[k]] = wanted' <=> k = m
    BY <1>3, <1>4 DEF check
  <2>3. current' = c[1] /\ 1 # Len(c) + 1 /\ 1 \in 1 .. Len(c) + 1 /\ 1 <= m
    BY <1>1, <1>2, <1>4 DEF Chain
  <2>4. list' = IF m = Len(c) + 1 THEN c ELSE WithoutNth(c, m)
    BY <1>5
  <2> HIDE DEF c
  <2>5. m \in 1 .. Len(c) + 1
    BY DEF c
  <2>6. c \in Seq(Nodes) /\ previous' = NULL
    BY <1>4, <2>1
  <2> QED
    BY <2>1, <2>2, <2>3, <2>4, <2>5, <2>6 DEF Searching, Chain, check, WithoutNth
<1> QED
  BY <1>4, <1>7, <1>8 DEF ListIInv

\* The step that unlinks the node: what is left is the chain of the nodes to keep.
LEMMA MatchUnlinks ==
    ASSUME ListIInv, RemoveMatch
    PROVE  ListIInv'
<1>1. /\ pc = "remove" /\ current # NULL /\ check(wanted, current)
      /\ freenode' = current /\ current' = next'[current]
      /\ UNCHANGED <<handleOf, allocated, pc, wanted, list>>
  BY DEF RemoveMatch
<1>2. ~Removed
  BY <1>1 DEF Removed
<1>3. PICK c \in Seq(Nodes) : \E j, m \in 1 .. Len(c) + 1 : Searching(c, j, m)
  BY <1>1, <1>2 DEF ListIInv
<1>4. PICK j \in 1 .. Len(c) + 1, m \in 1 .. Len(c) + 1 : Searching(c, j, m)
  BY <1>3
<1>5. /\ Len(c) \in Nat /\ j \in Nat /\ m \in Nat
      /\ \A k \in 1 .. Len(c) : c[k] \in Nodes /\ c[k] # NULL
  BY LenProperties, ElementOfSeq, ListConstants
<1>6. j = m /\ m \in 1 .. Len(c) /\ current = c[m]
  <2>1. j # Len(c) + 1 /\ current = c[j]
    BY <1>1, <1>4 DEF Searching
  <2>2. j \in 1 .. Len(c)
    BY <1>5, <2>1
  <2> QED
    BY <1>1, <1>4, <2>1, <2>2 DEF Searching
<1>7. /\ list = WithoutNth(c, m)
      /\ previous = IF m = 1 THEN NULL ELSE c[m - 1]
      /\ start = c[1]
      /\ \A k \in 1 .. Len(c) : c[k] \in allocated /\ next[c[k]] = IF k = Len(c) THEN NULL ELSE c[k + 1]
      /\ \A k, i \in 1 .. Len(c) : handleOf[c[k]] = handleOf[c[i]] => k = i
      /\ \A k \in 1 .. Len(c) : check(wanted, c[k]) <=> k = m
  BY <1>4, <1>5, <1>6, EmptySeq DEF Searching, Chain
<1>8. /\ list \in Seq(Nodes) /\ Len(list) = Len(c) - 1
      /\ \A k \in 1 .. Len(c) - 1 : list[k] = IF k < m THEN c[k] ELSE c[k + 1]
  BY <1>6, <1>7, WithoutNthProperties
<1>9. next \in [Nodes -> Pointer]
  BY DEF ListIInv, ListTypeOK
\* The links that matter after the step.
<1>10. /\ next' \in [Nodes -> Pointer]
       /\ \A k \in 1 .. Len(c) : k # m - 1 => next'[c[k]] = next[c[k]]
       /\ m # 1 => next'[c[m - 1]] = next[c[m]]
       /\ start' = IF m = 1 THEN next[c[1]] ELSE start
  <2>1. CASE m = 1
    <3>1. previous = NULL
      BY <1>7, <2>1
    <3>2. start' = next[current] /\ next' = next
      BY <3>1 DEF RemoveMatch
    <3> QED
      BY <1>6, <1>9, <2>1, <3>2
  <2>2. CASE m # 1
    <3>1. m - 1 \in 1 .. Len(c) /\ previous = c[m - 1] /\ previous \in Nodes /\ previous # NULL
      BY <1>5, <1>6, <1>7, <2>2
    <3>2. start' = start /\ next' = [next EXCEPT ![previous] = next[c[m]]]
      BY <1>6, <3>1 DEF RemoveMatch
    <3>3. next[c[m]] \in Pointer
      BY <1>5, <1>6, <1>9
    <3>4. \A k \in 1 .. Len(c) : k # m - 1 => c[k] # previous
      BY <1>7, <3>1
    <3> QED
      BY <1>5, <1>9, <2>2, <3>1, <3>2, <3>3, <3>4
  <2> QED
    BY <2>1, <2>2
<1>11. ASSUME NEW k \in 1 .. Len(list)
       PROVE  next'[list[k]] = IF k = Len(list) THEN NULL ELSE list[k + 1]
  <2>0. k \in 1 .. Len(c) - 1 /\ k \in 1 .. Len(c) /\ k + 1 \in 1 .. Len(c)
    BY <1>5, <1>8
  <2>1. CASE k < m - 1
    <3>1. k # m - 1 /\ k < m /\ k + 1 < m /\ k + 1 \in 1 .. Len(c) - 1 /\ k # Len(list) /\ k # Len(c)
      BY <1>5, <1>6, <1>8, <2>0, <2>1
    <3>2. list[k] = c[k] /\ list[k + 1] = c[k + 1]
      BY <1>8, <2>0, <3>1
    <3>3. next'[c[k]] = c[k + 1]
      BY <1>7, <1>10, <2>0, <3>1
    <3> QED
      BY <3>1, <3>2, <3>3
  <2>2. CASE k = m - 1
    <3>1. list[k] = c[m - 1] /\ m # 1 /\ next'[c[m - 1]] = next[c[m]]
      BY <1>5, <1>8, <1>10, <2>0, <2>2
    <3>2. next[c[m]] = IF m = Len(c) THEN NULL ELSE c[m + 1]
      BY <1>6, <1>7
    <3>3. m = Len(c) <=> k = Len(list)
      BY <1>5, <1>8, <2>2
    <3>4. k # Len(list) => list[k + 1] = c[m + 1]
      <4> SUFFICES ASSUME k # Len(list) PROVE list[k + 1] = c[m + 1]
        OBVIOUS
      <4>1. k + 1 \in 1 .. Len(c) - 1 /\ ~(k + 1 < m) /\ k + 1 = m
        BY <1>5, <1>8, <2>0, <2>2
      <4> QED
        BY <1>8, <4>1
    <3> QED
      BY <3>1, <3>2, <3>3, <3>4
  <2>3. CASE k >= m
    <3>1. ~(k < m) /\ k + 1 # m - 1 /\ (k + 1 = Len(c) <=> k = Len(list))
      BY <1>5, <1>8, <2>0, <2>3
    <3>2. list[k] = c[k + 1]
      BY <1>8, <2>0, <3>1
    <3>3. next'[c[k + 1]] = IF k + 1 = Len(c) THEN NULL ELSE c[k + 1 + 1]
      BY <1>7, <1>10, <2>0, <3>1
    <3>4. k # Len(list) => list[k + 1] = c[k + 1 + 1]
      <4> SUFFICES ASSUME k # Len(list) PROVE list[k + 1] = c[k + 1 + 1]
        OBVIOUS
      <4>1. k + 1 \in 1 .. Len(c) - 1 /\ ~(k + 1 < m)
        BY <1>5, <1>8, <2>0, <2>3
      <4> QED
        BY <1>8, <4>1
    <3> QED
      BY <3>1, <3>2, <3>3, <3>4
  <2> QED
    BY <1>5, <2>0, <2>1, <2>2, <2>3
<1>12. ASSUME NEW k \in 1 .. Len(list)
       PROVE  \E i \in 1 .. Len(c) : i # m /\ list[k] = c[i] /\ (k < m => i = k) /\ (k >= m => i = k + 1)
  <2>1. k \in 1 .. Len(c) - 1 /\ k \in 1 .. Len(c) /\ k + 1 \in 1 .. Len(c)
    BY <1>5, <1>8
  <2>2. CASE k < m
    <3>1. k # m /\ ~(k >= m) /\ list[k] = c[k]
      BY <1>5, <1>8, <2>1, <2>2
    <3> QED
      BY <2>1, <2>2, <3>1
  <2>3. CASE ~(k < m)
    <3>1. k + 1 # m /\ list[k] = c[k + 1]
      BY <1>5, <1>8, <2>1, <2>3
    <3> QED
      BY <2>1, <2>3, <3>1
  <2> QED
    BY <2>2, <2>3
<1>13. start' = IF list = <<>> THEN NULL ELSE list[1]
  <2>1. CASE m = 1
    <3>1. start' = next[c[1]] /\ 1 \in 1 .. Len(c)
      BY <1>6, <1>10, <2>1
    <3>2. CASE Len(c) = 1
      <4>1. list = <<>>
        BY <1>8, <3>2, EmptySeq
      <4>2. next[c[1]] = NULL
        BY <1>7, <3>1, <3>2
      <4> QED
        BY <3>1, <4>1, <4>2
    <3>3. CASE Len(c) > 1
      <4>1. 1 \in 1 .. Len(c) - 1 /\ 1 # Len(c)
        BY <1>5, <3>3
      <4>2. list[1] = c[1 + 1]
        BY <1>8, <2>1, <4>1
      <4>3. list # <<>>
        BY <1>5, <1>8, <3>3, EmptySeq
      <4>4. next[c[1]] = c[1 + 1]
        BY <1>7, <3>1, <4>1
      <4> QED
        BY <3>1, <4>2, <4>3, <4>4
    <3>4. \A n \in Nat : 1 \in 1 .. n => n = 1 \/ n > 1
      OBVIOUS
    <3>5. Len(c) = 1 \/ Len(c) > 1
      BY <1>5, <3>1, <3>4
    <3> QED
      BY <3>2, <3>3, <3>5
  <2>2. CASE m # 1
    <3>1. 1 \in 1 .. Len(c) - 1 /\ 1 < m
      BY <1>5, <1>6, <2>2
    <3>2. list[1] = c[1] /\ list # <<>>
      BY <1>8, <3>1, EmptySeq
    <3> QED
      BY <1>7, <1>10, <2>2, <3>2
  <2> QED
    BY <2>1, <2>2
<1>14. \A j1, k1 \in 1 .. Len(list) : handleOf[list[j1]] = handleOf[list[k1]] => j1 = k1
  <2> SUFFICES ASSUME NEW a \in 1 .. Len(list), NEW b \in 1 .. Len(list),
                      handleOf[list[a]] = handleOf[list[b]]
               PROVE  a = b
    OBVIOUS
  <2>1. PICK i \in 1 .. Len(c) : list[a] = c[i] /\ (a < m => i = a) /\ (a >= m => i = a + 1)
    BY <1>12
  <2>2. PICK k \in 1 .. Len(c) : list[b] = c[k] /\ (b < m => k = b) /\ (b >= m => k = b + 1)
    BY <1>12
  <2>3. i = k
    BY <1>7, <2>1, <2>2
  <2> QED
    BY <1>5, <1>8, <2>1, <2>2, <2>3
<1>15. \A k \in 1 .. Len(list) : list[k] \in allocated /\ list[k] # c[m] /\ ~check(wanted, list[k])
  BY <1>6, <1>7, <1>12
<1>16. Chain(list)'
  BY <1>1, <1>6, <1>8, <1>11, <1>13, <1>14, <1>15 DEF Chain
<1>17. current' = NULL \/ \E k \in 1 .. Len(list) : current' = list[k]
  <2>1. current' = IF m = Len(c) THEN NULL ELSE c[m + 1]
    BY <1>1, <1>5, <1>6, <1>7, <1>10
  <2>2. CASE m # Len(c)
    <3>1. m \in 1 .. Len(c) - 1 /\ ~(m < m)
      BY <1>5, <1>6, <2>2
    <3>2. list[m] = c[m + 1] /\ m \in 1 .. Len(list)
      BY <1>8, <3>1
    <3> QED
      BY <2>1, <2>2, <3>2
  <2> QED
    BY <2>1, <2>2
<1>18. Removed'
  BY <1>1, <1>15, <1>16, <1>17 DEF Removed, check
<1>19. ListTypeOK'
  <2>1. start' \in Pointer
    BY <1>8, <1>13, ElementOfSeq, EmptySeq DEF Pointer
  <2>2. freenode' \in allocated'
    BY <1>1, <1>6, <1>7
  <2> QED
    BY <1>1, <1>10, <2>1, <2>2 DEF ListIInv, ListTypeOK
<1> QED
  BY <1>1, <1>18, <1>19 DEF ListIInv

\* An iteration that does not match moves both pointers on by one.
LEMMA SkipGoesOn ==
    ASSUME ListIInv, RemoveSkip
    PROVE  ListIInv'
<1>1. /\ pc = "remove" /\ current # NULL /\ ~check(wanted, current)
      /\ previous' = current /\ current' = next[current]
      /\ UNCHANGED <<start, freenode, next, handleOf, allocated, pc, wanted, list>>
  BY DEF RemoveSkip
<1>2. ListTypeOK'
  BY <1>1 DEF ListIInv, ListTypeOK
<1>3. CASE Removed
  <2>1. PICK k \in 1 .. Len(list) : current = list[k]
    BY <1>1, <1>3 DEF Removed
  <2>2. Len(list) \in Nat
    BY LenProperties DEF ListIInv, ListTypeOK
  <2>3. current' = NULL \/ \E i \in 1 .. Len(list) : current' = list[i]
    <3>1. current' = IF k = Len(list) THEN NULL ELSE list[k + 1]
      BY <1>1, <1>3, <2>1 DEF Removed, Chain
    <3>2. k # Len(list) => k + 1 \in 1 .. Len(list)
      BY <2>2
    <3> QED
      BY <3>1, <3>2
  <2>4. Removed'
    BY <1>1, <1>3, <2>3 DEF Removed, Chain, check
  <2> QED
    BY <1>1, <1>2, <2>4 DEF ListIInv
<1>4. CASE ~Removed
  <2>1. PICK c \in Seq(Nodes) : \E j, m \in 1 .. Len(c) + 1 : Searching(c, j, m)
    BY <1>1, <1>4 DEF ListIInv
  <2>2. PICK j \in 1 .. Len(c) + 1, m \in 1 .. Len(c) + 1 : Searching(c, j, m)
    BY <2>1
  <2>3. Len(c) \in Nat
    BY LenProperties
  <2>4. j \in 1 .. Len(c) /\ j # Len(c) + 1 /\ current = c[j] /\ j # m
    <3>1. j # Len(c) + 1 /\ current = c[j]
      BY <1>1, <2>2 DEF Searching
    <3>2. j \in 1 .. Len(c)
      BY <2>3, <3>1
    <3> QED
      BY <1>1, <2>2, <3>1, <3>2 DEF Searching
  <2> DEFINE i == j + 1
  <2>5. i \in 1 .. Len(c) + 1 /\ i <= m /\ i # 1 /\ i - 1 = j /\ (i = Len(c) + 1 <=> j = Len(c))
    BY <2>2, <2>3, <2>4 DEF Searching
  <2>6. current' = IF j = Len(c) THEN NULL ELSE c[i]
    BY <1>1, <2>2, <2>4 DEF Searching, Chain
  <2> HIDE DEF i
  <2>7. Searching(c, i, m)'
    BY <1>1, <2>2, <2>4, <2>5, <2>6 DEF Searching, Chain, check, WithoutNth
  <2> QED
    BY <1>1, <1>2, <2>5, <2>7 DEF ListIInv
<1> QED
  BY <1>3, <1>4

\* At the end of the loop what is asked for is gone, and the chain is the list again.
LEMMA EndIsChain ==
    ASSUME ListIInv, RemoveEnd
    PROVE  ListIInv'
<1>1. /\ pc = "remove" /\ current = NULL /\ pc' = "idle"
      /\ UNCHANGED <<start, current, previous, freenode, next, handleOf, allocated, wanted, list>>
  BY DEF RemoveEnd
<1>2. Chain(list)
  <2>1. CASE Removed
    BY <2>1 DEF Removed
  <2>2. CASE ~Removed
    <3>1. PICK c \in Seq(Nodes) : \E j, m \in 1 .. Len(c) + 1 : Searching(c, j, m)
      BY <1>1, <2>2 DEF ListIInv
    <3>2. PICK j \in 1 .. Len(c) + 1, m \in 1 .. Len(c) + 1 : Searching(c, j, m)
      BY <3>1
    <3>3. Len(c) \in Nat /\ \A k \in 1 .. Len(c) : c[k] # NULL
      BY LenProperties, ElementOfSeq, ListConstants
    <3>4. j = Len(c) + 1
      BY <1>1, <3>2, <3>3 DEF Searching
    <3>5. m = Len(c) + 1
      BY <3>2, <3>3, <3>4 DEF Searching
    <3> QED
      BY <3>2, <3>5 DEF Searching
  <2> QED
    BY <2>1, <2>2
<1>3. Chain(list)'
  BY <1>1, <1>2 DEF Chain
<1> QED
  BY <1>1, <1>3 DEF ListIInv, ListTypeOK

\* Every macro keeps the chain, as does the caller who frees the node he was handed.
LEMMA ListInductive ==
    ASSUME FreshPointers, UniqueHandles
    PROVE  ListIInv /\ [ListNext]_listVars => ListIInv'
<1> SUFFICES ASSUME ListIInv, [ListNext]_listVars PROVE ListIInv'
  OBVIOUS
<1>1. ASSUME NEW n \in Nodes, NEW h \in Handles, mlinked_list_add(n, h) PROVE ListIInv'
  BY <1>1, AddKeepsChain
<1>2. ASSUME NEW h \in Handles, mlinked_list_find(h) PROVE ListIInv'
  BY <1>2 DEF mlinked_list_find, ListIInv, ListTypeOK, Chain
<1>3. CASE mlinked_list_length
  BY <1>3 DEF mlinked_list_length, ListIInv, ListTypeOK, Chain
<1>4. ASSUME NEW h \in Handles, RemoveBegin(h) PROVE ListIInv'
  BY <1>4, BeginFindsChain
<1>5. CASE RemoveLoop
  BY <1>5, MatchUnlinks, SkipGoesOn, EndIsChain DEF RemoveLoop
<1>6. CASE FreeNode
  <2>1. /\ pc = "idle" /\ freenode \in allocated
        /\ allocated' = allocated \ {freenode} /\ freenode' = NULL
        /\ UNCHANGED <<start, next, handleOf, pc, list>>
    BY <1>6 DEF FreeNode
  <2>2. Chain(list)'
    BY <2>1, ElementOfSeq, ListConstants DEF ListIInv, Chain
  <2> QED
    BY <2>1, <2>2 DEF ListIInv, ListTypeOK
<1>7. CASE UNCHANGED listVars
  <2>1. /\ ListTypeOK' = ListTypeOK
        /\ Chain(list)' = Chain(list)
        /\ Removed' = Removed
    BY <1>7 DEF listVars, ListTypeOK, Chain, Removed, check
  <2>2. ASSUME NEW c, NEW j, NEW m, Searching(c, j, m) PROVE Searching(c, j, m)'
    BY <1>7, <2>2 DEF listVars, Searching, Chain, check, WithoutNth
  <2>3. pc' = pc
    BY <1>7 DEF listVars
  <2> QED
    BY <2>1, <2>2, <2>3 DEF ListIInv
<1> QED
  BY <1>1, <1>2, <1>3, <1>4, <1>5, <1>6, <1>7 DEF ListNext

\* After any sequence of mlinked_list_add, find, length and remove, and of frees of
\* the removed nodes and their reuse, the chain from start is what was added and not
\* removed, in order, for any number of nodes; the client is one like mlog.c.
THEOREM ListIsChain ==
    ASSUME FreshPointers, UniqueHandles
    PROVE  ListSpec => []ChainIsList
<1>1. ListIInv => ChainIsList
  BY WalkChain DEF ListIInv, ChainIsList
<1> QED
  BY <1>1, ListInitial, ListInductive, PTL DEF ListSpec

\* The node that mlinked_list_remove hands to its caller to free is out of the chain,
\* and all that is in it is allocated (madt.h: "freenode is populated with a pointer
\* to the removed node").
THEOREM RemovedNodeIsFree ==
    ASSUME FreshPointers, UniqueHandles
    PROVE  ListSpec => []FreenodeIsRemoved
<1>1. ListIInv => FreenodeIsRemoved
  <2> SUFFICES ASSUME ListIInv, pc = "idle"
               PROVE  freenode \notin ToSet(Walk(start)) /\ ToSet(Walk(start)) \subseteq allocated
    BY DEF FreenodeIsRemoved
  <2>1. Chain(list) /\ Walk(start) = list
    BY WalkChain DEF ListIInv
  <2>2. \A n \in ToSet(list) : \E k \in 1 .. Len(list) : n = list[k]
    BY LenProperties DEF ListIInv, ListTypeOK, ToSet
  <2>3. \A n \in ToSet(list) : n \in allocated /\ n # freenode
    BY <2>1, <2>2 DEF Chain
  <2> QED
    BY <2>1, <2>3
<1> QED
  BY <1>1, ListInitial, ListInductive, PTL DEF ListSpec

-----------------------------------------------------------------------------
(***************************************************************************)
(* The way that links lead.                                                *)
(***************************************************************************)
\* As many steps as there are places.
Steps == Cardinality(Places)

\* It is a number, as there are finitely many places.
LEMMA StepsType == Steps \in Nat
  BY FollowConstants, FS_CardinalityType DEF Steps

\* Way satisfies the equation it is defined by.
LEMMA WayEquation ==
    Way = [n \in 0 .. Cardinality(Places) |->
              IF n = 0 THEN Place(origin, Cwd) ELSE Target(Way[n - 1])]
<1> DEFINE Body(g, n) == IF n = 0 THEN Place(origin, Cwd) ELSE Target(g[n - 1])
           Solves(g, N) == g = [n \in 0 .. N |-> Body(g, n)]
           T == {N \in Nat : \E g : Solves(g, N)}
<1>1. 0 \in T
  <2> DEFINE g == [n \in 0 .. 0 |-> Place(origin, Cwd)]
  <2>1. Solves(g, 0)
    OBVIOUS
  <2> HIDE DEF g, Solves
  <2> QED
    BY <2>1
<1>2. ASSUME NEW N \in Nat, N \in T PROVE N + 1 \in T
  <2>1. PICK g : Solves(g, N)
    BY <1>2
  <2> DEFINE h == [n \in 0 .. N + 1 |-> IF n = N + 1 THEN Body(g, n) ELSE g[n]]
  <2>2. ASSUME NEW n \in 0 .. N + 1 PROVE h[n] = Body(h, n)
    <3>1. \A m \in 0 .. N : h[m] = g[m]
      OBVIOUS
    <3>2. h[n] = IF n = N + 1 THEN Body(g, n) ELSE g[n]
      OBVIOUS
    <3>3. n # N + 1 => g[n] = Body(g, n)
      BY <2>1
    <3> HIDE DEF h
    <3>4. Body(h, n) = Body(g, n)
      BY <3>1
    <3> HIDE DEF Body
    <3> QED
      BY <3>2, <3>3, <3>4
  <2>3. Solves(h, N + 1)
    BY <2>2
  <2>4. N + 1 \in Nat
    OBVIOUS
  <2> HIDE DEF h, Solves
  <2> QED
    BY <2>3, <2>4
<1>3. PICK g : Solves(g, Cardinality(Places))
  <2>1. Nat \subseteq T
    <3> HIDE DEF T
    <3> QED
      BY <1>1, <1>2, NatInductive
  <2>2. Cardinality(Places) \in T
    BY <2>1, StepsType DEF Steps
  <2> QED
    BY <2>2
<1>4. Way = CHOOSE f : Solves(f, Cardinality(Places))
  BY DEF Way
<1> HIDE DEF Solves
<1>5. Solves(Way, Cardinality(Places))
  BY <1>3, <1>4
<1> QED
  BY <1>5 DEF Solves

\* The equation, step by step.
LEMMA WaySteps ==
    /\ Way[0] = Place(origin, Cwd)
    /\ \A n \in 1 .. Steps : Way[n] = Target(Way[n - 1])
<1>1. 0 \in 0 .. Steps /\ \A n \in 1 .. Steps : n \in 0 .. Steps /\ n # 0
  BY StepsType
<1> QED
  BY <1>1, WayEquation DEF Steps

\* A step before the last leads on along the way.
LEMMA WayGoesOn ==
    ASSUME NEW k \in 0 .. Steps, k < Steps
    PROVE  Target(Way[k]) \in OnTheWay
<1>1. k + 1 \in 1 .. Steps /\ k + 1 \in 0 .. Steps /\ k + 1 - 1 = k
  BY StepsType
<1>2. Way[k + 1] = Target(Way[k])
  BY <1>1, WaySteps
<1> QED
  BY <1>1, <1>2 DEF OnTheWay, Steps

\* A place that is no link is where the way ends.
LEMMA WayStops ==
    ASSUME NEW j \in 0 .. Steps, ~IsLink(Content(Way[j])), NEW k \in j .. Steps
    PROVE  Way[k] = Way[j]
<1> DEFINE T == {n \in Nat : n + j <= Steps => Way[n + j] = Way[j]}
<1>1. 0 \in T
  BY StepsType
<1>2. ASSUME NEW n \in Nat, n \in T PROVE n + 1 \in T
  <2> SUFFICES ASSUME n + 1 + j <= Steps PROVE Way[n + 1 + j] = Way[j]
    OBVIOUS
  <2>1. Way[n + j] = Way[j]
    BY <1>2, StepsType
  <2>2. Way[n + 1 + j] = Target(Way[n + 1 + j - 1])
    BY WaySteps, StepsType
  <2>3. n + 1 + j - 1 = n + j
    OBVIOUS
  <2> QED
    BY <2>1, <2>2, <2>3 DEF Target
<1>3. k - j \in T
  <2> HIDE DEF T
  <2> QED
    BY <1>1, <1>2, NatInductive, StepsType
<1>4. k - j + j = k /\ k <= Steps
  BY StepsType
<1> QED
  BY <1>3, <1>4

\* Two steps at the same place go on in the same way.
LEMMA WayRepeats ==
    ASSUME NEW i \in 0 .. Steps, NEW j \in i .. Steps, Way[i] = Way[j]
    PROVE  Way[Steps] = Way[i + Steps - j]
<1> DEFINE T == {n \in Nat : n + j <= Steps => Way[n + j] = Way[n + i]}
<1>1. 0 \in T
  BY StepsType
<1>2. ASSUME NEW n \in Nat, n \in T PROVE n + 1 \in T
  <2> SUFFICES ASSUME n + 1 + j <= Steps PROVE Way[n + 1 + j] = Way[n + 1 + i]
    OBVIOUS
  <2>1. Way[n + j] = Way[n + i]
    BY <1>2, StepsType
  <2>2. Way[n + 1 + j] = Target(Way[n + 1 + j - 1]) /\ Way[n + 1 + i] = Target(Way[n + 1 + i - 1])
    BY WaySteps, StepsType
  <2>3. n + 1 + j - 1 = n + j /\ n + 1 + i - 1 = n + i
    OBVIOUS
  <2> QED
    BY <2>1, <2>2, <2>3
<1>3. Steps - j \in T
  <2> HIDE DEF T
  <2> QED
    BY <1>1, <1>2, NatInductive, StepsType
<1>4. Steps - j + j = Steps /\ Steps - j + i = i + Steps - j
  BY StepsType
<1> QED
  BY <1>3, <1>4, StepsType

\* The way is long enough: one step more leads to a place that is on it already,
\* since among one more place than there are two are the same.
LEMMA OnTheWayClosed == ASSUME NEW p \in OnTheWay PROVE Target(p) \in OnTheWay
<1>1. PICK k \in 0 .. Steps : p = Way[k]
  BY DEF OnTheWay, Steps
<1>2. CASE k < Steps
  BY <1>1, <1>2, WayGoesOn
<1>3. CASE k = Steps /\ \E j \in 0 .. Steps : ~IsLink(Content(Way[j]))
  <2>1. PICK j \in 0 .. Steps : ~IsLink(Content(Way[j]))
    BY <1>3
  <2>2. k \in j .. Steps
    BY <1>3, StepsType
  <2>3. p = Way[j]
    BY <1>1, <2>1, <2>2, WayStops
  <2> QED
    BY <2>1, <2>3 DEF Target
<1>4. CASE k = Steps /\ \A j \in 0 .. Steps : IsLink(Content(Way[j]))
  <2>1. [to |-> "nothing"] \notin Paths
    BY DEF Paths, Absolute, Relative
  <2>2. \A j \in 0 .. Steps : Way[j] \in Places
    BY <1>4, <2>1 DEF IsLink, Content
  <2> DEFINE f == [j \in 0 .. Steps |-> Way[j]]
  <2>3. f \in [0 .. Steps -> Places]
    BY <2>2
  <2>4. IsFiniteSet(0 .. Steps) /\ Cardinality(0 .. Steps) = Steps + 1
    BY FS_Interval, StepsType
  <2>5. PICK i, j \in 0 .. Steps : i # j /\ f[i] = f[j]
    <3> HIDE DEF f
    <3>1. Cardinality(Places) < Cardinality(0 .. Steps)
      BY <2>4, StepsType DEF Steps
    <3> QED
      BY <2>3, <2>4, <3>1, FS_PigeonHole, FollowConstants
  <2>6. PICK a \in 0 .. Steps, b \in 0 .. Steps : a < b /\ Way[a] = Way[b]
    <3>1. Way[i] = Way[j]
      BY <2>5
    <3>2. CASE i < j
      BY <3>1, <3>2
    <3>3. CASE j < i
      BY <3>1, <3>3
    <3> QED
      BY <2>5, <3>2, <3>3, StepsType
  <2> DEFINE c == a + Steps - b
  <2>7. c \in 0 .. Steps - 1
    BY <2>6, StepsType
  <2>8. p = Way[c]
    <3>1. b \in a .. Steps
      BY <2>6, StepsType
    <3> QED
      BY <1>1, <1>4, <2>6, <3>1, WayRepeats
  <2> HIDE DEF c
  <2>9. c \in 0 .. Steps /\ c < Steps
    BY <2>7, StepsType
  <2> QED
    BY <2>8, <2>9, WayGoesOn
<1> QED
  BY <1>2, <1>3, <1>4, StepsType

\* The only place on the way that is no link is its end.
LEMMA EndOfTheWay == ASSUME NEW p \in OnTheWay, ~IsLink(Content(p)) PROVE p = LinksEnd
<1>1. PICK j \in 0 .. Steps : p = Way[j]
  BY DEF OnTheWay, Steps
<1>2. Steps \in j .. Steps
  BY StepsType
<1> QED
  BY <1>1, <1>2, WayStops DEF LinksEnd, Steps

\* The way depends on the files and the caller's path alone.
LEMMA WayStays ==
    ASSUME UNCHANGED <<fs, origin>>
    PROVE  /\ OnTheWay' = OnTheWay /\ LinksEnd' = LinksEnd
           /\ Resolvable' <=> Resolvable
           /\ Unambiguous' <=> Unambiguous
<1>1. Way' = Way
  BY DEF Way, Target, Place, IsLink, Content
<1> QED
  BY <1>1 DEF OnTheWay, LinksEnd, Resolvable, Unambiguous, IsLink, At, Content
-----------------------------------------------------------------------------
\* The shape of the state.
FollowTypeOK ==
    /\ fs \in [Places -> Entries]
    /\ origin \in Paths \cup {Overlong}
    /\ following # "idle" => origin # Overlong
    /\ pathname \in Paths \cup {Overlong}
    /\ buf \in Paths \cup {Overlong}
    /\ following \in {"idle", "readlink", "lstat", "found", "error"}

\* Where the two paths are on the way that the caller's path begins: in a recursive
\* call, buf still has the path that was copied, that of a link, and the argument is
\* what the copy reads as.
FollowPosition ==
    /\ following = "readlink" =>
           \/ pathname = origin /\ buf = Overlong
           \/ buf # Overlong /\ IsLink(At(buf)) /\ pathname \in Unterminated(buf)
    /\ following = "lstat" => buf # Overlong
    /\ following \in {"readlink", "lstat"} /\ buf # Overlong /\ Resolvable /\ Unambiguous =>
           /\ Place(buf, Cwd) \in OnTheWay
           /\ \E p \in OnTheWay : Content(p) = buf

\* The invariant of followlink.
FollowIInv == FollowTypeOK /\ FollowPosition /\ FollowFindsTarget

\* The path that names none of the places is none of their paths.
LEMMA OverlongIsNoPath == Overlong \notin Paths
  BY DEF Overlong, Paths, Absolute, Relative

\* What the kernel finds by any other path is what is at the place it names.
LEMMA AtPlace ==
    ASSUME NEW path, path # Overlong
    PROVE  At(path) = Content(Place(path, Cwd))
  BY DEF At

\* The way begins at the place of the caller's path.
LEMMA OriginOnTheWay == Place(origin, Cwd) \in OnTheWay
  BY WaySteps, StepsType DEF OnTheWay, Steps

\* In a call, what the caller's path names and the argument of a recursive call that
\* names a link are on the way, if no longer path is mistaken for a link of it.
LEMMA ArgumentOnTheWay ==
    ASSUME FollowIInv, following = "readlink", IsLink(At(pathname)), pathname # Overlong,
           Resolvable, Unambiguous
    PROVE  Place(pathname, Cwd) \in OnTheWay
<1>1. CASE pathname = origin
  BY <1>1, OriginOnTheWay
<1>2. CASE buf # Overlong /\ IsLink(At(buf)) /\ pathname \in Unterminated(buf)
  <2>1. PICK p \in OnTheWay : Content(p) = buf
    BY <1>2 DEF FollowIInv, FollowPosition
  <2>2. buf \in Paths /\ Place(buf, Cwd) \in OnTheWay
    BY <1>2 DEF FollowIInv, FollowTypeOK, FollowPosition
  <2>3. pathname = buf \/ (pathname \in Paths /\ <<buf, pathname>> \in Extensions)
    BY <1>2 DEF Unterminated
  <2>4. CASE pathname \in Paths /\ <<buf, pathname>> \in Extensions
    BY <2>1, <2>2, <2>4 DEF Unambiguous, IsLink
  <2> QED
    BY <2>2, <2>3, <2>4
<1> QED
  BY <1>1, <1>2 DEF FollowIInv, FollowPosition

\* Nothing is being followed.
LEMMA FollowInitial == FollowInit => FollowIInv
  BY DEF FollowInit, FollowIInv, FollowTypeOK, FollowPosition, FollowFindsTarget, Entries

\* Every recursive call starts further along the way.
LEMMA FollowInductive == FollowIInv /\ [FollowNext]_followVars => FollowIInv'
<1> SUFFICES ASSUME FollowIInv, [FollowNext]_followVars PROVE FollowIInv'
  OBVIOUS
<1>1. ASSUME NEW files \in FileSystems, NEW path \in Paths, followlink(files, path)
      PROVE  FollowIInv'
  <2>1. files \in [Places -> Entries]
    BY FollowConstants
  <2> QED
    BY <1>1, <2>1, OverlongIsNoPath DEF followlink, FollowIInv, FollowTypeOK, FollowPosition,
                                        FollowFindsTarget
<1>2. ASSUME FollowStep PROVE FollowIInv'
  <2>1. UNCHANGED <<fs, origin>>
    BY <1>2 DEF FollowStep, Readlink, ReadlinkFails, LstatLink, LstatFile, LstatFails
  <2>2. /\ OnTheWay' = OnTheWay /\ LinksEnd' = LinksEnd
        /\ Resolvable' <=> Resolvable
        /\ Unambiguous' <=> Unambiguous
    BY <2>1, WayStays
  <2>3. ASSUME NEW p PROVE Content(p)' = Content(p)
    BY <2>1 DEF Content
  <2> USE DEF FollowIInv, FollowTypeOK
  <2>4. CASE Readlink
    <3>1. /\ following = "readlink" /\ IsLink(At(pathname)) /\ buf' = At(pathname)
          /\ following' = "lstat" /\ UNCHANGED <<fs, origin, pathname>>
      BY <2>4 DEF Readlink
    <3>2. pathname # Overlong /\ buf' = Content(Place(pathname, Cwd)) /\ buf' \in Paths
      <4>1. [to |-> "nothing"] \notin Paths
        BY DEF Paths, Absolute, Relative
      <4> QED
        BY <3>1, <4>1 DEF At, IsLink
    <3>3. ASSUME Resolvable, Unambiguous
          PROVE  Place(buf', Cwd) \in OnTheWay /\ \E p \in OnTheWay : Content(p) = buf'
      <4> DEFINE p == Place(pathname, Cwd)
      <4>1. p \in OnTheWay
        BY <3>1, <3>2, <3>3, ArgumentOnTheWay
      <4>2. IsLink(Content(p))
        BY <3>1, <3>2 DEF IsLink
      <4>3. Target(p) = Place(buf', p.dir)
        BY <3>2, <4>2 DEF Target
      <4>4. buf'.to = "relative" => p.dir = Cwd
        BY <3>2, <3>3, <4>1, <4>2 DEF Resolvable
      <4>5. buf'.to \in {"absolute", "relative"}
        BY <3>2 DEF Paths, Absolute, Relative
      <4>6. Place(buf', p.dir) = Place(buf', Cwd)
        BY <4>4, <4>5 DEF Place
      <4> QED
        BY <3>2, <4>1, <4>3, <4>6, OnTheWayClosed
    <3>4. FollowPosition'
      <4>1. ASSUME NEW p PROVE Content(p)' = Content(p)
        BY <2>3
      <4>2. (Place(buf, Cwd))' = Place(buf', Cwd)
        BY DEF Place
      <4> QED
        BY <2>2, <3>1, <3>2, <3>3, <4>1, <4>2, OverlongIsNoPath DEF FollowPosition
    <3> QED
      BY <3>1, <3>2, <3>4 DEF FollowFindsTarget
  <2>5. CASE ReadlinkFails
    <3>1. /\ following = "readlink" /\ ~IsLink(At(pathname)) /\ following' = "error"
          /\ UNCHANGED <<fs, origin, pathname, buf>>
      BY <2>5 DEF ReadlinkFails
    <3>2. LinksEnd = Place(origin, Cwd) \/ (IsLink(At(buf)) /\ pathname # buf)
      <4>1. CASE pathname = origin /\ buf = Overlong
        <5>1. ~IsLink(Content(Place(origin, Cwd)))
          BY <3>1, <4>1, AtPlace
        <5> QED
          BY <5>1, OriginOnTheWay, EndOfTheWay
      <4>2. CASE IsLink(At(buf))
        BY <3>1, <4>2
      <4> QED
        BY <3>1, <4>1, <4>2 DEF FollowPosition
    <3>3. (At(buf))' = At(buf)
      BY <3>1 DEF At, Content, Place
    <3>4. FollowFindsTarget'
      BY <2>2, <3>1, <3>2, <3>3 DEF FollowFindsTarget, Place, IsLink
    <3> QED
      BY <3>1, <3>4 DEF FollowPosition
  <2>6. CASE LstatLink
    <3>1. /\ following = "lstat" /\ IsLink(At(buf))
          /\ pathname' \in Unterminated(buf) /\ following' = "readlink"
          /\ UNCHANGED <<fs, origin, buf>>
      BY <2>6 DEF LstatLink
    <3>2. (At(buf))' = At(buf) /\ (Place(buf, Cwd))' = Place(buf, Cwd)
          /\ (Unterminated(buf))' = Unterminated(buf)
      BY <3>1 DEF At, Content, Place, Unterminated
    <3>3. ASSUME NEW p PROVE Content(p)' = Content(p)
      BY <2>3
    <3>4. FollowPosition'
      BY <2>2, <3>1, <3>2, <3>3 DEF FollowPosition, IsLink
    <3>5. pathname' \in Paths \cup {Overlong}
      BY <3>1 DEF Unterminated, FollowPosition
    <3> QED
      BY <3>1, <3>4, <3>5 DEF FollowFindsTarget
  <2>7. ASSUME following = "lstat", At(buf).to \in {"file", "nothing"}, Resolvable, Unambiguous
        PROVE  Place(buf, Cwd) = LinksEnd /\ Content(LinksEnd).to = At(buf).to
    <3> DEFINE p == Place(buf, Cwd)
    <3>1. p \in OnTheWay /\ At(buf) = Content(p)
      BY <2>7, AtPlace DEF FollowPosition
    <3>2. ~IsLink(Content(p))
      BY <2>7, <3>1 DEF IsLink, Paths, Absolute, Relative
    <3> QED
      BY <3>1, <3>2, EndOfTheWay
  <2>8. CASE LstatFile
    <3>1. /\ following = "lstat" /\ At(buf).to = "file" /\ following' = "found"
          /\ UNCHANGED <<fs, origin, pathname, buf>>
      BY <2>8 DEF LstatFile
    <3>2. (Content(LinksEnd) = Content(LinksEnd)')
      BY <2>2, <3>1 DEF Content
    <3>3. FollowFindsTarget'
      BY <2>2, <2>7, <3>1, <3>2 DEF FollowFindsTarget, Place
    <3> QED
      BY <3>1, <3>3 DEF FollowPosition
  <2>9. CASE LstatFails
    <3>1. /\ following = "lstat" /\ At(buf).to = "nothing" /\ following' = "error"
          /\ UNCHANGED <<fs, origin, pathname, buf>>
      BY <2>9 DEF LstatFails
    <3>2. (Content(LinksEnd) = Content(LinksEnd)')
      BY <2>2, <3>1 DEF Content
    <3>3. FollowFindsTarget'
      BY <2>2, <2>7, <3>1, <3>2 DEF FollowFindsTarget
    <3> QED
      BY <3>1, <3>3 DEF FollowPosition
  <2> QED
    BY <1>2, <2>4, <2>5, <2>6, <2>8, <2>9 DEF FollowStep
<1>3. CASE FollowReturned
  BY <1>3 DEF FollowReturned, FollowIInv, FollowTypeOK, FollowPosition, FollowFindsTarget, Entries
<1>4. CASE UNCHANGED followVars
  <2>1. /\ OnTheWay' = OnTheWay /\ LinksEnd' = LinksEnd
        /\ Resolvable' <=> Resolvable
        /\ Unambiguous' <=> Unambiguous
    BY <1>4, WayStays DEF followVars
  <2>2. FollowTypeOK'
    BY <1>4 DEF followVars, FollowIInv, FollowTypeOK
  <2>3. FollowPosition'
    BY <1>4, <2>1 DEF followVars, FollowIInv, FollowPosition, At, IsLink, Content, Place, Unterminated
  <2>4. FollowFindsTarget'
    BY <1>4, <2>1 DEF followVars, FollowIInv, FollowFindsTarget, At, IsLink, Content, Place
  <2> QED
    BY <2>2, <2>3, <2>4 DEF FollowIInv
<1> QED
  BY <1>1, <1>2, <1>3, <1>4 DEF FollowNext

\* followlink returns the path of the file the links end at, and -1 only if there is
\* none, nothing to follow, or a link's path that did not end where it should: for any
\* file system of finitely many places, with chains and cycles of any length, any
\* paths that begin others and any residue on the stack, as long as no link on the way
\* has a path that begins another link's (mutil.c's strncpy without a terminator).
THEOREM FollowFinds == FollowSpec => []FollowFindsTarget
<1>1. FollowIInv => FollowFindsTarget
  BY DEF FollowIInv
<1> QED
  BY <1>1, FollowInitial, FollowInductive, PTL DEF FollowSpec

-----------------------------------------------------------------------------
(***************************************************************************)
(* The Fibonacci numbers.                                                  *)
(***************************************************************************)
\* The recursive definition has a solution.
LEMMA FibonacciEquation ==
    /\ fibonacci = [n \in 0 .. MaxCount |->
           IF n < 1 THEN 0
           ELSE IF n = 1 THEN 1
           ELSE (fibonacci[n - 1] + fibonacci[n - 2]) % UInt64]
<1> DEFINE Body(g, n) == IF n < 1 THEN 0 ELSE IF n = 1 THEN 1 ELSE (g[n - 1] + g[n - 2]) % UInt64
           Solves(g, N) == g = [n \in 0 .. N |-> Body(g, n)]
           T == {N \in Nat : \E g : Solves(g, N)}
<1>1. 0 \in T
  <2> DEFINE g == [n \in 0 .. 0 |-> 0]
  <2>1. Solves(g, 0)
    OBVIOUS
  <2> QED
    BY <2>1
<1>2. ASSUME NEW N \in Nat, N \in T PROVE N + 1 \in T
  <2>1. PICK g : Solves(g, N)
    BY <1>2
  <2> DEFINE h == [n \in 0 .. N + 1 |-> IF n = N + 1 THEN Body(g, n) ELSE g[n]]
  <2>2. Solves(h, N + 1)
    <3>1. \A n \in 0 .. N + 1 : h[n] = Body(h, n)
      <4> SUFFICES ASSUME NEW n \in 0 .. N + 1 PROVE h[n] = Body(h, n)
        OBVIOUS
      <4>1. \A m \in 0 .. N : h[m] = g[m]
        OBVIOUS
      <4>2. Body(h, n) = Body(g, n)
        <5> HIDE DEF h
        <5>1. n > 1 => h[n - 1] = g[n - 1] /\ h[n - 2] = g[n - 2]
          BY <4>1
        <5> QED
          BY <5>1
      <4>3. CASE n = N + 1
        BY <4>2, <4>3
      <4>4. CASE n # N + 1
        <5>1. n \in 0 .. N
          BY <4>4
        <5>2. g[n] = Body(g, n)
          BY <2>1, <5>1
        <5>3. h[n] = g[n]
          BY <4>1, <5>1
        <5> HIDE DEF h, Body
        <5> QED
          BY <4>2, <5>2, <5>3
      <4> QED
        BY <4>3, <4>4
    <3> QED
      BY <3>1
  <2>3. N + 1 \in Nat
    OBVIOUS
  <2> HIDE DEF h, Solves
  <2> QED
    BY <2>2, <2>3
<1>3. PICK g : Solves(g, MaxCount)
  <2>1. Nat \subseteq T
    <3> HIDE DEF T
    <3> QED
    BY <1>1, <1>2, NatInductive
  <2> QED
    BY <2>1, FibonacciConstants
<1>4. fibonacci = CHOOSE f : Solves(f, MaxCount)
  BY DEF fibonacci
<1>5. Solves(fibonacci, MaxCount)
  BY <1>3, <1>4
<1> QED
  BY <1>5

\* The equation, in the form the generator computes it.
LEMMA FibonacciValues ==
    /\ MaxCount >= 0 => fibonacci[0] = 0
    /\ MaxCount >= 1 => fibonacci[1] = 1
    /\ \A n \in 2 .. MaxCount : fibonacci[n] = (fibonacci[n - 1] + fibonacci[n - 2]) % UInt64
<1>1. \A n \in 0 .. MaxCount :
          fibonacci[n] = IF n < 1 THEN 0
                         ELSE IF n = 1 THEN 1
                         ELSE (fibonacci[n - 1] + fibonacci[n - 2]) % UInt64
  BY FibonacciEquation
<1>2. MaxCount \in Nat
  BY FibonacciConstants
<1>3. ASSUME NEW n \in 2 .. MaxCount
      PROVE  fibonacci[n] = (fibonacci[n - 1] + fibonacci[n - 2]) % UInt64
  <2>1. n \in 0 .. MaxCount /\ ~(n < 1) /\ n # 1
    BY <1>2
  <2> QED
    BY <1>1, <2>1
<1> QED
  BY <1>1, <1>2, <1>3

\* The static variables hold the last two numbers, once there are two.
FibIInv ==
    /\ count \in 0 .. MaxCount
    /\ first \in Nat /\ second \in Nat
    /\ count < 2 => first = 0 /\ second = 1
    /\ count >= 2 => first = fibonacci[count - 2] /\ second = fibonacci[count - 1]
    /\ FibIsSequence

\* sfibonacci's static variables make each call return the next number of the
\* sequence that fibonacci defines, from any reset on, with the wrap-around of
\* uint64_t.
THEOREM FibonacciSequence == FibonacciSpec => []FibIsSequence
<1> USE FibonacciConstants
<1>1. FibonacciInit => FibIInv
  BY DEF FibonacciInit, FibIInv, FibIsSequence
<1>2. FibIInv /\ [FibonacciNext]_fibonacciVars => FibIInv'
  <2> SUFFICES ASSUME FibIInv, [FibonacciNext]_fibonacciVars PROVE FibIInv'
    OBVIOUS
  <2>1. CASE UNCHANGED fibonacciVars
    BY <2>1 DEF fibonacciVars, FibIInv, FibIsSequence
  <2>2. ASSUME NEW reset \in BOOLEAN, sfibonacci(reset) PROVE FibIInv'
    <3> DEFINE s == Statics(reset)
               sum == (s.first + s.second) % UInt64
    <3>1. /\ s.count \in 0 .. MaxCount
          /\ s.first \in Nat /\ s.second \in Nat
          /\ s.count < 2 => s.first = 0 /\ s.second = 1
          /\ s.count >= 2 => s.first = fibonacci[s.count - 2] /\ s.second = fibonacci[s.count - 1]
      BY DEF FibIInv, Statics
    <3> HIDE DEF s
    <3>2. /\ s.count < MaxCount
          /\ count' = s.count + 1
          /\ s.count < 2 => out' = s.count /\ first' = s.first /\ second' = s.second
          /\ s.count >= 2 => out' = sum /\ first' = s.second /\ second' = sum
      BY <2>2, <3>1 DEF sfibonacci, s
    <3>3. sum \in Nat
      BY <3>1
    <3>4. s.count >= 2 => sum = fibonacci[s.count]
      <4> SUFFICES ASSUME s.count >= 2 PROVE sum = fibonacci[s.count]
        OBVIOUS
      <4>1. s.count \in 2 .. MaxCount
        BY <3>1
      <4>2. fibonacci[s.count] = (fibonacci[s.count - 1] + fibonacci[s.count - 2]) % UInt64
        BY <4>1, FibonacciValues
      <4>3. s.first + s.second = s.second + s.first
        BY <3>1
      <4> QED
        BY <3>1, <4>2, <4>3
    <3> HIDE DEF sum
    <3>5. CASE s.count >= 2
      <4>1. out' = fibonacci[count' - 1] /\ second' = fibonacci[count' - 1]
        BY <3>1, <3>2, <3>4, <3>5
      <4>2. first' = fibonacci[count' - 2]
        BY <3>1, <3>2, <3>5
      <4> QED
        BY <3>1, <3>2, <3>3, <3>5, <4>1, <4>2 DEF FibIInv, FibIsSequence
    <3>6. CASE s.count = 1
      BY <3>1, <3>2, <3>6, FibonacciValues DEF FibIInv, FibIsSequence
    <3>7. CASE s.count = 0
      BY <3>1, <3>2, <3>7, FibonacciValues DEF FibIInv, FibIsSequence
    <3> QED
      BY <3>1, <3>5, <3>6, <3>7
  <2> QED
    BY <2>1, <2>2 DEF FibonacciNext
<1>3. FibIInv => FibIsSequence
  BY DEF FibIInv
<1> QED
  BY <1>1, <1>2, <1>3, PTL DEF FibonacciSpec

-----------------------------------------------------------------------------
(***************************************************************************)
(* The ciphers and the digest.                                             *)
(***************************************************************************)
\* The shape of the state.
CryptoTypeOK ==
    /\ fn \in Ciphers \cup {"none", "digest_sha1"}
    /\ block \in Nat \ {0} /\ text_size \in Nat /\ done \in Nat /\ written \in Nat
    /\ live \subseteq {"ctx", "out"}
    /\ result \in {"NULL", "out"}
    /\ step \in {"idle", "new", "init", "update", "malloc", "final", "returned"}
    /\ (step = "idle") <=> (fn = "none")

\* What is allocated at each point, and how much output there is.
CryptoSteps ==
    /\ fn = "none" => live = {} /\ done = 0 /\ written = 0
    /\ step # "returned" => result = "NULL"
    /\ fn = "digest_sha1" /\ step # "returned" =>
           /\ written = 0
           /\ step = "new" => live = {}
           /\ step \in {"init", "update", "malloc"} => live = {"ctx"}
           /\ step = "final" => live = {"ctx", "out"}
           /\ step \in {"new", "init", "update", "malloc", "final"}
    /\ fn \in Ciphers /\ step # "returned" =>
           step = "update" /\ live = {"ctx", "out"} /\ done <= text_size /\ written <= done

\* The invariant of the ciphers and the digest.
CryptoIInv == CryptoTypeOK /\ CryptoSteps /\ CryptOwns /\ CryptFits

\* A cipher has put out no more than it was given.
LEMMA ProducedBound ==
    ASSUME CryptoTypeOK, NEW n \in Nat
    PROVE  Produced(n) \in Nat /\ Produced(n) <= n
<1>1. \A m \in Nat : m % block \in Nat /\ m % block <= m
  BY DEF CryptoTypeOK
<1> QED
  BY <1>1 DEF Produced

\* Nothing is allocated.
LEMMA CryptoInitial == CryptoInit => CryptoIInv
  BY DEF CryptoInit, CryptoIInv, CryptoTypeOK, CryptoSteps, CryptOwns, CryptFits, Ciphers

\* Every step, those that fail included, keeps it.
LEMMA CryptoInductive == CryptoIInv /\ [CryptoNext]_cryptoVars => CryptoIInv'
<1> SUFFICES ASSUME CryptoIInv, [CryptoNext]_cryptoVars PROVE CryptoIInv'
  OBVIOUS
<1> USE DEF CryptoIInv, CryptoTypeOK, CryptoSteps, CryptOwns, CryptFits, Ciphers
<1>1. ASSUME NEW f \in Ciphers, NEW b \in BlockSizes, NEW n \in 0 .. MaxPlain, CryptBegin(f, b, n)
      PROVE  CryptoIInv'
  BY <1>1, CryptoConstants DEF CryptBegin
<1>2. CASE CryptUpdate
  <2>1. Produced(done + 1) \in Nat /\ Produced(done + 1) <= done + 1
    BY ProducedBound
  <2> QED
    BY <1>2, <2>1 DEF CryptUpdate
<1>3. CASE CryptFails
  BY <1>3 DEF CryptFails
<1>4. CASE CryptFinal
  <2>1. PICK outlen \in FinalLengths : written' = written + outlen
    BY <1>4 DEF CryptFinal
  <2>2. outlen \in Nat /\ outlen <= (IF block = 1 THEN 0 ELSE block)
    BY <2>1 DEF FinalLengths
  <2>3. CryptFits'
    BY <1>4, <2>1, <2>2 DEF CryptFinal, CryptAllocated
  <2>4. CryptoTypeOK' /\ CryptoSteps'
    BY <1>4, <2>1, <2>2 DEF CryptFinal
  <2> QED
    BY <1>4, <2>3, <2>4 DEF CryptFinal
<1>5. CASE DigestBegin
  BY <1>5 DEF DigestBegin
<1>6. CASE DigestStep
  BY <1>6 DEF DigestStep, DigestNext
<1>7. CASE DigestFails
  BY <1>7 DEF DigestFails, DigestNext
<1>8. CASE DigestFinal
  BY <1>8 DEF DigestFinal
<1>9. CASE DigestFinalFails
  BY <1>9 DEF DigestFinalFails
<1>10. CASE CryptoReturned
  BY <1>10 DEF CryptoReturned
<1>11. CASE UNCHANGED cryptoVars
  BY <1>11 DEF cryptoVars, CryptAllocated
<1> QED
  BY <1>1, <1>2, <1>3, <1>4, <1>5, <1>6, <1>7, <1>8, <1>9, <1>10, <1>11 DEF CryptoNext

\* Whatever fails in encrypt_ssl, decrypt_ssl and digest_sha1, the context is freed,
\* and the output is freed or handed to the caller, as far as CryptOwns says.
THEOREM CryptOwnership == CryptoSpec => []CryptOwns
<1>1. CryptoIInv => CryptOwns
  BY DEF CryptoIInv
<1> QED
  BY <1>1, CryptoInitial, CryptoInductive, PTL DEF CryptoSpec

\* The output of encrypt_ssl and decrypt_ssl fits the memory allocated for it, for
\* ciphers of any block size and inputs of any length.
THEOREM CryptOutputFits == CryptoSpec => []CryptFits
<1>1. CryptoIInv => CryptFits
  BY DEF CryptoIInv
<1> QED
  BY <1>1, CryptoInitial, CryptoInductive, PTL DEF CryptoSpec
=============================================================================
