---------------------------- MODULE MPopenProofs ----------------------------
(***************************************************************************)
(* For any number of calls and of descriptors: no call of popenRWE leaks a *)
(* descriptor, a running exe has its own three pipes, and inherited ends   *)
(* do not make children wait for each other.                               *)
(*                                                                         *)
(* The invariant says which ends of a call's pipes are open in the parent  *)
(* at each point of the call (OpenEnds), and that the table holds these,   *)
(* each at the descriptor noted in the call's arrays, and no other: a call *)
(* never closes a descriptor that has become another's in the meantime.    *)
(***************************************************************************)
EXTENDS MPopen, WellFoundedInduction, TLAPS

Dirs == {"r", "w"}
Things == Ends \cup {Tty, NULL}

EndsOf(k, P) == {e \in Ends : e.call = k /\ e.pipe \in P}
FdOf(e) == fds[e.call][e.pipe][e.dir]

Elements(s) == {s[n] : n \in 1 .. Len(s)}
Distinct(s) == \A m, n \in 1 .. Len(s) : s[m] = s[n] => m = n

\* s lists the members of S, each of them once.
Lists(s, S) == s \in Seq(S) /\ Elements(s) = S /\ Distinct(s)

Closing(k) == Elements(closing[k])

\* The ends that the parent has open in a call.
OpenEnds(k) ==
    IF pc[k] = "out" THEN EndsOf(k, {"in"})
    ELSE IF pc[k] = "err" THEN EndsOf(k, {"in", "out"})
    ELSE IF pc[k] \in {"log", "fork"} THEN EndsOf(k, Pipes)
    ELSE IF pc[k] = "cleanup" THEN Closing(k)
    ELSE IF pc[k] \in {"parent", "returned"} THEN Closing(k) \cup RwePipe(k)
    ELSE {}

-----------------------------------------------------------------------------
(***************************************************************************)
(* The invariant.                                                          *)
(***************************************************************************)
PopenTypeOK ==
    /\ table \in [Fds -> Things]
    /\ ctable \in [Calls -> [Fds -> Things]]
    /\ pc \in [Calls -> {"unused", "in", "out", "err", "log", "fork", "parent", "cleanup",
                         "returned", "failed"}]
    /\ cpc \in [Calls -> {"unused", "forked", "redirected", "exe", "exited"}]
    /\ fds \in [Calls -> [Pipes -> [Dirs -> Int]]]
    /\ closing \in [Calls -> Seq(Ends)]
    /\ client \in [Calls -> {"open", "reading", "done"}]
    /\ concurrent \in BOOLEAN

\* What a call is about to close is its own, and is not what it gives to the client.
CallOK(k) ==
    /\ Lists(closing[k], Closing(k))
    /\ Closing(k) \subseteq EndsOf(k, Pipes)
    /\ pc[k] \notin {"parent", "cleanup"} => closing[k] = <<>>
    /\ pc[k] = "parent" => Closing(k) \cap RwePipe(k) = {}
    /\ client[k] # "open" => pc[k] = "returned"

CallInv == \A k \in Calls : CallOK(k)

TableInv ==
    /\ \A k \in Calls : \A e \in OpenEnds(k) : FdOf(e) \in Fds /\ table[FdOf(e)] = e
    /\ \A f \in Fds, e \in Ends : table[f] = e => f = FdOf(e) /\ e \in OpenEnds(e.call)
    /\ \A f \in InitialFds : table[f] = Tty

\* The calls begin in the order of their numbers and, if there are no other threads,
\* one begins when those before it have returned.
OrderInv ==
    /\ \A j, k \in Calls : j < k /\ pc[k] # "unused" => pc[j] # "unused"
    /\ ~concurrent => \A j, k \in Calls : Running(k) /\ j > k => pc[j] = "unused"

\* A new child has the parent's table as it was at the fork.
ForkedInv ==
    \A k \in Calls : cpc[k] = "forked" =>
        /\ \A e \in EndsOf(k, Pipes) : FdOf(e) \in Fds /\ ctable[k][FdOf(e)] = e
        /\ \A f \in Fds, e \in EndsOf(k, Pipes) : ctable[k][f] = e => f = FdOf(e)
        /\ \A f \in InitialFds : ctable[k][f] = Tty

StandardFds == {0, 1, 2}

ExeInv ==
    \A k \in Calls : cpc[k] \in {"redirected", "exe"} =>
        /\ \A f \in Fds : ctable[k][f] # End(k, "in", "w")
        /\ StandardFds \subseteq InitialFds =>
               /\ ctable[k][0] = End(k, "in", "r")
               /\ ctable[k][1] = End(k, "out", "w")
               /\ ctable[k][2] = End(k, "err", "w")

\* A child has ends of its own call and of those before it.
HeirInv ==
    /\ \A k \in Calls : cpc[k] # "unused" => pc[k] \in {"parent", "returned"}
    /\ \A c \in Calls : cpc[c] \in {"unused", "exited"} => ctable[c] = NoFds
    /\ ~concurrent => \A c \in Calls, f \in Fds, e \in Ends : ctable[c][f] = e => e.call <= c

ChildInv == ForkedInv /\ ExeInv /\ HeirInv

PopenIInv == PopenTypeOK /\ CallInv /\ TableInv /\ OrderInv /\ ChildInv

-----------------------------------------------------------------------------
(***************************************************************************)
(* Lists of ends, the ends, and the lowest free descriptor.                *)
(***************************************************************************)
LEMMA EmptyList == Lists(<<>>, {}) /\ Elements(<<>>) = {}
  BY DEF Lists, Elements, Distinct

LEMMA PairList ==
    ASSUME NEW a, NEW b, a # b
    PROVE  Lists(<<a, b>>, {a, b})
<1> DEFINE s == <<a, b>>
<1>1. s \in Seq({a, b}) /\ Len(s) = 2 /\ s[1] = a /\ s[2] = b
  OBVIOUS
<1> HIDE DEF s
<1>2. 1 .. 2 = {1, 2}
  OBVIOUS
<1> QED
  BY <1>1, <1>2 DEF Lists, Elements, Distinct, s

LEMMA JoinedList ==
    ASSUME NEW S, NEW T, S \cap T = {}, NEW s, NEW t, Lists(s, S), Lists(t, T)
    PROVE  Lists(s \o t, S \cup T)
<1> DEFINE u == s \o t
<1>1. s \in Seq(S \cup T) /\ t \in Seq(S \cup T)
  BY DEF Lists
<1>2. u \in Seq(S \cup T) /\ Len(u) = Len(s) + Len(t) /\ Len(s) \in Nat /\ Len(t) \in Nat
  BY <1>1
<1>3. \A n \in 1 .. Len(s) : u[n] = s[n]
  BY <1>1
<1>4. \A n \in 1 .. Len(t) : u[Len(s) + n] = t[n]
  BY <1>1
<1>5. ASSUME NEW n \in 1 .. Len(u), n \notin 1 .. Len(s)
      PROVE  n - Len(s) \in 1 .. Len(t) /\ u[n] = t[n - Len(s)]
  BY <1>2, <1>4, <1>5
<1> HIDE DEF u
<1>6. (\A n \in 1 .. Len(s) : s[n] \in S) /\ (\A n \in 1 .. Len(t) : t[n] \in T)
  BY DEF Lists, Elements
<1>7. Elements(u) = S \cup T
  <2>1. ASSUME NEW e \in S PROVE e \in Elements(u)
    <3>1. PICK n \in 1 .. Len(s) : s[n] = e
      BY DEF Lists, Elements
    <3> QED
      BY <3>1, <1>2, <1>3 DEF Elements
  <2>2. ASSUME NEW e \in T PROVE e \in Elements(u)
    <3>1. PICK n \in 1 .. Len(t) : t[n] = e
      BY DEF Lists, Elements
    <3>2. Len(s) + n \in 1 .. Len(u)
      BY <1>2
    <3> QED
      BY <3>1, <3>2, <1>4 DEF Elements
  <2>3. \A n \in 1 .. Len(u) : u[n] \in S \cup T
    BY <1>2
  <2> QED
    BY <2>1, <2>2, <2>3 DEF Elements
<1>8. ASSUME NEW m \in 1 .. Len(u), NEW n \in 1 .. Len(u), u[m] = u[n] PROVE m = n
  <2>1. CASE m \in 1 .. Len(s) /\ n \in 1 .. Len(s)
    BY <2>1, <1>3, <1>8 DEF Lists, Distinct
  <2>2. CASE m \notin 1 .. Len(s) /\ n \notin 1 .. Len(s)
    <3>1. m - Len(s) \in 1 .. Len(t) /\ n - Len(s) \in 1 .. Len(t)
          /\ t[m - Len(s)] = t[n - Len(s)]
      BY <2>2, <1>5, <1>8
    <3>2. m - Len(s) = n - Len(s)
      BY <3>1 DEF Lists, Distinct
    <3> QED
      BY <3>2, <1>2
  <2>3. CASE m \in 1 .. Len(s) /\ n \notin 1 .. Len(s)
    BY <2>3, <1>3, <1>5, <1>6, <1>8
  <2>4. CASE m \notin 1 .. Len(s) /\ n \in 1 .. Len(s)
    BY <2>4, <1>3, <1>5, <1>6, <1>8
  <2> QED
    BY <2>1, <2>2, <2>3, <2>4
<1> QED
  BY <1>2, <1>7, <1>8 DEF Lists, Distinct, u

LEMMA TailList ==
    ASSUME NEW S, NEW s, Lists(s, S), s # <<>>
    PROVE  Head(s) \in S /\ Lists(Tail(s), S \ {Head(s)})
<1> DEFINE u == Tail(s)
<1>1. s \in Seq(S) /\ Len(s) \in Nat /\ Len(s) > 0 /\ s[1] = Head(s)
  BY DEF Lists
<1>2. u \in Seq(S) /\ Len(u) = Len(s) - 1 /\ \A n \in 1 .. Len(u) : u[n] = s[n + 1]
  BY <1>1
<1> HIDE DEF u
<1>3. ASSUME NEW n \in 1 .. Len(u) PROVE u[n] \in S \ {Head(s)}
  <2>1. n + 1 \in 1 .. Len(s) /\ 1 \in 1 .. Len(s) /\ n + 1 # 1
    BY <1>1, <1>2
  <2>2. s[n + 1] \in S /\ s[n + 1] # s[1]
    BY <1>1, <2>1 DEF Lists, Distinct
  <2> QED
    BY <1>1, <1>2, <2>2
<1>4. u \in Seq(S \ {Head(s)})
  BY <1>2, <1>3
<1>5. ASSUME NEW e \in S, e # Head(s) PROVE e \in Elements(u)
  <2>1. PICK n \in 1 .. Len(s) : s[n] = e
    BY DEF Lists, Elements
  <2>2. n - 1 \in 1 .. Len(u) /\ u[n - 1] = e
    BY <1>1, <1>2, <2>1, <1>5
  <2> QED
    BY <2>2 DEF Elements
<1>6. ASSUME NEW m \in 1 .. Len(u), NEW n \in 1 .. Len(u), u[m] = u[n] PROVE m = n
  <2>1. m + 1 \in 1 .. Len(s) /\ n + 1 \in 1 .. Len(s) /\ s[m + 1] = s[n + 1]
    BY <1>1, <1>2, <1>6
  <2>2. m + 1 = n + 1
    BY <2>1 DEF Lists, Distinct
  <2> QED
    BY <2>2
<1> QED
  BY <1>1, <1>3, <1>4, <1>5, <1>6 DEF Lists, Distinct, Elements, u

LEMMA EndFields ==
    ASSUME NEW k, NEW p, NEW d
    PROVE  /\ End(k, p, d).call = k /\ End(k, p, d).pipe = p /\ End(k, p, d).dir = d
           /\ k \in Calls /\ p \in Pipes /\ d \in Dirs => End(k, p, d) \in Ends
  BY DEF End, Ends, Dirs

LEMMA EndIsItsFields ==
    ASSUME NEW e \in Ends
    PROVE  /\ e = End(e.call, e.pipe, e.dir)
           /\ e.call \in Calls /\ e.pipe \in Pipes /\ e.dir \in Dirs
  BY DEF End, Ends, Dirs

LEMMA NotEnds == Tty \notin Ends /\ NULL \notin Ends /\ NULL # Tty
<1>1. Tty.call = 0 /\ 0 \notin Calls
  BY PopenConstants DEF Tty, End, Calls
<1> QED
  BY <1>1, PopenNull DEF Ends

LEMMA MinExists ==
    ASSUME NEW S, S \subseteq Nat, S # {}
    PROVE  \E f \in S : \A g \in S : f <= g
<1> DEFINE R == OpToRel(<, Nat)
<1>1. \A x, y \in Nat : <<y, x>> \in R <=> y < x
  BY DEF OpToRel
<1>2. IsWellFoundedOn(R, Nat)
  BY NatLessThanWellFounded
<1> HIDE DEF R
<1>3. PICK x \in S : \A y \in S : ~(<<y, x>> \in R)
  BY <1>2, WFMin
<1>4. \A y \in S : x \in Nat /\ y \in Nat /\ ~(y < x)
  BY <1>1, <1>3
<1>5. \A y \in S : x <= y
  BY <1>4
<1> QED
  BY <1>3, <1>5

LEMMA LowestIsMember ==
    ASSUME NEW S, S \subseteq Fds, S # {}
    PROVE  Lowest(S) \in S
<1>1. S \subseteq Nat
  BY PopenConstants DEF Fds
<1> QED
  BY <1>1, MinExists DEF Lowest

\* The two descriptors of a new pipe are free, and not the same.
LEMMA PipeFdsAreFree ==
    ASSUME NEW t \in [Fds -> Things], NEW n \in Free(t), Free(t) # {n}
    PROVE  /\ PipeFds(t) = [r |-> PipeFds(t).r, w |-> PipeFds(t).w]
           /\ PipeFds(t).r \in Free(t) /\ PipeFds(t).w \in Free(t)
           /\ PipeFds(t).r # PipeFds(t).w
<1> DEFINE r == Lowest(Free(t))
           w == Lowest(Free(t) \ {r})
<1>1. Free(t) \subseteq Fds
  BY DEF Free
<1>2. r \in Free(t)
  BY <1>1, LowestIsMember
<1>3. Free(t) \ {r} # {}
  BY <1>2
<1>4. w \in Free(t) \ {r}
  BY <1>1, <1>3, LowestIsMember
<1>5. PipeFds(t) = [r |-> r, w |-> w]
  BY DEF PipeFds
<1> HIDE DEF r, w
<1> QED
  BY <1>2, <1>4, <1>5
-----------------------------------------------------------------------------
(***************************************************************************)
(* What steps do to the parent's table.                                    *)
(***************************************************************************)
\* The table after the descriptors of some ends have been closed.
Without(D) == [f \in Fds |-> IF \E e \in D : f = FdOf(e) THEN NULL ELSE table[f]]

\* A step that closes the ends D, which were open, and counts them as closed.
LEMMA ClosedFromTable ==
    ASSUME PopenTypeOK, TableInv, NEW D, fds' = fds, table' = Without(D),
           \A e \in D : e \in Ends /\ e \in OpenEnds(e.call),
           \A k \in Calls : OpenEnds(k)' = OpenEnds(k) \ D
    PROVE  TableInv' /\ table' \in [Fds -> Things]
<1>1. \A e : FdOf(e)' = FdOf(e)
  BY DEF FdOf
<1>2. table' \in [Fds -> Things]
  BY DEF PopenTypeOK, Without, Things
<1>3. \A e \in D : FdOf(e) \in Fds /\ table[FdOf(e)] = e
  BY EndIsItsFields DEF TableInv
<1>4. ASSUME NEW k \in Calls, NEW e \in OpenEnds(k)' PROVE FdOf(e) \in Fds /\ table'[FdOf(e)] = e
  <2>1. e \in OpenEnds(k) /\ e \notin D
    BY <1>4
  <2>2. FdOf(e) \in Fds /\ table[FdOf(e)] = e
    BY <2>1 DEF TableInv
  <2>3. \A d \in D : FdOf(e) # FdOf(d)
    BY <1>3, <2>1, <2>2
  <2> QED
    BY <2>2, <2>3 DEF Without
<1>5. ASSUME NEW f \in Fds, NEW e \in Ends, table'[f] = e
      PROVE  f = FdOf(e) /\ e \in OpenEnds(e.call)'
  <2>1. table[f] = e /\ \A d \in D : f # FdOf(d)
    BY <1>5, NotEnds DEF Without
  <2>2. f = FdOf(e) /\ e \in OpenEnds(e.call) /\ e.call \in Calls
    BY <2>1, EndIsItsFields DEF TableInv
  <2>3. e \notin D
    BY <2>1, <2>2
  <2> QED
    BY <2>2, <2>3
<1>6. ASSUME NEW f \in InitialFds PROVE table'[f] = Tty
  <2>1. f \in Fds /\ table[f] = Tty
    BY PopenConstants DEF TableInv
  <2>2. \A e \in D : f # FdOf(e)
    BY <1>3, <2>1, NotEnds
  <2> QED
    BY <2>1, <2>2 DEF Without
<1>7. \A k \in Calls : \A e \in OpenEnds(k)' : FdOf(e)' \in Fds /\ table'[FdOf(e)'] = e
  BY <1>1, <1>4
<1> QED
  BY <1>1, <1>2, <1>5, <1>6, <1>7 DEF TableInv

\* close() of an end that is open.
LEMMA CloseIsWithout ==
    ASSUME PopenTypeOK, NEW e
    PROVE  close(table, FdOf(e)) = Without({e})
  BY DEF close, Without, PopenTypeOK

\* What is open in a call depends on its own variables.
LEMMA OpenEndsOfOthers ==
    ASSUME NEW j, pc'[j] = pc[j], closing'[j] = closing[j], client'[j] = client[j]
    PROVE  OpenEnds(j)' = OpenEnds(j) /\ Closing(j)' = Closing(j) /\ RwePipe(j)' = RwePipe(j)
<1>1. Closing(j)' = Closing(j)
  BY DEF Closing
<1>2. RwePipe(j)' = RwePipe(j)
  BY DEF RwePipe
<1> QED
  BY <1>1, <1>2 DEF OpenEnds

LEMMA OtherCallsOK ==
    ASSUME NEW j, CallOK(j), pc'[j] = pc[j], closing'[j] = closing[j], client'[j] = client[j]
    PROVE  CallOK(j)'
  BY OpenEndsOfOthers DEF CallOK
LEMMA OpenEndsOwn ==
    ASSUME CallInv, NEW k \in Calls
    PROVE  OpenEnds(k) \subseteq EndsOf(k, Pipes)
<1>1. RwePipe(k) \subseteq EndsOf(k, Pipes)
  BY EndFields DEF RwePipe, EndsOf, Pipes, Dirs
<1>2. Closing(k) \subseteq EndsOf(k, Pipes)
  BY DEF CallInv, CallOK
<1> QED
  BY <1>1, <1>2 DEF OpenEnds, EndsOf, Pipes

\* A step of one call that opens nothing and closes the ends D.
LEMMA LocalStep ==
    ASSUME PopenTypeOK, CallInv, TableInv, NEW k \in Calls,
           NEW D, D \subseteq OpenEnds(k), fds' = fds, table' = Without(D),
           \A j \in Calls \ {k} :
               pc'[j] = pc[j] /\ closing'[j] = closing[j] /\ client'[j] = client[j],
           OpenEnds(k)' = OpenEnds(k) \ D, CallOK(k)'
    PROVE  CallInv' /\ TableInv' /\ table' \in [Fds -> Things]
<1>1. \A e \in D : e \in Ends /\ e.call = k /\ e \in OpenEnds(e.call)
  BY OpenEndsOwn DEF EndsOf
<1>2. ASSUME NEW j \in Calls PROVE OpenEnds(j)' = OpenEnds(j) \ D
  <2>1. CASE j = k
    BY <2>1
  <2>2. CASE j # k
    <3>1. OpenEnds(j)' = OpenEnds(j)
      BY <2>2, OpenEndsOfOthers
    <3>2. \A e \in OpenEnds(j) : e.call = j
      BY OpenEndsOwn DEF EndsOf
    <3> QED
      BY <1>1, <2>2, <3>1, <3>2
  <2> QED
    BY <2>1, <2>2
<1>3. ASSUME NEW j \in Calls PROVE CallOK(j)'
  BY OtherCallsOK DEF CallInv
<1>4. CallInv'
  BY <1>3 DEF CallInv, CallOK
<1>5. TableInv' /\ table' \in [Fds -> Things]
  BY <1>1, <1>2, ClosedFromTable
<1> QED
  BY <1>4, <1>5

LEMMA NothingClosed ==
    ASSUME PopenTypeOK
    PROVE  table = Without({})
  BY DEF Without, PopenTypeOK

LEMMA EndsOfPipe ==
    ASSUME NEW k \in Calls, NEW p \in Pipes
    PROVE  EndsOf(k, {p}) = {End(k, p, "r"), End(k, p, "w")} /\ End(k, p, "r") # End(k, p, "w")
<1>1. \A e \in EndsOf(k, {p}) : e \in {End(k, p, "r"), End(k, p, "w")}
  BY EndIsItsFields DEF EndsOf, Dirs
<1>2. End(k, p, "r") \in EndsOf(k, {p}) /\ End(k, p, "w") \in EndsOf(k, {p})
  BY EndFields DEF EndsOf, Dirs
<1>3. End(k, p, "r") # End(k, p, "w")
  BY EndFields
<1> QED
  BY <1>1, <1>2, <1>3

\* Each label closes what was open at the failure it is for.
LEMMA CleanupClosesOpen ==
    ASSUME NEW k \in Calls
    PROVE  /\ Cleanup(k, "error_in") = <<>>
           /\ Lists(Cleanup(k, "error_out"), EndsOf(k, {"in"}))
           /\ Lists(Cleanup(k, "error_err"), EndsOf(k, {"in", "out"}))
           /\ Lists(Cleanup(k, "error_fork"), EndsOf(k, Pipes))
<1> DEFINE In == <<End(k, "in", "r"), End(k, "in", "w")>>
           Out == <<End(k, "out", "r"), End(k, "out", "w")>>
           Err == <<End(k, "err", "r"), End(k, "err", "w")>>
<1>1. /\ Cleanup(k, "error_in") = <<>>
      /\ Cleanup(k, "error_out") = In
      /\ Cleanup(k, "error_err") = Out \o In
      /\ Cleanup(k, "error_fork") = Err \o Out \o In
  BY DEF Cleanup
<1>2. /\ Lists(In, EndsOf(k, {"in"}))
      /\ Lists(Out, EndsOf(k, {"out"}))
      /\ Lists(Err, EndsOf(k, {"err"}))
  BY EndsOfPipe, PairList DEF Pipes
<1> HIDE DEF In, Out, Err
<1>3. /\ EndsOf(k, {"out"}) \cap EndsOf(k, {"in"}) = {}
      /\ EndsOf(k, {"err"}) \cap EndsOf(k, {"out"}) = {}
      /\ (EndsOf(k, {"err"}) \cup EndsOf(k, {"out"})) \cap EndsOf(k, {"in"}) = {}
      /\ EndsOf(k, {"out"}) \cup EndsOf(k, {"in"}) = EndsOf(k, {"in", "out"})
      /\ EndsOf(k, {"err"}) \cup EndsOf(k, {"out"}) \cup EndsOf(k, {"in"}) = EndsOf(k, Pipes)
  BY DEF EndsOf, Pipes
<1>4. Lists(Out \o In, EndsOf(k, {"in", "out"}))
  BY <1>2, <1>3, JoinedList
<1>5. Lists(Err \o Out, EndsOf(k, {"err"}) \cup EndsOf(k, {"out"}))
  BY <1>2, <1>3, JoinedList
<1>6. Lists(Err \o Out \o In, EndsOf(k, Pipes))
  BY <1>2, <1>3, <1>5, JoinedList
<1> QED
  BY <1>1, <1>2, <1>4, <1>6

\* After the fork, the parent closes what is not for the client.
LEMMA ParentClosesTheRest ==
    ASSUME NEW k \in Calls, client[k] = "open"
    PROVE  /\ Lists(ParentCloses(k), EndsOf(k, Pipes) \ RwePipe(k))
           /\ RwePipe(k) \subseteq EndsOf(k, Pipes)
<1> DEFINE a == End(k, "in", "r")
           b == End(k, "out", "w")
           c == End(k, "err", "w")
<1>1. a # b /\ a # c /\ b # c
  BY EndFields
<1>2. RwePipe(k) = {End(k, "in", "w"), End(k, "out", "r"), End(k, "err", "r")}
  BY DEF RwePipe
<1>3. \A e \in EndsOf(k, Pipes) :
          e \in EndsOf(k, {"in"}) \/ e \in EndsOf(k, {"out"}) \/ e \in EndsOf(k, {"err"})
  BY DEF EndsOf, Pipes
<1>4. EndsOf(k, Pipes) = {a, b, c} \cup RwePipe(k)
  <2>1. \A e \in EndsOf(k, Pipes) : e \in {a, b, c} \cup RwePipe(k)
    BY <1>2, <1>3, EndsOfPipe DEF Pipes
  <2>2. \A p \in Pipes, d \in Dirs : End(k, p, d) \in EndsOf(k, Pipes)
    BY EndFields DEF EndsOf
  <2> QED
    BY <1>2, <2>1, <2>2 DEF Pipes, Dirs
<1>5. {a, b, c} \cap RwePipe(k) = {}
  BY <1>2, EndFields
<1>6. ParentCloses(k) = <<a, b>> \o <<c>>
  BY DEF ParentCloses
<1>7. Lists(<<a, b>>, {a, b})
  BY <1>1, PairList
<1>8. Lists(<<c>>, {c})
  BY DEF Lists, Elements, Distinct
<1> HIDE DEF a, b, c
<1>9. Lists(<<a, b>> \o <<c>>, {a, b} \cup {c})
  BY <1>1, <1>7, <1>8, JoinedList
<1>10. {a, b} \cup {c} = EndsOf(k, Pipes) \ RwePipe(k)
  BY <1>4, <1>5
<1> QED
  BY <1>4, <1>6, <1>9, <1>10
-----------------------------------------------------------------------------
(***************************************************************************)
(* The steps of the parent and of the client keep the table in order.      *)
(***************************************************************************)
ParentInv == PopenTypeOK /\ CallInv /\ TableInv

LEMMA StartKeeps ==
    ASSUME ParentInv, NEW k \in Calls, popenRWE(k) \/ LogForking(k)
    PROVE  ParentInv'
<1> USE DEF ParentInv
<1>1. /\ table' = table /\ fds' = fds /\ closing' = closing /\ client' = client
      /\ ctable' = ctable /\ cpc' = cpc /\ concurrent' = concurrent
      /\ \/ pc[k] = "unused" /\ pc' = [pc EXCEPT ![k] = "in"]
         \/ pc[k] = "log" /\ pc' = [pc EXCEPT ![k] = "fork"]
  BY DEF popenRWE, LogForking, To, child
<1>2. /\ (pc'[k] = "in" /\ pc[k] = "unused") \/ (pc'[k] = "fork" /\ pc[k] = "log")
      /\ \A j \in Calls \ {k} : pc'[j] = pc[j]
  BY <1>1 DEF PopenTypeOK
<1>3. Closing(k)' = Closing(k) /\ RwePipe(k)' = RwePipe(k)
  BY <1>1 DEF Closing, RwePipe
<1>4. OpenEnds(k)' = OpenEnds(k) \ {}
  BY <1>2 DEF OpenEnds
<1>5. CallOK(k)'
  BY <1>1, <1>2, <1>3 DEF CallInv, CallOK
<1>6. CallInv' /\ TableInv'
  BY <1>1, <1>2, <1>4, <1>5, LocalStep, NothingClosed
<1>7. PopenTypeOK'
  BY <1>1 DEF PopenTypeOK
<1> QED
  BY <1>6, <1>7

\* A step to the label cleanup, with s to be closed.
LEMMA FailureKeeps ==
    ASSUME ParentInv, NEW k \in Calls, NEW s, Lists(s, OpenEnds(k)),
           pc[k] \notin {"parent", "cleanup", "returned"},
           closing' = [closing EXCEPT ![k] = s], To(k, "cleanup"),
           UNCHANGED <<table, fds, client, child, concurrent>>
    PROVE  ParentInv'
<1> USE DEF ParentInv
<1>1. pc'[k] = "cleanup" /\ closing'[k] = s
      /\ \A j \in Calls \ {k} : pc'[j] = pc[j] /\ closing'[j] = closing[j]
  BY DEF To, PopenTypeOK
<1>2. Closing(k)' = OpenEnds(k)
  BY <1>1 DEF Closing, Lists
<1>3. OpenEnds(k)' = OpenEnds(k) \ {}
  BY <1>1, <1>2 DEF OpenEnds
<1>4. Lists(closing[k], Closing(k))'
  BY <1>1, <1>2 DEF Lists, Elements, Distinct
<1>5. CallOK(k)'
  BY <1>1, <1>2, <1>4, OpenEndsOwn DEF CallInv, CallOK
<1>6. CallInv' /\ TableInv'
  BY <1>1, <1>3, <1>5, LocalStep, NothingClosed
<1>7. s \in Seq(Ends)
  <2>1. OpenEnds(k) \subseteq Ends
    BY OpenEndsOwn DEF EndsOf
  <2> QED
    BY <2>1 DEF Lists
<1>8. PopenTypeOK'
  BY <1>7 DEF PopenTypeOK, To, child
<1> QED
  BY <1>6, <1>8

LEMMA PipeFailureKeeps ==
    ASSUME ParentInv, NEW k \in Calls, NEW p \in Pipes, MakePipeFails(k, p)
    PROVE  ParentInv'
<1>1. Lists(Cleanup(k, OnError[p]), OpenEnds(k))
  <2>1. pc[k] = p
    BY DEF MakePipeFails
  <2>2. CASE p = "in"
    BY <2>1, <2>2, CleanupClosesOpen, EmptyList DEF OnError, OpenEnds
  <2>3. CASE p = "out"
    BY <2>1, <2>3, CleanupClosesOpen DEF OnError, OpenEnds
  <2>4. CASE p = "err"
    BY <2>1, <2>4, CleanupClosesOpen DEF OnError, OpenEnds
  <2> QED
    BY <2>2, <2>3, <2>4 DEF Pipes
<1>2. pc[k] \notin {"parent", "cleanup", "returned"}
  BY DEF MakePipeFails, Pipes
<1> QED
  BY <1>1, <1>2, FailureKeeps DEF MakePipeFails

LEMMA ForkFailureKeeps ==
    ASSUME ParentInv, NEW k \in Calls, ForkFails(k)
    PROVE  ParentInv'
<1>1. Lists(Cleanup(k, "error_fork"), OpenEnds(k))
  BY CleanupClosesOpen DEF ForkFails, OpenEnds
<1> QED
  BY <1>1, FailureKeeps DEF ForkFails

LEMMA ForkKeeps ==
    ASSUME ParentInv, NEW k \in Calls, Fork(k)
    PROVE  ParentInv'
<1> USE DEF ParentInv
<1>1. /\ pc[k] = "fork" /\ pc'[k] = "parent" /\ closing'[k] = ParentCloses(k)
      /\ \A j \in Calls \ {k} : pc'[j] = pc[j] /\ closing'[j] = closing[j]
      /\ table' = table /\ fds' = fds /\ client' = client
  BY DEF Fork, To, PopenTypeOK
<1>2. client[k] = "open"
  BY <1>1 DEF CallInv, CallOK
<1>3. Lists(ParentCloses(k), EndsOf(k, Pipes) \ RwePipe(k)) /\ RwePipe(k) \subseteq EndsOf(k, Pipes)
  BY <1>2, ParentClosesTheRest
<1>4. Closing(k)' = EndsOf(k, Pipes) \ RwePipe(k) /\ RwePipe(k)' = RwePipe(k)
  BY <1>1, <1>3 DEF Closing, Lists, RwePipe
<1>5. OpenEnds(k)' = OpenEnds(k) \ {}
  BY <1>1, <1>3, <1>4 DEF OpenEnds
<1>6. Lists(closing[k], Closing(k))'
  BY <1>1, <1>3, <1>4 DEF Lists, Elements, Distinct
<1>7. CallOK(k)'
  BY <1>1, <1>2, <1>4, <1>6 DEF CallOK, EndsOf
<1>8. CallInv' /\ TableInv'
  BY <1>1, <1>5, <1>7, LocalStep, NothingClosed
<1>9. PopenTypeOK'
  <2>1. ParentCloses(k) \in Seq(Ends)
    BY <1>3 DEF Lists, EndsOf
  <2> QED
    BY <2>1 DEF Fork, To, PopenTypeOK
<1> QED
  BY <1>8, <1>9

LEMMA CloseNextKeeps ==
    ASSUME ParentInv, NEW k \in Calls, CloseNext(k)
    PROVE  ParentInv'
<1> USE DEF ParentInv
<1> DEFINE e == Head(closing[k])
<1>1. /\ pc[k] \in {"parent", "cleanup"} /\ closing[k] # <<>>
      /\ pc' = pc /\ fds' = fds /\ client' = client
      /\ closing'[k] = Tail(closing[k])
      /\ \A j \in Calls \ {k} : closing'[j] = closing[j]
      /\ table' = close(table, fds[k][e.pipe][e.dir])
  BY DEF CloseNext, PopenTypeOK
<1>2. e \in Closing(k) /\ Lists(Tail(closing[k]), Closing(k) \ {e})
  BY <1>1, TailList DEF CallInv, CallOK
<1> HIDE DEF e
<1>3. e \in EndsOf(k, Pipes)
  BY <1>2 DEF CallInv, CallOK
<1>4. table' = Without({e})
  BY <1>1, <1>3, CloseIsWithout DEF FdOf, EndsOf
<1>5. Closing(k)' = Closing(k) \ {e} /\ RwePipe(k)' = RwePipe(k)
  BY <1>1, <1>2 DEF Closing, Lists, RwePipe
<1>6. OpenEnds(k)' = OpenEnds(k) \ {e} /\ {e} \subseteq OpenEnds(k)
  BY <1>1, <1>2, <1>5 DEF OpenEnds, CallInv, CallOK
<1>7. Lists(closing[k], Closing(k))'
  BY <1>1, <1>2, <1>5 DEF Lists, Elements, Distinct
<1>8. CallOK(k)'
  BY <1>1, <1>5, <1>7 DEF CallInv, CallOK, EndsOf
<1>9. CallInv' /\ TableInv' /\ table' \in [Fds -> Things]
  BY <1>1, <1>4, <1>6, <1>8, LocalStep
<1>10. PopenTypeOK'
  <2>1. closing' \in [Calls -> Seq(Ends)]
    BY <1>1 DEF CloseNext, PopenTypeOK
  <2> QED
    BY <1>1, <1>9, <2>1 DEF CloseNext, PopenTypeOK, child
<1> QED
  BY <1>9, <1>10

LEMMA ReturnKeeps ==
    ASSUME ParentInv, NEW k \in Calls, Return(k)
    PROVE  ParentInv'
<1> USE DEF ParentInv
<1>1. /\ closing[k] = <<>> /\ table' = table /\ fds' = fds /\ closing' = closing /\ client' = client
      /\ \/ pc[k] = "parent" /\ pc'[k] = "returned"
         \/ pc[k] = "cleanup" /\ pc'[k] = "failed"
      /\ \A j \in Calls \ {k} : pc'[j] = pc[j]
  BY DEF Return, To, PopenTypeOK
<1>2. Closing(k) = {} /\ Closing(k)' = {} /\ RwePipe(k)' = RwePipe(k)
  BY <1>1, EmptyList DEF Closing, RwePipe
<1>3. OpenEnds(k)' = OpenEnds(k) \ {}
  BY <1>1, <1>2 DEF OpenEnds
<1>4. CallOK(k)'
  BY <1>1, <1>2, EmptyList DEF CallInv, CallOK
<1>5. CallInv' /\ TableInv'
  BY <1>1, <1>3, <1>4, LocalStep, NothingClosed
<1>6. PopenTypeOK'
  BY <1>1 DEF Return, To, PopenTypeOK, child
<1> QED
  BY <1>5, <1>6

LEMMA ClientKeeps ==
    ASSUME ParentInv, NEW k \in Calls, ClientStep(k)
    PROVE  ParentInv'
<1> USE DEF ParentInv
<1> DEFINE D == IF client[k] = "open" THEN {End(k, "in", "w")}
                ELSE {End(k, "out", "r"), End(k, "err", "r")}
<1>1. /\ pc[k] = "returned"
      /\ \/ client[k] = "open" /\ client'[k] = "reading"
         \/ client[k] = "reading" /\ client'[k] = "done"
      /\ \A j \in Calls \ {k} : client'[j] = client[j]
      /\ pc' = pc /\ fds' = fds /\ closing' = closing
  BY DEF ClientStep, ClientCloseStdin, ClientDone, CallInv, CallOK, PopenTypeOK
<1>2. closing[k] = <<>> /\ Closing(k) = {} /\ Closing(k)' = {}
  BY <1>1, EmptyList DEF CallInv, CallOK, Closing
<1>3. D \subseteq RwePipe(k) /\ RwePipe(k)' = RwePipe(k) \ D
  BY <1>1, EndFields DEF RwePipe
<1>4. OpenEnds(k) = RwePipe(k) /\ OpenEnds(k)' = RwePipe(k)'
  BY <1>1, <1>2 DEF OpenEnds
<1>5. table' = Without(D)
  <2>1. \A p \in Pipes, d \in Dirs : FdOf(End(k, p, d)) = fds[k][p][d]
    BY EndFields DEF FdOf
  <2>2. CASE client[k] = "open"
    <3>1. table' = close(table, fds[k]["in"]["w"])
      BY <2>2 DEF ClientStep, ClientCloseStdin, ClientDone
    <3> QED
      BY <2>1, <2>2, <3>1, CloseIsWithout DEF Pipes, Dirs
  <2>3. CASE client[k] = "reading"
    <3>1. table' = close(close(table, fds[k]["out"]["r"]), fds[k]["err"]["r"])
      BY <2>3 DEF ClientStep, ClientCloseStdin, ClientDone
    <3> QED
      BY <2>1, <2>3, <3>1 DEF close, Without, PopenTypeOK, Pipes, Dirs
  <2> QED
    BY <1>1, <2>2, <2>3
<1> HIDE DEF D
<1>6. CallOK(k)'
  BY <1>1, <1>2, EmptyList DEF CallOK
<1>7. CallInv' /\ TableInv' /\ table' \in [Fds -> Things]
  BY <1>1, <1>3, <1>4, <1>5, <1>6, LocalStep
<1>8. PopenTypeOK'
  BY <1>1, <1>7 DEF ClientStep, ClientCloseStdin, ClientDone, PopenTypeOK, child
<1> QED
  BY <1>7, <1>8
LEMMA PipeKeeps ==
    ASSUME ParentInv, NEW k \in Calls, NEW p \in Pipes, MakePipe(k, p)
    PROVE  ParentInv'
<1> USE DEF ParentInv
<1> DEFINE new == PipeFds(table)
<1>1. /\ pc[k] = p /\ pc' = [pc EXCEPT ![k] = AfterPipe[p]]
      /\ fds' = [fds EXCEPT ![k][p] = new]
      /\ table' = [table EXCEPT ![new.r] = End(k, p, "r"), ![new.w] = End(k, p, "w")]
      /\ UNCHANGED <<closing, client, ctable, cpc, concurrent>>
  BY DEF MakePipe, To, child
<1>2. PICK n \in Free(table) : Free(table) # {n}
  BY DEF MakePipe
<1>3. /\ new = [r |-> new.r, w |-> new.w]
      /\ new.r \in Free(table) /\ new.w \in Free(table) /\ new.r # new.w
  BY <1>2, PipeFdsAreFree DEF PopenTypeOK
<1> HIDE DEF new
<1>4. new.r \in Fds /\ new.w \in Fds /\ \A f \in Free(table) : table[f] = NULL
  BY <1>3 DEF Free
<1>5. new.r \in Int /\ new.w \in Int /\ new \in [Dirs -> Int] /\ new["r"] = new.r /\ new["w"] = new.w
  BY <1>3, <1>4, PopenConstants DEF Fds, Dirs
<1>6. PopenTypeOK'
  <2>1. End(k, p, "r") \in Things /\ End(k, p, "w") \in Things
    BY EndFields DEF Things, Dirs
  <2>2. table' \in [Fds -> Things]
    BY <1>1, <2>1 DEF PopenTypeOK
  <2>3. fds' \in [Calls -> [Pipes -> [Dirs -> Int]]]
    BY <1>1, <1>5 DEF PopenTypeOK
  <2>4. pc' \in [Calls -> {"unused", "in", "out", "err", "log", "fork", "parent", "cleanup",
                           "returned", "failed"}]
    BY <1>1 DEF PopenTypeOK, AfterPipe, Pipes
  <2> QED
    BY <1>1, <2>2, <2>3, <2>4 DEF PopenTypeOK
<1>7. pc'[k] = AfterPipe[p] /\ \A j \in Calls \ {k} : pc'[j] = pc[j]
  BY <1>1 DEF PopenTypeOK
<1>8. CallInv'
  <2>1. CallOK(k)'
    <3>1. pc'[k] \in {"out", "err", "log"} /\ pc[k] \in {"in", "out", "err"}
      BY <1>1, <1>7 DEF AfterPipe, Pipes
    <3> QED
      BY <1>1, <3>1 DEF CallInv, CallOK, Closing, RwePipe
  <2>2. ASSUME NEW j \in Calls \ {k} PROVE CallOK(j)'
    BY <1>1, <1>7, OtherCallsOK DEF CallInv
  <2> QED
    BY <2>1, <2>2 DEF CallInv, CallOK
<1>9. /\ OpenEnds(k)' = OpenEnds(k) \cup EndsOf(k, {p})
      /\ OpenEnds(k) \cap EndsOf(k, {p}) = {}
  <2>1. CASE p = "in"
    BY <1>1, <1>7, <2>1 DEF OpenEnds, AfterPipe, EndsOf
  <2>2. CASE p = "out"
    BY <1>1, <1>7, <2>2 DEF OpenEnds, AfterPipe, EndsOf
  <2>3. CASE p = "err"
    BY <1>1, <1>7, <2>3 DEF OpenEnds, AfterPipe, EndsOf, Pipes
  <2> QED
    BY <2>1, <2>2, <2>3 DEF Pipes
<1>10. \A j \in Calls \ {k} : OpenEnds(j)' = OpenEnds(j)
  BY <1>1, <1>7, OpenEndsOfOthers
<1>11. ASSUME NEW e \in Ends, e \notin EndsOf(k, {p}) PROVE FdOf(e)' = FdOf(e)
  <2>1. e.call # k \/ e.pipe # p
    BY <1>11 DEF EndsOf
  <2> QED
    BY <1>1, <2>1, EndIsItsFields DEF FdOf, PopenTypeOK
<1>12. /\ table'[new.r] = End(k, p, "r") /\ table'[new.w] = End(k, p, "w")
       /\ End(k, p, "r") # End(k, p, "w")
  <2>1. table'[new.r] = End(k, p, "r") /\ table'[new.w] = End(k, p, "w")
    BY <1>1, <1>3, <1>4 DEF PopenTypeOK
  <2>2. End(k, p, "r") # End(k, p, "w")
    BY EndFields
  <2> QED
    BY <2>1, <2>2
<1>13. ASSUME NEW e \in EndsOf(k, {p})
       PROVE  FdOf(e)' \in {new.r, new.w} /\ table'[FdOf(e)'] = e
  <2>1. e.call = k /\ e.pipe = p /\ e.dir \in Dirs /\ e = End(k, p, e.dir)
    BY EndIsItsFields DEF EndsOf
  <2>2. FdOf(e)' = new[e.dir]
    BY <1>1, <2>1 DEF FdOf, PopenTypeOK
  <2> QED
    BY <1>5, <1>12, <2>1, <2>2 DEF Dirs
<1>14. \A f \in Fds \ {new.r, new.w} : table'[f] = table[f]
  BY <1>1 DEF PopenTypeOK
<1>15. ASSUME NEW j \in Calls, NEW e \in OpenEnds(j)'
       PROVE  FdOf(e)' \in Fds /\ table'[FdOf(e)'] = e
  <2>1. CASE e \in EndsOf(k, {p})
    BY <1>4, <1>13, <2>1
  <2>2. CASE e \notin EndsOf(k, {p})
    <3>1. e \in OpenEnds(j) /\ e \in Ends
      BY <1>9, <1>10, <1>15, <2>2, OpenEndsOwn DEF EndsOf
    <3>2. FdOf(e) \in Fds /\ table[FdOf(e)] = e /\ FdOf(e)' = FdOf(e)
      BY <1>11, <2>2, <3>1 DEF TableInv
    <3>3. FdOf(e) \notin {new.r, new.w}
      BY <1>3, <1>4, <3>1, <3>2, NotEnds
    <3> QED
      BY <1>14, <3>2, <3>3
  <2> QED
    BY <2>1, <2>2
<1>16. ASSUME NEW f \in Fds, NEW e \in Ends, table'[f] = e
       PROVE  f = FdOf(e)' /\ e \in OpenEnds(e.call)'
  <2>1. CASE f \in {new.r, new.w}
    <3>1. e \in {End(k, p, "r"), End(k, p, "w")} /\ (f = new.r <=> e = End(k, p, "r"))
      BY <1>16, <1>12, <2>1
    <3>2. e \in EndsOf(k, {p}) /\ e.call = k /\ e.pipe = p
      BY <3>1, EndFields DEF EndsOf, Dirs
    <3>3. FdOf(e)' = new[e.dir]
      BY <1>1, <3>2 DEF FdOf, PopenTypeOK
    <3>4. f = new[e.dir]
      BY <1>5, <2>1, <3>1, EndFields
    <3> QED
      BY <1>9, <3>2, <3>3, <3>4
  <2>2. CASE f \notin {new.r, new.w}
    <3>1. f = FdOf(e) /\ e \in OpenEnds(e.call) /\ e.call \in Calls
      BY <1>14, <1>16, <2>2, EndIsItsFields DEF TableInv
    <3>2. e \notin EndsOf(k, {p})
      BY <1>9, <3>1 DEF EndsOf
    <3> QED
      BY <1>9, <1>10, <1>11, <3>1, <3>2
  <2> QED
    BY <2>1, <2>2
<1>17. \A f \in InitialFds : table'[f] = Tty
  <2>1. \A f \in InitialFds : f \in Fds /\ table[f] = Tty /\ f \notin {new.r, new.w}
    BY <1>3, <1>4, PopenConstants, NotEnds DEF TableInv
  <2> QED
    BY <1>14, <2>1
<1>18. TableInv'
  BY <1>15, <1>16, <1>17 DEF TableInv
<1> QED
  BY <1>6, <1>8, <1>18
-----------------------------------------------------------------------------
(***************************************************************************)
(* The order of the calls, and the children.                               *)
(***************************************************************************)
LEMMA OrderKept ==
    ASSUME OrderInv, concurrent' = concurrent,
           \A j \in Calls : /\ pc'[j] = "unused" <=> pc[j] = "unused"
                            /\ Running(j)' => Running(j)
    PROVE  OrderInv'
  BY DEF OrderInv

LEMMA StartInOrder ==
    ASSUME PopenTypeOK, OrderInv, NEW k \in Calls, popenRWE(k)
    PROVE  OrderInv'
<1>1. /\ pc[k] = "unused" /\ pc'[k] = "in" /\ \A j \in Calls \ {k} : pc'[j] = pc[j]
      /\ concurrent' = concurrent
      /\ concurrent \/ \A j \in Calls : ~Running(j)
  BY DEF popenRWE, To, PopenTypeOK
<1>2. Calls \subseteq Int
  BY PopenConstants DEF Calls
<1>3. \A j \in Calls : j < k => pc[j] # "unused"
  BY <1>2, PopenConstants DEF popenRWE, Calls
<1>4. \A i, j \in Calls : j < i /\ pc'[i] # "unused" => pc'[j] # "unused"
  BY <1>1, <1>2, <1>3 DEF OrderInv
<1>5. \A j \in Calls : j > k => pc'[j] = "unused"
  BY <1>1, <1>2 DEF OrderInv
<1>6. ~concurrent => \A j \in Calls \ {k} : ~Running(j)'
  BY <1>1 DEF Running
<1> QED
  BY <1>1, <1>4, <1>5, <1>6 DEF OrderInv

\* A step that does not concern the children.
LEMMA ChildrenUntouched ==
    ASSUME ChildInv, UNCHANGED <<ctable, cpc, concurrent>>,
           \A j \in Calls : cpc[j] # "unused" =>
               fds'[j] = fds[j] /\ pc'[j] \in {"parent", "returned"}
    PROVE  ChildInv'
<1>1. \A j \in Calls : cpc[j] # "unused" =>
          \A e \in EndsOf(j, Pipes) : FdOf(e)' = FdOf(e)
  BY DEF FdOf, EndsOf
<1>2. ForkedInv'
  BY <1>1 DEF ChildInv, ForkedInv
<1>3. ExeInv'
  BY DEF ChildInv, ExeInv
<1>4. HeirInv'
  BY DEF ChildInv, HeirInv
<1> QED
  BY <1>2, <1>3, <1>4 DEF ChildInv

LEMMA ForkedChild ==
    ASSUME PopenIInv, NEW k \in Calls, Fork(k)
    PROVE  ChildInv'
<1> USE DEF PopenIInv
<1>1. /\ pc[k] = "fork" /\ pc'[k] = "parent" /\ \A j \in Calls \ {k} : pc'[j] = pc[j]
      /\ cpc'[k] = "forked" /\ \A j \in Calls \ {k} : cpc'[j] = cpc[j]
      /\ ctable'[k] = table /\ \A j \in Calls \ {k} : ctable'[j] = ctable[j]
      /\ fds' = fds /\ concurrent' = concurrent
  BY DEF Fork, To, PopenTypeOK
<1>2. OpenEnds(k) = EndsOf(k, Pipes) /\ \A e : FdOf(e)' = FdOf(e)
  BY <1>1 DEF OpenEnds, FdOf
<1>3. ForkedInv'
  <2>1. /\ \A e \in EndsOf(k, Pipes) : FdOf(e) \in Fds /\ table[FdOf(e)] = e
        /\ \A f \in Fds, e \in EndsOf(k, Pipes) : table[f] = e => f = FdOf(e)
        /\ \A f \in InitialFds : table[f] = Tty
    BY <1>2 DEF TableInv, EndsOf
  <2> QED
    BY <1>1, <1>2, <2>1 DEF ChildInv, ForkedInv
<1>4. ExeInv'
  BY <1>1 DEF ChildInv, ExeInv
<1>5. HeirInv'
  <2>1. ASSUME NEW f \in Fds, NEW e \in Ends, table[f] = e, ~concurrent PROVE e.call <= k
    <3>1. e.call \in Calls /\ e \in OpenEnds(e.call)
      BY <2>1, EndIsItsFields DEF TableInv
    <3>2. pc[e.call] # "unused"
      BY <3>1 DEF OpenEnds
    <3>3. ~(e.call > k)
      BY <1>1, <2>1, <3>1, <3>2 DEF OrderInv, Running
    <3> QED
      BY <3>1, <3>3, PopenConstants DEF Calls
  <2> QED
    BY <1>1, <2>1 DEF ChildInv, HeirInv
<1> QED
  BY <1>3, <1>4, <1>5 DEF ChildInv

\* Redirection brings nothing new into a table.
LEMMA ReopenKeeps ==
    ASSUME NEW t \in [Fds -> Things], NEW n, NEW f \in Fds
    PROVE  /\ Reopen(t, n, f) \in [Fds -> Things]
           /\ \A g \in Fds : Reopen(t, n, f)[g] \in {NULL} \cup {t[h] : h \in Fds}
<1> DEFINE u == close(t, n)
<1>1. u \in [Fds -> Things] /\ \A g \in Fds : u[g] \in {NULL, t[g]}
  BY DEF close, Things
<1> HIDE DEF u
<1>2. /\ dup(u, f) \in [Fds -> Things]
      /\ \A g \in Fds : dup(u, f)[g] \in {u[g], u[f]}
  BY <1>1 DEF dup
<1> QED
  BY <1>1, <1>2 DEF Reopen, u

\* If n is the lowest that close() makes free, it is n that dup() chooses.
LEMMA ReopenReplaces ==
    ASSUME NEW t \in [Fds -> Things], NEW n \in Fds, NEW f \in Fds, f # n, t[f] # NULL,
           \A m \in Fds : m < n => t[m] # NULL
    PROVE  Reopen(t, n, f) = [t EXCEPT ![n] = t[f]]
<1> DEFINE u == close(t, n)
<1>1. u = [t EXCEPT ![n] = NULL]
  BY DEF close
<1> HIDE DEF u
<1>2. n \in Free(u) /\ \A m \in Free(u) : n <= m
  BY <1>1, PopenConstants DEF Free, Fds
<1>3. \A m \in Free(u) : (\A g \in Free(u) : m <= g) => m = n
  BY <1>2, PopenConstants DEF Free, Fds
<1>4. Lowest(Free(u)) = n
  BY <1>2, <1>3 DEF Lowest
<1>5. u[f] = t[f]
  BY <1>1
<1>6. dup(u, f) = [u EXCEPT ![n] = t[f]]
  BY <1>2, <1>4, <1>5 DEF dup
<1>7. [u EXCEPT ![n] = t[f]] = [t EXCEPT ![n] = t[f]]
  BY <1>1
<1> QED
  BY <1>6, <1>7 DEF Reopen, u
\* The child's three closes and three dups.
LEMMA RedirectedChild ==
    ASSUME PopenTypeOK, ChildInv, NEW k \in Calls, ChildRedirects(k)
    PROVE  /\ ctable'[k] \in [Fds -> Things]
           /\ \A f \in Fds : ctable'[k][f] # End(k, "in", "w")
           /\ \A f \in Fds : ctable'[k][f] \in {NULL} \cup {ctable[k][g] : g \in Fds}
           /\ StandardFds \subseteq InitialFds =>
                  /\ ctable'[k][0] = End(k, "in", "r")
                  /\ ctable'[k][1] = End(k, "out", "w")
                  /\ ctable'[k][2] = End(k, "err", "w")
<1> DEFINE t == ctable[k]
           a == fds[k]
           u == CloseOtherEnds(t, a)
           u0 == Reopen(u, 0, a["in"]["r"])
           u1 == Reopen(u0, 1, a["out"]["w"])
           u2 == Reopen(u1, 2, a["err"]["w"])
<1>1. t \in [Fds -> Things]
  BY DEF PopenTypeOK
<1>2. /\ \A p \in Pipes, d \in Dirs : a[p][d] \in Fds /\ t[a[p][d]] = End(k, p, d)
      /\ \A f \in Fds, p \in Pipes, d \in Dirs : t[f] = End(k, p, d) => f = a[p][d]
      /\ \A f \in InitialFds : t[f] = Tty
  <2>1. \A p \in Pipes, d \in Dirs :
            End(k, p, d) \in EndsOf(k, Pipes) /\ FdOf(End(k, p, d)) = a[p][d]
    BY EndFields DEF EndsOf, FdOf
  <2>2. cpc[k] = "forked"
    BY DEF ChildRedirects
  <2> QED
    BY <2>1, <2>2 DEF ChildInv, ForkedInv
<1>3. u = [t EXCEPT ![a["in"]["w"]] = NULL, ![a["out"]["r"]] = NULL, ![a["err"]["r"]] = NULL]
  BY DEF CloseOtherEnds, close
<1>4. ctable'[k] = u2
  BY DEF ChildRedirects, PopenTypeOK
<1> HIDE DEF t, a, u, u0, u1, u2
<1>5. /\ "in" \in Pipes /\ "out" \in Pipes /\ "err" \in Pipes /\ "r" \in Dirs /\ "w" \in Dirs
  BY DEF Pipes, Dirs
<1>6. u \in [Fds -> Things] /\ \A f \in Fds : u[f] \in {NULL, t[f]}
  BY <1>1, <1>3 DEF Things
<1>7. \A f \in Fds : u[f] # End(k, "in", "w")
  <2>1. End(k, "in", "w") # NULL
    BY <1>5, EndFields, NotEnds
  <2> QED
    BY <1>1, <1>2, <1>3, <1>5, <1>6, <2>1
<1>8. u0 \in [Fds -> Things] /\ \A f \in Fds : u0[f] \in {NULL} \cup {u[g] : g \in Fds}
  BY <1>2, <1>5, <1>6, ReopenKeeps DEF u0
<1>9. u1 \in [Fds -> Things] /\ \A f \in Fds : u1[f] \in {NULL} \cup {u0[g] : g \in Fds}
  BY <1>2, <1>5, <1>8, ReopenKeeps DEF u1
<1>10. u2 \in [Fds -> Things] /\ \A f \in Fds : u2[f] \in {NULL} \cup {u1[g] : g \in Fds}
  BY <1>2, <1>5, <1>9, ReopenKeeps DEF u2
<1>11. \A f \in Fds : u2[f] \in {NULL} \cup {u[g] : g \in Fds}
  BY <1>8, <1>9, <1>10
<1>12. \A f \in Fds : u2[f] # End(k, "in", "w")
  <2>1. End(k, "in", "w") # NULL
    BY <1>5, EndFields, NotEnds
  <2> QED
    BY <1>7, <1>11, <2>1
<1>13. \A f \in Fds : u2[f] \in {NULL} \cup {t[g] : g \in Fds}
  BY <1>6, <1>11
<1>14. ASSUME StandardFds \subseteq InitialFds
       PROVE  /\ u2[0] = End(k, "in", "r")
              /\ u2[1] = End(k, "out", "w")
              /\ u2[2] = End(k, "err", "w")
  <2> DEFINE x == a["in"]["r"]
             y == a["out"]["w"]
             z == a["err"]["w"]
  <2>1. /\ 0 \in Fds /\ 1 \in Fds /\ 2 \in Fds
        /\ \A m \in Fds : (m < 1 => m = 0) /\ (m < 2 => m = 0 \/ m = 1) /\ ~(m < 0)
    BY PopenConstants DEF Fds
  <2>2. t[0] = Tty /\ t[1] = Tty /\ t[2] = Tty
    BY <1>2, <1>14 DEF StandardFds
  <2>3. \A p \in Pipes, d \in Dirs :
            End(k, p, d) # Tty /\ End(k, p, d) # NULL /\ a[p][d] \notin {0, 1, 2}
    BY <1>2, <2>2, EndFields, NotEnds
  <2>4. /\ a["in"]["w"] \notin {x, y, z} /\ a["out"]["r"] \notin {x, y, z}
        /\ a["err"]["r"] \notin {x, y, z}
    <3>1. \A p, q \in Pipes, c, d \in Dirs : a[p][c] = a[q][d] => p = q /\ c = d
      BY <1>2, EndFields
    <3> QED
      BY <1>5, <3>1
  <2>5. /\ u[0] = Tty /\ u[1] = Tty /\ u[2] = Tty
        /\ u[x] = End(k, "in", "r") /\ u[y] = End(k, "out", "w") /\ u[z] = End(k, "err", "w")
    BY <1>1, <1>2, <1>3, <1>5, <2>1, <2>2, <2>3, <2>4
  <2>6. x \in Fds /\ y \in Fds /\ z \in Fds /\ x \notin {0, 1, 2} /\ y \notin {0, 1, 2}
        /\ z \notin {0, 1, 2}
    BY <1>2, <1>5, <2>3
  <2>7. /\ End(k, "in", "r") # NULL /\ End(k, "out", "w") # NULL /\ End(k, "err", "w") # NULL
        /\ Tty # NULL
    BY <1>5, <2>3, NotEnds
  <2>8. u0 = Reopen(u, 0, x) /\ u1 = Reopen(u0, 1, y) /\ u2 = Reopen(u1, 2, z)
    BY DEF u0, u1, u2
  <2> HIDE DEF x, y, z
  <2>9. u0 = [u EXCEPT ![0] = End(k, "in", "r")]
    BY <1>6, <2>1, <2>5, <2>6, <2>7, <2>8, ReopenReplaces
  <2>10. /\ u0[0] = End(k, "in", "r") /\ u0[y] = End(k, "out", "w") /\ u0[z] = End(k, "err", "w")
    BY <1>6, <2>1, <2>5, <2>6, <2>9
  <2>11. u1 = [u0 EXCEPT ![1] = End(k, "out", "w")]
    BY <1>8, <2>1, <2>6, <2>7, <2>8, <2>10, ReopenReplaces
  <2>12. /\ u1[0] = End(k, "in", "r") /\ u1[1] = End(k, "out", "w") /\ u1[z] = End(k, "err", "w")
    BY <1>8, <2>1, <2>6, <2>10, <2>11
  <2>13. u2 = [u1 EXCEPT ![2] = End(k, "err", "w")]
    BY <1>9, <2>1, <2>6, <2>7, <2>8, <2>12, ReopenReplaces
  <2> QED
    BY <1>9, <2>1, <2>12, <2>13
<1> QED
  BY <1>4, <1>10, <1>12, <1>13, <1>14 DEF t

LEMMA ChildStepKeeps ==
    ASSUME PopenTypeOK, ChildInv, NEW k \in Calls, ChildStep(k) \/ ExeExit(k)
    PROVE  ChildInv' /\ PopenTypeOK'
<1>1. UNCHANGED <<table, pc, fds, closing, client, concurrent>>
  BY DEF ChildStep, ChildRedirects, Exec, ExecFails, ExeExit, caller
<1>2. cpc[k] \notin {"unused", "exited"} /\ \A e : FdOf(e)' = FdOf(e)
  BY <1>1 DEF ChildStep, ChildRedirects, Exec, ExecFails, ExeExit, FdOf
<1>3. \A j \in Calls \ {k} : cpc'[j] = cpc[j] /\ ctable'[j] = ctable[j]
  BY DEF ChildStep, ChildRedirects, Exec, ExecFails, ExeExit, PopenTypeOK
<1>4. CASE ChildRedirects(k)
  <2>1. cpc'[k] = "redirected" /\ cpc' \in [Calls -> {"unused", "forked", "redirected", "exe", "exited"}]
    BY <1>4 DEF ChildRedirects, PopenTypeOK
  <2>2. /\ ctable'[k] \in [Fds -> Things]
        /\ \A f \in Fds : ctable'[k][f] # End(k, "in", "w")
        /\ \A f \in Fds : ctable'[k][f] \in {NULL} \cup {ctable[k][g] : g \in Fds}
        /\ StandardFds \subseteq InitialFds =>
               /\ ctable'[k][0] = End(k, "in", "r")
               /\ ctable'[k][1] = End(k, "out", "w")
               /\ ctable'[k][2] = End(k, "err", "w")
    BY <1>4, RedirectedChild
  <2>3. ctable' \in [Calls -> [Fds -> Things]]
    BY <1>3, <1>4, <2>2 DEF ChildRedirects, PopenTypeOK
  <2>4. ForkedInv'
    BY <1>1, <1>2, <1>3, <2>1 DEF ChildInv, ForkedInv
  <2>5. ExeInv'
    BY <1>3, <2>2 DEF ChildInv, ExeInv
  <2>6. ASSUME ~concurrent, NEW f \in Fds, NEW e \in Ends, ctable'[k][f] = e PROVE e.call <= k
    <3>1. PICK g \in Fds : ctable[k][g] = e
      BY <2>2, <2>6, NotEnds
    <3> QED
      BY <2>6, <3>1 DEF ChildInv, HeirInv
  <2>7. HeirInv'
    BY <1>1, <1>2, <1>3, <2>1, <2>6 DEF ChildInv, HeirInv
  <2> QED
    BY <1>1, <2>1, <2>3, <2>4, <2>5, <2>7 DEF ChildInv, PopenTypeOK
<1>5. CASE Exec(k)
  <2>1. cpc'[k] = "exe" /\ cpc[k] = "redirected" /\ ctable' = ctable
        /\ cpc' \in [Calls -> {"unused", "forked", "redirected", "exe", "exited"}]
    BY <1>5 DEF Exec, PopenTypeOK
  <2>2. ForkedInv'
    BY <1>1, <1>2, <1>3, <2>1 DEF ChildInv, ForkedInv
  <2>3. ExeInv'
    BY <1>3, <2>1 DEF ChildInv, ExeInv
  <2>4. HeirInv'
    BY <1>1, <1>2, <1>3, <2>1 DEF ChildInv, HeirInv
  <2> QED
    BY <1>1, <2>1, <2>2, <2>3, <2>4 DEF ChildInv, PopenTypeOK
<1>6. CASE ExecFails(k) \/ ExeExit(k)
  <2>1. cpc'[k] = "exited" /\ ctable'[k] = NoFds
        /\ cpc' \in [Calls -> {"unused", "forked", "redirected", "exe", "exited"}]
    BY <1>6 DEF ExecFails, ExeExit, PopenTypeOK
  <2>2. NoFds \in [Fds -> Things] /\ \A f \in Fds : NoFds[f] \notin Ends
    BY NotEnds DEF NoFds, Things
  <2>3. ctable' \in [Calls -> [Fds -> Things]]
    BY <1>6, <2>2 DEF ExecFails, ExeExit, PopenTypeOK
  <2>4. ForkedInv'
    BY <1>1, <1>2, <1>3, <2>1 DEF ChildInv, ForkedInv
  <2>5. ExeInv'
    BY <1>3, <2>1 DEF ChildInv, ExeInv
  <2>6. HeirInv'
    BY <1>1, <1>2, <1>3, <2>1, <2>2 DEF ChildInv, HeirInv
  <2> QED
    BY <1>1, <2>1, <2>3, <2>4, <2>5, <2>6 DEF ChildInv, PopenTypeOK
<1> QED
  BY <1>4, <1>5, <1>6 DEF ChildStep
-----------------------------------------------------------------------------
(***************************************************************************)
(* The theorems.                                                           *)
(***************************************************************************)
LEMMA PopenInitial == Init => PopenIInv
<1> SUFFICES ASSUME Init PROVE PopenIInv
  OBVIOUS
<1> USE DEF Init
<1>1. NoFds \in [Fds -> Things] /\ \A f \in Fds : NoFds[f] \notin Ends
  BY NotEnds DEF NoFds, Things
<1>2. <<>> \in Seq(Ends)
  OBVIOUS
<1>3. [p \in Pipes |-> [r |-> -1, w |-> -1]] \in [Pipes -> [Dirs -> Int]]
  <2>1. [r |-> -1, w |-> -1] \in [Dirs -> Int]
    BY DEF Dirs
  <2> QED
    BY <2>1
<1>4. PopenTypeOK
  BY <1>1, <1>2, <1>3, PopenConstants DEF PopenTypeOK, Things
<1>5. \A k \in Calls : pc[k] = "unused" /\ closing[k] = <<>> /\ Closing(k) = {} /\ client[k] = "open"
  BY EmptyList DEF Closing
<1>6. CallInv
  BY <1>5, EmptyList DEF CallInv, CallOK
<1>7. TableInv
  <2>1. \A k \in Calls : OpenEnds(k) = {}
    BY <1>5 DEF OpenEnds
  <2>2. \A f \in Fds : table[f] \notin Ends
    BY NotEnds
  <2>3. \A f \in InitialFds : table[f] = Tty
    BY PopenConstants
  <2> QED
    BY <2>1, <2>2, <2>3 DEF TableInv
<1>8. OrderInv
  BY <1>5 DEF OrderInv, Running
<1>9. ChildInv
  BY <1>1 DEF ChildInv, ForkedInv, ExeInv, HeirInv
<1> QED
  BY <1>4, <1>6, <1>7, <1>8, <1>9 DEF PopenIInv

LEMMA PopenInductive == PopenIInv /\ [Next]_vars => PopenIInv'
<1> SUFFICES ASSUME PopenIInv, [Next]_vars PROVE PopenIInv'
  OBVIOUS
<1> USE DEF PopenIInv
<1>1. ParentInv
  BY DEF ParentInv
\* A step of a call other than its first and its fork, or one of the client.
<1>2. ASSUME NEW k \in Calls, ParentInv', UNCHANGED <<ctable, cpc, concurrent>>,
             \A j \in Calls \ {k} : pc'[j] = pc[j] /\ fds'[j] = fds[j],
             \/ pc'[k] = pc[k] /\ fds' = fds
             \/ fds' = fds /\ pc[k] = "parent" /\ pc'[k] = "returned"
             \/ pc[k] \notin {"unused", "parent", "returned"} /\ pc'[k] # "unused"
                /\ (Running(k)' => Running(k))
      PROVE  PopenIInv'
  <2>1. OrderInv'
    BY <1>2, OrderKept DEF Running
  <2>2. ChildInv'
    <3>1. \A j \in Calls : cpc[j] # "unused" => pc[j] \in {"parent", "returned"}
      BY DEF ChildInv, HeirInv
    <3> QED
      BY <1>2, <3>1, ChildrenUntouched
  <2> QED
    BY <1>2, <2>1, <2>2 DEF ParentInv
<1>3. ASSUME NEW k \in Calls, popenRWE(k) PROVE PopenIInv'
  <2>1. ParentInv'
    BY <1>1, <1>3, StartKeeps
  <2>2. OrderInv'
    BY <1>3, StartInOrder
  <2>3. pc[k] = "unused" /\ UNCHANGED <<ctable, cpc, concurrent, fds>>
        /\ \A j \in Calls \ {k} : pc'[j] = pc[j]
    BY <1>3 DEF popenRWE, To, child, PopenTypeOK
  <2>4. ChildInv'
    BY <2>3, ChildrenUntouched DEF ChildInv, HeirInv
  <2> QED
    BY <2>1, <2>2, <2>4 DEF ParentInv
<1>4. ASSUME NEW k \in Calls, NEW p \in Pipes, MakePipe(k, p) PROVE PopenIInv'
  <2>1. ParentInv'
    BY <1>1, <1>4, PipeKeeps
  <2>2. /\ UNCHANGED <<ctable, cpc, concurrent>>
        /\ \A j \in Calls \ {k} : pc'[j] = pc[j] /\ fds'[j] = fds[j]
        /\ pc[k] \in Pipes /\ pc'[k] \in {"out", "err", "log"}
    BY <1>4 DEF MakePipe, To, child, PopenTypeOK, AfterPipe, Pipes
  <2> QED
    BY <1>2, <2>1, <2>2 DEF Running, Pipes
<1>5. ASSUME NEW k \in Calls, NEW p \in Pipes, MakePipeFails(k, p) PROVE PopenIInv'
  <2>1. ParentInv'
    BY <1>1, <1>5, PipeFailureKeeps
  <2>2. /\ UNCHANGED <<ctable, cpc, concurrent, fds>>
        /\ \A j \in Calls \ {k} : pc'[j] = pc[j]
        /\ pc[k] \in Pipes /\ pc'[k] = "cleanup"
    BY <1>5 DEF MakePipeFails, To, child, PopenTypeOK
  <2> QED
    BY <1>2, <2>1, <2>2 DEF Running, Pipes
<1>6. ASSUME NEW k \in Calls, LogForking(k) PROVE PopenIInv'
  <2>1. ParentInv'
    BY <1>1, <1>6, StartKeeps
  <2>2. /\ UNCHANGED <<ctable, cpc, concurrent, fds>>
        /\ \A j \in Calls \ {k} : pc'[j] = pc[j]
        /\ pc[k] = "log" /\ pc'[k] = "fork"
    BY <1>6 DEF LogForking, To, child, PopenTypeOK
  <2> QED
    BY <1>2, <2>1, <2>2 DEF Running
<1>7. ASSUME NEW k \in Calls, Fork(k) PROVE PopenIInv'
  <2>1. ParentInv'
    BY <1>1, <1>7, ForkKeeps
  <2>2. concurrent' = concurrent /\ pc[k] = "fork" /\ pc'[k] = "parent"
        /\ \A j \in Calls \ {k} : pc'[j] = pc[j]
    BY <1>7 DEF Fork, To, PopenTypeOK
  <2>3. OrderInv'
    BY <2>2, OrderKept DEF Running
  <2>4. ChildInv'
    BY <1>7, ForkedChild
  <2> QED
    BY <2>1, <2>3, <2>4 DEF ParentInv
<1>8. ASSUME NEW k \in Calls, ForkFails(k) PROVE PopenIInv'
  <2>1. ParentInv'
    BY <1>1, <1>8, ForkFailureKeeps
  <2>2. /\ UNCHANGED <<ctable, cpc, concurrent, fds>>
        /\ \A j \in Calls \ {k} : pc'[j] = pc[j]
        /\ pc[k] = "fork" /\ pc'[k] = "cleanup"
    BY <1>8 DEF ForkFails, To, child, PopenTypeOK
  <2> QED
    BY <1>2, <2>1, <2>2 DEF Running
<1>9. ASSUME NEW k \in Calls, CloseNext(k) \/ ClientStep(k) PROVE PopenIInv'
  <2>1. ParentInv'
    BY <1>1, <1>9, CloseNextKeeps, ClientKeeps
  <2>2. UNCHANGED <<ctable, cpc, concurrent, fds, pc>>
    BY <1>9 DEF CloseNext, ClientStep, ClientCloseStdin, ClientDone, child
  <2> QED
    BY <1>2, <2>1, <2>2
<1>10. ASSUME NEW k \in Calls, Return(k) PROVE PopenIInv'
  <2>1. ParentInv'
    BY <1>1, <1>10, ReturnKeeps
  <2>2. /\ UNCHANGED <<ctable, cpc, concurrent, fds>>
        /\ \A j \in Calls \ {k} : pc'[j] = pc[j]
        /\ \/ pc[k] = "parent" /\ pc'[k] = "returned"
           \/ pc[k] = "cleanup" /\ pc'[k] = "failed"
    BY <1>10 DEF Return, To, child, PopenTypeOK
  <2> QED
    BY <1>2, <2>1, <2>2 DEF Running
<1>11. ASSUME UNCHANGED <<table, pc, fds, closing, client, concurrent>>
       PROVE  CallInv' /\ TableInv' /\ OrderInv'
  <2>1. CallInv'
    <3>1. \A k \in Calls : CallOK(k)'
      BY <1>11, OtherCallsOK DEF CallInv
    <3> QED
      BY <3>1 DEF CallInv, CallOK
  <2>2. TableInv'
    <3>1. \A k : OpenEnds(k)' = OpenEnds(k)
      BY <1>11 DEF OpenEnds, Closing, Elements, RwePipe
    <3>2. \A e : FdOf(e)' = FdOf(e)
      BY <1>11 DEF FdOf
    <3> QED
      BY <1>11, <3>1, <3>2 DEF TableInv
  <2>3. OrderInv'
    BY <1>11 DEF OrderInv, Running
  <2> QED
    BY <2>1, <2>2, <2>3
<1>12. ASSUME NEW k \in Calls, ChildStep(k) \/ ExeExit(k) PROVE PopenIInv'
  <2>1. ChildInv' /\ PopenTypeOK'
    BY <1>12, ChildStepKeeps
  <2>2. UNCHANGED <<table, pc, fds, closing, client, concurrent>>
    BY <1>12 DEF ChildStep, ChildRedirects, Exec, ExecFails, ExeExit, caller
  <2> QED
    BY <1>11, <2>1, <2>2
<1>13. CASE OtherThreadLocks \/ OtherThreadUnlocks \/ Ended \/ UNCHANGED vars
  <2>1. UNCHANGED <<table, pc, fds, closing, client, concurrent, ctable, cpc>>
    BY <1>13 DEF OtherThreadLocks, OtherThreadUnlocks, Ended, vars, caller, child
  <2>2. PopenTypeOK'
    BY <2>1 DEF PopenTypeOK
  <2>3. ChildInv'
    BY <2>1, ChildrenUntouched DEF ChildInv, HeirInv
  <2> QED
    BY <1>11, <2>1, <2>2, <2>3
<1> QED
  BY <1>3, <1>4, <1>5, <1>6, <1>7, <1>8, <1>9, <1>10, <1>12, <1>13 DEF Next, ParentStep

LEMMA PopenCorrect == Spec => []PopenIInv
<1> QED
  BY PopenInitial, PopenInductive, PTL DEF Spec

\* A failed call, whichever pipe() or fork() it was that failed, leaves the parent no
\* descriptor, and a successful one leaves exactly the three of rwepipe that the client
\* has not closed (mutil.c: the labels error_in to error_fork, and the closes after
\* the fork).
THEOREM NothingLeaks == Spec => []NoLeak
<1>1. PopenIInv => NoLeak
  <2> SUFFICES ASSUME PopenIInv, NEW k \in Calls
               PROVE  LET have == {table[f] : f \in Fds} \cap {e \in Ends : e.call = k}
                      IN  /\ pc[k] = "failed" => have = {}
                          /\ pc[k] = "returned" => have = RwePipe(k)
    BY DEF NoLeak
  <2> DEFINE have == {table[f] : f \in Fds} \cap {e \in Ends : e.call = k}
  <2>1. have = OpenEnds(k)
    <3>1. \A e \in have : e \in OpenEnds(k)
      BY DEF PopenIInv, TableInv
    <3>2. \A e \in OpenEnds(k) : e \in Ends /\ e.call = k /\ FdOf(e) \in Fds /\ table[FdOf(e)] = e
      BY OpenEndsOwn DEF PopenIInv, TableInv, EndsOf
    <3> QED
      BY <3>1, <3>2
  <2>2. pc[k] = "failed" => OpenEnds(k) = {}
    BY DEF OpenEnds
  <2>3. pc[k] = "returned" => OpenEnds(k) = RwePipe(k)
    BY EmptyList DEF OpenEnds, PopenIInv, CallInv, CallOK, Closing
  <2> QED
    BY <2>1, <2>2, <2>3
<1> QED
  BY <1>1, PopenCorrect, PTL

\* exe finds its own pipes at descriptors 0, 1 and 2 (mutil.c: the three pairs of close
\* and dup in the child), in a parent that has these open itself.
THEOREM StdioIsRedirected ==
    ASSUME StandardFds \subseteq InitialFds
    PROVE  Spec => []ChildStdio
<1>1. PopenIInv => ChildStdio
  BY DEF PopenIInv, ChildInv, ExeInv, ChildStdio
<1> QED
  BY <1>1, PopenCorrect, PTL

\* Calls made one after the other leave no child with the writing end of its own stdin,
\* or of that of a younger child (mutil.c: the child's close(in[1]), and the fork).
THEOREM StdinOrdered == Spec => []StdinHeldByYounger
<1>1. PopenIInv => StdinHeldByYounger
  <2> SUFFICES ASSUME PopenIInv, ~concurrent, NEW c \in Calls, NEW k \in Calls,
                      cpc[c] \notin {"unused", "forked", "exited"},
                      NEW f \in Fds, ctable[c][f] = End(k, "in", "w")
               PROVE  k < c
    BY DEF StdinHeldByYounger, HeldByChild
  <2>1. End(k, "in", "w") \in Ends /\ End(k, "in", "w").call = k
    BY EndFields DEF Pipes, Dirs
  <2>2. k <= c
    BY <2>1 DEF PopenIInv, ChildInv, HeirInv
  <2>3. k # c
    BY DEF PopenIInv, PopenTypeOK, ChildInv, ExeInv
  <2> QED
    BY <2>2, <2>3, PopenConstants DEF Calls
<1> QED
  BY <1>1, PopenCorrect, PTL
=============================================================================
