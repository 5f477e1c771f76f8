----------------------------- MODULE MNetProofs -----------------------------
(***************************************************************************)
(* Proofs about the sockets, for any number of calls, descriptors and      *)
(* addresses.  The invariant follows one call: which socket it has, in     *)
(* which state, and whether its list of addresses is allocated.  The calls *)
(* share the descriptor table, so that each has to leave the descriptors   *)
(* of the others alone.                                                    *)
(***************************************************************************)
EXTENDS MNet, FiniteSetTheorems, WellFoundedInduction, TLAPS

Results == Int \cup {NULL}

NetTypeOK ==
    /\ sock \in [Fds -> Things \cup {NULL}]
    /\ kind \in [Calls -> Kinds \cup {NULL}]
    /\ pc \in [Calls -> {"unused", "getaddrinfo", "cleanup", "loop", "socket", "address",
                         "bind", "listen", "connect", "returned", "closed"}]
    /\ fd \in [Calls -> Int]
    /\ infop \in [Calls -> [list : Seq(Addrs), allocated : BOOLEAN]]
    /\ ret \in [Calls -> Results]

\* The functions that come to a place.
KindInv(k) ==
    /\ pc[k] \in {"address", "bind"} => kind[k] \in {"udp", "tcp"}
    /\ pc[k] = "listen" => kind[k] = "tcp"
    /\ pc[k] = "connect" => kind[k] \in {"client", "nix"}
    /\ pc[k] = "loop" => kind[k] = "client"
    /\ pc[k] \in {"getaddrinfo", "cleanup"} => kind[k] \in {"client", "lookup"}

\* A call that is still busy with its socket has this one, and no other.
Has(k, f, state) ==
    f \in Fds /\ Sockets(k) = {f} /\ sock[f] = [call |-> k, state |-> state]

SocketInv(k) ==
    /\ pc[k] \in {"unused", "getaddrinfo", "loop", "socket", "closed"} => Sockets(k) = {}
    /\ pc[k] \in {"address", "bind", "connect"} => Has(k, fd[k], "open")
    /\ pc[k] = "listen" => Has(k, fd[k], "bound")

\* What a call comes to: the socket it has promised; or an error, with perhaps one
\* socket left that is something less; or addresses.
Worked(k) == Has(k, ret[k], Promised(k))
Failed(k) ==
    /\ ret[k] = ErrorValue(k)
    /\ \/ Sockets(k) = {}
       \/ \E f \in Fds, s \in States \ {Promised(k)} : Has(k, f, s)

ResultInv(k) ==
    pc[k] \in {"cleanup", "returned"} =>
        IF kind[k] = "lookup" THEN Sockets(k) = {} ELSE Worked(k) \/ Failed(k)

AddrinfoInv(k) ==
    infop[k].allocated =>
        kind[k] \in {"client", "lookup"} /\ pc[k] \in {"loop", "socket", "connect", "cleanup"}

\* What was in use at the start stays in use.
UsedInv == \A f \in UsedFds : sock[f] = [call |-> 0, state |-> "used"]

CallInv(k) == KindInv(k) /\ SocketInv(k) /\ ResultInv(k) /\ AddrinfoInv(k)

NetIInv == NetTypeOK /\ UsedInv /\ \A k \in Calls : CallInv(k)

-----------------------------------------------------------------------------
(***************************************************************************)
(* The descriptor table.                                                   *)
(***************************************************************************)
\* A set of descriptors has a lowest one.
LEMMA LowestIsFree == ASSUME Free # {} PROVE Lowest \in Free
<1> DEFINE R == OpToRel(<, Nat)
<1>1. \A x, y \in Nat : <<y, x>> \in R <=> y < x
  BY DEF OpToRel
<1>2. IsWellFoundedOn(R, Nat)
  BY NatLessThanWellFounded
<1>3. Free \subseteq Nat
  BY NetConstants DEF Free, Fds
<1> HIDE DEF R
<1>4. PICK f \in Free : \A g \in Free : ~(<<g, f>> \in R)
  BY <1>2, <1>3, WFMin
<1>5. \A g \in Free : f <= g
  <2> SUFFICES ASSUME NEW g \in Free PROVE f <= g
    OBVIOUS
  <2>1. f \in Nat /\ g \in Nat /\ ~(g < f)
    BY <1>1, <1>3, <1>4
  <2> QED
    BY <2>1
<1> QED
  BY <1>5 DEF Lowest

LEMMA ResultValues == -1 \in Results /\ 0 \in Results /\ 1 \in Results /\ Fds \subseteq Results
  BY NetConstants DEF Results, Fds

LEMMA ThingFields ==
    ASSUME NEW k \in Calls, NEW s \in States
    PROVE  /\ [call |-> k, state |-> s] \in Things /\ [call |-> k, state |-> s] # NULL
           /\ [call |-> k, state |-> s].call = k
  BY NetConstants, NetNull DEF Things, Calls

\* socket() gives a call that had no socket the lowest free descriptor.
LEMMA SocketMade ==
    ASSUME NetTypeOK, NEW k \in Calls, Sockets(k) = {}, Free # {},
           sock' = [sock EXCEPT ![Lowest] = [call |-> k, state |-> "open"]]
    PROVE  /\ Lowest \in Fds /\ sock[Lowest] = NULL /\ Sockets(k)' = {Lowest}
           /\ sock'[Lowest] = [call |-> k, state |-> "open"]
<1>1. Lowest \in Fds /\ sock[Lowest] = NULL
  BY LowestIsFree DEF Free
<1> DEFINE n == Lowest
<1> HIDE DEF n
<1>2. \A f \in Fds : sock'[f] = IF f = n THEN [call |-> k, state |-> "open"] ELSE sock[f]
  BY DEF NetTypeOK, n
<1>3. [call |-> k, state |-> "open"] # NULL
  BY ThingFields DEF States
<1>4. Sockets(k)' = {n}
  <2>1. sock'[n] # NULL /\ sock'[n].call = k /\ n \in Fds
    BY <1>1, <1>2, <1>3 DEF n
  <2>2. \A f \in Fds : f # n => ~(sock'[f] # NULL /\ sock'[f].call = k)
    BY <1>2 DEF Sockets
  <2> QED
    BY <2>1, <2>2 DEF Sockets
<1>5. sock'[n] = [call |-> k, state |-> "open"] /\ n \in Fds
  BY <1>1, <1>2 DEF n
<1> QED
  BY <1>1, <1>4, <1>5 DEF n

\* bind, listen and connect change the state of the socket.
LEMMA SocketMoves ==
    ASSUME NetTypeOK, NEW k \in Calls, NEW s, NEW t \in States, Has(k, fd[k], s),
           sock' = [sock EXCEPT ![fd[k]].state = t]
    PROVE  /\ sock' = [sock EXCEPT ![fd[k]] = [call |-> k, state |-> t]]
           /\ Sockets(k)' = {fd[k]} /\ fd[k] \in Fds
           /\ sock'[fd[k]] = [call |-> k, state |-> t]
<1> DEFINE f == fd[k]
<1> HIDE DEF f
<1>0. Has(k, f, s) /\ sock' = [sock EXCEPT ![f].state = t]
  BY DEF f
<1>1. f \in Fds /\ Sockets(k) = {f} /\ sock[f] = [call |-> k, state |-> s]
  BY <1>0 DEF Has
<1>2. sock' = [sock EXCEPT ![f] = [call |-> k, state |-> t]]
  <2>1. [sock[f] EXCEPT !.state = t] = [call |-> k, state |-> t]
    BY <1>1
  <2> QED
    BY <1>0, <2>1
<1>3. \A g \in Fds : sock'[g] = IF g = f THEN [call |-> k, state |-> t] ELSE sock[g]
  BY <1>2 DEF NetTypeOK
<1>4. Sockets(k)' = {f}
  <2>1. sock'[f] # NULL /\ sock'[f].call = k
    BY <1>1, <1>3, ThingFields
  <2>2. \A g \in Fds : g # f => ~(sock'[g] # NULL /\ sock'[g].call = k)
    BY <1>1, <1>3 DEF Sockets
  <2> QED
    BY <1>1, <2>1, <2>2 DEF Sockets
<1> QED
  BY <1>1, <1>2, <1>3, <1>4 DEF f

-----------------------------------------------------------------------------
(***************************************************************************)
(* A step of call j changes only what belongs to j, at most one descriptor *)
(* that is free or its own.                                                *)
(***************************************************************************)
OnlyCall(j) ==
    \A k \in Calls \ {j} : /\ kind'[k] = kind[k] /\ pc'[k] = pc[k] /\ fd'[k] = fd[k]
                           /\ infop'[k] = infop[k] /\ ret'[k] = ret[k]

OnlySocket(j) ==
    \/ sock' = sock
    \/ \E f \in Fds, v \in Things \cup {NULL} :
          /\ sock' = [sock EXCEPT ![f] = v]
          /\ sock[f] = NULL \/ sock[f].call = j
          /\ v = NULL \/ v.call = j

LEMMA StepOfCall ==
    ASSUME NetIInv, NEW j \in Calls, NetTypeOK', OnlyCall(j), OnlySocket(j), CallInv(j)'
    PROVE  NetIInv'
<1>1. NetTypeOK /\ UsedInv /\ j # 0
  BY NetConstants DEF NetIInv, Calls
<1>2. ASSUME NEW k \in (Calls \cup {0}) \ {j}, NEW f \in Fds
      PROVE  /\ sock[f] # NULL /\ sock[f].call = k => sock'[f] = sock[f]
             /\ sock'[f] # NULL /\ sock'[f].call = k => sock'[f] = sock[f]
  BY <1>1, <1>2 DEF OnlySocket, NetTypeOK
<1>3. UsedInv'
  <2> SUFFICES ASSUME NEW f \in UsedFds PROVE sock'[f] = [call |-> 0, state |-> "used"]
    BY DEF UsedInv
  <2>1. f \in Fds /\ sock[f] = [call |-> 0, state |-> "used"]
    BY <1>1, NetConstants DEF UsedInv
  <2>2. [call |-> 0, state |-> "used"] # NULL
    BY NetConstants, NetNull DEF Things, States
  <2> QED
    BY <1>1, <1>2, <2>1, <2>2
<1>4. ASSUME NEW k \in Calls, k # j PROVE CallInv(k)'
  <2>1. Sockets(k)' = Sockets(k) /\ \A f \in Sockets(k) : sock'[f] = sock[f]
    BY <1>2, <1>4 DEF Sockets
  <2>2. \A f, s : Has(k, f, s) => Has(k, f, s)'
    BY <2>1 DEF Has
  <2>3. /\ kind'[k] = kind[k] /\ pc'[k] = pc[k] /\ fd'[k] = fd[k]
        /\ infop'[k] = infop[k] /\ ret'[k] = ret[k]
    BY <1>4 DEF OnlyCall
  <2>4. CallInv(k)
    BY DEF NetIInv
  <2>5. KindInv(k)' /\ AddrinfoInv(k)'
    BY <2>3, <2>4 DEF CallInv, KindInv, AddrinfoInv
  <2>6. SocketInv(k)'
    <3>1. /\ Has(k, fd[k], "open") => Has(k, fd[k], "open")'
          /\ Has(k, fd[k], "bound") => Has(k, fd[k], "bound")'
      <4>1. ASSUME NEW s, Has(k, fd[k], s) PROVE Has(k, fd[k], s)'
        BY <2>1, <2>3, <4>1 DEF Has
      <4> QED
        BY <4>1
    <3> QED
      BY <2>1, <2>3, <2>4, <3>1 DEF CallInv, SocketInv
  <2>7. ResultInv(k)'
    <3>1. Promised(k)' = Promised(k) /\ ErrorValue(k)' = ErrorValue(k)
      BY <2>3 DEF Promised, ErrorValue
    <3>2. Worked(k) => Worked(k)'
      BY <2>1, <2>3, <3>1 DEF Worked, Has
    <3>3. Failed(k) => Failed(k)'
      BY <2>1, <2>2, <2>3, <3>1 DEF Failed
    <3> QED
      BY <2>1, <2>3, <2>4, <3>2, <3>3 DEF CallInv, ResultInv
  <2> QED
    BY <2>5, <2>6, <2>7 DEF CallInv
<1> QED
  BY <1>3, <1>4 DEF NetIInv

\* A step that leaves the descriptor table alone leaves a call its socket.
LEMMA SameSockets ==
    ASSUME UNCHANGED sock, NEW k
    PROVE  Sockets(k)' = Sockets(k) /\ \A f, s : Has(k, f, s)' <=> Has(k, f, s)
  BY DEF Sockets, Has

-----------------------------------------------------------------------------
(***************************************************************************)
(* The steps of the functions.                                             *)
(***************************************************************************)
\* Getting and freeing the addresses, and the loop over them.
LEMMA AddressesKeep ==
    ASSUME NetIInv, NEW j \in Calls,
           GetAddrInfo(j) \/ GetAddrInfoFails(j) \/ FreeAddrInfo(j) \/ Loop(j)
    PROVE  NetIInv'
<1> USE DEF To, Cleanup, Return
<1>1. NetTypeOK /\ CallInv(j)
  BY DEF NetIInv
<1>2. OnlySocket(j) /\ UNCHANGED <<sock, kind, fd>>
  BY DEF GetAddrInfo, GetAddrInfoFails, FreeAddrInfo, Loop, OnlySocket
<1>3. OnlyCall(j)
  BY <1>1 DEF NetTypeOK, OnlyCall, GetAddrInfo, GetAddrInfoFails, FreeAddrInfo, Loop
<1>4. /\ Sockets(j)' = Sockets(j) /\ \A f, s : Has(j, f, s)' <=> Has(j, f, s)
      /\ Promised(j)' = Promised(j) /\ ErrorValue(j)' = ErrorValue(j)
  BY <1>2, SameSockets DEF Promised, ErrorValue
<1>5. CASE GetAddrInfo(j)
  <2>1. PICK list \in Hosts :
             /\ infop' = [infop EXCEPT ![j] = [list |-> list, allocated |-> TRUE]]
             /\ rest' = [rest EXCEPT ![j] = list]
    BY <1>5 DEF GetAddrInfo
  <2>2. list \in Seq(Addrs)
    BY NetConstants
  <2>3. /\ pc[j] = "getaddrinfo" /\ kind[j] \in {"client", "lookup"}
        /\ kind[j] = "lookup" => pc'[j] = "cleanup"
        /\ kind[j] # "lookup" => pc'[j] = "loop"
        /\ pc' \in {[pc EXCEPT ![j] = "cleanup"], [pc EXCEPT ![j] = "loop"]}
        /\ ret' \in [Calls -> Results]
    BY <1>1, <1>5, ResultValues DEF GetAddrInfo, CallInv, KindInv, NetTypeOK
  <2>4. NetTypeOK'
    BY <1>1, <1>2, <2>1, <2>2, <2>3 DEF NetTypeOK
  <2>5. CallInv(j)'
    BY <1>1, <1>2, <1>4, <2>3 DEF CallInv, KindInv, SocketInv, ResultInv, AddrinfoInv
  <2> QED
    BY <1>2, <1>3, <2>4, <2>5, StepOfCall
<1>6. CASE GetAddrInfoFails(j)
  <2>1. /\ pc[j] = "getaddrinfo" /\ pc' = [pc EXCEPT ![j] = "cleanup"]
        /\ kind[j] \in {"client", "lookup"} /\ ret' \in [Calls -> Results]
        /\ kind[j] # "lookup" => ret'[j] = -1
        /\ UNCHANGED <<infop, rest>>
    BY <1>1, <1>6, ResultValues DEF GetAddrInfoFails, CallInv, KindInv, NetTypeOK
  <2>2. NetTypeOK'
    BY <1>1, <1>2, <2>1 DEF NetTypeOK
  <2>3. pc'[j] = "cleanup" /\ Sockets(j)' = {}
    BY <1>1, <1>4, <2>1 DEF NetTypeOK, CallInv, SocketInv
  <2>4. kind[j] # "lookup" => Failed(j)'
    BY <1>2, <2>1, <2>3 DEF Failed, ErrorValue
  <2>5. CallInv(j)'
    BY <1>1, <1>2, <2>1, <2>3, <2>4 DEF CallInv, KindInv, SocketInv, ResultInv, AddrinfoInv
  <2> QED
    BY <1>2, <1>3, <2>2, <2>5, StepOfCall
<1>7. CASE FreeAddrInfo(j)
  <2>1. /\ pc[j] = "cleanup" /\ pc' = [pc EXCEPT ![j] = "returned"]
        /\ infop' = [infop EXCEPT ![j].allocated = FALSE] /\ ret' = [ret EXCEPT ![j] = ret[j]]
        /\ rest' = rest
    BY <1>7 DEF FreeAddrInfo
  <2>2. ret' = ret
    BY <1>1, <2>1 DEF NetTypeOK
  <2>3. NetTypeOK' /\ infop'[j].allocated = FALSE /\ pc'[j] = "returned"
    BY <1>1, <1>2, <2>1, <2>2 DEF NetTypeOK
  <2>4. ResultInv(j)'
    <3>1. /\ kind[j] # "lookup" => Worked(j) \/ Failed(j)
          /\ kind[j] = "lookup" => Sockets(j) = {}
      BY <1>1, <2>1 DEF CallInv, ResultInv
    <3>2. (Worked(j) => Worked(j)') /\ (Failed(j) => Failed(j)')
      BY <1>2, <2>2 DEF Worked, Failed, Has, Sockets, Promised, ErrorValue
    <3> QED
      BY <1>2, <1>4, <3>1, <3>2 DEF ResultInv
  <2>5. CallInv(j)'
    BY <2>3, <2>4 DEF CallInv, KindInv, SocketInv, AddrinfoInv
  <2> QED
    BY <1>2, <1>3, <2>3, <2>5, StepOfCall
<1>8. CASE Loop(j)
  <2>1. /\ pc[j] = "loop" /\ kind[j] = "client" /\ Sockets(j) = {}
        /\ UNCHANGED <<infop, rest>> /\ ret' \in [Calls -> Results]
        /\ \/ pc' = [pc EXCEPT ![j] = "socket"]
           \/ pc' = [pc EXCEPT ![j] = "cleanup"] /\ ret'[j] = -1
    BY <1>1, <1>8, ResultValues DEF Loop, CallInv, KindInv, SocketInv, NetTypeOK
  <2>2. NetTypeOK'
    BY <1>1, <1>2, <2>1 DEF NetTypeOK
  <2>3. pc'[j] = "socket" \/ (pc'[j] = "cleanup" /\ ret'[j] = -1)
    BY <1>1, <2>1 DEF NetTypeOK
  <2>4. pc'[j] = "cleanup" => Failed(j)'
    BY <1>2, <1>4, <2>1, <2>3 DEF Failed, ErrorValue
  <2>5. CallInv(j)'
    BY <1>1, <1>2, <1>4, <2>1, <2>3, <2>4 DEF CallInv, KindInv, SocketInv, ResultInv, AddrinfoInv
  <2> QED
    BY <1>2, <1>3, <2>2, <2>5, StepOfCall
<1> QED
  BY <1>5, <1>6, <1>7, <1>8

\* socket() succeeds or fails.
LEMMA SocketKeeps ==
    ASSUME NetIInv, NEW j \in Calls, kind[j] \in {"udp", "tcp", "client", "nix"},
           Socket(j) \/ SocketFails(j)
    PROVE  NetIInv'
<1> USE DEF To, Return
<1>1. NetTypeOK /\ CallInv(j) /\ pc[j] = "socket" /\ Sockets(j) = {}
  BY DEF NetIInv, Socket, SocketFails, CallInv, SocketInv
<1>2. OnlyCall(j) /\ UNCHANGED <<kind, infop>>
  BY <1>1 DEF NetTypeOK, OnlyCall, Socket, SocketFails
<1>3. CASE Socket(j)
  <2>1. /\ Free # {} /\ fd' = [fd EXCEPT ![j] = Lowest]
        /\ sock' = [sock EXCEPT ![Lowest] = [call |-> j, state |-> "open"]]
        /\ \/ pc' = [pc EXCEPT ![j] = "address"] /\ kind[j] \in {"udp", "tcp"}
           \/ pc' = [pc EXCEPT ![j] = "connect"] /\ kind[j] \notin {"udp", "tcp"}
        /\ UNCHANGED <<rest, ret>>
    BY <1>3 DEF Socket
  <2>2. /\ Lowest \in Fds /\ sock[Lowest] = NULL /\ Sockets(j)' = {Lowest}
        /\ sock'[Lowest] = [call |-> j, state |-> "open"]
    BY <1>1, <2>1, SocketMade
  <2>3. Lowest \in Int
    BY <2>2, NetConstants DEF Fds
  <2>4. [call |-> j, state |-> "open"] \in Things
    BY ThingFields DEF States
  <2>5. NetTypeOK'
    BY <1>1, <1>2, <2>1, <2>2, <2>3, <2>4 DEF NetTypeOK
  <2>6. OnlySocket(j)
    <3>1. [call |-> j, state |-> "open"].call = j
      OBVIOUS
    <3> QED
      BY <2>1, <2>2, <2>4, <3>1 DEF OnlySocket
  <2>7. Has(j, fd[j], "open")'
    <3>1. fd'[j] = Lowest
      BY <1>1, <2>1 DEF NetTypeOK
    <3> QED
      BY <2>2, <3>1 DEF Has
  <2>8. \/ pc'[j] = "address" /\ kind'[j] \in {"udp", "tcp"}
        \/ pc'[j] = "connect" /\ kind'[j] \in {"client", "nix"}
    BY <1>1, <1>2, <2>1 DEF NetTypeOK
  <2>9. CallInv(j)'
    BY <1>1, <1>2, <2>7, <2>8 DEF CallInv, KindInv, SocketInv, ResultInv, AddrinfoInv
  <2> QED
    BY <1>2, <2>5, <2>6, <2>9, StepOfCall
<1>4. CASE SocketFails(j)
  <2>1. /\ OnlySocket(j) /\ UNCHANGED <<sock, fd>> /\ ret' \in [Calls -> Results]
        /\ \/ /\ pc' = [pc EXCEPT ![j] = "returned"] /\ rest' = rest
              /\ kind[j] # "client" /\ ret'[j] = ErrorValue(j)
           \/ /\ pc' = [pc EXCEPT ![j] = "loop"] /\ rest' = [rest EXCEPT ![j] = Tail(@)]
              /\ kind[j] = "client"
    BY <1>1, <1>4, ResultValues DEF SocketFails, OnlySocket, ErrorValue, NetTypeOK
  <2>2. NetTypeOK'
    BY <1>1, <1>2, <2>1 DEF NetTypeOK
  <2>3. Sockets(j)' = {} /\ ErrorValue(j)' = ErrorValue(j)
    BY <1>1, <1>2, <2>1, SameSockets DEF ErrorValue
  <2>4. \/ pc'[j] = "returned" /\ Failed(j)' /\ kind'[j] # "client"
        \/ pc'[j] = "loop" /\ kind'[j] = "client"
    BY <1>1, <1>2, <2>1, <2>3 DEF NetTypeOK, Failed
  <2>5. CallInv(j)'
    BY <1>1, <1>2, <2>3, <2>4 DEF CallInv, KindInv, SocketInv, ResultInv, AddrinfoInv
  <2> QED
    BY <1>2, <2>1, <2>2, <2>5, StepOfCall
<1> QED
  BY <1>3, <1>4

\* A socket changes its state, or stays where it is when the call gives up.
LEMMA GivenUp ==
    ASSUME NetTypeOK, UNCHANGED <<sock, kind>>, NEW j \in Calls, NEW s \in {"open", "bound"},
           Has(j, fd[j], s), s # Promised(j), ret'[j] = ErrorValue(j)
    PROVE  Failed(j)'
<1>1. Has(j, fd[j], s)
  OBVIOUS
<1> DEFINE f == fd[j]
<1>2. f \in Fds /\ Sockets(j)' = {f} /\ sock'[f] = [call |-> j, state |-> s]
  BY <1>1, SameSockets DEF Has
<1>3. Promised(j)' = Promised(j) /\ ErrorValue(j)' = ErrorValue(j)
  BY DEF Promised, ErrorValue
<1>4. s \in States \ {Promised(j)'}
  BY <1>3 DEF States
<1> HIDE DEF f
<1>5. \E g \in Fds, t \in States \ {Promised(j)'} :
         Sockets(j)' = {g} /\ sock'[g] = [call |-> j, state |-> t]
  BY <1>2, <1>4
<1> QED
  BY <1>3, <1>5 DEF Failed, Has

LEMMA ServerKeeps ==
    ASSUME NetIInv, NEW j \in Calls, kind[j] \in {"udp", "tcp"},
           \/ InetAddr(j) \/ ServerFails(j) \/ Bind(j)
           \/ kind[j] = "tcp" /\ Listen(j)
    PROVE  NetIInv'
<1> USE DEF To, Return
<1>1. NetTypeOK /\ CallInv(j)
  BY DEF NetIInv
<1>2. OnlyCall(j) /\ UNCHANGED <<kind, infop, fd>>
  BY <1>1 DEF NetTypeOK, OnlyCall, InetAddr, ServerFails, Bind, Listen
<1>3. infop[j].allocated = FALSE
  BY <1>1 DEF NetTypeOK, CallInv, AddrinfoInv
<1>4. fd[j] \in Int
  BY <1>1 DEF NetTypeOK
<1>5. CASE InetAddr(j)
  <2>1. /\ pc[j] = "address" /\ pc' = [pc EXCEPT ![j] = "bind"] /\ UNCHANGED <<sock, ret>>
        /\ OnlySocket(j)
    BY <1>5 DEF InetAddr, OnlySocket
  <2>2. NetTypeOK' /\ pc'[j] = "bind"
    BY <1>1, <1>2, <2>1 DEF NetTypeOK
  <2>3. Has(j, fd[j], "open")'
    BY <1>1, <1>2, <2>1 DEF CallInv, SocketInv, Has, Sockets
  <2>4. CallInv(j)'
    BY <1>2, <1>3, <2>2, <2>3 DEF CallInv, KindInv, SocketInv, ResultInv, AddrinfoInv
  <2> QED
    BY <1>2, <2>1, <2>2, <2>4, StepOfCall
<1>6. CASE ServerFails(j)
  <2>1. /\ pc' = [pc EXCEPT ![j] = "returned"] /\ UNCHANGED sock
        /\ ret' = [ret EXCEPT ![j] = 0] /\ OnlySocket(j)
    BY <1>6 DEF ServerFails, OnlySocket
  <2>2. NetTypeOK' /\ pc'[j] = "returned" /\ ret'[j] = 0
    BY <1>1, <1>2, <2>1, ResultValues DEF NetTypeOK
  <2>3. PICK s \in {"open", "bound"} : Has(j, fd[j], s) /\ s # Promised(j)
    BY <1>1, <1>6 DEF ServerFails, CallInv, KindInv, SocketInv, Promised
  <2>4. Failed(j)'
    BY <1>1, <1>2, <2>1, <2>2, <2>3, GivenUp DEF ErrorValue
  <2>5. CallInv(j)'
    BY <1>2, <1>3, <2>2, <2>4 DEF CallInv, KindInv, SocketInv, ResultInv, AddrinfoInv
  <2> QED
    BY <1>2, <2>1, <2>2, <2>5, StepOfCall
<1>7. ASSUME NEW s \in {"open", "bound"}, NEW t \in {"bound", "listening"}, Has(j, fd[j], s),
             sock' = [sock EXCEPT ![fd[j]].state = t],
             \/ pc' = [pc EXCEPT ![j] = "returned"] /\ ret' = [ret EXCEPT ![j] = fd[j]]
                   /\ t = Promised(j)
             \/ pc' = [pc EXCEPT ![j] = "listen"] /\ UNCHANGED ret /\ kind[j] = "tcp" /\ t = "bound"
      PROVE  NetIInv'
  <2>1. t \in States
    BY DEF States
  <2>2. /\ sock' = [sock EXCEPT ![fd[j]] = [call |-> j, state |-> t]]
        /\ Sockets(j)' = {fd[j]} /\ fd[j] \in Fds /\ sock'[fd[j]] = [call |-> j, state |-> t]
    <3>1. Has(j, fd[j], s) /\ sock' = [sock EXCEPT ![fd[j]].state = t]
      BY <1>7
    <3> QED
      BY <1>1, <2>1, <3>1, SocketMoves
  <2>3. [call |-> j, state |-> t] \in Things /\ [call |-> j, state |-> t].call = j
    BY <2>1, ThingFields
  <2>4. sock[fd[j]].call = j
    BY <1>7 DEF Has
  <2>5. OnlySocket(j)
    BY <2>2, <2>3, <2>4 DEF OnlySocket
  <2>6. fd[j] \in Results
    BY <2>2, ResultValues
  <2>7. NetTypeOK'
    <3>1. sock' \in [Fds -> Things \cup {NULL}]
      BY <1>1, <2>2, <2>3 DEF NetTypeOK
    <3> QED
      BY <1>1, <1>2, <1>7, <2>6, <3>1 DEF NetTypeOK
  <2>8. CASE pc' = [pc EXCEPT ![j] = "returned"] /\ ret' = [ret EXCEPT ![j] = fd[j]] /\ t = Promised(j)
    <3>1. pc'[j] = "returned" /\ ret'[j] = fd[j] /\ Promised(j)' = t
      BY <1>1, <1>2, <2>8 DEF NetTypeOK, Promised
    <3>2. Worked(j)'
      BY <2>2, <3>1 DEF Worked, Has
    <3>3. CallInv(j)'
      BY <1>2, <1>3, <3>1, <3>2 DEF CallInv, KindInv, SocketInv, ResultInv, AddrinfoInv
    <3> QED
      BY <1>2, <2>5, <2>7, <3>3, StepOfCall
  <2>9. CASE pc' = [pc EXCEPT ![j] = "listen"] /\ UNCHANGED ret /\ kind[j] = "tcp" /\ t = "bound"
    <3>1. pc'[j] = "listen"
      BY <1>1, <2>9 DEF NetTypeOK
    <3>2. Has(j, fd[j], "bound")'
      BY <1>2, <2>2, <2>9 DEF Has
    <3>3. CallInv(j)'
      BY <1>2, <1>3, <2>9, <3>1, <3>2 DEF CallInv, KindInv, SocketInv, ResultInv, AddrinfoInv
    <3> QED
      BY <1>2, <2>5, <2>7, <3>3, StepOfCall
  <2> QED
    BY <1>7, <2>8, <2>9
<1>8. CASE Bind(j)
  <2>1. Has(j, fd[j], "open") /\ sock' = [sock EXCEPT ![fd[j]].state = "bound"]
    BY <1>1, <1>8 DEF Bind, CallInv, SocketInv
  <2>2. CASE kind[j] = "udp"
    <3>1. "bound" = Promised(j)
      BY <2>2 DEF Promised
    <3> QED
      BY <1>7, <1>8, <2>1, <2>2, <3>1 DEF Bind
  <2>3. CASE kind[j] = "tcp"
    BY <1>7, <1>8, <2>1, <2>3 DEF Bind
  <2> QED
    BY <2>2, <2>3
<1>9. CASE kind[j] = "tcp" /\ Listen(j)
  <2>1. Has(j, fd[j], "bound") /\ sock' = [sock EXCEPT ![fd[j]].state = "listening"]
    BY <1>1, <1>9 DEF Listen, CallInv, SocketInv
  <2>2. "listening" = Promised(j)
    BY <1>9 DEF Promised
  <2> QED
    BY <1>7, <1>9, <2>1, <2>2 DEF Listen
<1> QED
  BY <1>5, <1>6, <1>8, <1>9

\* connect() succeeds or fails; connect_tcp_client goes on to free its list.
LEMMA ConnectKeeps ==
    ASSUME NetIInv, NEW j \in Calls, kind[j] \in {"client", "nix"}, Connect(j) \/ ConnectFails(j)
    PROVE  NetIInv'
<1> USE DEF To, Return, Cleanup
<1>1. NetTypeOK /\ CallInv(j) /\ Has(j, fd[j], "open")
  BY DEF NetIInv, CallInv, SocketInv, Connect, ConnectFails
<1>2. OnlyCall(j) /\ UNCHANGED <<kind, infop, fd>>
  BY <1>1 DEF NetTypeOK, OnlyCall, Connect, ConnectFails
<1>3. Promised(j) = "connected" /\ ErrorValue(j) = -1 /\ UNCHANGED <<Promised(j), ErrorValue(j)>>
  BY <1>2 DEF Promised, ErrorValue
<1>4. /\ infop[j].allocated => kind[j] = "client"
      /\ fd[j] \in Fds
  BY <1>1 DEF CallInv, AddrinfoInv, Has
<1>5. \/ kind[j] = "client" /\ pc' = [pc EXCEPT ![j] = "cleanup"]
      \/ kind[j] = "nix" /\ pc' = [pc EXCEPT ![j] = "returned"]
  BY DEF Connect, ConnectFails
<1>6. \/ kind[j] = "client" /\ pc'[j] = "cleanup"
      \/ kind[j] = "nix" /\ pc'[j] = "returned"
  BY <1>1, <1>5 DEF NetTypeOK
<1>7. pc' \in [Calls -> {"unused", "getaddrinfo", "cleanup", "loop", "socket", "address",
                         "bind", "listen", "connect", "returned", "closed"}]
  BY <1>1, <1>5 DEF NetTypeOK
<1>8. ASSUME Worked(j)' \/ Failed(j)' PROVE CallInv(j)'
  BY <1>2, <1>4, <1>6, <1>8 DEF CallInv, KindInv, SocketInv, ResultInv, AddrinfoInv
<1>9. CASE Connect(j)
  <2>1. /\ sock' = [sock EXCEPT ![fd[j]].state = "connected"]
        /\ ret' = [ret EXCEPT ![j] = fd[j]]
    BY <1>9 DEF Connect
  <2>2. /\ sock' = [sock EXCEPT ![fd[j]] = [call |-> j, state |-> "connected"]]
        /\ Sockets(j)' = {fd[j]} /\ sock'[fd[j]] = [call |-> j, state |-> "connected"]
    BY <1>1, <2>1, SocketMoves DEF States
  <2>3. [call |-> j, state |-> "connected"] \in Things
        /\ [call |-> j, state |-> "connected"].call = j
    BY ThingFields DEF States
  <2>4. OnlySocket(j)
    <3>1. sock[fd[j]].call = j
      BY <1>1 DEF Has
    <3> QED
      BY <1>4, <2>2, <2>3, <3>1 DEF OnlySocket
  <2>5. NetTypeOK'
    <3>1. sock' \in [Fds -> Things \cup {NULL}]
      BY <1>1, <2>2, <2>3 DEF NetTypeOK
    <3>2. ret' \in [Calls -> Results]
      BY <1>1, <1>4, <2>1, ResultValues DEF NetTypeOK
    <3> QED
      BY <1>1, <1>2, <1>7, <3>1, <3>2 DEF NetTypeOK
  <2>6. Worked(j)'
    <3>1. ret'[j] = fd[j]
      BY <1>1, <2>1 DEF NetTypeOK
    <3> QED
      BY <1>3, <1>4, <2>2, <3>1 DEF Worked, Has
  <2> QED
    BY <1>2, <1>8, <2>4, <2>5, <2>6, StepOfCall
<1>10. CASE ConnectFails(j)
  <2>1. /\ UNCHANGED sock /\ ret' = [ret EXCEPT ![j] = -1] /\ OnlySocket(j)
    BY <1>10 DEF ConnectFails, OnlySocket
  <2>2. NetTypeOK' /\ ret'[j] = -1
    BY <1>1, <1>2, <1>7, <2>1, ResultValues DEF NetTypeOK
  <2>3. Failed(j)'
    BY <1>1, <1>2, <1>3, <2>1, <2>2, GivenUp
  <2> QED
    BY <1>2, <1>8, <2>1, <2>2, <2>3, StepOfCall
<1> QED
  BY <1>9, <1>10

\* The client makes a call, or closes the socket it has got.
LEMMA ClientKeeps ==
    ASSUME NetIInv, NEW j \in Calls, ClientStep(j)
    PROVE  NetIInv'
<1>1. NetTypeOK /\ CallInv(j)
  BY DEF NetIInv
<1>2. ASSUME NEW what \in Kinds, Call(j, what) PROVE NetIInv'
  <2>1. /\ pc[j] = "unused" /\ kind' = [kind EXCEPT ![j] = what]
        /\ \/ pc' = [pc EXCEPT ![j] = "getaddrinfo"] /\ what \in {"client", "lookup"}
           \/ pc' = [pc EXCEPT ![j] = "socket"]
        /\ UNCHANGED <<sock, fd, infop, ret>>
    BY <1>2 DEF Call, To
  <2>2. NetTypeOK' /\ OnlyCall(j) /\ OnlySocket(j)
    BY <1>1, <2>1 DEF NetTypeOK, OnlyCall, OnlySocket
  <2>3. /\ pc'[j] = "socket" \/ (pc'[j] = "getaddrinfo" /\ kind'[j] \in {"client", "lookup"})
        /\ Sockets(j)' = {} /\ ~infop'[j].allocated
    BY <1>1, <2>1 DEF NetTypeOK, CallInv, SocketInv, AddrinfoInv, Sockets
  <2>4. CallInv(j)'
    BY <2>3 DEF CallInv, KindInv, SocketInv, ResultInv, AddrinfoInv
  <2> QED
    BY <2>2, <2>4, StepOfCall
<1>3. CASE Close(j)
  <2>1. /\ pc[j] = "returned" /\ kind[j] # "lookup" /\ ret[j] # ErrorValue(j)
        /\ sock' = [sock EXCEPT ![ret[j]] = NULL] /\ pc' = [pc EXCEPT ![j] = "closed"]
        /\ UNCHANGED <<kind, fd, infop, ret>>
    BY <1>3 DEF Close, Succeeded, Returned, To
  <2>2. ret[j] \in Fds /\ Sockets(j) = {ret[j]} /\ sock[ret[j]].call = j
    BY <1>1, <2>1 DEF CallInv, ResultInv, Worked, Failed, Has
  <2>3. NetTypeOK' /\ pc'[j] = "closed" /\ OnlyCall(j)
    BY <1>1, <2>1, <2>2 DEF NetTypeOK, OnlyCall
  <2>4. OnlySocket(j)
    BY <2>1, <2>2 DEF OnlySocket
  <2>5. Sockets(j)' = {}
    BY <1>1, <2>1, <2>2 DEF NetTypeOK, Sockets
  <2>6. CallInv(j)'
    BY <1>1, <2>1, <2>3, <2>5 DEF CallInv, KindInv, SocketInv, ResultInv, AddrinfoInv
  <2> QED
    BY <2>3, <2>4, <2>6, StepOfCall
<1> QED
  BY <1>2, <1>3 DEF ClientStep

-----------------------------------------------------------------------------
LEMMA NetInitial == Init => NetIInv
<1> SUFFICES ASSUME Init PROVE NetIInv
  OBVIOUS
<1>1. [call |-> 0, state |-> "used"] \in Things /\ [call |-> 0, state |-> "used"].call = 0
  BY NetConstants DEF Things, States
<1>2. NetTypeOK
  <2>1. sock \in [Fds -> Things \cup {NULL}]
    BY <1>1 DEF Init
  <2>2. infop \in [Calls -> [list : Seq(Addrs), allocated : BOOLEAN]]
    BY DEF Init, None
  <2>3. ret \in [Calls -> Results]
    BY DEF Init, Results
  <2> QED
    BY <2>1, <2>2, <2>3 DEF Init, NetTypeOK
<1>3. UsedInv
  BY NetConstants DEF Init, UsedInv
<1>4. ASSUME NEW k \in Calls PROVE CallInv(k)
  <2>1. Sockets(k) = {}
    <3>1. k # 0
      BY NetConstants DEF Calls
    <3> QED
      BY <1>1, <3>1 DEF Init, Sockets
  <2> QED
    BY <2>1 DEF Init, None, CallInv, KindInv, SocketInv, ResultInv, AddrinfoInv
<1> QED
  BY <1>2, <1>3, <1>4 DEF NetIInv

LEMMA NetInductive == NetIInv /\ [Next]_vars => NetIInv'
<1> SUFFICES ASSUME NetIInv, [Next]_vars PROVE NetIInv'
  OBVIOUS
<1>1. ASSUME NEW j \in Calls, LibraryStep(j) PROVE NetIInv'
  BY <1>1, AddressesKeep, SocketKeeps, ServerKeeps, ConnectKeeps
     DEF LibraryStep, maddrlookup, setup_udp_server, setup_tcp_server,
         connect_tcp_client, connect_nix_streaming_client
<1>2. CASE UNCHANGED vars
  <2>1. NetTypeOK' /\ UsedInv'
    BY <1>2 DEF vars, NetIInv, NetTypeOK, UsedInv
  <2>2. ASSUME NEW k \in Calls PROVE CallInv(k)'
    <3>1. /\ Sockets(k)' = Sockets(k) /\ \A f, s : Has(k, f, s)' <=> Has(k, f, s)
          /\ UNCHANGED <<sock, kind, pc, fd, infop, ret>>
      BY <1>2, SameSockets DEF vars
    <3>2. Promised(k)' = Promised(k) /\ ErrorValue(k)' = ErrorValue(k)
      BY <3>1 DEF Promised, ErrorValue
    <3>3. (Worked(k)' <=> Worked(k)) /\ (Failed(k)' <=> Failed(k))
      BY <3>1, <3>2 DEF Worked, Failed, Has
    <3>4. CallInv(k)
      BY DEF NetIInv
    <3>5. SocketInv(k)'
      BY <3>1, <3>4 DEF CallInv, SocketInv, Has
    <3>6. KindInv(k)' /\ ResultInv(k)' /\ AddrinfoInv(k)'
      BY <3>1, <3>3, <3>4 DEF CallInv, KindInv, ResultInv, AddrinfoInv
    <3> QED
      BY <3>5, <3>6 DEF CallInv
  <2> QED
    BY <2>1, <2>2 DEF NetIInv
<1> QED
  BY <1>1, <1>2, ClientKeeps DEF Next, Ended

LEMMA NetCorrect == Spec => []NetIInv
<1> QED
  BY NetInitial, NetInductive, PTL DEF Spec

\* What a function returns as a socket is open, the caller's own and bound, listening
\* or connected as mnet.h says; what it returns as an error is none.  The latter needs
\* descriptor 0 to be in use: a server there would be reported as an error.
THEOREM SocketsWork ==
    ASSUME 0 \in UsedFds
    PROVE  Spec => []ReturnedSocketWorks
<1>1. NetIInv => ReturnedSocketWorks
  <2> SUFFICES ASSUME NetIInv, NEW k \in Calls, Returned(k)
               PROVE  /\ ret[k] # ErrorValue(k) =>
                            sock[ret[k]] = [call |-> k, state |-> Promised(k)]
                      /\ ret[k] = ErrorValue(k) =>
                            \A f \in Sockets(k) : sock[f].state # Promised(k)
    BY DEF ReturnedSocketWorks, Succeeded
  <2>1. Worked(k) \/ Failed(k)
    BY DEF NetIInv, CallInv, ResultInv, Returned
  <2>2. CASE Worked(k)
    <3>1. ret[k] \in Fds /\ sock[ret[k]] = [call |-> k, state |-> Promised(k)]
      BY <2>2 DEF Worked, Has
    <3>2. k # 0 /\ sock[0].call = 0
      BY NetConstants DEF Calls, NetIInv, UsedInv
    <3>3. ret[k] # 0 /\ ret[k] # -1
      BY <3>1, <3>2, NetConstants DEF Fds
    <3> QED
      BY <3>1, <3>3 DEF ErrorValue
  <2>3. CASE Failed(k)
    <3>1. CASE Sockets(k) = {}
      BY <2>3, <3>1 DEF Failed
    <3>2. ASSUME NEW f \in Fds, NEW s \in States \ {Promised(k)}, Has(k, f, s)
          PROVE  \A g \in Sockets(k) : sock[g].state # Promised(k)
      BY <3>2 DEF Has
    <3> QED
      BY <2>3, <3>1, <3>2 DEF Failed
  <2> QED
    BY <2>1, <2>2, <2>3
<1> QED
  BY <1>1, NetCorrect, PTL

\* A failed call loses one socket at most, a successful one none, and what is closed
\* is gone (the early returns of mnet.c, and the loop of connect_tcp_client).
THEOREM FewSocketsLost == Spec => []LosesAtMostOne
<1>1. NetIInv => LosesAtMostOne
  <2> SUFFICES ASSUME NetIInv, NEW k \in Calls
               PROVE  /\ Cardinality(Sockets(k)) <= 1
                      /\ Succeeded(k) => Sockets(k) = {ret[k]}
                      /\ pc[k] = "closed" => Sockets(k) = {}
    BY DEF LosesAtMostOne
  <2>1. CallInv(k) /\ NetTypeOK
    BY DEF NetIInv
  <2>2. Sockets(k) = {} \/ \E f \in Fds : Sockets(k) = {f}
    <3>1. Sockets(k) = {} \/ \E f, s : Has(k, f, s)
      <4>1. CASE pc[k] \in {"cleanup", "returned"}
        BY <2>1, <4>1 DEF CallInv, ResultInv, Worked, Failed
      <4>2. CASE pc[k] \notin {"cleanup", "returned"}
        BY <2>1, <4>2 DEF NetTypeOK, CallInv, SocketInv
      <4> QED
        BY <4>1, <4>2
    <3> QED
      BY <3>1 DEF Has
  <2>3. Cardinality(Sockets(k)) <= 1
    <3>1. CASE Sockets(k) = {}
      BY <3>1, FS_EmptySet
    <3>2. ASSUME NEW f \in Fds, Sockets(k) = {f} PROVE Cardinality(Sockets(k)) = 1
      BY <3>2, FS_Singleton
    <3> QED
      BY <2>2, <3>1, <3>2
  <2>4. Succeeded(k) => Sockets(k) = {ret[k]}
    BY <2>1 DEF CallInv, ResultInv, Worked, Failed, Has, Succeeded, Returned
  <2> QED
    BY <2>1, <2>3, <2>4 DEF CallInv, SocketInv
<1> QED
  BY <1>1, NetCorrect, PTL

\* No path through connect_tcp_client or maddrlookup returns with the list of
\* addresses allocated (the label CLEANUP).
THEOREM AddressesFreed == Spec => []AddrinfoFreed
<1>1. NetIInv => AddrinfoFreed
  BY DEF NetIInv, CallInv, AddrinfoInv, AddrinfoFreed
<1> QED
  BY <1>1, NetCorrect, PTL
=============================================================================
