-------------------------------- MODULE MNet --------------------------------
(***************************************************************************)
(* mnet.c: servers and clients of sockets.  Calls run concurrently and     *)
(* share the descriptor table of the process; each system call may fail,   *)
(* and every early return of the code is kept.  What setsockopt,           *)
(* getsockopt and getsockname answer is only reported by the code, and so  *)
(* is left out; so is read_dgram, which changes nothing here.  The kernel, *)
(* the resolver, the network and the client who closes the sockets he was  *)
(* given are external.                                                     *)
(***************************************************************************)
EXTENDS Integers, Sequences, FiniteSets

CONSTANTS
    MaxCalls,    \* bound: calls of the library
    Kinds,       \* the functions that are called
    FdLimit,     \* descriptors the process may have
    UsedFds,     \* descriptors that are in use at the start
    Addrs,       \* addresses a host may resolve to
    Hosts,       \* the answers of getaddrinfo: sequences of addresses
    NULL

Calls == 1 .. MaxCalls
Fds == 0 .. FdLimit - 1

ASSUME NetConstants ==
    /\ MaxCalls \in Nat /\ FdLimit \in Nat
    /\ Kinds \subseteq {"udp", "tcp", "client", "nix", "lookup"}
    /\ UsedFds \subseteq Fds
    /\ Hosts \subseteq Seq(Addrs) \ {<<>>}

\* States of a socket; descriptors of something else are only used.
States == {"used", "open", "bound", "listening", "connected"}
Things == [call : 0 .. MaxCalls, state : States]

ASSUME NetNull == NULL \notin Things

VARIABLES
    sock,   \* per descriptor: the socket, with the call that made it
    kind,   \* per call: the function
    pc,     \* per call: where it is
    fd,     \* per call: socketfd, clientfd or fd
    infop,  \* per call: the list of addrinfo, and whether it is allocated
    rest,   \* per call: the list from current on
    ret     \* per call: the returned value

vars == <<sock, kind, pc, fd, infop, rest, ret>>

None == [list |-> <<>>, allocated |-> FALSE]

Init ==
    /\ sock = [f \in Fds |-> IF f \in UsedFds THEN [call |-> 0, state |-> "used"] ELSE NULL]
    /\ kind = [k \in Calls |-> NULL]
    /\ pc = [k \in Calls |-> "unused"]
    /\ fd = [k \in Calls |-> -1]
    /\ infop = [k \in Calls |-> None]
    /\ rest = [k \in Calls |-> <<>>]
    /\ ret = [k \in Calls |-> NULL]

-----------------------------------------------------------------------------
To(k, l) == pc' = [pc EXCEPT ![k] = l]

Free == {f \in Fds : sock[f] = NULL}
Lowest == CHOOSE f \in Free : \A g \in Free : f <= g

Return(k, value) == To(k, "returned") /\ ret' = [ret EXCEPT ![k] = value]

\* goto CLEANUP with rv set.
Cleanup(k, value) == To(k, "cleanup") /\ ret' = [ret EXCEPT ![k] = value]

Call(k, what) ==
    /\ pc[k] = "unused"
    /\ \A j \in 1 .. k - 1 : pc[j] # "unused"
    /\ kind' = [kind EXCEPT ![k] = what]
    /\ To(k, IF what \in {"client", "lookup"} THEN "getaddrinfo" ELSE "socket")
    /\ UNCHANGED <<sock, fd, infop, rest, ret>>

(***************************************************************************)
(* getaddrinfo and freeaddrinfo: maddrlookup, connect_tcp_client.          *)
(***************************************************************************)
GetAddrInfo(k) ==
    /\ pc[k] = "getaddrinfo"
    /\ \E list \in Hosts :
          /\ infop' = [infop EXCEPT ![k] = [list |-> list, allocated |-> TRUE]]
          /\ rest' = [rest EXCEPT ![k] = list]
    /\ IF kind[k] = "lookup" THEN Cleanup(k, 0) ELSE To(k, "loop") /\ UNCHANGED ret
    /\ UNCHANGED <<sock, kind, fd>>

\* A positive number stands for the resolver's error codes.
GetAddrInfoFails(k) ==
    /\ pc[k] = "getaddrinfo"
    /\ Cleanup(k, IF kind[k] = "lookup" THEN 1 ELSE -1)
    /\ UNCHANGED <<sock, kind, fd, infop, rest>>

FreeAddrInfo(k) ==
    /\ pc[k] = "cleanup"
    /\ infop' = [infop EXCEPT ![k].allocated = FALSE]
    /\ Return(k, ret[k])
    /\ UNCHANGED <<sock, kind, fd, rest>>

\* The head of connect_tcp_client's loop, and what follows the loop.
Loop(k) ==
    /\ pc[k] = "loop"
    /\ \/ rest[k] # <<>> /\ To(k, "socket") /\ UNCHANGED ret
       \/ rest[k] = <<>> /\ Cleanup(k, -1)
    /\ UNCHANGED <<sock, kind, fd, infop, rest>>

(***************************************************************************)
(* socket                                                                  *)
(***************************************************************************)
Socket(k) ==
    /\ pc[k] = "socket"
    /\ Free # {}
    /\ fd' = [fd EXCEPT ![k] = Lowest]
    /\ sock' = [sock EXCEPT ![Lowest] = [call |-> k, state |-> "open"]]
    /\ To(k, IF kind[k] \in {"udp", "tcp"} THEN "address" ELSE "connect")
    /\ UNCHANGED <<kind, infop, rest, ret>>

\* Mutant: continue without current = current->ai_next.
SocketFails_Again(k) ==
    /\ pc[k] = "socket"
    /\ IF kind[k] = "client" THEN To(k, "loop") /\ UNCHANGED ret ELSE Return(k, 0)
    /\ UNCHANGED <<sock, kind, fd, infop, rest>>

SocketFails(k) ==
    /\ pc[k] = "socket"
    /\ \/ kind[k] \in {"udp", "tcp"} /\ Return(k, 0) /\ UNCHANGED rest
       \/ kind[k] = "nix" /\ Return(k, -1) /\ UNCHANGED rest
       \/ /\ kind[k] = "client"
          /\ rest' = [rest EXCEPT ![k] = Tail(@)]
          /\ To(k, "loop") /\ UNCHANGED ret
    /\ UNCHANGED <<sock, kind, fd, infop>>

(***************************************************************************)
(* The servers: inet_addr, bind, listen.                                   *)
(***************************************************************************)
InetAddr(k) ==
    /\ pc[k] = "address"
    /\ To(k, "bind")
    /\ UNCHANGED <<sock, kind, fd, infop, rest, ret>>

\* The address is INADDR_NONE, bind fails or listen fails: the socket stays open.
ServerFails(k) ==
    /\ pc[k] \in {"address", "bind", "listen"}
    /\ Return(k, 0)
    /\ UNCHANGED <<sock, kind, fd, infop, rest>>

\* Mutant: a TCP server is returned before it listens.
Bind_NoListen(k) ==
    /\ pc[k] = "bind"
    /\ sock' = [sock EXCEPT ![fd[k]].state = "bound"]
    /\ Return(k, fd[k])
    /\ UNCHANGED <<kind, fd, infop, rest>>

Bind(k) ==
    /\ pc[k] = "bind"
    /\ sock' = [sock EXCEPT ![fd[k]].state = "bound"]
    /\ IF kind[k] = "udp" THEN Return(k, fd[k]) ELSE To(k, "listen") /\ UNCHANGED ret
    /\ UNCHANGED <<kind, fd, infop, rest>>

Listen(k) ==
    /\ pc[k] = "listen"
    /\ sock' = [sock EXCEPT ![fd[k]].state = "listening"]
    /\ Return(k, fd[k])
    /\ UNCHANGED <<kind, fd, infop, rest>>

(***************************************************************************)
(* The clients: connect.                                                   *)
(***************************************************************************)
Connect(k) ==
    /\ pc[k] = "connect"
    /\ sock' = [sock EXCEPT ![fd[k]].state = "connected"]
    /\ IF kind[k] = "client" THEN Cleanup(k, fd[k]) ELSE Return(k, fd[k])
    /\ UNCHANGED <<kind, fd, infop, rest>>

\* Mutant: the loop goes on with the next address, and forgets the socket.
ConnectFails_Continue(k) ==
    /\ pc[k] = "connect"
    /\ \/ kind[k] = "nix" /\ Return(k, -1) /\ UNCHANGED rest
       \/ /\ kind[k] = "client"
          /\ rest' = [rest EXCEPT ![k] = Tail(@)]
          /\ To(k, "loop") /\ UNCHANGED ret
    /\ UNCHANGED <<sock, kind, fd, infop>>

\* Mutant: connect_tcp_client returns at once.
ConnectFails_Return(k) ==
    /\ pc[k] = "connect"
    /\ Return(k, -1)
    /\ UNCHANGED <<sock, kind, fd, infop, rest>>

\* The socket stays open here as well.
ConnectFails(k) ==
    /\ pc[k] = "connect"
    /\ IF kind[k] = "client" THEN Cleanup(k, -1) ELSE Return(k, -1)
    /\ UNCHANGED <<sock, kind, fd, infop, rest>>

(***************************************************************************)
(* What the caller can tell, and his close.                                *)
(***************************************************************************)
ErrorValue(k) == IF kind[k] \in {"udp", "tcp"} THEN 0 ELSE -1

Returned(k) == pc[k] = "returned" /\ kind[k] # "lookup"

\* The call has returned a socket, as far as its caller can tell.
Succeeded(k) == Returned(k) /\ ret[k] # ErrorValue(k)

Close(k) ==
    /\ Succeeded(k)
    /\ sock' = [sock EXCEPT ![ret[k]] = NULL]
    /\ To(k, "closed")
    /\ UNCHANGED <<kind, fd, infop, rest, ret>>

-----------------------------------------------------------------------------
(***************************************************************************)
(* The functions of mnet.h.                                                *)
(***************************************************************************)
maddrlookup(k) ==
    kind[k] = "lookup" /\ (GetAddrInfo(k) \/ GetAddrInfoFails(k) \/ FreeAddrInfo(k))

setup_udp_server(k) ==
    kind[k] = "udp" /\ (Socket(k) \/ SocketFails(k) \/ InetAddr(k) \/ ServerFails(k) \/ Bind(k))

setup_tcp_server(k) ==
    /\ kind[k] = "tcp"
    /\ Socket(k) \/ SocketFails(k) \/ InetAddr(k) \/ ServerFails(k) \/ Bind(k) \/ Listen(k)

connect_tcp_client(k) ==
    /\ kind[k] = "client"
    /\ \/ GetAddrInfo(k) \/ GetAddrInfoFails(k) \/ FreeAddrInfo(k) \/ Loop(k)
       \/ Socket(k) \/ SocketFails(k) \/ Connect(k) \/ ConnectFails(k)

connect_nix_streaming_client(k) ==
    kind[k] = "nix" /\ (Socket(k) \/ SocketFails(k) \/ Connect(k) \/ ConnectFails(k))

LibraryStep(k) ==
    \/ maddrlookup(k) \/ setup_udp_server(k) \/ setup_tcp_server(k)
    \/ connect_tcp_client(k) \/ connect_nix_streaming_client(k)

ClientStep(k) == Close(k) \/ \E what \in Kinds : Call(k, what)

\* All calls have been made.
Ended == (\A k \in Calls : pc[k] \in {"returned", "closed"}) /\ UNCHANGED vars

Next == (\E k \in Calls : LibraryStep(k) \/ ClientStep(k)) \/ Ended

Spec == Init /\ [][Next]_vars

FairSpec == Spec /\ \A k \in Calls : WF_vars(LibraryStep(k))

-----------------------------------------------------------------------------
\* What a function promises of its socket (mnet.h).
Promised(k) == CASE kind[k] = "udp" -> "bound" [] kind[k] = "tcp" -> "listening" [] OTHER -> "connected"

Sockets(k) == {f \in Fds : sock[f] # NULL /\ sock[f].call = k}

\* A socket that has been returned is open, is the caller's own and is in the
\* state its function promises (mnet.h), however calls overlap and whatever was
\* closed before: a server is bound or listens, a client is connected.  And what
\* is reported as an error is one: the call has not made the socket it was asked
\* for ("Return the socket fd, or 0 on error"; descriptor 0 has to be in use).
ReturnedSocketWorks ==
    \A k \in Calls :
        /\ Succeeded(k) => sock[ret[k]] = [call |-> k, state |-> Promised(k)]
        /\ Returned(k) /\ ret[k] = ErrorValue(k) =>
              \A f \in Sockets(k) : sock[f].state # Promised(k)

\* The error paths leave the socket open.  What they lose is bounded: one socket
\* for a call that failed, also when a host has several addresses, and none for
\* one that succeeded.
LosesAtMostOne ==
    \A k \in Calls :
        /\ Cardinality(Sockets(k)) <= 1
        /\ Succeeded(k) => Sockets(k) = {ret[k]}
        /\ pc[k] = "closed" => Sockets(k) = {}

\* Every return has freed the list of addresses.
AddrinfoFreed == \A k \in Calls : pc[k] \in {"returned", "closed"} => ~infop[k].allocated

\* Every call returns: the loop over the addresses of a host ends.
CallReturns == \A k \in Calls : pc[k] # "unused" ~> pc[k] \in {"returned", "closed"}
=============================================================================
