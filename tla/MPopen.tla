------------------------------- MODULE MPopen -------------------------------
(***************************************************************************)
(* popenRWE of mutil.c: three pipes, a fork, and a child whose stdin,      *)
(* stdout and stderr are ends of the pipes.  The descriptor tables of the  *)
(* parent and of every child are modelled, because what goes wrong here is *)
(* about which process still holds which end.                              *)
(*                                                                         *)
(* A call, its three pipes and its child share a number.  The kernel, the  *)
(* program exe and the code that uses rwepipe are external: the kernel may *)
(* refuse any pipe or fork, exe may end at any time and ends when its      *)
(* stdin does, and the client closes element 0 and reads elements 1 and 2  *)
(* to their end before it closes them.                                     *)
(*                                                                         *)
(* mdebugf goes to the default logger of mlog.c, under logging_mutex.  Of  *)
(* popenRWE's calls of it, those of the parent only delay it, and the one  *)
(* before fork is kept; in the child they meet a copy of the mutex.        *)
(***************************************************************************)
EXTENDS Integers, Sequences

CONSTANTS
    MaxCalls,     \* bound: calls of popenRWE
    FdLimit,      \* descriptors a process may have
    InitialFds,   \* the parent's descriptors at the start
    Concurrent,   \* whether the parent has other threads: the cases to consider
    Logging,      \* there is a default logger
    NULL

Calls == 1 .. MaxCalls
Fds == 0 .. FdLimit - 1
Pipes == {"in", "out", "err"}

ASSUME PopenConstants ==
    /\ MaxCalls \in Nat
    /\ FdLimit \in Nat /\ FdLimit > 2
    /\ InitialFds \subseteq Fds
    /\ Concurrent \subseteq BOOLEAN /\ Logging \in BOOLEAN

VARIABLES
    table,         \* the parent's descriptors
    ctable,        \* per call: the descriptors of its child
    pc,            \* per call: where popenRWE is
    cpc,           \* per call: where the child is
    fds,           \* per call: the local arrays in, out and err
    closing,       \* per call: the ends that the parent is about to close
    client,        \* per call: what the user of rwepipe has done
    logging_mutex, \* the parent's: "free" or "held" (by another thread)
    cmutex,        \* per call: the child's copy of it
    concurrent     \* several threads call popenRWE, and another one logs

vars == <<table, ctable, pc, cpc, fds, closing, client, logging_mutex, cmutex, concurrent>>

child == <<ctable, cpc, cmutex>>
caller == <<table, pc, fds, closing, client>>

End(k, pipe, dir) == [call |-> k, pipe |-> pipe, dir |-> dir]
Ends == [call : Calls, pipe : Pipes, dir : {"r", "w"}]

\* What the parent has open before.
Tty == End(0, "tty", "rw")

ASSUME PopenNull == NULL \notin Ends \cup {Tty}

NoFds == [f \in Fds |-> NULL]

Init ==
    /\ table = [f \in Fds |-> IF f \in InitialFds THEN Tty ELSE NULL]
    /\ ctable = [k \in Calls |-> NoFds]
    /\ pc = [k \in Calls |-> "unused"]
    /\ cpc = [k \in Calls |-> "unused"]
    /\ fds = [k \in Calls |-> [p \in Pipes |-> [r |-> -1, w |-> -1]]]
    /\ closing = [k \in Calls |-> <<>>]
    /\ client = [k \in Calls |-> "open"]
    /\ logging_mutex = "free"
    /\ cmutex = [k \in Calls |-> "free"]
    /\ concurrent \in Concurrent

-----------------------------------------------------------------------------
(***************************************************************************)
(* The system calls on a descriptor table t.                               *)
(***************************************************************************)
Free(t) == {f \in Fds : t[f] = NULL}
Lowest(S) == CHOOSE f \in S : \A g \in S : f <= g

close(t, f) == [t EXCEPT ![f] = NULL]

dup(t, f) == IF t[f] = NULL \/ Free(t) = {} THEN t ELSE [t EXCEPT ![Lowest(Free(t))] = t[f]]

\* The two descriptors pipe() chooses.
PipeFds(t) == LET r == Lowest(Free(t)) IN [r |-> r, w |-> Lowest(Free(t) \ {r})]

\* The processes that hold an end.
HeldByParent(e) == \E f \in Fds : table[f] = e
HeldByChild(c, e) == \E f \in Fds : ctable[c][f] = e
Held(e) == HeldByParent(e) \/ \E c \in Calls : HeldByChild(c, e)

-----------------------------------------------------------------------------
(***************************************************************************)
(* popenRWE in the parent.                                                 *)
(***************************************************************************)
To(k, l) == pc' = [pc EXCEPT ![k] = l]

Running(k) == pc[k] \notin {"unused", "returned", "failed"}

popenRWE(k) ==
    /\ pc[k] = "unused"
    /\ \A j \in 1 .. k - 1 : pc[j] # "unused"
    /\ concurrent \/ \A j \in Calls : ~Running(j)
    /\ To(k, "in")
    /\ UNCHANGED <<table, fds, closing, client, child, logging_mutex, concurrent>>

\* Mutant: a goto to the next label, which leaves a pipe open.
Cleanup_WrongLabel(k, label) ==
    LET In == <<End(k, "in", "r"), End(k, "in", "w")>>
        Out == <<End(k, "out", "r"), End(k, "out", "w")>>
    IN  [error_fork |-> Out \o In, error_err |-> Out \o In,
         error_out |-> In, error_in |-> <<>>][label]

\* What the labels error_fork, error_err, error_out and error_in close.
Cleanup(k, label) ==
    LET In == <<End(k, "in", "r"), End(k, "in", "w")>>
        Out == <<End(k, "out", "r"), End(k, "out", "w")>>
        Err == <<End(k, "err", "r"), End(k, "err", "w")>>
    IN  [error_fork |-> Err \o Out \o In, error_err |-> Out \o In,
         error_out |-> In, error_in |-> <<>>][label]

\* The next statement after pipe(p), and the label if it fails.
AfterPipe == [in |-> "out", out |-> "err", err |-> "log"]
OnError == [in |-> "error_in", out |-> "error_out", err |-> "error_err"]

MakePipe(k, p) ==
    /\ pc[k] = p
    /\ \E n \in Free(table) : Free(table) # {n}
    /\ LET new == PipeFds(table)
       IN  /\ fds' = [fds EXCEPT ![k][p] = new]
           /\ table' = [table EXCEPT ![new.r] = End(k, p, "r"), ![new.w] = End(k, p, "w")]
    /\ To(k, AfterPipe[p])
    /\ UNCHANGED <<closing, client, child, logging_mutex, concurrent>>

\* The kernel may refuse, and has to if the table is full.
MakePipeFails(k, p) ==
    /\ pc[k] = p
    /\ closing' = [closing EXCEPT ![k] = Cleanup(k, OnError[p])]
    /\ To(k, "cleanup")
    /\ UNCHANGED <<table, fds, client, child, logging_mutex, concurrent>>

LogForking(k) ==
    /\ pc[k] = "log"
    /\ Logging => logging_mutex = "free"
    /\ To(k, "fork")
    /\ UNCHANGED <<table, fds, closing, client, child, logging_mutex, concurrent>>

\* Mutant: the parent keeps the writing end of err.
ParentCloses_KeepErr(k) == <<End(k, "in", "r"), End(k, "out", "w")>>

\* What the parent closes after the fork.
ParentCloses(k) == <<End(k, "in", "r"), End(k, "out", "w"), End(k, "err", "w")>>

Fork(k) ==
    /\ pc[k] = "fork"
    /\ ctable' = [ctable EXCEPT ![k] = table]
    /\ cmutex' = [cmutex EXCEPT ![k] = logging_mutex]
    /\ cpc' = [cpc EXCEPT ![k] = "forked"]
    /\ closing' = [closing EXCEPT ![k] = ParentCloses(k)]
    /\ To(k, "parent")
    /\ UNCHANGED <<table, fds, client, logging_mutex, concurrent>>

ForkFails(k) ==
    /\ pc[k] = "fork"
    /\ closing' = [closing EXCEPT ![k] = Cleanup(k, "error_fork")]
    /\ To(k, "cleanup")
    /\ UNCHANGED <<table, fds, client, child, logging_mutex, concurrent>>

\* The next close() of the parent, by the number in the local array.
CloseNext(k) ==
    /\ pc[k] \in {"parent", "cleanup"}
    /\ closing[k] # <<>>
    /\ LET e == Head(closing[k]) IN table' = close(table, fds[k][e.pipe][e.dir])
    /\ closing' = [closing EXCEPT ![k] = Tail(@)]
    /\ UNCHANGED <<pc, fds, client, child, logging_mutex, concurrent>>

\* return pid, with rwepipe filled in, or return -1.
Return(k) ==
    /\ closing[k] = <<>>
    /\ \/ pc[k] = "parent" /\ To(k, "returned")
       \/ pc[k] = "cleanup" /\ To(k, "failed")
    /\ UNCHANGED <<table, fds, closing, client, child, logging_mutex, concurrent>>

-----------------------------------------------------------------------------
(***************************************************************************)
(* The child.  What it closes and dups is its own, and all the others can  *)
(* see of it is that it gives up ends of the pipes: it does it in one      *)
(* step, the last of them.  Its two calls of mdebugf need its copy of the  *)
(* mutex.                                                                  *)
(***************************************************************************)
ChildMayLog(k) == Logging => cmutex[k] = "free"

\* Mutant: the child keeps the writing end of its own stdin.
CloseOtherEnds_KeepInput(t, a) == close(close(t, a["out"].r), a["err"].r)

\* The child's copy of the arrays is a.
CloseOtherEnds(t, a) == close(close(close(t, a["in"].w), a["out"].r), a["err"].r)

\* Mutant: the standard descriptor is not closed first.
Reopen_NoClose(t, n, f) == dup(t, f)

\* Close n and reopen it as f: dup takes the lowest free descriptor.
Reopen(t, n, f) == dup(close(t, n), f)

ChildRedirects(k) ==
    /\ cpc[k] = "forked"
    /\ ChildMayLog(k)
    /\ \E t \in {CloseOtherEnds(ctable[k], fds[k])} :
       \E t0 \in {Reopen(t, 0, fds[k]["in"].r)} :
       \E t1 \in {Reopen(t0, 1, fds[k]["out"].w)} :
          ctable' = [ctable EXCEPT ![k] = Reopen(t1, 2, fds[k]["err"].w)]
    /\ cpc' = [cpc EXCEPT ![k] = "redirected"]
    /\ UNCHANGED <<caller, logging_mutex, cmutex, concurrent>>

\* mdebugf and execvp.
Exec(k) ==
    /\ cpc[k] = "redirected"
    /\ ChildMayLog(k)
    /\ cpc' = [cpc EXCEPT ![k] = "exe"]
    /\ UNCHANGED <<caller, ctable, logging_mutex, cmutex, concurrent>>

\* execvp fails, and the child exits.
ExecFails(k) ==
    /\ cpc[k] = "redirected"
    /\ ChildMayLog(k)
    /\ cpc' = [cpc EXCEPT ![k] = "exited"]
    /\ ctable' = [ctable EXCEPT ![k] = NoFds]
    /\ UNCHANGED <<caller, logging_mutex, cmutex, concurrent>>

-----------------------------------------------------------------------------
(***************************************************************************)
(* The environment: exe, the client and the other thread that logs.        *)
(***************************************************************************)
ExeExit(k) ==
    /\ cpc[k] = "exe"
    /\ ctable' = [ctable EXCEPT ![k] = NoFds]
    /\ cpc' = [cpc EXCEPT ![k] = "exited"]
    /\ UNCHANGED <<caller, logging_mutex, cmutex, concurrent>>

\* exe finds its stdin at its end, and stops.
StdinEnds(k) == ~\E j \in Calls : ctable[k][0] = End(j, "in", "r") /\ Held(End(j, "in", "w"))

ExeReadsEof(k) == StdinEnds(k) /\ ExeExit(k)

ClientCloseStdin(k) ==
    /\ pc[k] = "returned" /\ client[k] = "open"
    /\ table' = close(table, fds[k]["in"].w)
    /\ client' = [client EXCEPT ![k] = "reading"]
    /\ UNCHANGED <<pc, fds, closing, child, logging_mutex, concurrent>>

\* The client has read both pipes to their end.
ClientDone(k) ==
    /\ client[k] = "reading"
    /\ ~Held(End(k, "out", "w")) /\ ~Held(End(k, "err", "w"))
    /\ table' = close(close(table, fds[k]["out"].r), fds[k]["err"].r)
    /\ client' = [client EXCEPT ![k] = "done"]
    /\ UNCHANGED <<pc, fds, closing, child, logging_mutex, concurrent>>

OtherThreadLocks ==
    /\ concurrent /\ Logging
    /\ logging_mutex = "free"
    /\ logging_mutex' = "held"
    /\ UNCHANGED <<caller, child, concurrent>>

OtherThreadUnlocks ==
    /\ logging_mutex = "held"
    /\ logging_mutex' = "free"
    /\ UNCHANGED <<caller, child, concurrent>>

-----------------------------------------------------------------------------
ParentStep(k) ==
    \/ \E p \in Pipes : MakePipe(k, p) \/ MakePipeFails(k, p)
    \/ LogForking(k) \/ Fork(k) \/ ForkFails(k) \/ CloseNext(k) \/ Return(k)

ChildStep(k) == ChildRedirects(k) \/ Exec(k) \/ ExecFails(k)

ClientStep(k) == ClientCloseStdin(k) \/ ClientDone(k)

\* Nothing is left to do.
Ended ==
    /\ \A k \in Calls : pc[k] = "failed" \/ client[k] = "done"
    /\ UNCHANGED vars

Next ==
    \/ \E k \in Calls : popenRWE(k) \/ ParentStep(k) \/ ChildStep(k)
                            \/ ExeExit(k) \/ ClientStep(k)
    \/ OtherThreadLocks \/ OtherThreadUnlocks \/ Ended

Spec == Init /\ [][Next]_vars

(***************************************************************************)
(* Threads and processes go on, exe stops when its stdin ends, and the     *)
(* client closes element 0.  Nobody has to call popenRWE.  A thread that   *)
(* waits for the mutex gets it (SF, as OtherThreadLocks can go on          *)
(* for ever).                                                              *)
(***************************************************************************)
FairSpec ==
    /\ Spec
    /\ WF_vars(OtherThreadUnlocks)
    /\ \A k \in Calls :
          /\ SF_vars(ParentStep(k)) /\ WF_vars(ChildStep(k))
          /\ WF_vars(ExeReadsEof(k)) /\ WF_vars(ClientStep(k))

-----------------------------------------------------------------------------
\* A running exe has the three pipes of its own call as stdin, stdout and
\* stderr (mutil.h: the caller "can then write to element 0 (stdin of exe), and
\* read from element 1 (stdout) and 2 (stderr)").
ChildStdio ==
    \A k \in Calls : cpc[k] = "exe" =>
        /\ ctable[k][0] = End(k, "in", "r")
        /\ ctable[k][1] = End(k, "out", "w")
        /\ ctable[k][2] = End(k, "err", "w")

\* The ends the client of a successful call has not closed yet.
RwePipe(k) ==
    (IF client[k] = "open" THEN {End(k, "in", "w")} ELSE {})
    \cup (IF client[k] # "done" THEN {End(k, "out", "r"), End(k, "err", "r")} ELSE {})

\* Of a call that has failed, at whichever system call, the parent has no
\* descriptor left; of one that has succeeded it has rwepipe, and no other.
NoLeak ==
    \A k \in Calls :
        LET have == {table[f] : f \in Fds} \cap {e \in Ends : e.call = k}
        IN  /\ pc[k] = "failed" => have = {}
            /\ pc[k] = "returned" => have = RwePipe(k)

\* If one thread makes all the calls, children inherit the parent's ends of older
\* pipes only: no child holds the writing end of its own stdin or of a younger
\* child's, and so they cannot wait for each other in a circle.
StdinHeldByYounger ==
    ~concurrent => \A c, k \in Calls :
        cpc[c] \notin {"unused", "forked", "exited"} /\ HeldByChild(c, End(k, "in", "w")) => k < c

\* A child that was forked, and whose pid the caller has, gets to execvp.
ChildExecs == \A k \in Calls : cpc[k] = "forked" ~> cpc[k] \in {"exe", "exited"}

\* If one thread makes all the calls, a client that has closed element 0 comes to the
\* end of elements 1 and 2, once the other clients close theirs: no descriptor that
\* some child has inherited keeps a pipe open for ever.
ClientFinishes == \A k \in Calls : pc[k] = "returned" ~> client[k] = "done" \/ concurrent
=============================================================================
