----------------------------- MODULE MLinkedList -----------------------------
(***************************************************************************)
(* The linked-list macros of madt.h, over nodes with a next pointer.  The  *)
(* macros work on the caller's variables: start, current, previous and     *)
(* freenode keep their values from one use to the next.                    *)
(*                                                                         *)
(* mlinked_list_remove is modelled one loop iteration per step, because    *)
(* it edits the list it is walking; the other macros only read while they  *)
(* walk and are one step each.                                             *)
(***************************************************************************)
EXTENDS Integers, Sequences, FiniteSets, SequencesExt

CONSTANTS
    Nodes,          \* the memory nodes are allocated from
    Handles,        \* what check() compares
    NULL,
    FreshPointers,  \* the client removes with previous and freenode NULL (mlog.c)
    UniqueHandles   \* the client never has two nodes with one handle (mlog.c)

ASSUME ListConstants ==
    /\ IsFiniteSet(Nodes)
    /\ NULL \notin Nodes
    /\ FreshPointers \in BOOLEAN
    /\ UniqueHandles \in BOOLEAN

VARIABLES
    start, current, previous, freenode,   \* the caller's pointers
    next,        \* the next field of every node
    handleOf,    \* the field check() looks at
    allocated,   \* nodes the caller has allocated and not freed
    length,      \* what mlinked_list_length computed last
    pc,          \* "idle" or "remove": inside the loop of mlinked_list_remove
    wanted,      \* the handle being removed
    list         \* the nodes the caller has added and not asked to remove, in order

listVars == <<start, current, previous, freenode, next, handleOf, allocated,
          length, pc, wanted, list>>

Pointer == Nodes \cup {NULL}

ListInit ==
    /\ start = NULL /\ current = NULL /\ previous = NULL /\ freenode = NULL
    /\ next = [n \in Nodes |-> NULL]
    /\ handleOf = [n \in Nodes |-> NULL]
    /\ allocated = {}
    /\ length = 0
    /\ pc = "idle"
    /\ wanted = NULL
    /\ list = <<>>

-----------------------------------------------------------------------------
\* The nodes a walk from p along next visits, cut off when there are no more
\* nodes than it has seen.
visit[k \in 0 .. Cardinality(Nodes)] ==
    [n \in Pointer |-> IF n = NULL \/ k = 0 THEN <<>> ELSE <<n>> \o visit[k - 1][next[n]]]

Walk(p) == visit[Cardinality(Nodes)][p]

check(h, n) == handleOf[n] = h

\* The sequence s without the nodes that match h.
Without(s, h) ==
    LET kept[k \in 0 .. Len(s)] ==
            IF k = 0 THEN <<>>
            ELSE IF check(h, s[k]) THEN kept[k - 1]
            ELSE Append(kept[k - 1], s[k])
    IN  kept[Len(s)]

(***************************************************************************)
(* mlinked_list_add, of a node the caller has just set up with next NULL.  *)
(***************************************************************************)
mlinked_list_add(n, h) ==
    /\ pc = "idle"
    /\ n \notin allocated
    /\ UniqueHandles => \A m \in ToSet(list) : handleOf[m] # h
    /\ allocated' = allocated \cup {n}
    /\ handleOf' = [handleOf EXCEPT ![n] = h]
    /\ IF start = NULL
       THEN /\ start' = n
            /\ current' = n
            /\ next' = [next EXCEPT ![n] = NULL]
       ELSE /\ current' = Last(Walk(start))
            /\ next' = [next EXCEPT ![n] = NULL, ![current'] = n]
            /\ UNCHANGED start
    /\ list' = Append(list, n)
    /\ UNCHANGED <<previous, freenode, length, pc, wanted>>

(***************************************************************************)
(* mlinked_list_find: current is the first node that matches, or NULL.     *)
(***************************************************************************)
mlinked_list_find(h) ==
    /\ pc = "idle"
    /\ LET hits == SelectSeq(Walk(start), LAMBDA n : check(h, n))
       IN  current' = IF hits = <<>> THEN NULL ELSE Head(hits)
    /\ UNCHANGED <<start, previous, freenode, next, handleOf, allocated, length, pc, wanted, list>>

(***************************************************************************)
(* mlinked_list_length                                                     *)
(***************************************************************************)
mlinked_list_length ==
    /\ pc = "idle"
    /\ length' = Len(Walk(start))
    /\ current' = NULL
    /\ UNCHANGED <<start, previous, freenode, next, handleOf, allocated, pc, wanted, list>>

(***************************************************************************)
(* mlinked_list_remove                                                     *)
(***************************************************************************)
RemoveBegin(h) ==
    /\ pc = "idle"
    /\ start # NULL
    /\ pc' = "remove"
    /\ current' = start
    /\ previous' = IF FreshPointers THEN NULL ELSE previous
    /\ freenode' = IF FreshPointers THEN NULL ELSE freenode
    /\ wanted' = h
    /\ list' = Without(list, h)
    /\ UNCHANGED <<start, next, handleOf, allocated, length>>

\* Mutant: the head is not unlinked from start.
RemoveMatch_ForgetStart ==
    /\ pc = "remove" /\ current # NULL /\ check(wanted, current)
    /\ IF previous = NULL
       THEN previous' = current /\ UNCHANGED <<start, next>>
       ELSE next' = [next EXCEPT ![previous] = next[current]] /\ UNCHANGED <<start, previous>>
    /\ freenode' = current
    /\ current' = next'[current]
    /\ UNCHANGED <<handleOf, allocated, length, pc, wanted, list>>

\* Mutant: the caller is handed the node before the removed one.
RemoveMatch_WrongNode ==
    /\ pc = "remove" /\ current # NULL /\ check(wanted, current)
    /\ IF previous = NULL
       THEN start' = next[current] /\ previous' = current /\ UNCHANGED next
       ELSE next' = [next EXCEPT ![previous] = next[current]] /\ UNCHANGED <<start, previous>>
    /\ freenode' = previous'
    /\ current' = next'[current]
    /\ UNCHANGED <<handleOf, allocated, length, pc, wanted, list>>

\* Mutant: the loop goes on from previous, as if the node had been kept.
RemoveMatch_Rewind ==
    /\ pc = "remove" /\ current # NULL /\ check(wanted, current)
    /\ IF previous = NULL
       THEN start' = next[current] /\ previous' = current /\ UNCHANGED next
       ELSE next' = [next EXCEPT ![previous] = next[current]] /\ UNCHANGED <<start, previous>>
    /\ freenode' = current
    /\ current' = previous'
    /\ UNCHANGED <<handleOf, allocated, length, pc, wanted, list>>

RemoveMatch ==
    /\ pc = "remove" /\ current # NULL /\ check(wanted, current)
    /\ IF previous = NULL
       THEN start' = next[current] /\ previous' = current /\ UNCHANGED next
       ELSE next' = [next EXCEPT ![previous] = next[current]] /\ UNCHANGED <<start, previous>>
    /\ freenode' = current
    /\ current' = next'[current]
    /\ UNCHANGED <<handleOf, allocated, length, pc, wanted, list>>

RemoveSkip ==
    /\ pc = "remove" /\ current # NULL /\ ~check(wanted, current)
    /\ previous' = current
    /\ current' = next[current]
    /\ UNCHANGED <<start, freenode, next, handleOf, allocated, length, pc, wanted, list>>

RemoveEnd ==
    /\ pc = "remove" /\ current = NULL
    /\ pc' = "idle"
    /\ UNCHANGED <<start, current, previous, freenode, next, handleOf, allocated, length, wanted, list>>

(***************************************************************************)
(* The caller frees the node it was handed; the memory, with whatever its  *)
(* next field holds, may come back as the next node it adds.               *)
(***************************************************************************)
FreeNode ==
    /\ pc = "idle"
    /\ freenode \in allocated
    /\ allocated' = allocated \ {freenode}
    /\ freenode' = NULL
    /\ UNCHANGED <<start, current, previous, next, handleOf, length, pc, wanted, list>>

RemoveLoop == RemoveMatch \/ RemoveSkip \/ RemoveEnd

ListNext ==
    \/ \E n \in Nodes, h \in Handles : mlinked_list_add(n, h)
    \/ \E h \in Handles : mlinked_list_find(h) \/ RemoveBegin(h)
    \/ mlinked_list_length
    \/ RemoveLoop
    \/ FreeNode

ListSpec == ListInit /\ [][ListNext]_listVars

\* A thread inside the macro keeps running; nobody has to start a new one.
ListFairSpec == ListSpec /\ WF_listVars(RemoveLoop)

-----------------------------------------------------------------------------
\* Between two uses of the macros the chain of next pointers from start holds
\* the nodes that were added and not removed, in the order they were added:
\* no removal loses a neighbour, and a reused node brings no old link along.
ChainIsList == pc = "idle" => Walk(start) = list

\* The node the caller is handed to free is out of the list for good (madt.h:
\* "freenode is populated with a pointer to the removed node"): nothing
\* reachable from start is ever free memory.
FreenodeIsRemoved ==
    pc = "idle" => /\ freenode \notin ToSet(Walk(start))
                   /\ ToSet(Walk(start)) \subseteq allocated

\* The loop of mlinked_list_remove comes to the end of the list: the chain it
\* edits while walking never becomes a cycle.
RemoveEnds == pc = "remove" ~> pc = "idle"
=============================================================================
