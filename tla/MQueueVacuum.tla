---------------------------- MODULE MQueueVacuum ----------------------------
(***************************************************************************)
(* The thread-safe queue with one more client: a thread that calls the     *)
(* public mqueue_vacuum to reclaim memory at once, as madt.h offers.  The  *)
(* function takes no lock.  It is split at its accesses to shared memory:  *)
(* the front and size it reads, the memmove, and the two assignments.      *)
(* (More interleavings than these are possible on a real machine.)         *)
(***************************************************************************)
EXTENDS MQueue

VARIABLES
    vpc,     \* "idle", "move", "rear", "front": where the vacuuming call is
    vsrc,    \* src - dest: the front it read
    vlen,    \* bytes2copy, in slots
    fifo     \* the items enqueued and not dequeued yet, in the order of the calls

vvars == <<vars, vpc, vsrc, vlen, fifo>>

VInit == Init /\ vpc = "idle" /\ vsrc = 0 /\ vlen = 0 /\ fifo = <<>>

\* Nothing to do at front 0; otherwise src and bytes2copy are computed.
VacuumRead ==
    /\ vpc = "idle"
    /\ q.front # 0
    /\ vsrc' = q.front
    /\ vlen' = mqueue_size_int(q)
    /\ vpc' = "move"
    /\ UNCHANGED <<vars, fifo>>

VacuumMove ==
    /\ vpc = "move"
    /\ q' = [q EXCEPT !.data = [i \in DOMAIN @ |-> IF i < vlen THEN Slot(q, vsrc + i) ELSE @[i]]]
    /\ vpc' = "rear"
    /\ UNCHANGED <<mutex, full, empty, pc, arg, ret, todo, process, spurious, vsrc, vlen, fifo>>

VacuumRear ==
    /\ vpc = "rear"
    /\ q' = [q EXCEPT !.rear = Wrap(@ - q.front)]
    /\ vpc' = "front"
    /\ UNCHANGED <<mutex, full, empty, pc, arg, ret, todo, process, spurious, vsrc, vlen, fifo>>

VacuumFront ==
    /\ vpc = "front"
    /\ q' = [q EXCEPT !.front = 0]
    /\ vpc' = "idle"
    /\ UNCHANGED <<mutex, full, empty, pc, arg, ret, todo, process, spurious, vsrc, vlen, fifo>>

\* The step at which a producer's, or a consumer's, call takes effect.
Effect(t) == pc[t] = "check" /\ pc'[t] = "unlock"

ClientStep ==
    /\ Next
    /\ fifo' = CASE \E t \in Producers : Effect(t) -> Append(fifo, arg[CHOOSE t \in Producers : Effect(t)])
                 [] \E t \in Consumers : Effect(t) -> IF fifo = <<>> THEN fifo ELSE Tail(fifo)
                 [] OTHER -> fifo
    /\ UNCHANGED <<vpc, vsrc, vlen>>

VNext ==
    \/ process = "running" /\ (VacuumRead \/ VacuumMove \/ VacuumRear \/ VacuumFront)
    \/ ClientStep

VSpec == VInit /\ [][VNext]_vvars

(***************************************************************************)
(* "A thread-safe queue" (madt.h:127): whatever the threads call, a        *)
(* dequeue hands out the oldest item that was enqueued and not yet handed  *)
(* out.                                                                    *)
(***************************************************************************)
OldestFirst ==
    [][\A t \in Consumers : Effect(t) => fifo # <<>> /\ ret'[t] = Head(fifo)]_vvars
=============================================================================
