---------------------------- MODULE BoundedFifo ----------------------------
(***************************************************************************)
(* What a bounded queue promises: items are taken in the order in which    *)
(* they were put, each by one consumer, and there are never more than      *)
(* QueueSize of them.  A put may also be refused; when, is not said here.  *)
(***************************************************************************)
EXTENDS Naturals, Sequences

CONSTANTS Producers, Consumers, QueueSize, None

VARIABLES
    items,      \* the queue
    got         \* consumer: what it has taken and not yet used, or None

fifoVars == <<items, got>>

Init == items = <<>> /\ got = [w \in Consumers |-> None]

Put(c) ==
    /\ Len(items) < QueueSize
    /\ items' = Append(items, c)
    /\ UNCHANGED got

Take(w) ==
    /\ got[w] = None /\ items # <<>>
    /\ got' = [got EXCEPT ![w] = Head(items)]
    /\ items' = Tail(items)

Use(w) ==
    /\ got[w] # None
    /\ got' = [got EXCEPT ![w] = None]
    /\ UNCHANGED items

Next ==
    \/ \E c \in Producers : Put(c)
    \/ \E w \in Consumers : Take(w) \/ Use(w)

Spec == Init /\ [][Next]_fifoVars

=============================================================================
