---------------------------- MODULE BoundedQueue ----------------------------
(***************************************************************************)
(* The lock-free queue of cyber/base: producers claim a position with a    *)
(* compare-and-swap of tail_, fill the slot and publish it by moving       *)
(* commit_ in the order of the claims; consumers copy the slot after       *)
(* head_ and then claim it with a compare-and-swap of head_.               *)
(*                                                                         *)
(* The loads of the own end, the stores and the publications are steps.    *)
(* The look at the other end is one step with what follows it: head_ and   *)
(* commit_ only grow, so a later look never turns a free or filled slot    *)
(* into none.  The users of the queue, and with them the specification,    *)
(* are in module ThreadPool.                                               *)
(***************************************************************************)
EXTENDS Naturals, Sequences, FiniteSets

CONSTANTS
    Producers,              \* calls of Enqueue; each puts its own number
    Consumers,              \* threads that call Dequeue
    QueueSize,              \* the argument of Init
    Strategies,             \* the wait strategies in use
    None

ASSUME QueueSizeAssumption == QueueSize \in Nat \ {0}
ASSUME StrategiesAssumption == Strategies \subseteq {"block", "sleep"}
ASSUME NoneAssumption == None \notin Producers

VARIABLES
    head, tail, commit,     \* head_, tail_ and commit_
    pool,                   \* pool_
    epc, old_tail,          \* producer: step of Enqueue and its local
    dpc, old_head, element, \* consumer: step of Dequeue and its locals
    strategy,               \* wait_strategy_
    break_all_wait          \* break_all_wait_

ringVars == <<head, tail, commit, pool>>
enqVars  == <<epc, old_tail>>
deqVars  == <<dpc, old_head, element>>
waitVars == <<strategy, break_all_wait>>

\* Head and tail each occupy a space.
PoolSize == QueueSize + 2

GetIndex(num) == num % PoolSize

QueueInit ==
    /\ head = 0 /\ tail = 1 /\ commit = 1
    /\ pool = [i \in 0 .. PoolSize - 1 |-> None]
    /\ epc = [c \in Producers |-> "idle"]
    /\ old_tail = [c \in Producers |-> 0]
    /\ dpc = [w \in Consumers |-> "idle"]
    /\ old_head = [w \in Consumers |-> 0]
    /\ element = [w \in Consumers |-> None]
    /\ strategy \in Strategies /\ break_all_wait = FALSE

EGoto(c, label) == epc' = [epc EXCEPT ![c] = label]
DGoto(w, label) == dpc' = [dpc EXCEPT ![w] = label]

\* The calls return, and their locals are gone.
EnqReturn(c, result) ==
    EGoto(c, result) /\ old_tail' = [old_tail EXCEPT ![c] = 0]

DeqReturn(w, result) ==
    DGoto(w, result) /\ old_head' = [old_head EXCEPT ![w] = 0]

\* The caller is done with what it got.
DeqUsed(w) ==
    /\ DGoto(w, "idle")
    /\ element' = [element EXCEPT ![w] = None]
    /\ UNCHANGED <<ringVars, enqVars, old_head, waitVars>>

-----------------------------------------------------------------------------
(* Enqueue *)

EnqLoadTail(c) ==
    /\ epc[c] = "idle"
    /\ old_tail' = [old_tail EXCEPT ![c] = tail]
    /\ EGoto(c, "cas")
    /\ UNCHANGED <<ringVars, deqVars, waitVars>>

TailUnmoved(c) == tail = old_tail[c]

\* Fault: one slot too many is kept free.
NoRoomEarly(c) == GetIndex(old_tail[c] + 2) = GetIndex(head)
\* Fault: there is always room.
AlwaysRoom(c) == FALSE
NoRoom(c) == GetIndex(old_tail[c] + 1) = GetIndex(head)

\* Full, judged by a tail that may be old: Enqueue returns false.
EnqFull(c) ==
    /\ epc[c] = "cas" /\ NoRoom(c)
    /\ EnqReturn(c, "full")
    /\ UNCHANGED <<ringVars, deqVars, waitVars>>

\* The compare-and-swap of tail_; a failed one loads the tail again.
EnqClaim(c) ==
    /\ epc[c] = "cas" /\ ~NoRoom(c)
    /\ IF TailUnmoved(c)
       THEN /\ tail' = old_tail[c] + 1
            /\ EGoto(c, "store") /\ UNCHANGED old_tail
       ELSE /\ old_tail' = [old_tail EXCEPT ![c] = tail]
            /\ UNCHANGED <<epc, tail>>
    /\ UNCHANGED <<head, commit, pool, deqVars, waitVars>>

EnqStore(c) ==
    /\ epc[c] = "store"
    /\ pool' = [pool EXCEPT ![GetIndex(old_tail[c])] = c]
    /\ EGoto(c, "commit")
    /\ UNCHANGED <<head, tail, commit, old_tail, deqVars, waitVars>>

\* Fault: a producer publishes its slot without waiting for the ones before.
CommitAtOnce(c) == TRUE
CommitTurn(c) == commit = old_tail[c]

\* The compare-and-swap of commit_ succeeds when it is this producer's turn.
EnqCommit(c) ==
    /\ epc[c] = "commit" /\ CommitTurn(c)
    /\ commit' = old_tail[c] + 1
    /\ EGoto(c, "notify")
    /\ UNCHANGED <<head, tail, pool, old_tail, deqVars, waitVars>>

Waiting == {w \in Consumers : dpc[w] = "waiting"}

\* NotifyOne, which takes no mutex; it means nothing to a sleeper.
EnqNotify(c) ==
    /\ epc[c] = "notify"
    /\ \/ (strategy = "sleep" \/ Waiting = {}) /\ UNCHANGED dpc
       \/ strategy = "block" /\ \E w \in Waiting : DGoto(w, "again")
    /\ EnqReturn(c, "ok")
    /\ UNCHANGED <<ringVars, old_head, element, waitVars>>

EnqueueStep(c) ==
    \/ EnqFull(c) \/ EnqClaim(c) \/ EnqStore(c) \/ EnqCommit(c)
    \/ EnqNotify(c)

-----------------------------------------------------------------------------
(* Dequeue *)

DeqLoadHead(w) ==
    /\ dpc[w] \in {"idle", "again"}
    /\ old_head' = [old_head EXCEPT ![w] = head]
    /\ DGoto(w, "copy")
    /\ UNCHANGED <<ringVars, element, enqVars, waitVars>>

\* Some producer is assigning to the slot at position n.
Storing(n) ==
    \E c \in Producers :
        epc[c] = "store" /\ GetIndex(old_tail[c]) = GetIndex(n)

\* Fault: the last element is overlooked.
NoElementButOne(w) == old_head[w] + 2 >= commit
NoElement(w) == old_head[w] + 1 = commit

\* Dequeue returns false; WaitDequeue is going to wait.
DeqEmpty(w) ==
    /\ dpc[w] = "copy" /\ NoElement(w)
    /\ DeqReturn(w, "empty")
    /\ UNCHANGED <<ringVars, element, enqVars, waitVars>>

\* A copy that races with an assignment may yield anything.
DeqCopy(w) ==
    /\ dpc[w] = "copy" /\ ~NoElement(w)
    /\ \E v \in Producers \cup {None} :
         /\ Storing(old_head[w] + 1) \/ v = pool[GetIndex(old_head[w] + 1)]
         /\ element' = [element EXCEPT ![w] = v]
    /\ DGoto(w, "cas")
    /\ UNCHANGED <<ringVars, old_head, enqVars, waitVars>>

HeadUnmoved(w) == head = old_head[w]

DeqClaim(w) ==
    /\ dpc[w] = "cas"
    /\ IF HeadUnmoved(w)
       THEN /\ head' = old_head[w] + 1
            /\ DeqReturn(w, "got")
       ELSE /\ old_head' = [old_head EXCEPT ![w] = head]
            /\ DGoto(w, "copy") /\ UNCHANGED head
    /\ UNCHANGED <<tail, commit, pool, element, enqVars, waitVars>>

-----------------------------------------------------------------------------
(* WaitDequeue: Dequeue until there is an element or the wait is broken *)

EmptyWait(w) ==
    /\ dpc[w] = "empty"
    /\ DGoto(w, "waiting")
    /\ UNCHANGED <<ringVars, old_head, element, enqVars, waitVars>>

\* Sleeping, yielding and spinning end by themselves.
WaitOver(w) ==
    /\ dpc[w] = "waiting" /\ strategy = "sleep"
    /\ DGoto(w, "again")
    /\ UNCHANGED <<ringVars, old_head, element, enqVars, waitVars>>

Broken == break_all_wait

\* WaitDequeue returns false.
WaitBroken(w) ==
    /\ dpc[w] = "again" /\ Broken
    /\ DGoto(w, "idle")
    /\ UNCHANGED <<ringVars, old_head, element, enqVars, waitVars>>

WaitDequeueStep(w) ==
    \/ ~Broken /\ DeqLoadHead(w)
    \/ WaitBroken(w) \/ DeqEmpty(w) \/ DeqCopy(w) \/ DeqClaim(w)
    \/ EmptyWait(w) \/ WaitOver(w)

SetBreakAllWait ==
    /\ break_all_wait' = TRUE
    /\ UNCHANGED <<ringVars, enqVars, deqVars, strategy>>

\* notify_all, without the mutex.
NotifyAll ==
    /\ dpc' = [w \in Consumers |->
                 IF strategy = "block" /\ w \in Waiting THEN "again" ELSE dpc[w]]
    /\ UNCHANGED <<ringVars, enqVars, old_head, element, waitVars>>

-----------------------------------------------------------------------------
QueueTypeOK ==
    /\ head \in Nat /\ tail \in Nat /\ commit \in Nat
    /\ pool \in [0 .. PoolSize - 1 -> Producers \cup {None}]
    /\ epc \in [Producers -> {"idle", "cas", "store", "commit", "notify",
                              "ok", "full"}]
    /\ old_tail \in [Producers -> Nat]
    /\ dpc \in [Consumers -> {"idle", "copy", "cas", "got", "empty",
                              "waiting", "again"}]
    /\ old_head \in [Consumers -> Nat]
    /\ element \in [Consumers -> Producers \cup {None}]
    /\ strategy \in Strategies /\ break_all_wait \in BOOLEAN
    \* the three positions never pass each other
    /\ head < commit /\ commit <= tail /\ tail - head <= QueueSize + 1

\* The published elements, oldest first.
Items == [i \in 1 .. commit - 1 - head |-> pool[GetIndex(head + i)]]

Got == [w \in Consumers |-> IF dpc[w] = "got" THEN element[w] ELSE None]

Fifo == INSTANCE BoundedFifo WITH items <- Items, got <- Got

\* For its callers the queue is a bounded first-in first-out queue: claims,
\* stores and publications of several producers, and copies and claims of
\* several consumers, appear as puts and takes of whole elements.
ImplementsFifo == Fifo!Spec

\* A consumer may copy a slot while a producer assigns to it (which is a data
\* race), but only when other consumers have already taken the element: what
\* it copied is thrown away, because its compare-and-swap fails.
TornCopyDiscarded ==
    \A w \in Consumers, c \in Producers :
        /\ dpc[w] = "cas" \/ (dpc[w] = "copy" /\ ~NoElement(w))
        /\ epc[c] = "store"
        /\ GetIndex(old_head[w] + 1) = GetIndex(old_tail[c])
        => head # old_head[w]

\* Enqueue reports a full queue only when QueueSize elements are claimed, or
\* when the queue has moved on so far that head_ has passed the tail it had
\* loaded; in the second case there may be any number of free slots.
RefusedOnlyIfFullOrOvertaken ==
    [][\A c \in Producers :
         epc[c] = "cas" /\ epc'[c] = "full" =>
             tail - head - 1 = QueueSize \/ head > old_tail[c]]_<<epc>>

=============================================================================
