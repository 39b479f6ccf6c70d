----------------------------- MODULE ThreadPool -----------------------------
(***************************************************************************)
(* Threads that serve a BoundedQueue until it is taken down: the workers   *)
(* of base::ThreadPool (which block on a condition variable) and the       *)
(* writer thread of PerfEventCache (which sleeps between two looks).       *)
(***************************************************************************)
EXTENDS BoundedQueue

CONSTANTS
    NumThreads,     \* workers
    NumCalls,       \* bound: calls of Enqueue
    NumCallers      \* threads that make the calls

ASSUME ConsumersAssumption == Consumers = 1 .. NumThreads
ASSUME ProducersAssumption == Producers = 1 .. NumCalls

VARIABLES
    stop,       \* stop_
    exited,     \* the workers whose loop has ended
    dtor        \* step of the destructor

queueVars == <<ringVars, enqVars, deqVars, waitVars>>
vars == <<queueVars, stop, exited, dtor>>

Init ==
    /\ QueueInit
    /\ stop = FALSE /\ exited = {} /\ dtor = "none"

UnderWay == {c \in Producers : epc[c] \notin {"idle", "ok", "full"}}

\* A call of Enqueue, numbered in the order in which the calls begin; one
\* that finds stop_ set returns an invalid future.
Enqueue(c) ==
    /\ ~stop /\ Cardinality(UnderWay) < NumCallers
    /\ \A d \in 1 .. c - 1 : epc[d] # "idle"
    /\ EnqLoadTail(c)
    /\ UNCHANGED <<stop, exited, dtor>>

EnqueueGoesOn(c) == EnqueueStep(c) /\ UNCHANGED <<stop, exited, dtor>>

\* The loop of a worker: WaitDequeue, unless stop_ is set.
Worker(w) ==
    /\ w \notin exited
    /\ dpc[w] = "idle" => ~stop
    /\ WaitDequeueStep(w)
    /\ UNCHANGED <<stop, exited, dtor>>

RunTask(w) ==
    /\ dpc[w] = "got"
    /\ DeqUsed(w)
    /\ UNCHANGED <<stop, exited, dtor>>

WorkerExits(w) ==
    /\ dpc[w] = "idle" /\ stop /\ w \notin exited
    /\ exited' = exited \cup {w}
    /\ UNCHANGED <<queueVars, stop, dtor>>

-----------------------------------------------------------------------------
(* The destructor *)

\* Nobody destroys a pool while a call of Enqueue is under way.
DtorStop ==
    /\ dtor = "none" /\ UnderWay = {}
    /\ stop' = TRUE /\ dtor' = "break"
    /\ UNCHANGED <<queueVars, exited>>

DtorBreak ==
    /\ dtor = "break" /\ SetBreakAllWait /\ dtor' = "notify"
    /\ UNCHANGED <<stop, exited>>

DtorNotify ==
    /\ dtor = "notify" /\ NotifyAll /\ dtor' = "join"
    /\ UNCHANGED <<stop, exited>>

DtorJoin ==
    /\ dtor = "join" /\ exited = Consumers /\ dtor' = "joined"
    /\ UNCHANGED <<queueVars, stop, exited>>

-----------------------------------------------------------------------------
WorkerStep(w) == Worker(w) \/ RunTask(w) \/ WorkerExits(w)
DtorStep == DtorBreak \/ DtorNotify \/ DtorJoin

Next ==
    \/ \E c \in Producers : Enqueue(c) \/ EnqueueGoesOn(c)
    \/ \E w \in Consumers : WorkerStep(w)
    \/ DtorStop \/ DtorStep

Spec == Init /\ [][Next]_vars

\* Threads are scheduled again and again, sleeps and tasks end; nobody has to
\* call Enqueue or the destructor.
FairSpec ==
    /\ Spec
    /\ \A c \in Producers : WF_vars(EnqueueGoesOn(c))
    /\ \A w \in Consumers : WF_vars(WorkerStep(w))
    /\ WF_vars(DtorStep)

-----------------------------------------------------------------------------
TypeOK ==
    /\ QueueTypeOK
    /\ stop \in BOOLEAN /\ exited \subseteq Consumers
    /\ dtor \in {"none", "break", "notify", "join", "joined"}

\* The queue of the pool is sound, and a slot's copy is used only if nobody has
\* assigned to the slot meanwhile.
QueueInv == TypeOK /\ TornCopyDiscarded

\* A worker of a blocking pool sits on the condition variable.
Blocked(w) == strategy = "block" /\ dpc[w] = "waiting"

\* An element that was put is taken, unless the pool is taken down.  A
\* blocking pool has a gap: a worker that found the queue empty just before
\* the element was published may miss its notification.
ElementsAreTaken ==
    (Items # <<>>) ~> (Items = <<>> \/ stop \/ \A w \in Consumers : Blocked(w))

\* "the destructor joins all threads" (thread_pool.h:89): the pool is taken
\* down once its destructor has begun.  A blocking pool breaks it: a worker
\* that tested break_all_wait_ too early starts to wait after notify_all, and
\* the destructor waits for it for ever.
DestructorReturns == stop ~> dtor = "joined"

=============================================================================
