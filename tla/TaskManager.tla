---------------------------- MODULE TaskManager ----------------------------
(***************************************************************************)
(* The pool behind Async (cyber/task): clients put tasks into a bounded    *)
(* queue and notify every worker routine; a worker takes tasks until the   *)
(* queue is empty and then hangs up.  The queue is used through what it    *)
(* promises, module BoundedFifo, which module BoundedQueue implements.     *)
(*                                                                         *)
(* A worker, unlike the routines of module RoutineWakeup, looks into its   *)
(* queue before it sets its state to DATA_WAIT.  The processors are        *)
(* reduced to what RoutineWakeup shows of them: one at a time looks at a   *)
(* worker that is not running, again and again.                            *)
(***************************************************************************)
EXTENDS Naturals, Sequences, FiniteSets

CONSTANTS
    NumThreads,     \* num_threads_, the number of workers
    NumCalls,       \* bound: calls of Async, each from a thread of its own
    QueueSize,      \* task_queue_size_
    None

ASSUME NumThreadsAssumption == NumThreads \in Nat \ {0}
ASSUME QueueSizeAssumption == QueueSize \in Nat \ {0}
ASSUME NumCallsAssumption == NumCalls \in Nat
ASSUME NoneAssumption == None \notin Nat

\* The calls, numbered in the order in which they begin.
Clients == 1 .. NumCalls
Workers == 1 .. NumThreads

VARIABLES
    queue,          \* task_queue_: the clients whose task is in it
    task,           \* worker: the task it has in hand, or None
    stop,           \* stop_
    state, updated, \* worker: state_ and updated_ of its routine
    wpc,            \* worker: where it is; "off" while no processor runs it
    cpc,            \* client: step of Enqueue
    index,          \* client: the worker it notifies next
    runs            \* client: how often its task has been run

queueVars  == <<queue, task>>
workerVars == <<state, updated, wpc>>
clientVars == <<cpc, index>>
vars == <<queueVars, stop, workerVars, clientVars, runs>>

\* The queue as its users see it.
Fifo == INSTANCE BoundedFifo
        WITH Producers <- Clients, Consumers <- Workers,
             items <- queue, got <- task

Init ==
    /\ Fifo!Init
    /\ stop = FALSE
    /\ state = [w \in Workers |-> "READY"]
    /\ updated = [w \in Workers |-> TRUE]
    /\ wpc = [w \in Workers |-> "off"]
    /\ cpc = [c \in Clients |-> "idle"]
    /\ index = [c \in Clients |-> 1]
    /\ runs = [c \in Clients |-> 0]

Begins(c) == cpc[c] = "idle" /\ \A d \in 1 .. c - 1 : cpc[d] # "idle"

WGoto(w, label) == wpc' = [wpc EXCEPT ![w] = label]
CGoto(c, label) == cpc' = [cpc EXCEPT ![c] = label]

-----------------------------------------------------------------------------
(* Enqueue *)

\* The queue refuses a task when it is full.  It may also do so when two
\* later tasks have come and gone while the call was under way
\* (BoundedQueue!RefusedOnlyIfFullOrOvertaken).
MayRefuse ==
    \/ Len(queue) = QueueSize
    \/ Cardinality({c \in Clients : runs[c] > 0}) >= 2

Put(c) == Fifo!Put(c)

\* The test of stop_, then Enqueue of the queue, whose result is ignored: a
\* task that is refused is dropped, and the workers are notified all the same.
Enqueue(c) ==
    /\ Begins(c) /\ ~stop
    /\ Put(c) \/ (MayRefuse /\ UNCHANGED queueVars)
    /\ CGoto(c, "read")
    /\ UNCHANGED <<stop, workerVars, index, runs>>

\* After Shutdown the task is not even queued.
EnqueueStopped(c) ==
    /\ Begins(c) /\ stop
    /\ CGoto(c, "waiting")
    /\ UNCHANGED <<queueVars, stop, workerVars, index, runs>>

\* NotifyTask of the next worker reads its state ...
ReadState(c) ==
    /\ cpc[c] = "read" /\ index[c] <= NumThreads
    /\ IF state[index[c]] = "DATA_WAIT"
       THEN CGoto(c, "mark") /\ UNCHANGED index
       ELSE index' = [index EXCEPT ![c] = @ + 1] /\ UNCHANGED cpc
    /\ UNCHANGED <<queueVars, stop, workerVars, runs>>

\* Fault: only the processor is told.
Unmarked(w) == updated
Marked(w) == [updated EXCEPT ![w] = FALSE]

\* ... and clears its flag.
SetUpdateFlag(c) ==
    /\ cpc[c] = "mark"
    /\ updated' = Marked(index[c])
    /\ index' = [index EXCEPT ![c] = @ + 1]
    /\ CGoto(c, "read")
    /\ UNCHANGED <<queueVars, stop, state, wpc, runs>>

\* Enqueue returns the future; get() waits.
EnqueueReturns(c) ==
    /\ cpc[c] = "read" /\ index[c] > NumThreads
    /\ CGoto(c, "waiting")
    /\ UNCHANGED <<queueVars, stop, workerVars, index, runs>>

-----------------------------------------------------------------------------
(* A worker *)

\* Fault: UpdateState overlooks the flag.
NotPromoted(w) == FALSE
Promoted(w) == state[w] = "DATA_WAIT" /\ ~updated[w]

\* A processor looks at it: UpdateState consumes the flag, and a READY
\* worker is resumed at the head of its loop.
Schedule(w) ==
    /\ wpc[w] = "off"
    /\ state[w] = "READY" \/ Promoted(w)
    /\ updated' = [updated EXCEPT ![w] = TRUE]
    /\ state' = [state EXCEPT ![w] = "READY"]
    /\ WGoto(w, "loop")
    /\ UNCHANGED <<queueVars, stop, clientVars, runs>>

\* while (!stop_) ends: CRoutineEntry yields FINISHED.
Finish(w) ==
    /\ wpc[w] = "loop" /\ stop
    /\ state' = [state EXCEPT ![w] = "FINISHED"]
    /\ WGoto(w, "off")
    /\ UNCHANGED <<queueVars, stop, updated, clientVars, runs>>

\* Fault: the task stays in the queue.
Peek(w) ==
    task' = [task EXCEPT ![w] = Head(queue)] /\ UNCHANGED queue
Take(w) == Fifo!Take(w)

Dequeue(w) ==
    /\ wpc[w] = "loop" /\ ~stop /\ queue # <<>>
    /\ Take(w)
    /\ WGoto(w, "task")
    /\ UNCHANGED <<stop, state, updated, clientVars, runs>>

\* The queue is empty; the worker is now going to hang up.
DequeueFails(w) ==
    /\ wpc[w] = "loop" /\ ~stop /\ queue = <<>>
    /\ WGoto(w, "hangup")
    /\ UNCHANGED <<queueVars, stop, state, updated, clientVars, runs>>

RunTask(w) ==
    /\ wpc[w] = "task"
    /\ runs' = [runs EXCEPT ![task[w]] = @ + 1]
    /\ Fifo!Use(w)
    /\ WGoto(w, "loop")
    /\ UNCHANGED <<stop, state, updated, clientVars>>

\* HangUp(): the state becomes DATA_WAIT and the worker yields.
HangUp(w) ==
    /\ wpc[w] = "hangup"
    /\ state' = [state EXCEPT ![w] = "DATA_WAIT"]
    /\ WGoto(w, "off")
    /\ UNCHANGED <<queueVars, stop, updated, clientVars, runs>>

Shutdown ==
    /\ ~stop
    /\ stop' = TRUE
    /\ UNCHANGED <<queueVars, workerVars, clientVars, runs>>

-----------------------------------------------------------------------------
ClientStep(c) ==
    ReadState(c) \/ SetUpdateFlag(c) \/ EnqueueReturns(c)

WorkerStep(w) ==
    \/ Schedule(w) \/ Finish(w) \/ Dequeue(w) \/ DequeueFails(w)
    \/ RunTask(w) \/ HangUp(w)

Next ==
    \/ \E c \in Clients : Enqueue(c) \/ EnqueueStopped(c) \/ ClientStep(c)
    \/ \E w \in Workers : WorkerStep(w)
    \/ Shutdown

Spec == Init /\ [][Next]_vars

\* Every thread is scheduled again and again and tasks end; nobody has to
\* call Async or Shutdown.
FairSpec ==
    /\ Spec
    /\ \A c \in Clients : WF_vars(ClientStep(c))
    /\ \A w \in Workers : WF_vars(WorkerStep(w))

-----------------------------------------------------------------------------
TypeOK ==
    /\ queue \in Seq(Clients) /\ Len(queue) <= QueueSize
    /\ task \in [Workers -> Clients \cup {None}]
    /\ stop \in BOOLEAN
    /\ state \in [Workers -> {"READY", "DATA_WAIT", "FINISHED"}]
    /\ updated \in [Workers -> BOOLEAN]
    /\ wpc \in [Workers -> {"off", "loop", "task", "hangup"}]
    /\ cpc \in [Clients -> {"idle", "read", "mark", "waiting"}]
    /\ index \in [Clients -> 1 .. NumThreads + 1]
    /\ runs \in [Clients -> Nat]

\* A task is never run a second time, though every worker is woken for it,
\* nor left in the queue or in another worker's hands when it has been run.
RunAtMostOnce ==
    \A c \in Clients :
        Cardinality({i \in 1 .. Len(queue) : queue[i] = c})
          + Cardinality({w \in Workers : task[w] = c}) + runs[c] <= 1

\* The pool is sound: a task is in one place, and gone once it has been run.
PoolInv == TypeOK /\ RunAtMostOnce

Suspended(w) == wpc[w] = "off" /\ state[w] = "DATA_WAIT" /\ updated[w]

\* The tasks in the queue and in the hands of workers.
Unfinished == {c \in Clients : \/ \E i \in 1 .. Len(queue) : queue[i] = c
                               \/ \E w \in Workers : task[w] = c}

\* The tasks that Async has queued are all run, unless the pool is shut down,
\* or every worker had looked into the queue before a task was in it and hung
\* up after the notification had passed it: then nobody comes for it.
QueuedIsRun ==
    Unfinished # {} ~> (Unfinished = {} \/ stop \/ \A w \in Workers : Suspended(w))

\* A task that was left behind in this way is picked up by the next call of
\* Async: if every worker hangs when a client starts to notify them, the
\* queue is worked off.
NextCallRescues ==
    (/\ \E c \in Clients : cpc[c] = "read" /\ index[c] = 1
     /\ \A w \in Workers : Suspended(w))
    ~> (queue = <<>> \/ stop)

=============================================================================
