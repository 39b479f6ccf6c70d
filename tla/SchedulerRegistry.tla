------------------------- MODULE SchedulerRegistry -------------------------
(***************************************************************************)
(* Creating, removing and shutting down routines while processors run      *)
(* them: Scheduler::CreateTask, RemoveTask and Shutdown with DispatchTask  *)
(* and RemoveCRoutine of the two policies, against Processor::Run and      *)
(* NextRoutine.                                                            *)
(*                                                                         *)
(* A routine is registered in two places, the table id_cr_ and a run       *)
(* queue, under different locks; a mutex per task id keeps creation and    *)
(* removal of the same name apart.  The run-queue lock is held by          *)
(* NextRoutine (shared) for the length of a scan and by RemoveCRoutine     *)
(* (exclusive) until the routine has been given up by its processor.  The  *)
(* locks themselves are those of module RWLock, so taking one is a step    *)
(* that waits.  One run queue stands for the queue the routines share.     *)
(***************************************************************************)
EXTENDS Naturals, FiniteSets

CONSTANTS
    Threads,         \* callers of CreateTask and RemoveTask
    Main,            \* the thread that calls Shutdown
    Processors,
    Instances,       \* CRoutine objects, each created once
    Ids,             \* task ids
    None

Actors == Threads \cup {Main} \cup Processors

ASSUME NoneAssumption == None \notin Instances \cup Ids \cup Actors

VARIABLES
    stop,          \* Scheduler::stop_
    ctx_stop,      \* ProcessorContext::stop_
    running,       \* Processor::running_
    id_cr,         \* the table: id -> routine or None
    rq,            \* the run queue
    fresh,         \* routines not yet created
    id_of,         \* routine: its id, once it is created
    force_stop,    \* routine: Stop() has been called
    lock,          \* routine: the flag lock_
    id_mutex,      \* id -> actor that holds the id's mutex, or None
    rq_readers,    \* processors inside a scan
    rq_writer,     \* actor that holds the run-queue lock exclusively, or None
    ppc, todo, cur,   \* processor: step, routines still to look at, routine
    apc, arg,         \* actor: step of its API call, the routine or id
    victim,           \* actor: the routine RemoveCRoutine took from the table
    cr_list,          \* Shutdown: the ids still to be removed
    gone              \* routines whose removal has returned true

flagVars  == <<stop, ctx_stop, running>>
regVars   == <<id_cr, rq, fresh, id_of, force_stop, lock>>
procVars  == <<ppc, todo, cur, rq_readers>>
callVars  == <<apc, arg, victim, cr_list, id_mutex, rq_writer>>
vars == <<flagVars, regVars, procVars, callVars, gone>>

Init ==
    /\ stop = FALSE /\ ctx_stop = FALSE
    /\ running = [p \in Processors |-> TRUE]
    /\ id_cr = [i \in Ids |-> None]
    /\ rq = {} /\ fresh = Instances
    /\ id_of = [c \in Instances |-> None]
    /\ force_stop = [c \in Instances |-> FALSE]
    /\ lock = [c \in Instances |-> FALSE]
    /\ id_mutex = [i \in Ids |-> None]
    /\ rq_readers = {} /\ rq_writer = None
    /\ ppc = [p \in Processors |-> "loop"]
    /\ todo = [p \in Processors |-> {}]
    /\ cur = [p \in Processors |-> None]
    /\ apc = [a \in Actors |-> "idle"]
    /\ arg = [a \in Actors |-> None]
    /\ victim = [a \in Actors |-> None]
    /\ cr_list = {}
    /\ gone = {}

PGoto(p, label) == ppc' = [ppc EXCEPT ![p] = label]
AGoto(a, label) == apc' = [apc EXCEPT ![a] = label]

\* An API call returns: its locals are gone and the id's mutex is unlocked.
Return(a, id) ==
    /\ AGoto(a, "idle")
    /\ arg' = [arg EXCEPT ![a] = None]
    /\ victim' = [victim EXCEPT ![a] = None]
    /\ id_mutex' = [id_mutex EXCEPT ![id] = None]

\* Fault: Acquire succeeds on a routine that is held.
FreeAlways(c) == TRUE
Free(c) == ~lock[c]

\* Fault: Release leaves the flag set.
KeepLocked(c) == lock
Unlocked(c) == [lock EXCEPT ![c] = FALSE]

\* Fault: an actor gets the mutex of an id although another holds it.
NoMutex(id) == TRUE
MutexFree(id) == id_mutex[id] = None

-----------------------------------------------------------------------------
(* Processor::Run *)

DoneReading(p) == rq_readers \ {p}

\* NextRoutine starts a scan under the shared run-queue lock.
ScanStart(p) ==
    /\ ppc[p] = "loop" /\ running[p] /\ ~ctx_stop
    /\ rq_writer = None
    /\ rq_readers' = rq_readers \cup {p}
    /\ todo' = [todo EXCEPT ![p] = rq]
    /\ PGoto(p, "scan")
    /\ UNCHANGED <<flagVars, regVars, cur, callVars, gone>>

\* Acquire fails, or UpdateState does not return READY and the routine is
\* released again: on to the next one.
PassOver(p, c) ==
    /\ ppc[p] = "scan" /\ c \in todo[p]
    /\ todo' = [todo EXCEPT ![p] = @ \ {c}]
    /\ UNCHANGED <<flagVars, regVars, ppc, cur, rq_readers, callVars, gone>>

\* Acquire succeeds and the routine is READY: NextRoutine returns it, which
\* gives up the run-queue lock.
Pick(p, c) ==
    /\ ppc[p] = "scan" /\ c \in todo[p]
    /\ Free(c)
    /\ lock' = [lock EXCEPT ![c] = TRUE]
    /\ cur' = [cur EXCEPT ![p] = c]
    /\ todo' = [todo EXCEPT ![p] = {}]
    /\ rq_readers' = DoneReading(p)
    /\ PGoto(p, "resume")
    /\ UNCHANGED <<flagVars, id_cr, rq, fresh, id_of, force_stop, callVars,
                   gone>>

\* Nothing to run: the lock is given up, and Wait returns sooner or later.
ScanEnd(p) ==
    /\ ppc[p] = "scan" /\ todo[p] = {}
    /\ rq_readers' = DoneReading(p)
    /\ PGoto(p, "loop")
    /\ UNCHANGED <<flagVars, regVars, todo, cur, callVars, gone>>

\* Resume runs the routine unless it was told to stop.
Resume(p) ==
    /\ ppc[p] = "resume"
    /\ PGoto(p, IF force_stop[cur[p]] THEN "release" ELSE "running")
    /\ UNCHANGED <<flagVars, regVars, todo, cur, rq_readers, callVars, gone>>

\* The routine yields; a call it made has returned.
Yield(p) ==
    /\ ppc[p] = "running" /\ apc[p] = "idle"
    /\ PGoto(p, "release")
    /\ UNCHANGED <<flagVars, regVars, todo, cur, rq_readers, callVars, gone>>

Release(p) ==
    /\ ppc[p] = "release"
    /\ lock' = Unlocked(cur[p])
    /\ cur' = [cur EXCEPT ![p] = None]
    /\ PGoto(p, "loop")
    /\ UNCHANGED <<flagVars, id_cr, rq, fresh, id_of, force_stop, todo,
                   rq_readers, callVars, gone>>

\* The loop of Run ends.
Exit(p) ==
    /\ ppc[p] = "loop" /\ ~running[p]
    /\ PGoto(p, "exited")
    /\ UNCHANGED <<flagVars, regVars, todo, cur, rq_readers, callVars, gone>>

-----------------------------------------------------------------------------
(* CreateTask *)

\* Who may call: a thread, or a routine through its processor.
MayCall(a) ==
    /\ apc[a] = "idle"
    /\ a \in Threads \/ (a \in Processors /\ ppc[a] = "running")

\* The test of stop_ and the new CRoutine (the objects are all alike).
CreateTask(a, id) ==
    /\ MayCall(a) /\ fresh # {}
    /\ ~stop
    /\ LET c == CHOOSE x \in fresh : TRUE IN
         /\ fresh' = fresh \ {c}
         /\ id_of' = [id_of EXCEPT ![c] = id]
         /\ arg' = [arg EXCEPT ![a] = c]
    /\ AGoto(a, "c_mutex")
    /\ UNCHANGED <<flagVars, id_cr, rq, force_stop, lock, procVars, victim,
                   cr_list, id_mutex, rq_writer, gone>>

\* DispatchTask locks the mutex of the id.
DispatchLock(a) ==
    /\ apc[a] = "c_mutex"
    /\ MutexFree(id_of[arg[a]])
    /\ id_mutex' = [id_mutex EXCEPT ![id_of[arg[a]]] = a]
    /\ AGoto(a, "c_table")
    /\ UNCHANGED <<flagVars, regVars, procVars, arg, victim, cr_list,
                   rq_writer, gone>>

\* The id is in use: DispatchTask returns false.
DispatchRefused(a) ==
    /\ apc[a] = "c_table"
    /\ id_cr[id_of[arg[a]]] # None
    /\ Return(a, id_of[arg[a]])
    /\ UNCHANGED <<flagVars, regVars, procVars, cr_list, rq_writer, gone>>

DispatchTable(a) ==
    /\ apc[a] = "c_table"
    /\ id_cr[id_of[arg[a]]] = None
    /\ id_cr' = [id_cr EXCEPT ![id_of[arg[a]]] = arg[a]]
    /\ AGoto(a, "c_queue")
    /\ UNCHANGED <<flagVars, rq, fresh, id_of, force_stop, lock, procVars, arg,
                   victim, cr_list, id_mutex, rq_writer, gone>>

\* The routine enters the run queue under the exclusive lock.
DispatchEnqueue(a) ==
    /\ apc[a] = "c_queue"
    /\ rq_writer = None /\ rq_readers = {}
    /\ rq' = rq \cup {arg[a]}
    /\ Return(a, id_of[arg[a]])
    /\ UNCHANGED <<flagVars, id_cr, fresh, id_of, force_stop, lock, procVars,
                   cr_list, rq_writer, gone>>

-----------------------------------------------------------------------------
(* RemoveTask and RemoveCRoutine *)

\* RemoveTask does nothing once stop_ is set.  A routine may call it too, for
\* another task or for itself.
RemoveTask(a, id) ==
    /\ MayCall(a)
    /\ ~stop
    /\ arg' = [arg EXCEPT ![a] = id]
    /\ AGoto(a, "r_mutex")
    /\ UNCHANGED <<flagVars, regVars, procVars, victim, cr_list, id_mutex,
                   rq_writer, gone>>

RemoveLock(a) ==
    /\ apc[a] = "r_mutex"
    /\ MutexFree(arg[a])
    /\ id_mutex' = [id_mutex EXCEPT ![arg[a]] = a]
    /\ AGoto(a, "r_table")
    /\ UNCHANGED <<flagVars, regVars, procVars, arg, victim, cr_list,
                   rq_writer, gone>>

\* No such task.
RemoveRefused(a) ==
    /\ apc[a] = "r_table"
    /\ id_cr[arg[a]] = None
    /\ Return(a, arg[a])
    /\ UNCHANGED <<flagVars, regVars, procVars, cr_list, rq_writer, gone>>

Unlisted(id) == [id_cr EXCEPT ![id] = None]

\* The routine is told to stop and leaves the table.
RemoveTable(a) ==
    /\ apc[a] = "r_table"
    /\ id_cr[arg[a]] # None
    /\ victim' = [victim EXCEPT ![a] = id_cr[arg[a]]]
    /\ force_stop' = [force_stop EXCEPT ![id_cr[arg[a]]] = TRUE]
    /\ id_cr' = Unlisted(arg[a])
    /\ AGoto(a, "r_queue")
    /\ UNCHANGED <<flagVars, rq, fresh, id_of, lock, procVars, arg, cr_list,
                   id_mutex, rq_writer, gone>>

\* The run queue is locked exclusively for the rest of the removal.
RemoveLockQueue(a) ==
    /\ apc[a] = "r_queue"
    /\ rq_writer = None /\ rq_readers = {}
    /\ rq_writer' = a
    /\ AGoto(a, "r_acquire")
    /\ UNCHANGED <<flagVars, regVars, procVars, arg, victim, cr_list, id_mutex,
                   gone>>

\* while (!cr->Acquire()): the wait for the processor that runs it.
RemoveAcquire(a) ==
    /\ apc[a] = "r_acquire"
    /\ victim[a] \in rq
    /\ Free(victim[a])
    /\ lock' = [lock EXCEPT ![victim[a]] = TRUE]
    /\ AGoto(a, "r_erase")
    /\ UNCHANGED <<flagVars, id_cr, rq, fresh, id_of, force_stop, procVars,
                   arg, victim, cr_list, id_mutex, rq_writer, gone>>

\* The routine leaves the queue and is released; every lock is given up.
RemoveErase(a) ==
    /\ apc[a] = "r_erase"
    /\ rq' = rq \ {victim[a]}
    /\ lock' = Unlocked(victim[a])
    /\ gone' = gone \cup {victim[a]}
    /\ rq_writer' = None
    /\ Return(a, arg[a])
    /\ UNCHANGED <<flagVars, id_cr, fresh, id_of, force_stop, procVars,
                   cr_list>>

-----------------------------------------------------------------------------
(* Shutdown *)

\* stop_.exchange(true), then every context is told to stop.
ShutdownStart ==
    /\ apc[Main] = "idle" /\ ~stop
    /\ stop' = TRUE
    /\ AGoto(Main, "s_contexts")
    /\ UNCHANGED <<ctx_stop, running, regVars, procVars, arg, victim, cr_list,
                   id_mutex, rq_writer, gone>>

ShutdownContexts ==
    /\ apc[Main] = "s_contexts"
    /\ ctx_stop' = TRUE
    /\ AGoto(Main, "s_list")
    /\ UNCHANGED <<stop, running, regVars, procVars, arg, victim, cr_list,
                   id_mutex, rq_writer, gone>>

\* The ids that are in the table now.
ShutdownList ==
    /\ apc[Main] = "s_list"
    /\ cr_list' = {i \in Ids : id_cr[i] # None}
    /\ AGoto(Main, "idle")
    /\ UNCHANGED <<flagVars, regVars, procVars, arg, victim, id_mutex,
                   rq_writer, gone>>

\* RemoveCRoutine for the next of them.
ShutdownRemove(id) ==
    /\ apc[Main] = "idle" /\ id \in cr_list
    /\ cr_list' = cr_list \ {id}
    /\ arg' = [arg EXCEPT ![Main] = id]
    /\ AGoto(Main, "r_mutex")
    /\ UNCHANGED <<flagVars, regVars, procVars, victim, id_mutex, rq_writer,
                   gone>>

\* Processor::Stop for all of them, which joins their threads.
ShutdownStop ==
    /\ apc[Main] = "idle" /\ ctx_stop /\ cr_list = {}
    /\ running' = [p \in Processors |-> FALSE]
    /\ AGoto(Main, "s_join")
    /\ UNCHANGED <<stop, ctx_stop, regVars, procVars, arg, victim, cr_list,
                   id_mutex, rq_writer, gone>>

ShutdownJoin ==
    /\ apc[Main] = "s_join"
    /\ \A p \in Processors : ppc[p] = "exited"
    /\ AGoto(Main, "s_done")
    /\ UNCHANGED <<flagVars, regVars, procVars, arg, victim, cr_list, id_mutex,
                   rq_writer, gone>>

-----------------------------------------------------------------------------
ProcessorStep(p) ==
    \/ ScanStart(p) \/ ScanEnd(p)
    \/ \E c \in Instances : PassOver(p, c) \/ Pick(p, c)
    \/ Resume(p) \/ Yield(p) \/ Release(p) \/ Exit(p)

CallStep(a) ==
    \/ DispatchLock(a) \/ DispatchRefused(a) \/ DispatchTable(a)
    \/ DispatchEnqueue(a)
    \/ RemoveLock(a) \/ RemoveRefused(a) \/ RemoveTable(a)
    \/ RemoveLockQueue(a) \/ RemoveAcquire(a) \/ RemoveErase(a)

ShutdownStep ==
    \/ ShutdownContexts \/ ShutdownList
    \/ \E id \in Ids : ShutdownRemove(id)
    \/ ShutdownStop \/ ShutdownJoin

Next ==
    \/ \E p \in Processors : ProcessorStep(p)
    \/ \E a \in Actors :
         \/ CallStep(a)
         \/ \E id \in Ids : CreateTask(a, id) \/ RemoveTask(a, id)
    \/ ShutdownStart \/ ShutdownStep

Spec == Init /\ [][Next]_vars

\* Threads are scheduled, the spinning lock lets a writer in (write_first_,
\* see AtomicRWLock!WriterAdmitted) and a routine that runs yields: it does
\* not call for ever.
Fairness ==
    /\ \A p \in Processors : WF_vars(ProcessorStep(p)) /\ SF_vars(Yield(p))
    /\ \A a \in Actors : SF_vars(CallStep(a))
    /\ WF_vars(ShutdownStep)

FairSpec == Spec /\ Fairness

-----------------------------------------------------------------------------
TypeOK ==
    /\ stop \in BOOLEAN /\ ctx_stop \in BOOLEAN
    /\ running \in [Processors -> BOOLEAN]
    /\ id_cr \in [Ids -> Instances \cup {None}]
    /\ rq \subseteq Instances /\ fresh \subseteq Instances
    /\ id_of \in [Instances -> Ids \cup {None}]
    /\ gone \subseteq Instances
    /\ force_stop \in [Instances -> BOOLEAN]
    /\ lock \in [Instances -> BOOLEAN]
    /\ id_mutex \in [Ids -> Actors \cup {None}]
    /\ rq_readers \subseteq Processors /\ rq_writer \in Actors \cup {None}
    /\ ppc \in [Processors -> {"loop", "scan", "resume", "running", "release",
                               "exited"}]
    /\ todo \in [Processors -> SUBSET Instances]
    /\ cur \in [Processors -> Instances \cup {None}]
    /\ apc \in [Actors -> {"idle", "c_mutex", "c_table", "c_queue", "r_mutex",
                           "r_table", "r_queue", "r_acquire", "r_erase",
                           "s_contexts", "s_list", "s_join", "s_done"}]
    /\ arg \in [Actors -> Instances \cup Ids \cup {None}]
    /\ victim \in [Actors -> Instances \cup {None}]
    /\ cr_list \subseteq Ids

\* Between calls the table and the run queue name the same routines, though
\* each call updates them under different locks.  (So the search of
\* RemoveCRoutine in the queue always finds what it took from the table.)
TableAndQueueAgree ==
    \A c \in Instances :
        id_of[c] # None /\ id_mutex[id_of[c]] = None =>
            (id_cr[id_of[c]] = c <=> c \in rq)

\* Two routines of the same name are never in the run queue together, even
\* when the name is removed and created again at the same time.
OneRoutinePerId ==
    \A c, e \in rq : id_of[c] = id_of[e] => c = e

\* The table and the run queue are sound at any moment of any mix of calls.
RegistryInv == TypeOK /\ TableAndQueueAgree /\ OneRoutinePerId

\* Once a removal has returned, the routine is in no processor's hands and
\* none will find it again: what its callback refers to may be destroyed,
\* as Reader::Shutdown does.
GoneForGood ==
    \A c \in gone :
        c \notin rq /\ \A p \in Processors : cur[p] # c /\ c \notin todo[p]

\* Actor b waits for a lock that a holds: the mutex of an id or the run queue.
Awaits(b, a) ==
    \/ apc[b] = "c_mutex" /\ id_mutex[id_of[arg[b]]] = a
    \/ apc[b] = "r_mutex" /\ id_mutex[arg[b]] = a
    \/ apc[b] \in {"c_queue", "r_queue"} /\ rq_writer = a

\* The routine that actor a removes cannot give up its processor: it is the
\* caller itself, or it is inside CreateTask or RemoveTask and waits for a
\* lock that a holds for the length of the removal, or for a mutex whose
\* holder does.
WaitsForItsRemover(a) ==
    /\ apc[a] = "r_acquire"
    /\ \E p \in Processors :
         /\ cur[p] = victim[a] /\ ppc[p] = "running"
         /\ \/ p = a
            \/ Awaits(p, a)
            \/ \E b \in Actors : Awaits(p, b) /\ Awaits(b, a)

\* A removal that has locked the run queue comes to an end, unless the routine
\* itself calls CreateTask or RemoveTask (of itself, for instance) and the two
\* wait for each other.
RemovalCompletes ==
    rq_writer # None ~> (rq_writer = None \/ WaitsForItsRemover(rq_writer))

\* Shutdown comes to an end with every processor thread joined, except in the
\* same case.
ShutdownCompletes ==
    stop ~> (apc[Main] = "s_done" \/ \E a \in Actors : WaitsForItsRemover(a))

\* RemoveTask and Shutdown return.
CallsComplete == RemovalCompletes /\ ShutdownCompletes

=============================================================================
