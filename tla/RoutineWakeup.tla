--------------------------- MODULE RoutineWakeup ---------------------------
(***************************************************************************)
(* How a message wakes the routine that consumes it: the path from         *)
(* DataDispatcher::Dispatch through DataNotifier::Notify and               *)
(* Scheduler::NotifyProcessor to a processor that finds the routine in     *)
(* NextRoutine, resumes it and releases it.                                *)
(*                                                                         *)
(* Two flags of a routine carry the protocol.  lock_ (Acquire/Release)     *)
(* lets one processor at a time look at it.  updated_ is cleared by a      *)
(* notifier and set by UpdateState: clear means "news since the last       *)
(* look".  A context (a group of the classic policy, or one processor of   *)
(* the choreography policy) has a counter of wake-up tokens under a mutex  *)
(* and a condition variable.                                               *)
(*                                                                         *)
(* The plain fields are written by the holder of lock_ only; state_ is     *)
(* also read by notifiers, so each read and write of it is a step.  The    *)
(* messages themselves are only counted: what the buffers keep is the      *)
(* business of module ChannelData.  A routine is dispatched to its run     *)
(* queue while the processors are at work; how table and queue agree when  *)
(* tasks are created and removed, and the shutdown, are the business of    *)
(* module SchedulerRegistry.                                               *)
(***************************************************************************)
EXTENDS Naturals, Sequences, FiniteSets

CONSTANTS
    Processors,
    Routines,
    Senders,          \* threads that call Dispatch
    ReadersOf,        \* sender: the routines that read its channels
    Contexts,
    Layouts,          \* what the scheduler's configuration may say
    Sleepers,         \* routines whose callback may call SleepFor / USleep
    MaxSends,         \* bound: messages per sender
    None

ASSUME RoutinesAssumption == None \notin Routines
\* A layout names the processors that are started, gives each processor its
\* context and each context the places of its run queue, highest priority
\* first, and says whether DispatchTask ends with Notify: the classic policy
\* does, the choreography policy does not.
ASSUME LayoutsAssumption ==
    Layouts \subseteq [procs : SUBSET Processors,
                       ctx : [Processors -> Contexts],
                       queue : [Contexts -> Seq(Routines)],
                       notifies : BOOLEAN]
\* DispatchTask puts a routine into one run queue, once.
ASSUME PlaceAssumption ==
    \A y \in Layouts : \A c, d \in Contexts :
      \A i \in 1 .. Len(y.queue[c]), j \in 1 .. Len(y.queue[d]) :
        y.queue[c][i] = y.queue[d][j] => c = d /\ i = j
ASSUME ReadersAssumption == ReadersOf \in [Senders -> SUBSET Routines]
ASSUME SleepersAssumption == Sleepers \subseteq Routines
ASSUME SendsAssumption == MaxSends \in Nat

VARIABLES
    layout,      \* the layout read when the scheduler was created
    state,       \* routine: state_
    updated,     \* routine: the flag updated_; FALSE means news
    lock,        \* routine: the flag lock_; TRUE means acquired
    at,          \* routine: where its function will continue
    due,         \* routine: wake_time_ has passed
    pending,     \* routine: messages in its buffer that it has not fetched
    created,     \* routine: how far CreateTask has got with it
    missed,      \* routine: a dispatch found no callback since it was empty
    ppc,         \* processor: the next step
    pos,         \* processor: index into the run queue
    cur,         \* processor: the routine it acquired, or None
    notify,      \* context: wake-up tokens
    spc,         \* sender: the next step
    target,      \* sender: the routine its message is for, or None
    sends        \* sender: messages dispatched so far

routineVars   == <<state, updated, lock, at, due, created>>
processorVars == <<ppc, pos, cur>>
senderVars    == <<spc, target, sends>>
vars == <<layout, routineVars, pending, missed, processorVars, notify, senderVars>>

CtxOf == layout.ctx
Queue == layout.queue

RoutineStates == {"READY", "SLEEP", "DATA_WAIT"}
RoutinePcs    == {"start", "loop", "fetch", "callback", "slept"}
CreatePcs     == {"dispatch", "token", "signal", "register", "done"}
ProcessorPcs  == {"scan", "update", "promote", "decide", "running",
                  "release", "wait", "asleep", "woken"}
SenderPcs     == {"idle", "callback", "lookup", "flag", "token", "signal"}

\* The processors run before there is a task.  A routine is born READY with
\* updated_ set.
Init ==
    /\ layout \in Layouts
    /\ state = [r \in Routines |-> "READY"]
    /\ updated = [r \in Routines |-> TRUE]
    /\ lock = [r \in Routines |-> FALSE]
    /\ at = [r \in Routines |-> "start"]
    /\ due = [r \in Routines |-> FALSE]
    /\ pending = [r \in Routines |-> 0]
    /\ created = [r \in Routines |-> "dispatch"]
    /\ missed = [r \in Routines |-> FALSE]
    /\ ppc = [p \in Processors |-> "scan"]
    /\ pos = [p \in Processors |-> 1]
    /\ cur = [p \in Processors |-> None]
    /\ notify = [c \in Contexts |-> 0]
    /\ spc = [s \in Senders |-> "idle"]
    /\ target = [s \in Senders |-> None]
    /\ sends = [s \in Senders |-> 0]

PGoto(p, label) == ppc' = [ppc EXCEPT ![p] = label]
SGoto(s, label) == spc' = [spc EXCEPT ![s] = label]

-----------------------------------------------------------------------------
(* A processor: NextRoutine *)

\* Fault: the routine is taken although another processor holds it.
FreeAlways(r) == TRUE
Free(r) == ~lock[r]

\* A place whose routine has not been dispatched yet is not in the queue.  The
\* lock of the queue keeps insertions out of a scan; one that happens here
\* during a scan stands for one right before the scan, if its place is ahead
\* of the cursor, and else for one right after it.
Enqueued(r) == created[r] # "dispatch"

\* Acquire succeeds on the routine under the cursor.
Acquire(p) ==
    /\ ppc[p] = "scan"
    /\ pos[p] <= Len(Queue[CtxOf[p]])
    /\ LET r == Queue[CtxOf[p]][pos[p]] IN
         /\ Enqueued(r) /\ Free(r)
         /\ lock' = [lock EXCEPT ![r] = TRUE]
         /\ cur' = [cur EXCEPT ![p] = r]
    /\ PGoto(p, "update")
    /\ UNCHANGED <<state, updated, at, due, created, pending, missed, pos,
                   notify, senderVars>>

\* Acquire fails: continue with the next place of the queue.
Skip(p) ==
    /\ ppc[p] = "scan"
    /\ pos[p] <= Len(Queue[CtxOf[p]])
    /\ LET r == Queue[CtxOf[p]][pos[p]] IN ~(Enqueued(r) /\ Free(r))
    /\ pos' = [pos EXCEPT ![p] = @ + 1]
    /\ UNCHANGED <<routineVars, pending, missed, ppc, cur, notify, senderVars>>

\* The end of the queue: NextRoutine returns nullptr and Run calls Wait.
Exhausted(p) ==
    /\ ppc[p] = "scan"
    /\ pos[p] > Len(Queue[CtxOf[p]])
    /\ PGoto(p, "wait")
    /\ UNCHANGED <<routineVars, pending, missed, pos, cur, notify, senderVars>>

\* UpdateState, first branch: a sleeper whose time has come.
UpdateSleeper(p) ==
    /\ ppc[p] = "update"
    /\ state[cur[p]] = "SLEEP" /\ due[cur[p]]
    /\ state' = [state EXCEPT ![cur[p]] = "READY"]
    /\ PGoto(p, "decide")
    /\ UNCHANGED <<updated, lock, at, due, created, pending, missed, pos, cur,
                   notify, senderVars>>

\* UpdateState, second branch: test_and_set of updated_.
TestAndSetUpdated(p) ==
    /\ ppc[p] = "update"
    /\ ~(state[cur[p]] = "SLEEP" /\ due[cur[p]])
    /\ updated' = [updated EXCEPT ![cur[p]] = TRUE]
    /\ PGoto(p, IF updated[cur[p]] THEN "decide" ELSE "promote")
    /\ UNCHANGED <<state, lock, at, due, created, pending, missed, pos, cur,
                   notify, senderVars>>

\* updated_ was clear: a waiting routine becomes READY.
Promote(p) ==
    /\ ppc[p] = "promote"
    /\ state' = IF state[cur[p]] = "DATA_WAIT"
                THEN [state EXCEPT ![cur[p]] = "READY"] ELSE state
    /\ PGoto(p, "decide")
    /\ UNCHANGED <<updated, lock, at, due, created, pending, missed, pos, cur,
                   notify, senderVars>>

\* READY: NextRoutine returns the routine and Resume switches to it.
Resume(p) ==
    /\ ppc[p] = "decide"
    /\ state[cur[p]] = "READY"
    /\ PGoto(p, "running")
    /\ UNCHANGED <<routineVars, pending, missed, pos, cur, notify, senderVars>>

\* Not READY: Release, and on to the next routine of the queue.
PassOver(p) ==
    /\ ppc[p] = "decide"
    /\ state[cur[p]] # "READY"
    /\ lock' = [lock EXCEPT ![cur[p]] = FALSE]
    /\ cur' = [cur EXCEPT ![p] = None]
    /\ pos' = [pos EXCEPT ![p] = @ + 1]
    /\ PGoto(p, "scan")
    /\ UNCHANGED <<state, updated, at, due, created, pending, missed, notify,
                   senderVars>>

\* Resume has returned: Run releases the routine and scans from the top.
Release(p) ==
    /\ ppc[p] = "release"
    /\ lock' = [lock EXCEPT ![cur[p]] = FALSE]
    /\ cur' = [cur EXCEPT ![p] = None]
    /\ pos' = [pos EXCEPT ![p] = 1]
    /\ PGoto(p, "scan")
    /\ UNCHANGED <<state, updated, at, due, created, pending, missed, notify,
                   senderVars>>

-----------------------------------------------------------------------------
(* The routine, on the processor that resumed it *)

\* set_state(DATA_WAIT), before the buffer is looked at.
SetDataWait(p) ==
    /\ ppc[p] = "running" /\ at[cur[p]] \in {"start", "loop"}
    /\ state' = [state EXCEPT ![cur[p]] = "DATA_WAIT"]
    /\ at' = [at EXCEPT ![cur[p]] = "fetch"]
    /\ UNCHANGED <<updated, lock, due, created, pending, missed,
                   processorVars, notify, senderVars>>

\* TryFetch returns a message: the next one or, on the first fetch and after
\* an overflow, the newest, in which case the older ones are gone.
FetchMessage(p) ==
    /\ ppc[p] = "running" /\ at[cur[p]] = "fetch"
    /\ \E n \in 0 .. pending[cur[p]] :
         /\ n < pending[cur[p]]
         /\ pending' = [pending EXCEPT ![cur[p]] = n]
         /\ missed' = [missed EXCEPT ![cur[p]] = @ /\ n > 0]
    /\ at' = [at EXCEPT ![cur[p]] = "callback"]
    /\ UNCHANGED <<state, updated, lock, due, created, processorVars, notify,
                   senderVars>>

\* TryFetch finds nothing: Yield() with the state left at DATA_WAIT.
FetchNothing(p) ==
    /\ ppc[p] = "running" /\ at[cur[p]] = "fetch"
    /\ pending[cur[p]] = 0
    /\ at' = [at EXCEPT ![cur[p]] = "loop"]
    /\ PGoto(p, "release")
    /\ UNCHANGED <<state, updated, lock, due, created, pending, missed, pos,
                   cur, notify, senderVars>>

\* The callback f(msg) returns and the routine does Yield(READY).
CallbackReturns(p) ==
    /\ ppc[p] = "running" /\ at[cur[p]] \in {"callback", "slept"}
    /\ state' = [state EXCEPT ![cur[p]] = "READY"]
    /\ at' = [at EXCEPT ![cur[p]] = "loop"]
    /\ PGoto(p, "release")
    /\ UNCHANGED <<updated, lock, due, created, pending, missed, pos, cur,
                   notify, senderVars>>

\* The callback calls CRoutine::Sleep (here at most once).
Sleep(p) ==
    /\ cur[p] \in Sleepers
    /\ ppc[p] = "running" /\ at[cur[p]] = "callback"
    /\ state' = [state EXCEPT ![cur[p]] = "SLEEP"]
    /\ due' = [due EXCEPT ![cur[p]] = FALSE]
    /\ at' = [at EXCEPT ![cur[p]] = "slept"]
    /\ PGoto(p, "release")
    /\ UNCHANGED <<updated, lock, created, pending, missed, pos, cur, notify,
                   senderVars>>

\* The clock passes wake_time_.
Elapse(r) ==
    /\ state[r] = "SLEEP" /\ ~due[r]
    /\ due' = [due EXCEPT ![r] = TRUE]
    /\ UNCHANGED <<state, updated, lock, at, created, pending, missed,
                   processorVars, notify, senderVars>>

-----------------------------------------------------------------------------
(* A processor: Wait *)

OneLess(n) == IF n > 0 THEN n - 1 ELSE n

\* Take a token if there is one and scan again.
TakeToken(p) ==
    /\ notify' = [notify EXCEPT ![CtxOf[p]] = OneLess(@)]
    /\ pos' = [pos EXCEPT ![p] = 1]
    /\ PGoto(p, "scan")
    /\ UNCHANGED <<routineVars, pending, missed, cur, senderVars>>

\* Entry of wait_for, and a return from the inner wait: the predicate holds.
WaitPasses(p) ==
    /\ ppc[p] \in {"wait", "woken"}
    /\ notify[CtxOf[p]] > 0
    /\ TakeToken(p)

\* The predicate does not hold: the thread blocks and frees the mutex.
WaitBlocks(p) ==
    /\ ppc[p] \in {"wait", "woken"}
    /\ notify[CtxOf[p]] = 0
    /\ PGoto(p, "asleep")
    /\ UNCHANGED <<routineVars, pending, missed, pos, cur, notify, senderVars>>

\* Fault: wait() in place of wait_for().
NeverTimeout(p) == FALSE /\ UNCHANGED vars

\* 1000 ms have passed.
Timeout(p) == ppc[p] = "asleep" /\ TakeToken(p)

-----------------------------------------------------------------------------
(* A sender: Dispatch, then the callback of CreateTask for the routine *)

\* The context whose run queue holds the routine.
InQueue(r, c) == \E i \in 1 .. Len(Queue[c]) : Queue[c][i] = r
CtxOfRoutine(r) == CHOOSE c \in Contexts : InQueue(r, c)

\* Fill under the buffer's mutex.  A fused visitor whose other channels are
\* still empty drops the message but is notified all the same.
Fill(s, r) ==
    /\ spc[s] = "idle" /\ sends[s] < MaxSends
    /\ r \in ReadersOf[s]
    /\ \E c \in Contexts : InQueue(r, c)
    /\ \E n \in {0, 1} : pending' = [pending EXCEPT ![r] = @ + n]
    /\ target' = [target EXCEPT ![s] = r]
    /\ sends' = [sends EXCEPT ![s] = @ + 1]
    /\ SGoto(s, "callback")
    /\ UNCHANGED <<routineVars, missed, processorVars, notify>>

HasCallback(r) == created[r] = "done"

\* DataNotifier::Notify calls the callback if there is one yet.
CallCallback(s) ==
    /\ spc[s] = "callback"
    /\ SGoto(s, IF HasCallback(target[s]) THEN "lookup" ELSE "idle")
    /\ missed' = [missed EXCEPT ![target[s]] =
                    @ \/ (~HasCallback(target[s]) /\ pending[target[s]] > 0)]
    /\ target' = IF HasCallback(target[s]) THEN target
                 ELSE [target EXCEPT ![s] = None]
    /\ UNCHANGED <<routineVars, pending, processorVars, notify, sends>>

\* Fault: the routine is never marked.
NeedsNoMark(r) == FALSE
NeedsMark(r) == state[r] = "DATA_WAIT"

\* NotifyProcessor reads the state of the routine.
ReadState(s) ==
    /\ spc[s] = "lookup"
    /\ SGoto(s, IF NeedsMark(target[s]) THEN "flag" ELSE "token")
    /\ UNCHANGED <<routineVars, pending, missed, processorVars, notify, target,
                   sends>>

SetUpdateFlag(s) ==
    /\ spc[s] = "flag"
    /\ updated' = [updated EXCEPT ![target[s]] = FALSE]
    /\ SGoto(s, "token")
    /\ UNCHANGED <<state, lock, at, due, created, pending, missed,
                   processorVars, notify, target, sends>>

\* Fault: the processor is signalled without a token.
SameTokens(n) == n
OneMore(n) == n + 1

\* Context::Notify, under the mutex of the wait queue.
AddToken(c) == notify' = [notify EXCEPT ![c] = OneMore(@)]

\* Processors blocked on the condition variable of a context.
Asleep(c) == {p \in Processors : CtxOf[p] = c /\ ppc[p] = "asleep"}

\* notify_one: some blocked processor, if there is one.
Signal(c) ==
    \/ Asleep(c) = {} /\ UNCHANGED ppc
    \/ \E p \in Asleep(c) : PGoto(p, "woken")

Notify(s) ==
    /\ spc[s] = "token"
    /\ AddToken(CtxOfRoutine(target[s]))
    /\ SGoto(s, "signal")
    /\ UNCHANGED <<routineVars, pending, missed, processorVars, target, sends>>

NotifyOne(s) ==
    /\ spc[s] = "signal"
    /\ Signal(CtxOfRoutine(target[s]))
    /\ SGoto(s, "idle")
    /\ target' = [target EXCEPT ![s] = None]
    /\ UNCHANGED <<routineVars, pending, missed, pos, cur, notify, sends>>

-----------------------------------------------------------------------------
(* CreateTask, by a thread that is neither a processor nor a sender *)

CGoto(r, label) ==
    /\ created' = [created EXCEPT ![r] = label]
    /\ UNCHANGED <<state, updated, lock, at, due, pending, missed, pos, cur,
                   senderVars>>

\* DispatchTask puts the routine, which is READY, into its run queue.
DispatchTask(r) ==
    /\ created[r] = "dispatch"
    /\ \E c \in Contexts : InQueue(r, c)
    /\ CGoto(r, IF layout.notifies THEN "token" ELSE "register")
    /\ UNCHANGED <<ppc, notify>>

\* The Notify of the classic policy.
DispatchToken(r) ==
    /\ created[r] = "token"
    /\ AddToken(CtxOfRoutine(r))
    /\ CGoto(r, "signal")
    /\ UNCHANGED ppc

DispatchSignal(r) ==
    /\ created[r] = "signal"
    /\ Signal(CtxOfRoutine(r))
    /\ CGoto(r, "register")
    /\ UNCHANGED notify

\* The last step of CreateTask.
RegisterNotifyCallback(r) ==
    /\ created[r] = "register"
    /\ CGoto(r, "done")
    /\ UNCHANGED <<ppc, notify>>

-----------------------------------------------------------------------------
NextRoutine(p) ==
    \/ Acquire(p) \/ Skip(p) \/ Exhausted(p)
    \/ UpdateSleeper(p) \/ TestAndSetUpdated(p) \/ Promote(p)
    \/ Resume(p) \/ PassOver(p) \/ Release(p)

RoutineStep(p) ==
    \/ SetDataWait(p) \/ FetchMessage(p) \/ FetchNothing(p)
    \/ CallbackReturns(p) \/ Sleep(p)

Wait(p) == WaitPasses(p) \/ WaitBlocks(p)

Deliver(s) ==
    \/ CallCallback(s) \/ ReadState(s) \/ SetUpdateFlag(s)
    \/ Notify(s) \/ NotifyOne(s)

CreateTask(r) ==
    \/ DispatchTask(r) \/ DispatchToken(r) \/ DispatchSignal(r)
    \/ RegisterNotifyCallback(r)

Next ==
    /\ \/ \E p \in layout.procs :
            NextRoutine(p) \/ RoutineStep(p) \/ Wait(p) \/ Timeout(p)
       \/ \E s \in Senders : Deliver(s) \/ \E r \in Routines : Fill(s, r)
       \/ \E r \in Routines : Elapse(r) \/ CreateTask(r)
    /\ UNCHANGED layout

Spec == Init /\ [][Next]_vars

\* Another processor takes its work from the same run queue.
Shared(p) == \E q \in layout.procs \ {p} : CtxOf[q] = CtxOf[p]

\* The routine was dispatched without Notify and has not run yet.
Unannounced(r) == Enqueued(r) /\ at[r] = "start" /\ ~layout.notifies

\* Nobody signals the end of a sleep, or a routine's arrival without Notify.
Unsignalled(p) ==
    \E r \in Routines :
        InQueue(r, CtxOf[p]) /\ (state[r] = "SLEEP" \/ Unannounced(r))

\* Every thread is scheduled again and again, time passes, and CreateTask
\* runs to its end; nobody has to send.  The time-out of wait_for is counted
\* on in a classic group, to wake a sleeper and to start a routine that came
\* without Notify: a processor with a context of its own must find its
\* messages without.
FairSpec ==
    /\ Spec
    /\ \A p \in Processors :
         /\ WF_vars((NextRoutine(p) \/ RoutineStep(p) \/ Wait(p))
                    /\ p \in layout.procs /\ UNCHANGED layout)
         /\ WF_vars(Timeout(p) /\ (Shared(p) \/ Unsignalled(p))
                    /\ p \in layout.procs /\ UNCHANGED layout)
    /\ \A s \in Senders : WF_vars(Deliver(s) /\ UNCHANGED layout)
    /\ \A r \in Routines :
         /\ WF_vars(Elapse(r) /\ UNCHANGED layout)
         /\ WF_vars(CreateTask(r) /\ UNCHANGED layout)

-----------------------------------------------------------------------------
TypeOK ==
    /\ layout \in Layouts
    /\ state \in [Routines -> RoutineStates]
    /\ updated \in [Routines -> BOOLEAN]
    /\ lock \in [Routines -> BOOLEAN]
    /\ at \in [Routines -> RoutinePcs]
    /\ due \in [Routines -> BOOLEAN]
    /\ pending \in [Routines -> Nat]
    /\ created \in [Routines -> CreatePcs]
    /\ missed \in [Routines -> BOOLEAN]
    /\ ppc \in [Processors -> ProcessorPcs]
    /\ pos \in [Processors -> Nat \ {0}]
    /\ cur \in [Processors -> Routines \cup {None}]
    /\ notify \in [Contexts -> Nat]
    /\ spc \in [Senders -> SenderPcs]
    /\ target \in [Senders -> Routines \cup {None}]
    /\ sends \in [Senders -> Nat]

Holding == {"update", "promote", "decide", "running", "release"}

\* Two processors of a group never work on the same routine at once, whether
\* they update its state or run it: the routine's stack has one user.
ExclusiveRun ==
    \A p, q \in Processors :
        cur[p] # None /\ cur[p] = cur[q] => p = q

\* A dispatch to the routine has still to look at state_ or clear updated_.
Marking(r) ==
    \E s \in Senders : target[s] = r /\ spc[s] \in {"callback", "lookup", "flag"}

\* A message that was filled after the callback was registered is never
\* forgotten: if the routine waits for data, nobody holds it and its buffer
\* is not empty, then updated_ is clear, so that the next scan makes it
\* READY, or the dispatch is still about to clear it.
NoLostWakeup ==
    \A r \in Routines :
        /\ state[r] = "DATA_WAIT" /\ ~lock[r]
        /\ pending[r] > 0 /\ ~missed[r]
        => ~updated[r] \/ Marking(r)

\* The next scan would run the routine.
Runnable(r) ==
    state[r] = "READY" \/ (state[r] = "DATA_WAIT" /\ ~updated[r])

\* The Notify for the routine has been decided on and has yet to add its
\* token.
TokenComing(r) ==
    \/ created[r] = "token"
    \/ \E s \in Senders : target[s] = r /\ spc[s] = "token"

\* Where a context has one processor, that processor never blocks in Wait
\* without a token while one of its routines could run, unless the Notify
\* for that routine has yet to add the token, or the routine is new and the
\* choreography policy dispatched it without Notify.
IdleMeansNoWork ==
    \A p \in Processors :
        /\ ppc[p] = "asleep" /\ notify[CtxOf[p]] = 0
        /\ ~Shared(p)
        => \A i \in 1 .. Len(Queue[CtxOf[p]]) :
             LET r == Queue[CtxOf[p]][i] IN
             Enqueued(r) /\ Runnable(r) => TokenComing(r) \/ Unannounced(r)

\* Every routine that is dispatched gets to run, although DispatchTask of the
\* choreography policy signals nobody: the time-out of Wait finds it.
Started ==
    LET new == {r \in Routines : Enqueued(r) /\ at[r] = "start"}
    IN  new # {} ~> new = {}

\* Every message in a buffer is eventually consumed (or superseded by a
\* newer one that is), once the senders pause; except one that was
\* dispatched before the routine's callback was registered.
Consumed ==
    \A r \in Routines :
        (pending[r] > 0 /\ ~missed[r]) ~> (pending[r] = 0 \/ missed[r])

=============================================================================
