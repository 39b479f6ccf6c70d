# A verification of Cyber RT

Cyber RT is the runtime of a driving stack: components exchange messages over
named channels, and user-level routines, scheduled on a few processor threads,
consume them. This directory models the runtime's own core (`src/cyber`) in
TLA+. It model-checks the parts on small instances and proves for every instance
what the runs check of safety: all invariants, action properties and
refinements. What is left to the model checker alone is progress.

Contents

1. [The system](#1-the-system)
2. [Inventory of components](#2-inventory-of-components)
3. [Modules and how they follow the code](#3-modules-and-how-they-follow-the-code)
4. [The runs](#4-the-runs)
5. [Bounds](#5-bounds)
6. [Fairness](#6-fairness)
7. [The proofs](#7-the-proofs)
8. [Findings](#8-findings)
9. [What is not modelled](#9-what-is-not-modelled)
10. [Plan](#10-plan)

How to run: `tlc -config MCRings.cfg MCRings` for a run (section 4
lists module and configuration of each), `tlapm RoutineWakeupProofs.tla` for
the proofs of a component. The files use the standard modules, the TLAPS
library and nothing else.

## 1. The system

A message takes this path:

    writer -> transport (intra-process | shared memory | RTPS)
           -> dispatcher of the receiving process
           -> DataDispatcher: the buffers of the channel   (module ChannelData)
           -> DataNotifier: the callback of each visitor   (module RoutineWakeup)
           -> Scheduler::NotifyProcessor: mark and token   (module RoutineWakeup)
           -> Processor::Run / NextRoutine / Resume        (module RoutineWakeup)
           -> the routine: TryFetch, then the user's callback

Between processes of one machine the bytes go through the blocks of a
shared-memory segment (module ShmSegment), and a ring of notifications says
which block can be read (module ConditionNotifier). Writers and readers find
each other through the topology, which also decides the transport between them
(module Topology). Services are two channels with requests and responses
(module ServiceCall).

Routines come and go through `Scheduler::CreateTask` and `RemoveTask` (module
SchedulerRegistry), some of them are the workers of the task pool (module
TaskManager), and the task pool runs the callbacks of timers (module
TimingWheel). Under the task pool, the thread pool and the cache of perf events
lies one lock-free queue (modules BoundedQueue and ThreadPool). Almost every
table on the way is guarded by the spinning lock of module AtomicRWLock.

What makes this hard to test: everything on the path is done by another thread
than the step before it, most hand-overs use atomic flags and not a mutex, and
most of the waits have a time-out that hides a lost wake-up as a delay.

## 2. Inventory of components

State, operations and what has to hold; "hard" says what a test hardly reaches.
PROJECT.json lists the same components with all their source files, and the
hazards with their lines.

**AtomicRWLock** (`base/atomic_rw_lock.h`, `rw_lock_guard.h`). State: the word
`lock_num_` (readers inside, or -1) and `write_lock_wait_num_`. Operations:
ReadLock, ReadUnlock, WriteLock, WriteUnlock, each a loop of loads and
compare-exchanges. Hard: stale loads, spurious failures, writer preference.
Correct if a writer excludes all others, the word is exact, and an announced
writer gets in.

**Routines and their wake-up** (`croutine/`, `scheduler/processor.cc`,
`scheduler/policy/*_context.cc`, `data/data_notifier.h`). State: per routine
`state_`, the flags `lock_` and `updated_`, `wake_time_`; per context a token
count with mutex and condition variable. Operations: NextRoutine, UpdateState,
Resume, Yield, Sleep, Wait, NotifyProcessor. Hard: a message arrives between
"the buffer is empty" and "I am waiting"; two processors at one routine; tokens
taken by the wrong processor. Correct if a routine has one user at a time, no
wake-up is lost, and messages are consumed.

**Scheduler registry** (`scheduler/scheduler.cc`, `scheduler_classic.cc`,
`scheduler_choreography.cc`). State: the table `id_cr_`, the run queues, a
mutex per task id, the stop flags. Operations: CreateTask, DispatchTask,
RemoveTask, RemoveCRoutine, Shutdown. Hard: three kinds of lock; a removal that
waits for a processor; shutdown against both. Correct if table and queue agree,
one routine per name is in use, a removed routine is never run again, and
removal and shutdown come to an end.

**Channel data** (`data/`). State: rings of the last messages, the visitor's
cursor. Operations: Fill, Fetch, Latest, FetchMulti, the fusion callback,
TryFetch. Hard: wrap-round, a reader that has been overtaken, two dispatchers
inside the fusion. Correct if a visitor sees an ordered, duplicate-free part of
what was dispatched and skips nothing without need.

**Task pool** (`task/`). State: a queue of 1000 tasks and the worker routines.
Operations: Async, Enqueue, the worker loop, Shutdown. Hard: the workers' wait
is not atomic with their look into the queue. Correct if a task is run once.

**Shared-memory segments** (`transport/shm/`, `shm_transmitter.h`,
`shm_dispatcher.cc`). State: in shared memory the ceiling, `need_remap_`, the
running number and one lock word per block; in each process the mapping and its
configuration. Operations: OpenOrCreate, OpenOnly, Remap, Recreate,
AcquireBlockToWrite, AcquireBlockToRead, the releases, Transmit, ReadMessage.
Hard: several processes, no common mutex, replacement of the segment while it
is in use. Correct if a reader parses complete messages only, lock words are
exact, and replacement leaves nobody on the old segment.

**Timer** (`timer/`). State: two wheels of buckets, their indices, the tasks.
Operations: Start, Stop, AddTask, Tick, Cascade, the callback of a task. Hard:
AddTask runs while the wheels turn; Stop races a callback; the arithmetic at the
turn of a wheel; callbacks of one task overlap. Correct if a task fires at its
tick, is never in two buckets, and stays quiet after Stop.

**Shared-memory notification** (`transport/shm/condition_notifier.cc`). State:
in shared memory the counter `next_seq` and a ring of 4096 infos and numbers; in
each process the number it expects. Operations: Notify, Listen. Hard: no lock,
so a listener may be lapped, a writer may be slow for a whole revolution or die
between its stores, and the number 0 of an unused slot looks like a
notification. Correct if a listener that keeps up gets every notification once
and in order, and waits only at a slot that nobody fills.

**Bounded queue, wait strategies, thread pool** (`base/bounded_queue.h`,
`wait_strategy.h`, `thread_pool.h`). State: head, tail and commit positions, a
pool of slots, the flag `break_all_wait_`. Operations: Enqueue, Dequeue,
WaitDequeue, BreakAllWait, the workers and the destructor of the pool. Hard: an
enqueue in three steps, a copy made before the claim, notification without the
mutex. Correct if the ring is a bounded first-in first-out queue, refuses only
with reason, and its workers take what is put and can be joined.

**Service discovery, hybrid transport, node, reader and writer**
(`service_discovery/`, `transport/transmitter`, `transport/receiver`, `node/`).
State: the roles every process knows, the listeners of its change signal, the
receivers and modes a transmitter has enabled, the writers a receiver listens
to. Operations: JoinTheTopology and LeaveTheTopology of readers and writers,
Join and Leave of ChannelManager, the remote changes, the loss of a participant,
Enable and Disable. Hard: two ends join at the same moment in two processes;
a peer leaves between lookup and enabling; a process dies. Correct if, when
things have settled, everybody knows and hears everybody, once, and nobody
sends to those who are gone.

**Service and client** (`service/`). State: pending requests of a client behind
a mutex, the service's list of tasks with its thread. Operations: SendRequest,
AsyncSendRequest, HandleResponse, Enqueue, Process, HandleRequest, Init,
destroy. Hard: the response comes before the entry is there, the time-out races
the response, several services answer, the numbers of different clients are the
same, and all clients of a process are called by one subscriber, one after the
other. Correct if a call gets its own answer, once, or ends at its time-out, and
destroy returns.

**Blocker** (`blocker/`). Two lists behind a mutex and a map of callbacks behind
another; every operation holds its mutex throughout, so there is no interleaving
beyond the order of the calls. Its callbacks run with the mutex held. Not
modelled.

**Io** (`io/`): the poller and the IO_WAIT state of routines. Planned.

**RTPS transport** (`transport/rtps`, `transport/dispatcher/rtps_dispatcher.cc`,
`transport/qos`): a wrapper of Fast-RTPS, a third-party network stack that the
repository carries along (`cyberRT-dependency`). Modelled where services use it:
one subscriber of a channel in each process, which calls its listeners in
sequence, over a history of limited length (module ServiceCall).

Not to be modelled: Fast-RTPS itself, record files, class loader, parameters,
logging, start-up, time and message helpers, Python bindings; reasons in
section 9.

## 3. Modules and how they follow the code

PROJECT.json's "map" gives, for every definition, the lines it stands for.
Definitions whose comment begins with "Fault:" are deliberately wrong variants
of the definition that follows; no specification uses them. They show that each
property notices a plausible mistake: put in place of the definition, TLC finds
the property violated.

| module | stands for | state | one action per |
|---|---|---|---|
| `RWLock` | the promise of a reader-writer lock (abstract) | who reads, who writes | guard built or destroyed |
| `AtomicRWLock` | `base/atomic_rw_lock.h` | the two words, each thread's local and place | atomic access |
| `RoutineWakeup` | routines, processors, contexts, notifiers | flags, tokens, cursors, places | access to a shared flag or a token |
| `LossyChannel` | the promise of a channel to its reader (abstract) | what was sent, what was received last | send, receive |
| `CacheBuffer` | `cache_buffer.h`, `channel_buffer.h` | none: operators on a record | - |
| `ChannelData` | dispatch, fusion and TryFetch of one visitor | three rings, the cursor, the mutex of channel 0 | critical section of a buffer's mutex |
| `SchedulerRegistry` | create, remove, shut down | table, queue, stop flags, holders of every lock | critical section, or taking of a lock held for longer |
| `BoundedFifo` | the promise of a bounded queue (abstract) | the items, what each consumer has taken | put, take, use |
| `BoundedQueue` | `base/bounded_queue.h` and the wait strategies | the three positions, the slots, each call's locals | atomic access, store or copy |
| `ThreadPool` | `base/thread_pool.h` and the thread of `PerfEventCache`, over `BoundedQueue` | stop flag, workers that have left, the destructor | call, step of a worker or of the destructor |
| `TaskManager` | the task pool | queue, worker states and flags, how often each task ran | step of Async, Enqueue or the worker |
| `ShmSegment` | segments, blocks, Transmit, ReadMessage | the shared memory of each segment, each process's mapping | access to shared memory |
| `ConditionNotifier` | the ring of notifications | counter, infos, numbers, each listener's next number | access to the ring |
| `Topology` | ChannelManager, the joining and leaving of readers and writers, the hybrid transmitter and receiver | roles, listeners, published changes, enabled peers and modes | step of a join or leave, of applying a change, death |
| `ServiceCall` | Client and Service, the subscribers of their channels | pending requests, promises, the service's tasks and thread, what a subscriber has in hand | critical section, message, wait, time-out |
| `TimingWheel` | the two wheels | buckets, indices, the life of each task | step of AddTask, of the tick thread, of a callback |

How they fit together. Each module takes from its neighbours what the
neighbour's module establishes:

* `SchedulerRegistry` uses run-queue and table locks as `RWLock` describes
  them; `AtomicRWLock` implements `RWLock` (checked and proved).
* `RoutineWakeup` only counts messages: how many of the pending ones a fetch
  consumes is left open, which is what `LossyChannel` allows; `ChannelData`
  implements `LossyChannel` (checked and proved).
* `TaskManager` uses its queue as `BoundedFifo` describes it (it instantiates the
  module); `BoundedQueue` under `ThreadPool` implements `BoundedFifo` (checked and
  proved).
* `RoutineWakeup` adds routines to run queues and never removes one;
  `SchedulerRegistry` does both and leaves open which routines are ready.
* `TaskManager` contains its own small copy of the wake-up (flag, state), since
  the point is a worker that sets its state *after* its look into the queue,
  where the routine of a reader does so before.
* `TimingWheel` takes from the pool that a posted callback is run.
* `ShmSegment` takes from the notifications that they arrive in order, which
  `ConditionNotifier` shows (and proves) for listeners that keep up.
* `Topology` says who is connected to whom; that a message then arrives is the
  matter of the modules above.

Choices that a reader of the code should know:

* **AtomicRWLock.** `compare_exchange_weak` may fail spuriously. `retry_times`
  only decides about yielding the CPU and is left out. Memory is sequentially
  consistent, although the code uses acquire/release and relaxed accesses.
* **RoutineWakeup.** The two policies differ in who shares a context: a classic
  group has one for all its processors, choreography one per processor. A
  variable `layout`, chosen once from `Layouts`, says who shares what; `CtxOf`
  and `Queue` read it. Priorities are the order of the queue. `wait_for` is
  modelled by its steps: test, block, woken or timed out, test again. Routines
  are created while the processors are at work: `created` follows CreateTask
  from DispatchTask to the registration of the callback, which comes last.
  DispatchTask of the classic policy ends with Notify, a token and a signal;
  that of choreography does not (`notifies` in the layout), and a processor may
  be asleep beside the new routine until its wait times out. `missed` is a
  history variable: a dispatch that found no callback yet. Which routines
  sleep in their callback is the constant `Sleepers`, and who reads the
  channels of a sender `ReadersOf`.
* **ChannelData.** One other channel stands for the one to three others that
  `AllLatest` fuses, all handled by the same statements. Messages are their
  numbers, tuples pairs of numbers. `FillPlain` before `SetFusionCallback` is
  the interval in which the buffer is attached and the callback is not.
* **SchedulerRegistry.** One run queue stands for the queue the routines of a
  name share. A scan holds the shared lock from its first look to its return,
  as the guard in `NextRoutine` does. `Wait` is not represented: after an
  unsuccessful scan the processor scans again. Which ready routine a scan picks
  is left open. A running routine may itself call CreateTask and RemoveTask,
  also of its own name. A removal after `stop_` is set is the early return
  `true` of the code, and counts as no removal.
* **BoundedQueue.** The load of the other end (head in Enqueue, commit in Dequeue)
  is one step with what follows it: these only grow, so a later look never
  takes room or an element away. A slot that is copied while a producer assigns
  to it may give any element; the comparison of `head_` must then discard it.
  The calls are numbered and each puts its own number, so that an order can be
  told.
* **TaskManager.** A task is named after the client that makes it; `runs` counts
  how often it was run. A refused task is dropped, as the code ignores the
  result of `Enqueue`; `MayRefuse` says when the queue may refuse.
* **ShmSegment.** The System V segment, which is the default; the POSIX one has
  the same logic in the common base class. Construction of `State` and `Blocks`
  is one step, since both happen before the creator goes on and nobody can tell
  the parts apart except through `raw`. `fetch_add` on `seq_` and the
  exchange on the lock word are one step: the addition commutes with what the
  others do in between. `None` is 0, so segments are numbered from 1.
  Notifications reach each reader in order. A reader whose segment is replaced
  still parses under the old mapping.
  A message has a size, and the segment's ceiling decides whether the writer
  replaces it. The check is not repeated after OpenOrCreate, and there is no
  class above the largest, so a message can still be larger than its block
  (`TooLarge`): the buffers of the blocks follow one another behind the lock
  words, and `Fill` makes some or all of the blocks behind torn; past the end of
  the segment the process may die (`WriteCrashes`, `killed`) or damage nothing
  that is modelled.
  `SerializeToArray` fails before it writes a byte (`SerializeFails`; the block
  keeps its former message and is released, and nobody is notified); the
  serialisation of the MessageInfo, which has room of its own, cannot fail.
  `early`, `growers` and `overrun` are history: segments opened before their
  construction, writers that have replaced one, segments in which a message ran
  over.
* **ConditionNotifier.** An info is the number of its notification. Polling and
  the time-out of Listen are left out: a listener that finds nothing looks
  again. A writer may die after any step. `lapped` and `overrun` are history:
  who has been a whole revolution behind.
* **ServiceCall.** `RtpsDispatcher::AddSubscriber` makes one subscriber of a
  channel in each process. It is a position in the history of each writer,
  moves forward in order, and may miss what has been overwritten (`NextOf`,
  `Depth`, from the profile of services); `missed` records that. It takes a
  message (`TakeResponse`, `TakeRequest`) and calls the clients or services
  connected at that moment one after another (`incoming`, `offered`), in any
  order; only then it takes the next one. So a callback keeps all clients of its
  process waiting, and a service that starts beside another one of its process
  does not get the requests of before. The user's callback runs with the mutex
  of the client held and either returns or calls the client again
  (`CallbackCalls`), in which case it waits for itself. A call begins (`Call`)
  before it gets the mutex (`Send`). Clients exist from the start.
* **Topology.** The readers of a channel in one process share one receiver, so the
  process stands for it. A thread applies a change in steps: the roles
  (dispose), the listeners present (notify), each callback (call). A callback is
  one step. The changes of a process reach another one in order; the
  participant's thread drops the roles of a process that has died, one by one.
  The messages are of a type with a serializer, for which Join is published
  (`node/writer.h:189`). Node and service managers, which have the same base
  class, are left out.
* **TimingWheel.** The tick thread runs from the start. The user's function and
  the correction of the accumulated error only determine the next delay, so
  that is any delay that `InitTimerTask` admits. A callback that has put its
  task back still holds the task's mutex and its `shared_ptr` (`ending`) until
  it unlocks and returns (`Unlock`, `Release`); meanwhile the task can fire
  again, and Tick's `lock()` succeeds even for a stopped task (`Alive`). Stop
  has two steps (`StopStep`): it resets `task_` under the mutex of the task, and
  gives up its own pointer when it returns. A callback whose task has been destroyed (`EnterGone`) is taken to do nothing.
  `left`, `disturbed`, `overlapped` and `extra` are history.

## 4. The runs

"States" are distinct states.

| run | module, configuration | states | checks |
|---|---|---|---|
| `base` | `MCBase`, `MCBase.cfg` | 377,768 | lock: exclusion, exactness, refinement, progress of writers; queue and pool: whole elements, order, refusals, progress |
| `wakeup` | `MCRoutineWakeup`, `MCWakeup.cfg` | 384,424 | one user, no lost wake-up, messages consumed, routines started, both policies |
| `registry` | `SchedulerRegistry`, `MCRegistry.cfg` | 89,528 | create, remove and shut down together |
| `timer` | `MCTimer`, `MCTimer.cfg` | 489,426 | wheels: one bucket, on time, fires, Stop; task pool: once only, queued is run, next call rescues |
| `rings` | `MCRings`, `MCRings.cfg` | 164,442 | notifications: exactly once, laps, dead writers; visitor: ring, observers, fusion, refinement |
| `shm_segment` | `MCShmSegment`, `MCShmSegment.cfg` | 813,032 | lock words, complete messages, replacement, progress of writers |
| `service` | `MCServiceCall`, `MCServiceCall.cfg` | 247,336 | own answer, once; answered, or time-out; destroy returns |
| `topology` | `MCTopology`, `MCTopology.cfg` | 334,973 | joins, leaves and deaths in several processes |
| `pool_shutdown` | `ThreadPool`, `MCPoolShutdown.cfg` | - | violation, section 8 |
| `shm_stale_index` | `MCShmSegment`, `MCShmStaleIndex.cfg` | - | violation, section 8 |
| `shm_small_segment` | `MCShmSegment`, `MCShmSmallSegment.cfg` | - | violation, section 8 |
| `callback_calls` | `MCServiceCall`, `MCCallbackCalls.cfg` | - | violation, section 8 |

There is a passing run for each module of proofs (section 7). Where that module
is about two components (`base`, `timer`, `rings`) the run checks both side by
side: the variable `part`, chosen in the initial state, says which of the two
the behaviour is about, and the other one stands still. The number of states is
the sum of both, not the product, and fairness is asked only of the one that
moves.

Every module has a type invariant, `TypeOK`; in the lock, the channel data and the
timer it is `LockTypeOK`, `DataTypeOK` and `TimerTypeOK`, as their specifications
are `LockSpec`, `DataSpec` and `TimerSpec`: a module of proofs about two components
extends both, and needs names that differ. In a run the type invariant is a part
of the invariant named after the component (`RegistryInv`, `PoolInv` and so on),
next to the other parts that speak of a single state; for `RoutineWakeup` it is
only proved.
What each property says, and what it shows:

* `base`, the lock: `LockInv` has the parts `MutualExclusion` (a writer is alone),
  `CountMatchesHolders` (the word is the number of readers, or -1 with the one
  writer) and `WaitNumMatchesAnnounced` (the second counter is the number of
  announced writers, so it returns to 0). `ImplementsRWLock`: every step is a
  step of `RWLock` or invisible. `WriterAdmitted`: if writers come first, a
  writer that has announced itself sees some writer admitted. A particular
  writer may starve behind other writers, as the lock keeps no queue.
* `wakeup`: `ExclusiveRun` (no two processors work on one routine),
  `NoLostWakeup` (a waiting routine with data is marked, or the dispatch is
  about to mark it), `IdleMeansNoWork` (a processor with a context of its own
  does not block next to a routine that could run, except one that
  choreography has just dispatched without Notify), `Consumed` (pending
  messages are consumed) and `Started` (every dispatched routine gets to run,
  the unannounced ones after the time-out). The reason for `NoLostWakeup` is the order in the
  reader's routine, DATA_WAIT first and then the look into the buffer. In a
  classic group `IdleMeansNoWork` is false: a processor may take the token meant
  for a routine that another one still holds, and only the 1000 ms time-out
  finds the routine again.
* `registry`: `RegistryInv` has the parts `TableAndQueueAgree` (outside calls in
  progress, table and run queue hold the same routines) and `OneRoutinePerId`.
  `GoneForGood`: a routine whose removal has returned is held and run by
  nobody. `CallsComplete` is `RemovalCompletes` and `ShutdownCompletes`, except
  where the routine that is being removed waits for its remover (section 8).
* `base`, queue and pool: `QueueInv` with `TornCopyDiscarded` (a copy of a slot
  that a producer is assigning to is never used), `RefusedOnlyIfFullOrOvertaken`
  (an Enqueue is refused only when the queue is full, or when the tail it had
  loaded was overtaken meanwhile), `ImplementsFifo` (Enqueue and Dequeue are puts
  and takes of `BoundedFifo`, where two producers are between claim and
  publication at once and one has to wait for its turn), and `ElementsAreTaken`,
  with the gap of the blocking strategy (section 8).
* `rings`, the visitor: `BufferInv` has the parts `SlotsHoldNewest` and
  `ObserversSeeNewest` (Latest and FetchMulti against the sequence of all
  messages). `FusedInOrder`, `SkipsOnlyWhenOverrun` and
  `ImplementsLossyChannel`.
* `timer`, the wheels: `WheelInv` with `InOneBucket`; `StopTakesHold` (the user's
  function begins at most once after Stop, unless callbacks of the task
  overlap, section 8); `OnTime` (posted exactly at its tick, for every delay from
  one tick to the range of both wheels, if the wheels stood still during
  AddTask); and `Fires`. A task that was added while the wheels moved may be
  early or late by a revolution; `Fires` says that it is not lost.
* `timer`, the task pool: `PoolInv` with `RunAtMostOnce`; `QueuedIsRun` (the
  queued tasks are run, unless every worker has hung up without seeing one);
  `NextCallRescues`: what was left in this way is worked off by the next Async.
* `shm_segment`: `SegmentInv` with `LockWordExact`,
  `ReadsCompleteMessages`, `NobodyLeftBehind`, `WriterFindsBlock`. All are stated
  for segments that nobody opened before they were constructed (`early`): the
  constructor would clear words in use. `ReadsCompleteMessages` also excepts
  segments into which a message was written that is larger than their blocks
  (`overrun`, section 8), and `WriterFindsBlock` those in which a writer ran
  past the end and died with its lock. `NobodyLeftBehind` is stated for one replacing writer:
  with two of them the second removes the key of the first one's new segment,
  which is not marked, and TLC finds the split.
* `rings`, the notifications: `NotifierInv` with `ExactlyOnce` (a listener that is not lapped has
  every notification since its start, in order and complete; the exception is
  number 0), `SkipsOnlyWhenLapped`, and `MovesOn` (a listener stays only at a
  number whose writer died or was undone by one a revolution behind).
* `service`: `AnswersInv` has the parts `OwnAnswer` (a future never gets the
  answer to another request, though all clients see all responses) and
  `AnsweredOnce` (`set_value` is called once, though two services answer and a
  late one in another process is given old requests again).
  `Answered`: a pending request that a service which is up has been or will be
  called with is answered, in whatever order request, entry and response come.
  The exceptions are an overwritten message, the end of the service or its
  process, and a client of the same process whose callback waits for itself. It
  has two parts: such a request is not lost on its way, and what is owed is paid.
  `AllReturn`: SendRequest returns, also when nobody answers and when the
  callback of another client is stuck; and destroy does not wait for a thread
  that sleeps. Both speak of the set of all that is open, and of its becoming
  empty: the calls are bounded, so one that stayed open for ever would keep the
  set from it. So does `QueuedIsRun`.
* `topology`: `TopologyInv` has the parts `NoSecondCopy` (no message is handed
  over twice, though a peer may be both found and announced) and
  `QuietMeansKnown` (HasWriter and HasReader are right when things have
  settled). `QuietMeansConnected`: messages then arrive. `StopsSending` and
  `DeadForgotten`: a writer stops sending to readers that have left or died.

Deadlock is checked in `wakeup`, where somebody can always go on. In the others
a part of the model stops when the messages, names or calls of the bound are
used up.

## 5. Bounds

* `base`, the lock: three threads, so that a reader, a writer inside and a writer
  announced meet; writers first, the mode with more states.
* `wakeup`: three layouts. Classic: two processors and one routine in one group,
  for both races (two processors at one routine; a token and the routine it is
  for), or one processor alone, so that `IdleMeansNoWork` has a case with
  Notify. Choreography: one processor with two routines; tokens of one wake the
  processor while it passes the other. All routines are created while the
  processors run. Two senders of one message each (`MaxSends`), two for one
  routine or one for each, and one routine whose callback sleeps.
* `registry`: one thread besides the one that shuts down, two processors whose
  routines may also call CreateTask and RemoveTask, two instances and two names:
  a name is created, removed and created again while one processor runs the old
  instance and another one scans. An instance is created once, which bounds the
  calls of CreateTask.
* `base`, queue and pool: four calls of Enqueue by two threads (three if the
  workers block), two workers, and a queue of size 2: two elements are in the
  queue together, two producers between claim and publication, and with four
  calls the pool of four slots wraps.
* `pool_shutdown`: two workers and one call are enough for the trace.
* `rings`, the visitor: queue sizes 0, 1 and 2 and five messages (`MaxMessages`): the
  largest ring has three slots and wraps, head and tail each at another
  message; size 0 is the degenerate ring that is full when it is empty. Two
  dispatchers.
* `timer`, the wheels: 3 and 2 buckets (512 and 64) and every delay in their
  range. One task, one-shot or periodic, which may be stopped at any moment; or
  one of each, not stopped: tasks meet only in the buckets, and only in being
  posted and carried together. Nothing else is bounded: time has no end, as the
  history variables count down.
* `timer`, the task pool: two workers, three calls, two places in the queue: a
  task can be refused, left behind and rescued.
* `shm_segment`: size classes 1 and 2 with two blocks and one
  (512 and 128 in the code, always fewer for larger messages), messages of both
  sizes, two writers and two readers, two messages (`MaxWrites`), two segments
  (`MaxSegments`, one replacement), two attempts of a reader (5 in the code). A
  block is reused, a writer meets a block in use, and a segment is replaced
  while the readers are anywhere. Two readers can hold a block against a writer
  in turn. `seq_` is kept modulo the largest block number, a multiple of the
  others. The two violations have three messages.
* `rings`, the notifications: two writers, one listener (listeners do not meet), a ring of two
  slots and five notifications (`MaxSeq`): it wraps twice, so that a listener
  and a writer can each be a revolution behind.
* `service`: two clients in one process, of which one has two calling threads, and
  three services, two in one process and one in another. Five setups say how
  often each thread calls and which services start: two threads, two clients or
  two calls with one service; one call with two services of one process or of
  two. `MaxNumber` bounds the calls of a client in the guard of `Send`; no setup
  makes more, so it stops nobody. Histories of length 1 (10 in the code), so
  that a message can be overwritten. Any process may be shut down, but in the
  setups with two services none is. `callback_calls`: the three setups with one
  service.
* `topology`: one writer, two readers, three processes, four layouts: two readers
  in one process; one in the writer's process and one in another; readers in two
  other processes; two hosts with processes that may die. Two writers meet only
  in the receiver, which keeps them apart.

## 6. Fairness

* Each thread or process that can take a step eventually takes one (weak
  fairness of its whole next-step relation): the operating system schedules
  threads, and user callbacks and tasks return. Nobody is obliged to send,
  create, remove, call, join, leave, start or shut down.
* `ServiceCall` and `Topology` assume less: if some thread can go on, some thread
  does (one weak fairness of `System`). This is enough, since each of them
  takes finitely many steps before it needs the others.
* In `RoutineWakeup` a blocked processor times out eventually where it shares its
  context, has a sleeper to wake, or has a new routine that was dispatched
  without Notify: the code uses `wait_for` with 1000 ms. A processor of its own
  with none of these gets no such help, and must find its messages without.
* The clock passes a sleeper's wake time, and a CreateTask that has begun
  dispatches the routine and registers its callback. In `ServiceCall` the wait of SendRequest ends at its
  time-out.
* The tick thread keeps ticking, and a callback of a timer comes to its end
  (`LeaveStep`); there is no fairness for Start and Stop.
* `AtomicRWLock` assumes that a guard's scope ends and that a writer's exchange
  succeeds at last if the word stays free (a weak exchange does not fail
  spuriously for ever). A reader's exchange may fail for ever; readers and
  writers need not come.
* In `SchedulerRegistry` a caller that finds a lock free again and again gets it
  (strong fairness of `CallStep`). For the run-queue lock this rests on its
  preference for writers (`WriterAdmitted`) and on names being created and
  removed finitely often at once; for the mutex of an id on the system's
  mutexes not starving a thread. It is an assumption: neither the spinning
  lock nor `std::mutex` keeps a queue. A routine that runs again and again
  between its calls yields (strong fairness of `Yield`): it does not create and
  remove tasks for ever.

## 7. The proofs

Every development is for arbitrary values of the constants: any sets of threads,
processors, processes or routines, any sizes, and any value of the bounds of the
runs. Each invariant that a proof uses was first checked by TLC on the run of
its component.

| module | theorems (the property of section 4 they state) |
|---|---|
| `BaseProofs` | lock: `LockSound` (`LockInv`), `Exclusion`, `Refinement` (`ImplementsRWLock`); queue: `QueueSound` (`QueueInv`), `RefusalsSound` (`RefusedOnlyIfFullOrOvertaken`), `QueueRefinesFifo` (`ImplementsFifo`) |
| `RoutineWakeupProofs` | `TypeCorrect`, `OneUser` (`ExclusiveRun`), `WakeupsKept` (`NoLostWakeup`), `IdleSound` (`IdleMeansNoWork`) |
| `RingProofs` | visitor: `BufferSound` (`BufferInv`), `FusionSound` (`FusedInOrder`), `OverrunSound` (`SkipsOnlyWhenOverrun`), `ChannelRefinesLossy` (`ImplementsLossyChannel`); notifications: `NotifierSound` (`NotifierInv`), `SkipsSound` (`SkipsOnlyWhenLapped`) |
| `SchedulerRegistryProofs` | `RegistrySound` (`RegistryInv`), `RemovedIsGone` (`GoneForGood`) |
| `TimerProofs` | timer: `WheelSound` (`WheelInv`), `StopSound` (`StopTakesHold`), `OnTimeSound` (`OnTime`); task pool: `PoolSound` (`PoolInv`) |
| `ServiceCallProofs` | `AnswersSound` (`AnswersInv`) |
| `ShmSegmentProofs` | `SegmentSound` (`SegmentInv`), `ReadsSound` (`ReadsCompleteMessages`), `GrowthSound` (`NobodyLeftBehind`) |
| `TopologyProofs` | `TopologySound` (`TopologyInv`), `ConnectedSound` (`QuietMeansConnected`) |

Three modules are about two components each: the lock-free parts of `cyber/base`, the
two rings, whose proofs share the lemmas on remainders, and the timer with the pool
that runs its callbacks. The components of a module share no variable, and each
theorem is about the specification of one of them.

**BaseProofs, the lock,** assumes a finite set of threads and a Boolean
`WriteFirst`. The inductive invariant `LockIInv` consists of the parts of `LockInv`
and `ExpectsNoWriter`. Exclusion alone is not inductive: an exchange decides by
the word, so the word must be known to tell who is inside; and a reader decides
by the value it loaded, so that value must be known not to be a writer's when
the reader gets to its exchange (`ExpectsNoWriter`). There is one lemma per kind
of step, which states the effect on the sets of readers, writers and announced
writers; the same lemmas give the refinement.

* `LockSound` (`LockInv`): as in the run, for every number of threads; the
  counter of announced writers, which is unsigned in the code, never goes below
  zero. `Exclusion` is the part that users rely on.
* `Refinement`: `LockSpec => ImplementsRWLock`. Loads, failed exchanges and the
  counter of announced writers are invisible; the exchanges and the unlocks
  are the four actions of `RWLock`.

**BaseProofs, the queue,** assumes a queue size of at least one. The positions
from `head_` to `tail_` never span the whole pool, so different positions are
different slots (lemma `Distinct`). `ClaimInv`: claims are different positions
between `commit_` and `tail_`, so a producer stores into a slot of its own, and
what it has stored stays until it is published. `PublishedInv`: what is between
`head_` and `commit_` is an element. `ConsumerInv`: what a consumer has copied is
in the slot as long as `head_` has not moved; this is why the comparison of
`head_` may stand for the validity of the copy.

* `QueueSound`: `TornCopyDiscarded`, the answer to the data race between the copy
  of a slot and the assignment to it.
* `RefusalsSound`, an action property: the reason of every refusal.
* `QueueRefinesFifo`: `Spec => ImplementsFifo`. The items of `BoundedFifo` are the
  slots between `head_` and `commit_`. The publication by a producer is the put,
  although the producers of earlier positions wait for each other; the
  successful exchange of `head_` is the take. The claim, the store, failed
  exchanges, the waits and the destructor are invisible.

**RoutineWakeupProofs** assumes that in every layout each processor has a
context, run queues are sequences of routines, and `None` is no routine
(`LayoutsAssumption`; the layout never changes, lemma `LayoutFixed`). Only
`IdleSound` assumes that a routine has one place in one queue
(`PlaceAssumption`), which is what DispatchTask gives it. `Inv` is
`Structure /\ WakeInv`.
`Structure` says where processors, senders and routines can be: a processor
holds a routine exactly between Acquire and Release (`HoldInv`), `lock_` is set
exactly then (`LockInv`), hence one holder (`ExclusiveRun`), a dispatch under way
has a target (`SenderInv`), and a routine is inside its loop only while it runs
(`AtInv`). `WakeInv` extends `NoLostWakeup` to routines that are held. It names
the three who will see to the data: the mark, a dispatch that is about to mark,
or the holder, which is about to promote the routine or is on its way to look
into the buffer. The argument turns on the order DATA_WAIT, then TryFetch, on
one side, and Fill, then the reading of `state_`, on the other.

* `TypeCorrect`, `OneUser`, `WakeupsKept`, and `Invariance` (`Spec => []Inv`),
  from which they follow.
* `IdleSound`: the processor of a context sleeps without a token beside a routine
  that could run only while the Notify for it is on its way, or if the routine
  is new and was dispatched without one. It needs an invariant about the scan.
  `IdleMeansNoWork` speaks of a
  processor asleep, but what it rests on was read earlier, routine by routine:
  `ScanInv` says that a routine the scan has passed cannot run still, unless a
  token has come for the context, a dispatch or CreateTask is about to add one,
  or the routine is unannounced. The processor looks for a token before it sleeps. That nobody
  else changes the state of a routine passed over is where the one place of a
  routine and the context of one's own are needed; `CursorInv` and `TargetInv`
  place the scan and the dispatches.

**RingProofs, the visitor,** assumes that queue sizes are natural numbers, 0
included, and that `None` is no dispatcher. `RingOf` says of a buffer and the
sequence of all that was put into it: the slots from head to tail hold the newest
of them, each at its number modulo the length of the ring, and the slot at tail
the newest one even in the ring of size 0, which is full when it is empty. One
lemma shows that `Fill` keeps this: it writes the spare slot and gives up the
oldest message, no other. The tuples are ordered by the lock: who is inside the
callback holds the mutex and the last number of channel 0, and the message it has
been given of the other channel is not older than that of any tuple stored before.

* `BufferSound`: what Latest and FetchMulti return is compared with the sequence
  of all messages, so it needs the arithmetic of the loop of FetchMulti.
* `FusionSound` and `OverrunSound`, the second an action property: a fetch passes
  over messages only if the reader has fallen at least a queue behind; then it
  takes the newest, also over messages that the ring still holds.
* `ChannelRefinesLossy`: `DataSpec => ImplementsLossyChannel`. The put into the
  buffer the visitor reads is the send, a successful TryFetch the receive; the
  cursor only moves forward, and the message that is returned is the one with
  its number. Everything else is invisible.

**RingProofs, the notifications,** assumes a ring of at least one slot and that
the two markers for "no info" are no numbers. `ExactlyOnce` needs to know what can
be in a slot: `NumberInv` (only numbers already issued that belong there),
`LapInv` (a listener that is not lapped is at most a ring behind), `SlotInv`
(while no writer is a ring behind, a slot has one writer, whose info is there
before its number) and `CopyInv` (the number a listener has recognised is still
there when it copies the info). The arithmetic is in one lemma, `SameRemainder`:
two different numbers with the same slot are at least a ring apart.

* `NotifierSound`, and `SkipsSound`, an action property: a listener that starts
  or is lapped is the only one that passes over a number.

**SchedulerRegistryProofs** assumes that `None` is no routine, id or thread. The
properties are not inductive since table and queue are changed under different
locks. `MutexInv`: who is at work on an id has its mutex. `TableInv` and
`QueueInv` then say that table and queue differ only by the one routine the
holder of the mutex has in hand, and `VictimInv` and `NewInv` which one that is.
`QueueLockInv` and `HoldInv` connect the removal with the processors: what a
scan has still to look at is in the queue, as the scan shares the run-queue
lock, and a routine in a processor's hands is in the queue, as the removal waits
for the routine's flag. `RemovedIsGone` follows from these two.

**TimerProofs, the timer,** assumes that each wheel has at least one bucket and
that the periodic tasks are tasks. `Placed` says where a task can be: in no bucket
unless it waits, then in one bucket of one wheel. `OnTime` is about a moment and
needs the whole way to it: `WorkDue` and `AssistantDue` say of the bucket of a
task in how many ticks it is reached, for the assistant wheel in revolutions of
the work wheel plus the remainder, and at which step of a tick in which of two
forms; a cascade turns the second into the first. It holds for tasks that were
added while the wheels stood still (`disturbed` is false), as the property says.
`Held` follows a callback past its entry when Stop comes: a later one enters only
beside a callback that still has the task's pointer, which is the exception of
`StopSound`.

**TimerProofs, the task pool,** assumes at least one worker and one place in the
queue. `RunAtMostOnce` counts the places of a task; the invariant says where a
task can be: nowhere before its call, then at one place of the queue or in one
hand (`OnePlace`), or run and nowhere else (`RunInv`).

**ServiceCallProofs** assumes that each thread belongs to a client, each client and
service to a process, and `Nobody` is no thread, client or request. `OwnAnswer` and
`AnsweredOnce` follow from `PendingInv` (an entry in the table has no answer yet)
and `AnswerInv` (an answer is the request's own). These rest on `InsertInv`:
between Transmit and the insertion of the entry the thread holds the mutex, the
number is the latest one of its client, and no answer has been accepted, so a
number gets one entry in its life. `HandlingInv` says that a callback runs with
the mutex held. `MaxNumber` is any number; that `sequence_number_` would wrap at
64 bits is not modelled.

**ShmSegmentProofs** assumes finite, disjoint sets of writers and readers, at
least one block in each size class, and that a larger class has no more blocks
than a smaller one, which holds for the classes of `shm_conf.cc` (512, 128, 64,
32, 16, 8). `LifeInv` follows a segment from its creation: until its creator has
constructed it nobody else has it mapped, or it was opened too early (`RawInv`);
then its ceiling is fixed and is what every process on it reckons with
(`ConfInv`), so that all of them mean the same blocks by an index. `GrowInv` and
`BehindInv` are the inductive form of `NobodyLeftBehind`: a sole grower is on the
segment the key names and has marked it before it removes the key. `ContentInv`
carries the content of a block, in segments without an overrun: it is torn only
while a writer is at work on it, and otherwise a message at least as new as every
notification of that block. A failed serialisation puts back what the writer
found (`former`), which was as new, since nobody else had the block meanwhile; and
a message that fits its block leaves the others alone. With `LockWordExact` (a
reader excludes writers) this gives `ReadsSound`. `BudgetInv`, `MapInv`, `BlockInv`, `ReaderInv` and `NumberInv` place the
processes. The steps fall into kinds by what they do to the life of segments
(stay, attach, lose, create, construct, mark, remove) and to blocks (aside, a
move of a process, an exchange, a release); each kind has its lemmas, and each
action is shown to be of one kind of both.

**TopologyProofs** assumes that no writer is a reader (`EndsAssumption`) and that in
every layout endpoints are placed in processes (`LayoutsAssumption`). Two parts of
the invariant carry the argument.

* `RemoteInv`, for what a process knows of another one. A table is right only when
  nothing is under way, so the inductive form is about the last word on an
  endpoint: the last change of it on the link, else the change that the discovery
  thread has in hand, else the table. Six lemmas say what each step does to the
  last word (published by the endpoint itself or by another one, taken, stored,
  put aside). `LocalInv` is its counterpart within a process, where the endpoint's
  own thread stores the change. `WhoApplies` says that nobody else does while the
  process lives; of a process that has died nothing is claimed.
* `PeerInv`, for the connection. An endpoint that has looked for its peers is
  linked to each peer its process knows, or has it among those it found, or some
  thread is about to call it. It is inductive because an endpoint is among the
  listeners (`TableInv`) before it looks and until it leaves: whoever stores a peer
  later copies the listeners after that. Leaves cut links, hence `Steady`: neither
  the peer nor, for a reader, another reader of its process has begun to leave.
  This is the exception in `QuietMeansConnected`.

`EndInv` counts the listeners of a receiver for each writer and relates receivers
and modes; it gives `NoSecondCopy`. `JobInv` and `LinkInv` place the changes that
are applied and published. `TopologySound` reads the tables when both processes
are quiet; `ConnectedSound` reads `PeerInv` in both directions, writer to reader and
reader to writer.

Only model-checked:

* all liveness properties: progress under fairness, and with it `ENABLED`, is out
  of the provers' reach. These are `WriterAdmitted`, `Consumed`, `Started`,
  `CallsComplete`, `QueuedIsRun`, `NextCallRescues`, `ElementsAreTaken`, `Fires`,
  `WriterFindsBlock`, `MovesOn`, `Answered` (with its action property),
  `AllReturn`, `StopsSending` and `DeadForgotten`.
* `IndexInRange` and `MessageFits` of segments, `DestructorReturns` of the thread
  pool and `CallsReturn` of clients are false, as section 8 says.

## 8. Findings

Four runs end in a violation:

* `shm_stale_index`, `IndexInRange`: `AcquireBlockToRead` compares the index with
  the number of blocks of the old segment, remaps, and uses the index on the new
  one, which has fewer blocks (`transport/shm/segment.cc:85`).
* `shm_small_segment`, `MessageFits`: a writer with a large message removes the key
  and calls OpenOrCreate. If another writer has created a small segment
  meanwhile, it is opened, its size is not compared again
  (`transport/shm/segment.cc:150`), and the message is written over the blocks
  behind its own.
* `pool_shutdown`, `DestructorReturns`: the destructor of the thread pool "joins
  all threads" (`base/thread_pool.h:89`), but a worker that has seen
  `break_all_wait_` unset can begin its wait after the notification and sleep for
  ever (`base/wait_strategy.h:45`). The pool uses no other strategy.
* `callback_calls`, `CallsReturn`: a callback runs with the mutex of its client
  held. If it sends a request through the client it waits for itself, and every
  later SendRequest waits for it before its time-out begins
  (`service/client.h:309`), where `service/client.h:88` says "if timeout, response
  will be empty".

In other places the code does less than a reader might expect, and nothing in
the repository promises more. The properties state what does hold and name the
exception:

* `CallsComplete`: `RemoveCRoutine` waits for the routine while it holds the
  run-queue lock exclusively. A routine that is inside CreateTask, which the
  example `io/example/tcp_echo_server.cc:83` does, or inside RemoveTask waits for
  the same lock or for the mutex of the id, and neither goes on; a routine that
  removes itself waits for its own flag
  (`scheduler/policy/classic_context.cc:106`).
* `IdleMeansNoWork`: choreography dispatches a routine without Notify
  (`scheduler/policy/choreography_context.cc:55`), so a processor may sleep beside
  it for up to 1000 ms; `Started` says no longer.
* `QueuedIsRun`: a worker of the task pool looks into the queue and only then sets
  DATA_WAIT. A task queued in between, with no other worker waiting, finds
  nobody to mark and stays in the queue until the next Async
  (`task/task_manager.cc:42`). The routine of a reader does the two things in
  the other order, and `WakeupsKept` proves that order right.
* `ElementsAreTaken`: the blocking wait strategy has no predicate and is notified
  without the mutex, so a worker can sleep through the notification for an
  element (`base/wait_strategy.h:45`).
* `StopTakesHold`: a callback that has put its periodic task back keeps a pointer
  to it until it returns. If the task fires again before that, the next callback
  is handed a live task though Stop has returned, and while callbacks overlap
  in this way the user's function may begin any number of times after Stop
  (`timer/timing_wheel.cc:52`, `timer/timer.cc:76`).
* `ExactlyOnce`: an unused slot holds the number 0, so a listener that starts with
  the ring takes an empty first notification
  (`transport/shm/condition_notifier.cc:88`).
* `Answered`: a callback that waits for itself also keeps the subscriber of its
  process, so that no client of the process gets a response any more
  (`transport/message/listener_handler.h:164`). A message that is overwritten in
  a history is gone. And a service that starts beside another one of its
  process is not given the requests of before, which one in a process of its
  own is (`transport/dispatcher/rtps_dispatcher.cc:50`).
* `QuietMeansConnected`: the readers of a channel in one process share the id of
  their receiver; when one of them leaves, writers in other processes no longer
  send to the rest (`node/reader_base.h:206`).
* `StopsSending`: a peer that was looked up may leave before it is enabled, and
  nothing disables it afterwards (`node/writer.h:185`).
* `DeadForgotten`: a change of a dead process that is just being applied may bring
  a role back after its drop
  (`service_discovery/specific_manager/channel_manager.cc:254`).
* Messages dispatched before the callback is registered wake nobody
  (`Consumed`); segments opened before they are constructed, and two writers
  replacing a segment (`shm_segment`); timers added while the wheels turn
  (`OnTime`).

## 9. What is not modelled

* Of the modelled parts: IO_WAIT, the switch of stacks, thread affinity and the
  choice of a processor; futures and exceptions of tasks; WaitEnqueue and the
  wait strategy with a time-out, which only tests use; `Segment::Destroy` and
  reference counts, and the death of a process that holds a block for another
  reason than its own overrun: nothing clears the lock; Shutdown of the notifier and the creation of its memory by two
  processes at once; the multicast notifier, a socket; the history of durable
  writers and the chains of the intra-process dispatcher; the node and service
  managers, the graph of nodes, and ends of message types without a serializer,
  which are not announced to other processes; the start and shutdown of the
  tick thread; the creation and end of clients, the shutdown of the RTPS
  dispatcher, and the receiving thread that Fast-RTPS shares between the
  channels of a process, which a stuck callback would keep from the services of
  the process as well; memory orders weaker than sequential consistency.
* Undefined behaviour that is noted and not followed further: the unlocked walk
  over a `std::vector` in `DataDispatcher::Dispatch` while AddBuffer extends it
  (`data/data_dispatcher.h:86`); the raw pointer to a callback that Tick hands to
  the pool (`timer/timing_wheel.cc:57`); a topology callback, or the Enqueue of a
  service that is being destructed, that still runs when Disconnect returns
  (`base/signal.h:63`); the use of `state_` after a failed
  Remap (`transport/shm/segment.cc:54`), where the model ends the process.
* Situations the models reach without a property about them, as the code says
  nothing of them: a routine created while Shutdown is under way stays
  registered (`scheduler/scheduler.cc:46`); a RemoveTask after Shutdown returns
  at once (`scheduler/policy/scheduler_classic.cc:187`); a message of channel 0
  before the fusion callback is installed (`data/data_visitor.h:141`); the entry
  of a request that timed out and is never answered (`service/client.h:277`).
* Blocker: every operation holds its mutex throughout.
* RTPS transport: a wrapper of Fast-RTPS, a network stack of its own that the
  repository carries along; what services rely on is in `ServiceCall`, the order
  of topology messages in `Topology`.
* Record files: serialisation; only the exchange of chunks with the flush thread
  has state worth a model (planned).
* Class loader, components, start-up, configuration, parameters: sequential
  initialisation, or a map behind a mutex.
* Logging, events, monitoring, Python bindings, tools: nothing depends on them.
* ReentrantRWLock, UnboundedQueue, ThreadSafeQueue, the object pools: few or no
  users in the runtime. AtomicHashMap appears as an atomic table.
* Third-party code that the repository carries along (`cyberRT-dependency`):
  libraries with their own upstream.

## 10. Plan

The order follows the path of a message from the inside out. Done: lock,
wake-up, registry, channel data, task pool, queue and thread pool, segments,
notifications, timer, services and topology, with the abstract specifications
`RWLock`, `LossyChannel` and `BoundedFifo`.

Every invariant and every safety property of the runs that stands alone has its
theorem (section 7); progress stays with TLC.

Left of the models: `Destroy` of segments with the reference counts; the
notifications composed with the segments, for delivery from Transmit to
ReadMessage; PollHandler and IO_WAIT; the chunks of the record writer.
