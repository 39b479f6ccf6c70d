---------------------------- MODULE TimingWheel ----------------------------
(***************************************************************************)
(* Timers on the two wheels of cyber/timer: a tick thread turns the work   *)
(* wheel by one bucket per tick and, once per revolution, the assistant    *)
(* wheel, whose bucket it empties into the work wheel.  Other threads add  *)
(* tasks without stopping it.  Time is counted in ticks.                   *)
(*                                                                         *)
(* A task is one TimerTask object: it is started once, and after Stop it   *)
(* only exists as long as a callback still refers to it.  A callback that  *)
(* has added its task again still holds the task's mutex, and then its     *)
(* pointer to the task, while the next callback may already be under way.  *)
(* The ticking thread runs from the start.  The length of a callback and   *)
(* the error it corrects are abstracted to the choice of the next delay.   *)
(***************************************************************************)
EXTENDS Integers

CONSTANTS
    Tasks,
    Periodic,                   \* tasks that are not oneshot
    WORK_WHEEL_SIZE,
    ASSISTANT_WHEEL_SIZE

ASSUME PeriodicAssumption == Periodic \subseteq Tasks
ASSUME WheelAssumption ==
    WORK_WHEEL_SIZE \in Nat \ {0} /\ ASSISTANT_WHEEL_SIZE \in Nat \ {0}

MaxDelay == WORK_WHEEL_SIZE * ASSISTANT_WHEEL_SIZE
Delays == 1 .. MaxDelay     \* what InitTimerTask lets through, in ticks
WorkSlots == 0 .. WORK_WHEEL_SIZE - 1
AssistantSlots == 0 .. ASSISTANT_WHEEL_SIZE - 1

VARIABLES
    work_wheel,     \* the tasks in each bucket
    assistant_wheel,    \* likewise, each with its remainder_interval_ms
    work_index, assistant_index,    \* current_..._wheel_index_
    tpc,            \* the tick thread's next step
    pc,             \* per task: where it is in its life
    goal,           \* AddTask's work_wheel_index: where the task is due
    dest,           \* the bucket that AddTask has chosen
    ending,         \* what callbacks that have added the task again still hold
    stopping,       \* Stop has reset task_ and holds the last owning pointer
    stopped,        \* Stop has released the task and returned
    left,           \* history: ticks until the task is due; -1 is overdue
    disturbed,      \* history: the wheels moved during the last AddTask
    overlapped,     \* history: after Stop a callback entered beside an earlier one
    extra           \* history: functions begun after Stop, up to such an entry

wheelVars == <<work_wheel, assistant_wheel, work_index, assistant_index, tpc>>
ownerVars == <<ending, stopping, stopped>>
taskVars == <<pc, goal, dest, ownerVars>>
stopHistory == <<overlapped, extra>>
historyVars == <<left, disturbed, stopHistory>>
timerVars == <<wheelVars, taskVars, historyVars>>

Nowhere == [wheel |-> "none", slot |-> 0, remainder |-> 0]

TimerInit ==
    /\ work_wheel = [i \in WorkSlots |-> {}]
    /\ assistant_wheel = [i \in AssistantSlots |-> {}]
    /\ work_index = 0 /\ assistant_index = 0
    /\ tpc = "tick"
    /\ pc = [t \in Tasks |-> "new"]
    /\ goal = [t \in Tasks |-> 0]
    /\ dest = [t \in Tasks |-> Nowhere]
    /\ ending = [t \in Tasks |-> "no"]
    /\ stopping = [t \in Tasks |-> FALSE] /\ stopped = [t \in Tasks |-> FALSE]
    /\ left = [t \in Tasks |-> 0]
    /\ disturbed = [t \in Tasks |-> FALSE]
    /\ overlapped = [t \in Tasks |-> FALSE]
    /\ extra = [t \in Tasks |-> 0]

Goto(t, label) == pc' = [pc EXCEPT ![t] = label]

\* A thread is inside AddTask for the task.
Adding(t) == pc[t] \in {"choose", "insert"}

GetWorkWheelIndex(i) == i % WORK_WHEEL_SIZE
GetAssistantWheelIndex(i) == i % ASSISTANT_WHEEL_SIZE

-----------------------------------------------------------------------------
(* AddTask, called by Start and by the callback of a periodic task *)

\* The caller sets next_fire_duration_ms; AddTask reads the work index.
AddTask(t) ==
    /\ \E n \in Delays :
         /\ goal' = [goal EXCEPT ![t] = work_index + n]
         /\ left' = [left EXCEPT ![t] = n]
    /\ disturbed' = [disturbed EXCEPT ![t] = tpc \in {"carry", "cascade"}]
    /\ Goto(t, "choose")

Start(t) ==
    /\ pc[t] = "new"
    /\ AddTask(t)
    /\ UNCHANGED <<wheelVars, dest, ownerVars, stopHistory>>

\* Fault: a bucket of the next revolution is taken even if it is still to
\* come in this one.
OnWorkWheelAhead(i) == i \div WORK_WHEEL_SIZE <= 1

\* The task is due in this revolution, or so early in the next one that the
\* work wheel has already passed its bucket.
OnWorkWheel(i) ==
    \/ i \div WORK_WHEEL_SIZE = 0
    \/ i \div WORK_WHEEL_SIZE = 1 /\ GetWorkWheelIndex(i) < work_index

\* Which wheel, which bucket; for the assistant wheel counted from now.
Choose(t) ==
    LET real == GetWorkWheelIndex(goal[t]) IN
    /\ pc[t] = "choose"
    /\ dest' = [dest EXCEPT ![t] =
         IF OnWorkWheel(goal[t])
         THEN [wheel |-> "work", slot |-> real, remainder |-> 0]
         ELSE [wheel |-> "assistant", slot |-> goal[t] \div WORK_WHEEL_SIZE,
               remainder |-> real]]
    /\ goal' = [goal EXCEPT ![t] = 0]
    /\ Goto(t, "insert")
    /\ UNCHANGED <<wheelVars, ownerVars, historyVars>>

\* TimerBucket::AddTask; the assistant index is read under its mutex.
Insert(t) ==
    /\ pc[t] = "insert"
    /\ IF dest[t].wheel = "work"
       THEN /\ work_wheel' = [work_wheel EXCEPT ![dest[t].slot] = @ \cup {t}]
            /\ UNCHANGED assistant_wheel
       ELSE LET s == GetAssistantWheelIndex(assistant_index + dest[t].slot) IN
            /\ assistant_wheel' =
                 [assistant_wheel EXCEPT ![s] =
                    @ \cup {<<t, dest[t].remainder>>}]
            /\ UNCHANGED work_wheel
    /\ dest' = [dest EXCEPT ![t] = Nowhere]
    /\ Goto(t, "waiting")
    /\ UNCHANGED <<work_index, assistant_index, tpc, goal, ownerVars,
                   historyVars>>

-----------------------------------------------------------------------------
(* The tick thread *)

\* Fault: the buckets own their tasks.
AliveInBucket(t) == t \in Tasks

\* weak_ptr::lock succeeds for a task in a bucket or in the pool: its Timer
\* refers to it, or a callback that has added it again and is not yet over.
Alive(t) == ~stopped[t] \/ ending[t] # "no"

\* Tick: the callbacks of the current bucket go to the task pool.
Tick ==
    LET due == work_wheel[work_index] IN
    /\ tpc = "tick"
    /\ work_wheel' = [work_wheel EXCEPT ![work_index] = {}]
    /\ pc' = [t \in Tasks |->
         IF t \notin due THEN pc[t] ELSE IF Alive(t) THEN "posted" ELSE "gone"]
    /\ tpc' = "advance"
    /\ left' = [t \in Tasks |-> IF t \in due THEN 0 ELSE left[t]]
    /\ disturbed' = [t \in Tasks |-> disturbed[t] /\ t \notin due]
    /\ UNCHANGED <<assistant_wheel, work_index, assistant_index, goal, dest,
                   ownerVars, stopHistory>>

\* rate.Sleep() returns: one tick later the next bucket is current.
Advance ==
    /\ tpc = "advance"
    /\ work_index' = GetWorkWheelIndex(work_index + 1)
    /\ tpc' = IF work_index' = 0 THEN "carry" ELSE "tick"
    /\ left' = [t \in Tasks |->
         IF ~Adding(t) /\ pc[t] # "waiting" THEN left[t]
         ELSE IF left[t] <= 0 THEN -1 ELSE left[t] - 1]
    /\ disturbed' = [t \in Tasks |-> disturbed[t] \/ Adding(t)]
    /\ UNCHANGED <<work_wheel, assistant_wheel, assistant_index, taskVars,
                   stopHistory>>

Carry ==
    /\ tpc = "carry"
    /\ assistant_index' = GetAssistantWheelIndex(assistant_index + 1)
    /\ tpc' = "cascade"
    /\ UNCHANGED <<work_wheel, assistant_wheel, work_index, taskVars,
                   historyVars>>

\* Fault: the tasks stay in the bucket as well.
CascadeCopies ==
    LET due == assistant_wheel[assistant_index] IN
    /\ tpc = "cascade"
    /\ work_wheel' = [i \in WorkSlots |->
         work_wheel[i] \cup {t \in Tasks : Alive(t) /\ <<t, i>> \in due}]
    /\ tpc' = "tick"
    /\ UNCHANGED <<assistant_wheel, work_index, assistant_index, taskVars,
                   historyVars>>

\* Fault: the current bucket is left for the next revolution.
CascadeNothing ==
    /\ tpc = "cascade"
    /\ tpc' = "tick"
    /\ UNCHANGED <<work_wheel, assistant_wheel, work_index, assistant_index,
                   taskVars, historyVars>>

\* Cascade: the tasks of the revolution that begins go to the work wheel.
Cascade ==
    LET due == assistant_wheel[assistant_index] IN
    /\ tpc = "cascade"
    /\ work_wheel' = [i \in WorkSlots |->
         work_wheel[i] \cup {t \in Tasks : Alive(t) /\ <<t, i>> \in due}]
    /\ assistant_wheel' = [assistant_wheel EXCEPT ![assistant_index] = {}]
    /\ pc' = [t \in Tasks |->
         IF ~Alive(t) /\ (\E i \in WorkSlots : <<t, i>> \in due)
         THEN "gone" ELSE pc[t]]
    /\ tpc' = "tick"
    /\ UNCHANGED <<work_index, assistant_index, goal, dest, ownerVars,
                   historyVars>>

-----------------------------------------------------------------------------
(* The callback, on a worker of the task pool, and Stop *)

\* The callback finds its task alive and refers to it from now on.
Enter(t) ==
    /\ pc[t] = "posted" /\ Alive(t)
    /\ Goto(t, "entered")
    /\ overlapped' = [overlapped EXCEPT ![t] =
                        @ \/ (stopped[t] /\ ending[t] # "no")]
    /\ UNCHANGED <<wheelVars, goal, dest, ownerVars, left, disturbed, extra>>

\* The last pointer to the task is gone, and its callback with it.
EnterGone(t) ==
    /\ pc[t] = "posted" /\ ~Alive(t)
    /\ Goto(t, "gone")
    /\ UNCHANGED <<wheelVars, goal, dest, ownerVars, historyVars>>

\* No callback of the task holds its mutex; Start and Stop of a Timer are not
\* called at the same time.
MutexFree(t) == pc[t] # "running" /\ ~Adding(t) /\ ending[t] # "locked"

\* The callback has the task's mutex and runs the user's function.
Run(t) ==
    /\ pc[t] = "entered" /\ MutexFree(t)
    /\ Goto(t, "running")
    /\ extra' = IF stopped[t] /\ ~overlapped[t]
                THEN [extra EXCEPT ![t] = @ + 1] ELSE extra
    /\ UNCHANGED <<wheelVars, goal, dest, ownerVars, left, disturbed,
                   overlapped>>

\* A periodic task is added again, still under its mutex.
Again(t) ==
    /\ pc[t] = "running" /\ t \in Periodic
    /\ AddTask(t)
    /\ ending' = [ending EXCEPT ![t] = "locked"]
    /\ UNCHANGED <<wheelVars, dest, stopping, stopped, stopHistory>>

\* AddTask has returned: the callback gives up the mutex ...
Unlock(t) ==
    /\ ending[t] = "locked" /\ ~Adding(t)
    /\ ending' = [ending EXCEPT ![t] = "unlocked"]
    /\ UNCHANGED <<wheelVars, pc, goal, dest, stopping, stopped, historyVars>>

\* ... and the last of those that have done so its pointer to the task.
Release(t) ==
    /\ ending[t] = "unlocked"
    /\ ending' = [ending EXCEPT ![t] = "no"]
    /\ UNCHANGED <<wheelVars, pc, goal, dest, stopping, stopped, historyVars>>

FinishOneshot(t) ==
    /\ pc[t] = "running" /\ t \notin Periodic
    /\ Goto(t, "gone")
    /\ UNCHANGED <<wheelVars, goal, dest, ownerVars, historyVars>>

\* Stop waits for the mutex and resets task_ under it ...
Stop(t) ==
    /\ pc[t] # "new" /\ ~stopping[t]
    /\ MutexFree(t)
    /\ stopping' = [stopping EXCEPT ![t] = TRUE]
    /\ UNCHANGED <<wheelVars, pc, goal, dest, ending, stopped, historyVars>>

\* ... and its own pointer, tmp_task, when it returns.
StopReturns(t) ==
    /\ stopping[t] /\ ~stopped[t]
    /\ stopped' = [stopped EXCEPT ![t] = TRUE]
    /\ UNCHANGED <<wheelVars, pc, goal, dest, ending, stopping, historyVars>>

TickThread == Tick \/ Advance \/ Carry \/ Cascade
AddStep(t) == Choose(t) \/ Insert(t)
PoolStep(t) == Enter(t) \/ EnterGone(t) \/ Run(t) \/ Again(t) \/ FinishOneshot(t)
LeaveStep(t) == Unlock(t) \/ Release(t)
StopStep(t) == Stop(t) \/ StopReturns(t)

TimerNext ==
    \/ TickThread
    \/ \E t \in Tasks : \/ Start(t) \/ AddStep(t) \/ PoolStep(t)
                        \/ LeaveStep(t) \/ StopStep(t)

TimerSpec == TimerInit /\ [][TimerNext]_timerVars

\* The tick thread keeps ticking, and the threads in AddTask and in a
\* callback keep being scheduled.
FairTimerSpec ==
    /\ TimerSpec
    /\ WF_timerVars(TickThread)
    /\ \A t \in Tasks :
         /\ WF_timerVars(AddStep(t)) /\ WF_timerVars(PoolStep(t))
         /\ WF_timerVars(LeaveStep(t))

-----------------------------------------------------------------------------
Destinations ==
    [wheel : {"none", "work"}, slot : WorkSlots, remainder : {0}]
      \cup [wheel : {"assistant"}, slot : 1 .. ASSISTANT_WHEEL_SIZE,
            remainder : WorkSlots]

TimerTypeOK ==
    /\ work_wheel \in [WorkSlots -> SUBSET Tasks]
    /\ assistant_wheel \in [AssistantSlots -> SUBSET (Tasks \X WorkSlots)]
    /\ work_index \in WorkSlots /\ assistant_index \in AssistantSlots
    /\ tpc \in {"tick", "advance", "carry", "cascade"}
    /\ pc \in [Tasks -> {"new", "choose", "insert", "waiting", "posted",
                         "entered", "running", "gone"}]
    /\ goal \in [Tasks -> 0 .. WORK_WHEEL_SIZE - 1 + MaxDelay]
    /\ dest \in [Tasks -> Destinations]
    /\ ending \in [Tasks -> {"no", "locked", "unlocked"}]
    /\ stopping \in [Tasks -> BOOLEAN] /\ stopped \in [Tasks -> BOOLEAN]
    /\ left \in [Tasks -> -1 .. MaxDelay]
    /\ disturbed \in [Tasks -> BOOLEAN]
    /\ overlapped \in [Tasks -> BOOLEAN] /\ extra \in [Tasks -> Nat]

\* A task is in one bucket while it waits and in none otherwise: carrying it
\* from wheel to wheel neither loses nor doubles it.
InOneBucket ==
    \A t \in Tasks :
      LET places == {<<"work", i>> : i \in {j \in WorkSlots :
                                               t \in work_wheel[j]}}
            \cup {<<"assistant", p[1], p[2]>> : p \in
                     {q \in AssistantSlots \X WorkSlots :
                        <<t, q[2]>> \in assistant_wheel[q[1]]}}
      IN IF pc[t] = "waiting"
         THEN \E place \in places : places = {place}
         ELSE places = {}

\* The wheels are sound: indices in range, and every waiting task in its bucket.
WheelInv == TimerTypeOK /\ InOneBucket

\* A callback goes to the pool exactly at its tick, for delays from one tick
\* to the whole range of both wheels, if the wheels stood still while the
\* task was being added.
OnTime ==
    [][\A t \in Tasks :
         pc[t] = "waiting" /\ pc'[t] = "posted" /\ ~disturbed[t]
           => left[t] = 0]_timerVars

\* After Stop has returned the user's function begins at most once more, in a
\* callback that had already referred to its task, unless a callback entered
\* while an earlier one of the same task was not yet over: the pointer that
\* the earlier one still holds keeps the stopped task alive.
StopTakesHold == \A t \in Tasks : extra[t] <= 1

\* Every task that has been added fires unless it is stopped, even if the
\* wheels moved meanwhile.
Fires == \A t \in Tasks : pc[t] = "waiting" ~> (pc[t] = "posted" \/ stopped[t])

=============================================================================
