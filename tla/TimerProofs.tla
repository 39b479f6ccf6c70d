----------------------------- MODULE TimerProofs ----------------------------
(***************************************************************************)
(* The timer and the pool that runs its callbacks, for any number of       *)
(* tasks, clients and workers and any sizes of the wheels and the queue.   *)
(*                                                                         *)
(* Timing wheels: a waiting task is in one bucket (Placed), and unless the *)
(* wheels moved while it was being added that bucket is the one they reach *)
(* when its delay is over (Due).  Due counts in ticks: from the current    *)
(* bucket of the work wheel, and for the assistant wheel in revolutions of *)
(* the work wheel plus the remainder.  Held follows the callback of a task *)
(* that is stopped.                                                        *)
(*                                                                         *)
(* Task pool: RunAtMostOnce counts the places of a task.  The proof says   *)
(* where it can be: before its call nowhere, then at one place of the      *)
(* queue, or in the hands of one worker, or run.                           *)
(***************************************************************************)
EXTENDS TimingWheel, TaskManager, FiniteSetTheorems, TLAPS

-----------------------------------------------------------------------------
(* The wheels of TimingWheel *)

\* A task is in no bucket unless it waits, and in one when it does.
Placed(t) ==
    /\ pc[t] # "waiting" =>
         /\ \A i \in WorkSlots : t \notin work_wheel[i]
         /\ \A j \in AssistantSlots, r \in WorkSlots : <<t, r>> \notin assistant_wheel[j]
    /\ \A i, j \in WorkSlots : t \in work_wheel[i] /\ t \in work_wheel[j] => i = j
    /\ \A i, j \in AssistantSlots, r, s \in WorkSlots :
         <<t, r>> \in assistant_wheel[i] /\ <<t, s>> \in assistant_wheel[j]
           => i = j /\ r = s
    /\ \A i, r \in WorkSlots, j \in AssistantSlots :
         ~(t \in work_wheel[i] /\ <<t, r>> \in assistant_wheel[j])
    /\ pc[t] = "waiting" =>
         \/ \E i \in WorkSlots : t \in work_wheel[i]
         \/ \E j \in AssistantSlots, r \in WorkSlots : <<t, r>> \in assistant_wheel[j]

\* The function has begun after Stop only in a callback that was already past
\* its entry, and a later callback enters only beside one that is not over.
Held(t) ==
    /\ extra[t] \in {0, 1}
    /\ ~stopped[t] \/ (pc[t] = "entered" /\ ~overlapped[t]) => extra[t] = 0

\* The revolution that begins is at its first bucket.
CarryInv == tpc \in {"carry", "cascade"} => work_index = 0

\* A bucket of the work wheel is the one that is due in left[t] ticks.
WorkDue(t, i) ==
    /\ left[t] \in 0 .. WORK_WHEEL_SIZE - 1
    /\ i = work_index + left[t] \/ i = work_index + left[t] - WORK_WHEEL_SIZE
    /\ tpc = "advance" => left[t] # 0

\* A bucket of the assistant wheel is emptied in k revolutions, and r buckets
\* later the task is due.
AssistantDue(t, j, r) ==
    \E k \in 0 .. ASSISTANT_WHEEL_SIZE :
      /\ IF tpc = "cascade" THEN k # ASSISTANT_WHEEL_SIZE ELSE k # 0
      /\ j = assistant_index + k \/ j = assistant_index + k - ASSISTANT_WHEEL_SIZE
      /\ left[t] = k * WORK_WHEEL_SIZE + r - work_index
                     - (IF tpc = "carry" THEN WORK_WHEEL_SIZE ELSE 0)

\* What a task that was added while the wheels stood still has ahead of it.
Due(t) ==
    ~disturbed[t] =>
      /\ Adding(t) => tpc \in {"tick", "advance"} /\ left[t] \in Delays
      /\ pc[t] = "choose" => goal[t] = work_index + left[t]
      /\ pc[t] = "insert" =>
           \/ dest[t].wheel = "work" /\ WorkDue(t, dest[t].slot)
           \/ /\ dest[t].wheel = "assistant"
              /\ left[t] = dest[t].slot * WORK_WHEEL_SIZE + dest[t].remainder - work_index
      /\ \A i \in WorkSlots : t \in work_wheel[i] => WorkDue(t, i)
      /\ \A j \in AssistantSlots, r \in WorkSlots :
           <<t, r>> \in assistant_wheel[j] => AssistantDue(t, j, r)

TaskInv == \A t \in Tasks : Placed(t) /\ Held(t) /\ Due(t)

TimerIInv == TimerTypeOK /\ CarryInv /\ TaskInv

-----------------------------------------------------------------------------
\* Less than two rounds of a wheel on, the index has wrapped at most once.
LEMMA OneRound ==
  ASSUME NEW c \in Nat \ {0}, NEW m \in 0 .. 2 * c - 1
  PROVE  m % c = (IF m < c THEN m ELSE m - c)
  <1> DEFINE q == m \div c
             i == m % c
  <1>1. q \in Nat /\ i \in 0 .. c - 1 /\ m = c * q + i
    BY WheelAssumption
  <1> HIDE DEF q, i
  <1>2. CASE q = 0
    BY <1>1, <1>2 DEF i
  <1>3. CASE q = 1
    BY <1>1, <1>3 DEF i
  <1>4. CASE q >= 2
    <2>1. c * q >= c * 2
      BY <1>1, <1>4
    <2> QED BY <1>1, <2>1
  <1> QED BY <1>1, <1>2, <1>3, <1>4

\* A delay ends at most ASSISTANT_WHEEL_SIZE revolutions on.
LEMMA GoalParts ==
  ASSUME NEW g \in 0 .. WORK_WHEEL_SIZE - 1 + MaxDelay
  PROVE  /\ GetWorkWheelIndex(g) \in WorkSlots
         /\ g \div WORK_WHEEL_SIZE \in 0 .. ASSISTANT_WHEEL_SIZE
         /\ g = (g \div WORK_WHEEL_SIZE) * WORK_WHEEL_SIZE + GetWorkWheelIndex(g)
  <1> DEFINE c == WORK_WHEEL_SIZE
             a == ASSISTANT_WHEEL_SIZE
             q == g \div c
             i == g % c
  <1>1. c \in Nat \ {0} /\ a \in Nat \ {0} /\ g \in Nat /\ c * a \in Nat
    BY WheelAssumption DEF MaxDelay
  <1>2. g <= c - 1 + c * a
    BY <1>1 DEF MaxDelay
  <1> HIDE DEF c, a
  <1>3. q \in Nat /\ i \in 0 .. c - 1 /\ g = c * q + i
    BY <1>1
  <1> HIDE DEF q, i
  <1>4. q <= a
    <2> SUFFICES ASSUME q >= a + 1 PROVE FALSE
      BY <1>1, <1>3
    <2>1. c * q >= c * (a + 1)
      BY <1>1, <1>3
    <2>2. c * (a + 1) = c * a + c
      BY <1>1
    <2> QED BY <1>1, <1>2, <1>3, <2>1, <2>2
  <1>5. c * q = q * c
    BY <1>1, <1>3
  <1> QED BY <1>1, <1>3, <1>4, <1>5 DEF c, a, q, i, GetWorkWheelIndex, WorkSlots

\* A task that no bucket gains or loses keeps its place.
LEMMA SamePlace ==
  ASSUME NEW t \in Tasks, Placed(t), pc'[t] = pc[t],
         \A i \in WorkSlots : t \in work_wheel'[i] <=> t \in work_wheel[i],
         \A j \in AssistantSlots, r \in WorkSlots :
           <<t, r>> \in assistant_wheel'[j] <=> <<t, r>> \in assistant_wheel[j]
  PROVE  Placed(t)'
  BY DEF Placed

\* A task that a step does not touch is as it was.
LEMMA Untouched ==
  ASSUME NEW t \in Tasks, Placed(t), Held(t), Due(t),
         UNCHANGED <<work_index, assistant_index, tpc>>,
         pc'[t] = pc[t], goal'[t] = goal[t], dest'[t] = dest[t],
         stopped'[t] = stopped[t], left'[t] = left[t],
         disturbed'[t] = disturbed[t], overlapped'[t] = overlapped[t],
         extra'[t] = extra[t],
         \A i \in WorkSlots : t \in work_wheel'[i] <=> t \in work_wheel[i],
         \A j \in AssistantSlots, r \in WorkSlots :
           <<t, r>> \in assistant_wheel'[j] <=> <<t, r>> \in assistant_wheel[j]
  PROVE  Placed(t)' /\ Held(t)' /\ Due(t)'
  <1>1. Placed(t)'
    BY SamePlace
  <1>2. Held(t)'
    BY DEF Held
  <1>3. \A i : WorkDue(t, i)' <=> WorkDue(t, i)
    BY DEF WorkDue
  <1>4. \A j, r : AssistantDue(t, j, r)' <=> AssistantDue(t, j, r)
    BY DEF AssistantDue
  <1>5. Due(t)'
    BY <1>3, <1>4 DEF Due, Adding
  <1> QED BY <1>1, <1>2, <1>5

\* The initial state satisfies the invariant.
LEMMA InitTimerIInv == TimerInit => TimerIInv
  <1> SUFFICES ASSUME TimerInit PROVE TimerIInv
    OBVIOUS
  <1> USE DEF TimerInit
  <1>1. 0 \in WorkSlots /\ 0 \in AssistantSlots /\ MaxDelay \in Nat
    BY WheelAssumption DEF WorkSlots, AssistantSlots, MaxDelay
  <1>2. 0 \in 0 .. WORK_WHEEL_SIZE - 1 + MaxDelay /\ 0 \in -1 .. MaxDelay
    BY <1>1, WheelAssumption
  <1>3. Nowhere \in Destinations
    BY <1>1 DEF Nowhere, Destinations
  <1>4. TimerTypeOK
    BY <1>1, <1>2, <1>3 DEF TimerTypeOK
  <1>5. CarryInv /\ TaskInv
    BY DEF CarryInv, TaskInv, Placed, Held, Due, Adding
  <1> QED BY <1>4, <1>5 DEF TimerIInv

\* Start adds a task that has never been added.
LEMMA StartIInv ==
  ASSUME TimerIInv, NEW t \in Tasks, Start(t)
  PROVE  TimerIInv'
  <1> USE DEF TimerIInv, TimerTypeOK, wheelVars, ownerVars, historyVars, stopHistory, Goto
  <1>1. TimerTypeOK'
    <2>1. PICK n \in Delays : /\ goal' = [goal EXCEPT ![t] = work_index + n]
                             /\ left' = [left EXCEPT ![t] = n]
      BY DEF Start, AddTask
    <2>2. n \in -1 .. MaxDelay /\ work_index + n \in 0 .. WORK_WHEEL_SIZE - 1 + MaxDelay
      BY WheelAssumption DEF Delays, WorkSlots, MaxDelay
    <2>3. goal' \in [Tasks -> 0 .. WORK_WHEEL_SIZE - 1 + MaxDelay]
          /\ left' \in [Tasks -> -1 .. MaxDelay]
      BY <2>1, <2>2
    <2>4. disturbed' \in [Tasks -> BOOLEAN]
      BY DEF Start, AddTask
    <2>5. pc' \in [Tasks -> {"new", "choose", "insert", "waiting", "posted",
                            "entered", "running", "gone"}]
      BY DEF Start, AddTask
    <2> QED BY <2>3, <2>4, <2>5 DEF Start
  <1>2. CarryInv'
    BY DEF Start, CarryInv
  <1>3. ASSUME NEW u \in Tasks, u # t PROVE Placed(u)' /\ Held(u)' /\ Due(u)'
    BY <1>3, Untouched DEF Start, AddTask, TaskInv
  <1>4. Placed(t)'
    BY DEF Start, AddTask, TaskInv, Placed
  <1>5. Held(t)'
    BY DEF Start, AddTask, TaskInv, Held
  <1>6. Due(t)'
    <2>1. PICK n \in Delays : /\ goal' = [goal EXCEPT ![t] = work_index + n]
                             /\ left' = [left EXCEPT ![t] = n]
      BY DEF Start, AddTask
    <2>2. /\ pc'[t] = "choose" /\ goal'[t] = work_index + n /\ left'[t] = n
          /\ disturbed'[t] = (tpc \in {"carry", "cascade"})
      BY <2>1 DEF Start, AddTask
    <2> QED BY <2>2 DEF Start, TaskInv, Placed, Due, Adding
  <1> QED BY <1>1, <1>2, <1>3, <1>4, <1>5, <1>6 DEF TaskInv

\* The callback adds its periodic task again.
LEMMA AgainIInv ==
  ASSUME TimerIInv, NEW t \in Tasks, Again(t)
  PROVE  TimerIInv'
  <1> USE DEF TimerIInv, TimerTypeOK, wheelVars, ownerVars, historyVars, stopHistory, Goto
  <1>1. TimerTypeOK'
    <2>1. PICK n \in Delays : /\ goal' = [goal EXCEPT ![t] = work_index + n]
                             /\ left' = [left EXCEPT ![t] = n]
      BY DEF Again, AddTask
    <2>2. n \in -1 .. MaxDelay /\ work_index + n \in 0 .. WORK_WHEEL_SIZE - 1 + MaxDelay
      BY WheelAssumption DEF Delays, WorkSlots, MaxDelay
    <2>3. goal' \in [Tasks -> 0 .. WORK_WHEEL_SIZE - 1 + MaxDelay]
          /\ left' \in [Tasks -> -1 .. MaxDelay]
      BY <2>1, <2>2
    <2>4. disturbed' \in [Tasks -> BOOLEAN]
      BY DEF Again, AddTask
    <2>5. pc' \in [Tasks -> {"new", "choose", "insert", "waiting", "posted",
                            "entered", "running", "gone"}]
      BY DEF Again, AddTask
    <2> QED BY <2>3, <2>4, <2>5 DEF Again
  <1>2. CarryInv'
    BY DEF Again, CarryInv
  <1>3. ASSUME NEW u \in Tasks, u # t PROVE Placed(u)' /\ Held(u)' /\ Due(u)'
    BY <1>3, Untouched DEF Again, AddTask, TaskInv
  <1>4. Placed(t)'
    BY DEF Again, AddTask, TaskInv, Placed
  <1>5. Held(t)'
    BY DEF Again, AddTask, TaskInv, Held
  <1>6. Due(t)'
    <2>1. PICK n \in Delays : /\ goal' = [goal EXCEPT ![t] = work_index + n]
                             /\ left' = [left EXCEPT ![t] = n]
      BY DEF Again, AddTask
    <2>2. /\ pc'[t] = "choose" /\ goal'[t] = work_index + n /\ left'[t] = n
          /\ disturbed'[t] = (tpc \in {"carry", "cascade"})
      BY <2>1 DEF Again, AddTask
    <2> QED BY <2>2 DEF Again, TaskInv, Placed, Due, Adding
  <1> QED BY <1>1, <1>2, <1>3, <1>4, <1>5, <1>6 DEF TaskInv

\* The callback finds its task alive.
LEMMA EnterIInv ==
  ASSUME TimerIInv, NEW t \in Tasks, Enter(t)
  PROVE  TimerIInv'
  <1> USE DEF TimerIInv, TimerTypeOK, wheelVars, ownerVars, historyVars, stopHistory, Goto
  <1>1. TimerTypeOK'
    BY DEF Enter
  <1>2. CarryInv'
    BY DEF Enter, CarryInv
  <1>3. ASSUME NEW u \in Tasks, u # t PROVE Placed(u)' /\ Held(u)' /\ Due(u)'
    BY <1>3, Untouched DEF Enter, TaskInv
  <1>4. Placed(t)'
    BY DEF Enter, TaskInv, Placed
  <1>5. Held(t)'
    BY DEF Enter, Alive, TaskInv, Held
  <1>6. Due(t)'
    BY DEF Enter, TaskInv, Placed, Due, Adding
  <1> QED BY <1>1, <1>2, <1>3, <1>4, <1>5, <1>6 DEF TaskInv

\* The callback finds its task gone.
LEMMA EnterGoneIInv ==
  ASSUME TimerIInv, NEW t \in Tasks, EnterGone(t)
  PROVE  TimerIInv'
  <1> USE DEF TimerIInv, TimerTypeOK, wheelVars, ownerVars, historyVars, stopHistory, Goto
  <1>1. TimerTypeOK'
    BY DEF EnterGone
  <1>2. CarryInv'
    BY DEF EnterGone, CarryInv
  <1>3. ASSUME NEW u \in Tasks, u # t PROVE Placed(u)' /\ Held(u)' /\ Due(u)'
    BY <1>3, Untouched DEF EnterGone, TaskInv
  <1>4. Placed(t)'
    BY DEF EnterGone, TaskInv, Placed
  <1>5. Held(t)'
    BY DEF EnterGone, TaskInv, Held
  <1>6. Due(t)'
    BY DEF EnterGone, TaskInv, Placed, Due, Adding
  <1> QED BY <1>1, <1>2, <1>3, <1>4, <1>5, <1>6 DEF TaskInv

\* The callback runs the user's function.
LEMMA RunIInv ==
  ASSUME TimerIInv, NEW t \in Tasks, Run(t)
  PROVE  TimerIInv'
  <1> USE DEF TimerIInv, TimerTypeOK, wheelVars, ownerVars, historyVars, stopHistory, Goto
  <1>1. TimerTypeOK'
    BY DEF Run
  <1>2. CarryInv'
    BY DEF Run, CarryInv
  <1>3. ASSUME NEW u \in Tasks, u # t PROVE Placed(u)' /\ Held(u)' /\ Due(u)'
    BY <1>3, Untouched DEF Run, TaskInv
  <1>4. Placed(t)'
    BY DEF Run, TaskInv, Placed
  <1>5. Held(t)'
    BY DEF Run, TaskInv, Held
  <1>6. Due(t)'
    BY DEF Run, TaskInv, Placed, Due, Adding
  <1> QED BY <1>1, <1>2, <1>3, <1>4, <1>5, <1>6 DEF TaskInv

\* The callback of a oneshot task returns.
LEMMA FinishOneshotIInv ==
  ASSUME TimerIInv, NEW t \in Tasks, FinishOneshot(t)
  PROVE  TimerIInv'
  <1> USE DEF TimerIInv, TimerTypeOK, wheelVars, ownerVars, historyVars, stopHistory, Goto
  <1>1. TimerTypeOK'
    BY DEF FinishOneshot
  <1>2. CarryInv'
    BY DEF FinishOneshot, CarryInv
  <1>3. ASSUME NEW u \in Tasks, u # t PROVE Placed(u)' /\ Held(u)' /\ Due(u)'
    BY <1>3, Untouched DEF FinishOneshot, TaskInv
  <1>4. Placed(t)'
    BY DEF FinishOneshot, TaskInv, Placed
  <1>5. Held(t)'
    BY DEF FinishOneshot, TaskInv, Held
  <1>6. Due(t)'
    BY DEF FinishOneshot, TaskInv, Placed, Due, Adding
  <1> QED BY <1>1, <1>2, <1>3, <1>4, <1>5, <1>6 DEF TaskInv

\* Stop resets task_ under the mutex.
LEMMA StopIInv ==
  ASSUME TimerIInv, NEW t \in Tasks, Stop(t)
  PROVE  TimerIInv'
  <1> USE DEF TimerIInv, TimerTypeOK, wheelVars, ownerVars, historyVars, stopHistory, Goto
  <1>1. TimerTypeOK'
    BY DEF Stop
  <1>2. CarryInv'
    BY DEF Stop, CarryInv
  <1>3. ASSUME NEW u \in Tasks, u # t PROVE Placed(u)' /\ Held(u)' /\ Due(u)'
    BY <1>3, Untouched DEF Stop, TaskInv
  <1>4. Placed(t)'
    BY DEF Stop, TaskInv, Placed
  <1>5. Held(t)'
    BY DEF Stop, TaskInv, Held
  <1>6. Due(t)'
    BY DEF Stop, TaskInv, Due, Adding, WorkDue, AssistantDue
  <1> QED BY <1>1, <1>2, <1>3, <1>4, <1>5, <1>6 DEF TaskInv

\* Stop returns and releases the task.
LEMMA StopReturnsIInv ==
  ASSUME TimerIInv, NEW t \in Tasks, StopReturns(t)
  PROVE  TimerIInv'
  <1> USE DEF TimerIInv, TimerTypeOK, wheelVars, ownerVars, historyVars, stopHistory, Goto
  <1>1. TimerTypeOK'
    BY DEF StopReturns
  <1>2. CarryInv'
    BY DEF StopReturns, CarryInv
  <1>3. ASSUME NEW u \in Tasks, u # t PROVE Placed(u)' /\ Held(u)' /\ Due(u)'
    BY <1>3, Untouched DEF StopReturns, TaskInv
  <1>4. Placed(t)'
    BY DEF StopReturns, TaskInv, Placed
  <1>5. Held(t)'
    BY DEF StopReturns, TaskInv, Held
  <1>6. Due(t)'
    BY DEF StopReturns, TaskInv, Due, Adding, WorkDue, AssistantDue
  <1> QED BY <1>1, <1>2, <1>3, <1>4, <1>5, <1>6 DEF TaskInv

\* A callback that has added its task again gives up the mutex.
LEMMA UnlockIInv ==
  ASSUME TimerIInv, NEW t \in Tasks, Unlock(t)
  PROVE  TimerIInv'
  <1> USE DEF TimerIInv, TimerTypeOK, wheelVars, ownerVars, historyVars, stopHistory, Goto
  <1>1. TimerTypeOK'
    BY DEF Unlock
  <1>2. CarryInv'
    BY DEF Unlock, CarryInv
  <1>3. ASSUME NEW u \in Tasks, u # t PROVE Placed(u)' /\ Held(u)' /\ Due(u)'
    BY <1>3, Untouched DEF Unlock, TaskInv
  <1>4. Placed(t)'
    BY DEF Unlock, TaskInv, Placed
  <1>5. Held(t)'
    BY DEF Unlock, TaskInv, Held
  <1>6. Due(t)'
    BY DEF Unlock, TaskInv, Due, Adding, WorkDue, AssistantDue
  <1> QED BY <1>1, <1>2, <1>3, <1>4, <1>5, <1>6 DEF TaskInv

\* The last such callback gives up its pointer.
LEMMA ReleaseIInv ==
  ASSUME TimerIInv, NEW t \in Tasks, Release(t)
  PROVE  TimerIInv'
  <1> USE DEF TimerIInv, TimerTypeOK, wheelVars, ownerVars, historyVars, stopHistory, Goto
  <1>1. TimerTypeOK'
    BY DEF Release
  <1>2. CarryInv'
    BY DEF Release, CarryInv
  <1>3. ASSUME NEW u \in Tasks, u # t PROVE Placed(u)' /\ Held(u)' /\ Due(u)'
    BY <1>3, Untouched DEF Release, TaskInv
  <1>4. Placed(t)'
    BY DEF Release, TaskInv, Placed
  <1>5. Held(t)'
    BY DEF Release, TaskInv, Held
  <1>6. Due(t)'
    BY DEF Release, TaskInv, Due, Adding, WorkDue, AssistantDue
  <1> QED BY <1>1, <1>2, <1>3, <1>4, <1>5, <1>6 DEF TaskInv

\* AddTask chooses the bucket that is due after the delay.
LEMMA ChooseIInv ==
  ASSUME TimerIInv, NEW t \in Tasks, Choose(t)
  PROVE  TimerIInv'
  <1> USE DEF TimerIInv, TimerTypeOK, wheelVars, ownerVars, historyVars, stopHistory, Goto
  <1> DEFINE g == goal[t]
             c == WORK_WHEEL_SIZE
             q == g \div c
             real == GetWorkWheelIndex(g)
  <1>1. /\ g \in Nat /\ real \in WorkSlots /\ q \in 0 .. ASSISTANT_WHEEL_SIZE
        /\ g = q * c + real /\ c \in Nat \ {0}
    <2>1. g \in 0 .. WORK_WHEEL_SIZE - 1 + MaxDelay
      OBVIOUS
    <2> HIDE DEF g, TimerIInv, TimerTypeOK
    <2>2. /\ real \in WorkSlots /\ q \in 0 .. ASSISTANT_WHEEL_SIZE
          /\ g = q * c + real
      BY <2>1, GoalParts
    <2>3. g \in Nat /\ c \in Nat \ {0}
      BY <2>1, WheelAssumption DEF MaxDelay
    <2> QED BY <2>2, <2>3
  <1>2. OnWorkWheel(g) <=> q = 0 \/ (q = 1 /\ real < work_index)
    BY DEF OnWorkWheel
  <1>3. /\ OnWorkWheel(g) =>
             dest' = [dest EXCEPT ![t] =
                        [wheel |-> "work", slot |-> real, remainder |-> 0]]
        /\ ~OnWorkWheel(g) =>
             dest' = [dest EXCEPT ![t] =
                        [wheel |-> "assistant", slot |-> q, remainder |-> real]]
    BY DEF Choose
  <1> HIDE DEF g, q, real
  <1>4. /\ OnWorkWheel(g) =>
             [wheel |-> "work", slot |-> real, remainder |-> 0] \in Destinations
        /\ ~OnWorkWheel(g) =>
             [wheel |-> "assistant", slot |-> q, remainder |-> real] \in Destinations
    <2>1. ~OnWorkWheel(g) => q \in 1 .. ASSISTANT_WHEEL_SIZE
      BY <1>1, <1>2, WheelAssumption
    <2> QED BY <1>1, <2>1 DEF Destinations
  <1>5. TimerTypeOK'
    <2>1. dest' \in [Tasks -> Destinations]
      BY <1>3, <1>4
    <2>2. 0 \in 0 .. WORK_WHEEL_SIZE - 1 + MaxDelay
      BY WheelAssumption DEF MaxDelay
    <2>3. goal' \in [Tasks -> 0 .. WORK_WHEEL_SIZE - 1 + MaxDelay]
      BY <2>2 DEF Choose
    <2> QED BY <2>1, <2>3 DEF Choose
  <1>6. CarryInv'
    BY DEF Choose, CarryInv
  <1>7. ASSUME NEW u \in Tasks, u # t PROVE Placed(u)' /\ Held(u)' /\ Due(u)'
    BY <1>7, Untouched DEF Choose, TaskInv
  <1>8. Placed(t)'
    BY DEF Choose, TaskInv, Placed
  <1>9. Held(t)'
    BY DEF Choose, TaskInv, Held
  <1>10. Due(t)'
    <2> SUFFICES ASSUME ~disturbed[t] PROVE Due(t)'
      BY DEF Due, Choose
    <2>1. /\ tpc \in {"tick", "advance"} /\ left[t] \in Delays
          /\ g = work_index + left[t]
      BY DEF TaskInv, Due, Adding, Choose, g
    <2>2. left[t] \in Nat \ {0} /\ work_index \in 0 .. c - 1
      BY <2>1 DEF Delays, WorkSlots, MaxDelay
    <2>3. CASE OnWorkWheel(g)
      <3>1. real \in 0 .. c - 1
        BY <1>1 DEF WorkSlots
      <3>2. q * c = 0 \/ (q * c = c /\ real < work_index)
        BY <1>1, <1>2, <2>3
      <3> HIDE DEF c
      <3>3. /\ left[t] \in 0 .. c - 1
            /\ real = work_index + left[t] \/ real = work_index + left[t] - c
        BY <1>1, <2>1, <2>2, <3>1, <3>2
      <3>4. dest'[t].wheel = "work" /\ dest'[t].slot = real
        BY <1>3, <2>3
      <3>5. WorkDue(t, dest[t].slot)'
        BY <2>2, <3>3, <3>4 DEF WorkDue, Choose, c
      <3> QED BY <2>1, <3>4, <3>5 DEF TaskInv, Placed, Due, Choose, Adding
    <2>4. CASE ~OnWorkWheel(g)
      <3>1. /\ dest'[t].wheel = "assistant" /\ dest'[t].slot = q
            /\ dest'[t].remainder = real
        BY <1>3, <2>4
      <3>2. left[t] = q * c + real - work_index
        <4> HIDE DEF c
        <4>1. real \in Nat /\ q * c \in Nat
          BY <1>1 DEF WorkSlots
        <4> QED BY <1>1, <2>1, <2>2, <4>1
      <3> QED BY <2>1, <3>1, <3>2 DEF TaskInv, Placed, Due, Choose, Adding
    <2> QED BY <2>3, <2>4
  <1> QED BY <1>5, <1>6, <1>7, <1>8, <1>9, <1>10 DEF TaskInv

\* AddTask puts the task into the bucket.
LEMMA InsertIInv ==
  ASSUME TimerIInv, NEW t \in Tasks, Insert(t)
  PROVE  TimerIInv'
  <1> USE DEF TimerIInv, TimerTypeOK, wheelVars, ownerVars, historyVars, stopHistory, Goto
  <1> DEFINE d == dest[t]
             a == ASSISTANT_WHEEL_SIZE
             j == GetAssistantWheelIndex(assistant_index + d.slot)
  <1>1. /\ d \in Destinations /\ d.slot \in Nat
        /\ d.wheel = "work" => d.slot \in WorkSlots
        /\ d.wheel # "work" => d.remainder \in WorkSlots
        /\ d.wheel = "assistant" => d.slot \in 1 .. a
    BY WheelAssumption DEF Destinations, WorkSlots
  <1>2. j \in AssistantSlots
    BY <1>1, WheelAssumption, SMTT(40) DEF GetAssistantWheelIndex, AssistantSlots
  <1>3. CASE d.wheel = "work"
    <2>1. /\ work_wheel' = [work_wheel EXCEPT ![d.slot] = @ \cup {t}]
          /\ assistant_wheel' = assistant_wheel
      BY <1>3 DEF Insert
    <2> HIDE DEF d, j
    <2>2. \A u \in Tasks, i \in WorkSlots :
             u \in work_wheel'[i] <=> u \in work_wheel[i] \/ (u = t /\ i = d.slot)
      BY <1>1, <1>3, <2>1
    <2>3. TimerTypeOK'
      <3>1. work_wheel' \in [WorkSlots -> SUBSET Tasks]
        BY <1>1, <1>3, <2>1
      <3>2. Nowhere \in Destinations
        BY WheelAssumption DEF Nowhere, Destinations, WorkSlots
      <3> QED BY <2>1, <3>1, <3>2 DEF Insert
    <2>4. ASSUME NEW u \in Tasks, u # t PROVE Placed(u)' /\ Held(u)' /\ Due(u)'
      BY <2>1, <2>2, <2>4, Untouched DEF Insert, TaskInv
    <2>5. Placed(t)'
      BY <1>1, <1>3, <2>1, <2>2 DEF Insert, TaskInv, Placed
    <2>6. Held(t)'
      BY DEF Insert, TaskInv, Held
    <2>7. Due(t)'
      <3> SUFFICES ASSUME ~disturbed[t] PROVE Due(t)'
        BY DEF Due, Insert
      <3>1. WorkDue(t, d.slot)
        BY <1>3 DEF TaskInv, Due, Insert, d
      <3>2. \A i \in WorkSlots : t \in work_wheel'[i] => i = d.slot
        BY <2>2 DEF TaskInv, Placed, Insert
      <3>3. \A k \in AssistantSlots, r \in WorkSlots : <<t, r>> \notin assistant_wheel'[k]
        BY <2>1 DEF TaskInv, Placed, Insert
      <3>4. pc'[t] = "waiting"
        BY DEF Insert
      <3>5. \A i \in WorkSlots : t \in work_wheel'[i] => WorkDue(t, i)'
        BY <3>1, <3>2 DEF WorkDue, Insert
      <3> QED BY <3>3, <3>4, <3>5 DEF Due, Adding
    <2> QED BY <2>3, <2>4, <2>5, <2>6, <2>7 DEF TaskInv, CarryInv, Insert
  <1>4. CASE d.wheel # "work"
    <2> DEFINE r == d.remainder
    <2>1. /\ assistant_wheel' = [assistant_wheel EXCEPT ![j] = @ \cup {<<t, r>>}]
          /\ work_wheel' = work_wheel
      BY <1>4 DEF Insert
    <2>2. r \in WorkSlots
      BY <1>1, <1>4
    <2> HIDE DEF d, j, r
    <2>3. \A u \in Tasks, k \in AssistantSlots, x \in WorkSlots :
             <<u, x>> \in assistant_wheel'[k]
               <=> <<u, x>> \in assistant_wheel[k] \/ (u = t /\ k = j /\ x = r)
      BY <1>2, <2>1, <2>2
    <2>4. TimerTypeOK'
      <3>1. assistant_wheel' \in [AssistantSlots -> SUBSET (Tasks \X WorkSlots)]
        BY <1>2, <2>1, <2>2
      <3>2. Nowhere \in Destinations
        BY WheelAssumption DEF Nowhere, Destinations, WorkSlots
      <3> QED BY <2>1, <3>1, <3>2 DEF Insert
    <2>5. ASSUME NEW u \in Tasks, u # t PROVE Placed(u)' /\ Held(u)' /\ Due(u)'
      BY <2>1, <2>3, <2>5, Untouched DEF Insert, TaskInv
    <2>6. Placed(t)'
      <3>1. pc[t] = "insert" /\ pc'[t] = "waiting" /\ Placed(t)
        BY DEF Insert, TaskInv
      <3>2. \A k \in AssistantSlots, x \in WorkSlots :
              <<t, x>> \in assistant_wheel'[k] <=> k = j /\ x = r
        BY <2>3, <3>1 DEF Placed
      <3>3. \A i \in WorkSlots : t \notin work_wheel'[i]
        BY <2>1, <3>1 DEF Placed
      <3> QED BY <1>2, <2>2, <3>1, <3>2, <3>3 DEF Placed
    <2>7. Held(t)'
      BY DEF Insert, TaskInv, Held
    <2>8. Due(t)'
      <3> SUFFICES ASSUME ~disturbed[t] PROVE Due(t)'
        BY DEF Due, Insert
      <3>1. /\ d.wheel = "assistant" /\ tpc \in {"tick", "advance"}
            /\ left[t] = d.slot * WORK_WHEEL_SIZE + r - work_index
        BY <1>4 DEF TaskInv, Due, Insert, Adding, d, r
      <3>2. d.slot \in 1 .. a /\ assistant_index \in 0 .. a - 1 /\ a \in Nat \ {0}
        BY <1>1, <3>1, WheelAssumption DEF AssistantSlots
      <3>3. j = assistant_index + d.slot \/ j = assistant_index + d.slot - a
        <4> DEFINE m == assistant_index + d.slot
        <4> HIDE DEF a
        <4>1. m \in 0 .. 2 * a - 1
          BY <3>2
        <4> HIDE DEF m
        <4>2. m % a = (IF m < a THEN m ELSE m - a)
          BY <3>2, <4>1, OneRound
        <4>3. j = m % a
          BY DEF j, m, a, GetAssistantWheelIndex
        <4>4. j = m \/ j = m - a
          BY <4>2, <4>3
        <4> QED BY <3>2, <4>4 DEF m
      <3>4. ASSUME NEW k \in AssistantSlots, NEW x \in WorkSlots, k = j, x = r
            PROVE  AssistantDue(t, k, x)'
        <4>1. d.slot \in 0 .. a /\ d.slot # 0
          BY <3>2
        <4>2. (x - work_index) - 0 = x - work_index
          BY DEF WorkSlots
        <4>3. left[t] = d.slot * WORK_WHEEL_SIZE + ((x - work_index) - 0)
          BY <3>1, <3>4, <4>2
        <4>4. PICK n \in 0 .. a : n = d.slot
          BY <4>1
        <4>5. /\ n # 0 /\ (k = assistant_index + n \/ k = assistant_index + n - a)
              /\ left[t] = n * WORK_WHEEL_SIZE + x - work_index - 0
          BY <3>3, <3>4, <4>1, <4>3, <4>4
        <4>6. UNCHANGED <<work_index, assistant_index, tpc, left>>
          BY DEF Insert
        <4>7. tpc' # "cascade" /\ tpc' # "carry"
          BY <3>1, <4>6
        <4> QED BY <4>5, <4>6, <4>7 DEF AssistantDue
      <3>5. /\ \A i \in WorkSlots : t \notin work_wheel'[i]
            /\ \A k \in AssistantSlots, x \in WorkSlots :
                 <<t, x>> \in assistant_wheel'[k] => k = j /\ x = r
        BY <2>1, <2>3 DEF TaskInv, Placed, Insert
      <3>6. pc'[t] = "waiting"
        BY DEF Insert
      <3> QED BY <3>4, <3>5, <3>6 DEF Due, Adding
    <2> QED BY <2>4, <2>5, <2>6, <2>7, <2>8 DEF TaskInv, CarryInv, Insert
  <1> QED BY <1>3, <1>4

\* The current bucket of the work wheel is emptied.
LEMMA TickIInv ==
  ASSUME TimerIInv, Tick
  PROVE  TimerIInv'
  <1> USE DEF TimerIInv, TimerTypeOK
  <1> DEFINE due == work_wheel[work_index]
  <1>1. /\ \A u \in Tasks, i \in WorkSlots :
             u \in work_wheel'[i] <=> u \in work_wheel[i] /\ i # work_index
        /\ assistant_wheel' = assistant_wheel /\ tpc = "tick" /\ tpc' = "advance"
        /\ UNCHANGED <<work_index, assistant_index, goal, dest, ending, stopping, stopped,
                       overlapped, extra>>
    BY DEF Tick, ownerVars, stopHistory
  <1>2. TimerTypeOK'
    <2>1. 0 \in -1 .. MaxDelay
      BY WheelAssumption DEF MaxDelay
    <2>2. left' \in [Tasks -> -1 .. MaxDelay]
      BY <2>1 DEF Tick
    <2>3. disturbed' \in [Tasks -> BOOLEAN]
      BY DEF Tick
    <2> QED BY <2>2, <2>3 DEF Tick, ownerVars, stopHistory
  <1>3. CarryInv'
    BY <1>1 DEF CarryInv
  <1>4. ASSUME NEW u \in Tasks, u \in due PROVE Placed(u)' /\ Held(u)' /\ Due(u)'
    <2>1. Placed(u) /\ Held(u) /\ work_index \in WorkSlots /\ u \in work_wheel[work_index]
      BY <1>4 DEF TaskInv
    <2>2. /\ pc[u] = "waiting"
          /\ pc'[u] \in {"posted", "gone"}
      BY <2>1 DEF Placed, Tick
    <2>3. /\ \A i \in WorkSlots : u \notin work_wheel'[i]
          /\ \A j \in AssistantSlots, r \in WorkSlots : <<u, r>> \notin assistant_wheel'[j]
      BY <1>1, <2>1 DEF Placed
    <2>4. Placed(u)'
      BY <2>2, <2>3 DEF Placed
    <2>5. Held(u)'
      BY <1>1, <2>1, <2>2 DEF Held
    <2>6. Due(u)'
      BY <2>2, <2>3 DEF Due, Adding
    <2> QED BY <2>4, <2>5, <2>6
  <1>5. ASSUME NEW u \in Tasks, u \notin due PROVE Placed(u)' /\ Held(u)' /\ Due(u)'
    <2>1. /\ pc'[u] = pc[u] /\ left'[u] = left[u] /\ disturbed'[u] = disturbed[u]
          /\ \A i \in WorkSlots : u \in work_wheel'[i] <=> u \in work_wheel[i]
      BY <1>1, <1>5 DEF Tick
    <2>2. Placed(u)'
      BY <1>1, <2>1 DEF TaskInv, Placed
    <2>3. Held(u)'
      BY <1>1, <2>1 DEF TaskInv, Held
    <2>4. Due(u)'
      <3> SUFFICES ASSUME ~disturbed[u] PROVE Due(u)'
        BY <2>1 DEF Due
      <3>1. Due(u)
        BY DEF TaskInv
      <3>2. ASSUME NEW i \in WorkSlots, WorkDue(u, i), left[u] # 0 \/ i # work_index
            PROVE  WorkDue(u, i)'
        <4>1. left[u] # 0
          BY <3>2, WheelAssumption DEF WorkDue, WorkSlots
        <4> QED BY <1>1, <2>1, <3>2, <4>1 DEF WorkDue
      <3>3. ASSUME NEW j \in AssistantSlots, NEW r \in WorkSlots, AssistantDue(u, j, r)
            PROVE  AssistantDue(u, j, r)'
        BY <1>1, <2>1, <3>3 DEF AssistantDue
      <3>4. \A i \in WorkSlots : u \in work_wheel'[i] => WorkDue(u, i)'
        BY <1>1, <3>1, <3>2 DEF Due
      <3>5. \A j \in AssistantSlots, r \in WorkSlots :
               <<u, r>> \in assistant_wheel'[j] => AssistantDue(u, j, r)'
        BY <1>1, <3>1, <3>3 DEF Due
      <3>6. ASSUME pc[u] = "insert", dest[u].wheel = "work"
            PROVE  WorkDue(u, dest[u].slot)'
        <4>1. dest[u].slot \in WorkSlots /\ left[u] # 0
          BY <3>1, <3>6 DEF Due, Adding, Delays, Destinations
        <4>2. WorkDue(u, dest[u].slot)
          BY <3>1, <3>6 DEF Due
        <4> QED BY <1>1, <2>1, <4>1, <4>2 DEF WorkDue
      <3> QED BY <1>1, <2>1, <3>1, <3>4, <3>5, <3>6 DEF Due, Adding
    <2> QED BY <2>2, <2>3, <2>4
  <1> QED BY <1>2, <1>3, <1>4, <1>5 DEF TaskInv

\* One tick later: every waiting task is one tick nearer, and so is the work wheel.
LEMMA AdvanceIInv ==
  ASSUME TimerIInv, Advance
  PROVE  TimerIInv'
  <1> USE DEF TimerIInv, TimerTypeOK
  <1> DEFINE c == WORK_WHEEL_SIZE
             a == ASSISTANT_WHEEL_SIZE
  <1>1. /\ UNCHANGED <<work_wheel, assistant_wheel, assistant_index, pc, goal, dest,
                       ending, stopping, stopped, overlapped, extra>>
        /\ tpc = "advance" /\ tpc' = IF work_index' = 0 THEN "carry" ELSE "tick"
    BY DEF Advance, taskVars, ownerVars, stopHistory
  <1>2. /\ c \in Nat \ {0} /\ work_index \in 0 .. c - 1
        /\ work_index' = IF work_index + 1 < c THEN work_index + 1 ELSE 0
    <2>1. c \in Nat \ {0} /\ work_index \in 0 .. c - 1 /\ work_index' = (work_index + 1) % c
      BY WheelAssumption DEF Advance, WorkSlots, GetWorkWheelIndex
    <2> HIDE DEF c
    <2> DEFINE m == work_index + 1
    <2>2. m \in 0 .. 2 * c - 1
      BY <2>1
    <2> HIDE DEF m
    <2>3. m % c = (IF m < c THEN m ELSE m - c)
      BY <2>1, <2>2, OneRound
    <2>4. work_index' = (IF m < c THEN m ELSE m - c)
      BY <2>1, <2>3 DEF m
    <2> QED BY <2>1, <2>4 DEF m
  <1>3. \A u \in Tasks :
           left'[u] = IF ~Adding(u) /\ pc[u] # "waiting" THEN left[u]
                      ELSE IF left[u] <= 0 THEN -1 ELSE left[u] - 1
    BY DEF Advance
  <1>4. TimerTypeOK'
    <2>1. work_index' \in WorkSlots
      BY <1>2 DEF WorkSlots
    <2>2. left' \in [Tasks -> -1 .. MaxDelay]
      <3>1. MaxDelay \in Nat
        BY WheelAssumption DEF MaxDelay
      <3>2. \A u \in Tasks : left'[u] \in -1 .. MaxDelay
        BY <1>3, <3>1
      <3> QED BY <3>2 DEF Advance
    <2>3. disturbed' \in [Tasks -> BOOLEAN]
      BY DEF Advance
    <2> QED BY <1>1, <2>1, <2>2, <2>3
  <1>5. CarryInv'
    BY <1>1 DEF CarryInv
  <1>6. ASSUME NEW u \in Tasks PROVE Placed(u)' /\ Held(u)' /\ Due(u)'
    <2>1. Placed(u)'
      BY <1>1 DEF TaskInv, Placed
    <2>2. Held(u)'
      BY <1>1 DEF TaskInv, Held
    <2>3. Due(u)'
      <3>1. disturbed'[u] = (disturbed[u] \/ Adding(u)) /\ (Adding(u)' <=> Adding(u))
        BY <1>1 DEF Advance, Adding
      <3> SUFFICES ASSUME ~disturbed[u], ~Adding(u) PROVE Due(u)'
        BY <3>1 DEF Due
      <3>2. Due(u) /\ Placed(u) /\ left[u] \in Int
        BY DEF TaskInv
      <3>3. ASSUME NEW i \in WorkSlots, u \in work_wheel[i]
            PROVE  WorkDue(u, i)'
        <4>1. WorkDue(u, i) /\ pc[u] = "waiting"
          BY <3>2, <3>3 DEF Due, Placed
        <4>2. left[u] \in 1 .. c - 1 /\ i \in 0 .. c - 1
          BY <1>1, <1>2, <4>1 DEF WorkDue, WorkSlots
        <4>3. left'[u] = left[u] - 1
          BY <1>3, <4>1, <4>2
        <4>4. i = work_index + left[u] \/ i = (work_index + left[u]) - c
          BY <1>2, <4>1, <4>2 DEF WorkDue
        <4> HIDE DEF c
        <4>5. /\ left'[u] \in 0 .. c - 1
              /\ i = work_index' + left'[u] \/ i = (work_index' + left'[u]) - c
          BY <1>2, <4>2, <4>3, <4>4
        <4> QED BY <1>1, <1>2, <4>5 DEF WorkDue, c
      <3>4. ASSUME NEW j \in AssistantSlots, NEW r \in WorkSlots,
                   <<u, r>> \in assistant_wheel[j]
            PROVE  AssistantDue(u, j, r)'
        <4>1. AssistantDue(u, j, r) /\ pc[u] = "waiting"
          BY <3>2, <3>4 DEF Due, Placed
        <4>2. PICK k \in 0 .. a :
                 /\ k # 0
                 /\ j = assistant_index + k \/ j = assistant_index + k - a
                 /\ left[u] = k * c + r - work_index - 0
          BY <1>1, <4>1 DEF AssistantDue
        <4> DEFINE p == k * c
        <4>3. p \in Nat /\ p >= c /\ r \in 0 .. c - 1
          <5>1. k \in Nat /\ k >= 1
            BY <4>2, WheelAssumption
          <5> HIDE DEF c
          <5>2. k * c >= 1 * c
            BY <1>2, <5>1
          <5> QED BY <1>2, <5>1, <5>2 DEF WorkSlots, c
        <4>4. left[u] = p + r - work_index - 0
          BY <4>2
        <4> HIDE DEF p, c
        <4>5. left'[u] = left[u] - 1
          BY <1>2, <1>3, <4>1, <4>3, <4>4
        <4>6. left'[u] = p + r - work_index' - (IF tpc' = "carry" THEN c ELSE 0)
          BY <1>1, <1>2, <4>3, <4>4, <4>5
        <4> QED BY <1>1, <4>2, <4>6 DEF AssistantDue, p, c
      <3> QED BY <1>1, <3>1, <3>3, <3>4 DEF Due, Adding
    <2> QED BY <2>1, <2>2, <2>3
  <1> QED BY <1>4, <1>5, <1>6 DEF TaskInv

\* The assistant wheel follows.
LEMMA CarryIInv ==
  ASSUME TimerIInv, Carry
  PROVE  TimerIInv'
  <1> USE DEF TimerIInv, TimerTypeOK
  <1> DEFINE c == WORK_WHEEL_SIZE
             a == ASSISTANT_WHEEL_SIZE
             x == assistant_index
  <1>1. /\ UNCHANGED <<work_wheel, assistant_wheel, work_index, pc, goal, dest, ending,
                       stopping, stopped, left, disturbed, overlapped, extra>>
        /\ tpc = "carry" /\ tpc' = "cascade"
    BY DEF Carry, taskVars, ownerVars, historyVars, stopHistory
  <1>2. /\ a \in Nat \ {0} /\ x \in 0 .. a - 1
        /\ x' = IF x + 1 < a THEN x + 1 ELSE 0
    <2>1. a \in Nat \ {0} /\ x \in 0 .. a - 1 /\ x' = (x + 1) % a
      BY WheelAssumption DEF Carry, AssistantSlots, GetAssistantWheelIndex
    <2> HIDE DEF a
    <2> DEFINE m == x + 1
    <2>2. m \in 0 .. 2 * a - 1
      BY <2>1
    <2> HIDE DEF m
    <2>3. m % a = (IF m < a THEN m ELSE m - a)
      BY <2>1, <2>2, OneRound
    <2>4. x' = (IF m < a THEN m ELSE m - a)
      BY <2>1, <2>3 DEF m
    <2> QED BY <2>1, <2>4 DEF m
  <1>3. TimerTypeOK'
    <2>1. assistant_index' \in AssistantSlots
      BY <1>2 DEF AssistantSlots
    <2> QED BY <1>1, <2>1
  <1>4. CarryInv'
    BY <1>1 DEF CarryInv
  <1>5. ASSUME NEW u \in Tasks PROVE Placed(u)' /\ Held(u)' /\ Due(u)'
    <2>1. Placed(u)'
      BY <1>1 DEF TaskInv, Placed
    <2>2. Held(u)'
      BY <1>1 DEF TaskInv, Held
    <2>3. Due(u)'
      <3> SUFFICES ASSUME ~disturbed[u] PROVE Due(u)'
        BY <1>1 DEF Due
      <3>1. Due(u) /\ ~Adding(u) /\ ~Adding(u)'
        BY <1>1 DEF TaskInv, Due, Adding
      <3>2. \A i : WorkDue(u, i) => WorkDue(u, i)'
        BY <1>1 DEF WorkDue
      <3>3. ASSUME NEW j \in AssistantSlots, NEW r \in WorkSlots, AssistantDue(u, j, r)
            PROVE  AssistantDue(u, j, r)'
        <4>1. PICK k \in 0 .. a :
                 /\ k # 0
                 /\ j = x + k \/ j = x + k - a
                 /\ left[u] = k * c + r - work_index - c
          BY <1>1, <3>3 DEF AssistantDue
        <4> DEFINE p == k * c
                   n == k - 1
        <4>2. n \in 0 .. a /\ n # a /\ j \in 0 .. a - 1
          BY <1>2, <4>1 DEF AssistantSlots
        <4>3. j = x' + n \/ j = x' + n - a
          <5> HIDE DEF a
          <5> QED BY <1>2, <4>1, <4>2
        <4>4. n * c = p - c /\ p \in Int /\ c \in Int /\ r \in Int /\ work_index \in Int
          <5>1. k \in Nat /\ c \in Nat /\ r \in Int /\ work_index \in Int
            BY <1>2, WheelAssumption DEF WorkSlots
          <5> HIDE DEF c
          <5> QED BY <5>1
        <4>5. left[u] = p + r - work_index - c
          BY <4>1
        <4> HIDE DEF p, n
        <4>6. left[u] = n * c + r - work_index - 0
          BY <4>4, <4>5
        <4>7. left'[u] = n * c + r - work_index' - 0
          BY <1>1, <4>6
        <4> QED BY <1>1, <4>2, <4>3, <4>7 DEF AssistantDue
      <3> QED BY <1>1, <3>1, <3>2, <3>3 DEF Due, Adding
    <2> QED BY <2>1, <2>2, <2>3
  <1> QED BY <1>3, <1>4, <1>5 DEF TaskInv

\* The tasks of the revolution that begins go to the work wheel.
LEMMA CascadeIInv ==
  ASSUME TimerIInv, Cascade
  PROVE  TimerIInv'
  <1> USE DEF TimerIInv, TimerTypeOK
  <1> DEFINE c == WORK_WHEEL_SIZE
             a == ASSISTANT_WHEEL_SIZE
             x == assistant_index
             due == assistant_wheel[assistant_index]
             Moved(u) == \E i \in WorkSlots : <<u, i>> \in due
  <1>1. /\ UNCHANGED <<work_index, assistant_index, goal, dest, ending, stopping, stopped,
                       left, disturbed, overlapped, extra>>
        /\ tpc = "cascade" /\ tpc' = "tick" /\ work_index = 0
    BY DEF Cascade, ownerVars, historyVars, stopHistory, CarryInv
  <1>2. /\ \A u \in Tasks, i \in WorkSlots :
             u \in work_wheel'[i] <=> u \in work_wheel[i] \/ (Alive(u) /\ <<u, i>> \in due)
        /\ \A u \in Tasks, j \in AssistantSlots, r \in WorkSlots :
             <<u, r>> \in assistant_wheel'[j] <=> <<u, r>> \in assistant_wheel[j] /\ j # x
        /\ \A u \in Tasks : pc'[u] = IF ~Alive(u) /\ Moved(u) THEN "gone" ELSE pc[u]
    BY DEF Cascade
  <1>3. TimerTypeOK'
    BY <1>1 DEF Cascade
  <1>4. CarryInv'
    BY <1>1 DEF CarryInv
  <1>5. /\ c \in Nat \ {0} /\ a \in Nat \ {0} /\ x \in 0 .. a - 1 /\ x \in AssistantSlots
    BY WheelAssumption DEF AssistantSlots
  <1>6. ASSUME NEW u \in Tasks, Moved(u) PROVE Placed(u)' /\ Held(u)' /\ Due(u)'
    <2>1. PICK r \in WorkSlots : <<u, r>> \in assistant_wheel[x]
      BY <1>6
    <2>2. Placed(u) /\ Held(u) /\ Due(u)
      BY DEF TaskInv
    <2>3. /\ pc[u] = "waiting" /\ \A i \in WorkSlots : u \notin work_wheel[i]
          /\ \A i \in WorkSlots : <<u, i>> \in due => i = r
          /\ \A j \in AssistantSlots, i \in WorkSlots : <<u, i>> \notin assistant_wheel'[j]
      BY <1>2, <1>5, <2>1, <2>2 DEF Placed
    <2>4. \A i \in WorkSlots : u \in work_wheel'[i] <=> Alive(u) /\ i = r
      BY <1>2, <2>1, <2>3
    <2>5. pc'[u] = IF ~Alive(u) THEN "gone" ELSE "waiting"
      BY <1>2, <1>6, <2>3
    <2>6. Placed(u)'
      BY <2>1, <2>3, <2>4, <2>5 DEF Placed
    <2>7. Held(u)'
      BY <1>1, <2>2, <2>3, <2>5 DEF Held
    <2>8. Due(u)'
      <3> SUFFICES ASSUME ~disturbed[u] PROVE Due(u)'
        BY <1>1 DEF Due
      <3>1. AssistantDue(u, x, r)
        BY <1>5, <2>1, <2>2 DEF Due
      <3>2. PICK k \in 0 .. a :
               /\ k # a
               /\ x = x + k \/ x = x + k - a
               /\ left[u] = k * c + r - work_index - 0
        BY <1>1, <3>1 DEF AssistantDue
      <3>3. k = 0
        <4> HIDE DEF a
        <4> QED BY <1>5, <3>2
      <3>4. left[u] = r /\ r \in 0 .. c - 1
        BY <1>1, <1>5, <3>2, <3>3 DEF WorkSlots
      <3>5. WorkDue(u, r)'
        BY <1>1, <3>4 DEF WorkDue
      <3> QED BY <2>3, <2>4, <2>5, <3>5 DEF Due, Adding
    <2> QED BY <2>6, <2>7, <2>8
  <1>7. ASSUME NEW u \in Tasks, ~Moved(u) PROVE Placed(u)' /\ Held(u)' /\ Due(u)'
    <2>1. Placed(u) /\ Held(u) /\ Due(u)
      BY DEF TaskInv
    <2>2. /\ pc'[u] = pc[u]
          /\ \A i \in WorkSlots : u \in work_wheel'[i] <=> u \in work_wheel[i]
          /\ \A j \in AssistantSlots, r \in WorkSlots :
               <<u, r>> \in assistant_wheel'[j] <=> <<u, r>> \in assistant_wheel[j]
      BY <1>2, <1>7
    <2>3. Placed(u)'
      BY <2>1, <2>2, SamePlace
    <2>4. Held(u)'
      BY <1>1, <2>1, <2>2 DEF Held
    <2>5. Due(u)'
      <3> SUFFICES ASSUME ~disturbed[u] PROVE Due(u)'
        BY <1>1 DEF Due
      <3>1. ~Adding(u) /\ ~Adding(u)'
        BY <1>1, <2>1, <2>2 DEF Due, Adding
      <3>2. \A i : WorkDue(u, i) => WorkDue(u, i)'
        BY <1>1 DEF WorkDue
      <3>3. ASSUME NEW j \in AssistantSlots, NEW r \in WorkSlots,
                   <<u, r>> \in assistant_wheel[j]
            PROVE  AssistantDue(u, j, r)'
        <4>1. j # x /\ AssistantDue(u, j, r)
          BY <1>7, <2>1, <3>3 DEF Due
        <4>2. PICK k \in 0 .. a :
                 /\ j = x + k \/ j = x + k - a
                 /\ left[u] = k * c + r - work_index - 0
          BY <1>1, <4>1 DEF AssistantDue
        <4>3. k # 0
          <5>1. j \in 0 .. a - 1
            BY DEF AssistantSlots
          <5> HIDE DEF a
          <5> QED BY <1>5, <4>1, <4>2, <5>1
        <4> QED BY <1>1, <4>2, <4>3 DEF AssistantDue
      <3> QED BY <2>1, <2>2, <3>1, <3>2, <3>3 DEF Due, Adding
    <2> QED BY <2>3, <2>4, <2>5
  <1> QED BY <1>3, <1>4, <1>6, <1>7 DEF TaskInv

\* Every step keeps the invariant.
LEMMA NextTimerIInv == TimerIInv /\ [TimerNext]_timerVars => TimerIInv'
  <1> SUFFICES ASSUME TimerIInv, [TimerNext]_timerVars PROVE TimerIInv'
    OBVIOUS
  <1>1. CASE TickThread
    BY <1>1, TickIInv, AdvanceIInv, CarryIInv, CascadeIInv DEF TickThread
  <1>2. ASSUME NEW t \in Tasks, Start(t) \/ StopStep(t) PROVE TimerIInv'
    BY <1>2, StartIInv, StopIInv, StopReturnsIInv DEF StopStep
  <1>3. ASSUME NEW t \in Tasks, AddStep(t) PROVE TimerIInv'
    BY <1>3, ChooseIInv, InsertIInv DEF AddStep
  <1>4. ASSUME NEW t \in Tasks, PoolStep(t) PROVE TimerIInv'
    BY <1>4, EnterIInv, EnterGoneIInv, RunIInv, AgainIInv, FinishOneshotIInv DEF PoolStep
  <1>5. ASSUME NEW t \in Tasks, LeaveStep(t) PROVE TimerIInv'
    BY <1>5, UnlockIInv, ReleaseIInv DEF LeaveStep
  <1>6. CASE UNCHANGED timerVars
    <2> USE <1>6 DEF timerVars, wheelVars, taskVars, ownerVars, historyVars, stopHistory
    <2>1. TimerTypeOK' /\ CarryInv'
      BY DEF TimerIInv, TimerTypeOK, CarryInv
    <2>2. ASSUME NEW u \in Tasks PROVE Placed(u)' /\ Held(u)' /\ Due(u)'
      BY Untouched DEF TimerIInv, TaskInv
    <2> QED BY <2>1, <2>2 DEF TimerIInv, TaskInv
  <1> QED BY <1>1, <1>2, <1>3, <1>4, <1>5, <1>6 DEF TimerNext

\* The invariant holds in every reachable state.
LEMMA SpecTimerIInv == TimerSpec => []TimerIInv
  BY InitTimerIInv, NextTimerIInv, PTL DEF TimerSpec

\* The two wheels neither lose nor double a task: while it waits it is in one
\* bucket, for any sizes of the wheels.
THEOREM WheelSound == TimerSpec => []WheelInv
  <1>1. TimerIInv => WheelInv
    <2> SUFFICES ASSUME TimerIInv PROVE WheelInv
      OBVIOUS
    <2>1. ASSUME NEW t \in Tasks
          PROVE
            LET places == {<<"work", i>> : i \in {j \in WorkSlots :
                                                     t \in work_wheel[j]}}
                  \cup {<<"assistant", p[1], p[2]>> : p \in
                           {q \in AssistantSlots \X WorkSlots :
                              <<t, q[2]>> \in assistant_wheel[q[1]]}}
            IN IF pc[t] = "waiting"
               THEN \E place \in places : places = {place}
               ELSE places = {}
      <3> DEFINE inWork == {j \in WorkSlots : t \in work_wheel[j]}
                 inAssistant == {q \in AssistantSlots \X WorkSlots :
                                   <<t, q[2]>> \in assistant_wheel[q[1]]}
                 places == {<<"work", i>> : i \in inWork}
                             \cup {<<"assistant", p[1], p[2]>> : p \in inAssistant}
      <3>1. Placed(t)
        BY DEF TimerIInv, TaskInv
      <3>2. CASE pc[t] # "waiting"
        <4>1. inWork = {} /\ inAssistant = {}
          BY <3>1, <3>2 DEF Placed
        <4> QED BY <3>2, <4>1
      <3>3. CASE pc[t] = "waiting" /\ \E i \in WorkSlots : t \in work_wheel[i]
        <4>1. PICK i \in WorkSlots : t \in work_wheel[i]
          BY <3>3
        <4>2. inWork = {i} /\ inAssistant = {}
          BY <3>1, <4>1 DEF Placed
        <4>3. places = {<<"work", i>>}
          BY <4>2
        <4> QED BY <3>3, <4>3
      <3>4. CASE /\ pc[t] = "waiting"
                 /\ \E j \in AssistantSlots, r \in WorkSlots :
                      <<t, r>> \in assistant_wheel[j]
        <4>1. PICK j \in AssistantSlots, r \in WorkSlots : <<t, r>> \in assistant_wheel[j]
          BY <3>4
        <4>2. inWork = {} /\ inAssistant = {<<j, r>>}
          BY <3>1, <4>1 DEF Placed
        <4>3. places = {<<"assistant", j, r>>}
          <5>1. {<<"assistant", p[1], p[2]>> : p \in {<<j, r>>}} = {<<"assistant", j, r>>}
            OBVIOUS
          <5> HIDE DEF inWork, inAssistant
          <5> QED BY <4>2, <5>1
        <4> QED BY <3>4, <4>3
      <3> QED BY <3>1, <3>2, <3>3, <3>4 DEF Placed
    <2>2. InOneBucket
      BY <2>1 DEF InOneBucket
    <2> QED BY <2>2 DEF WheelInv, TimerIInv
  <1> QED BY <1>1, SpecTimerIInv, PTL

\* After Stop the user's function begins at most once more, unless a callback
\* enters beside an earlier one that still holds the task.
THEOREM StopSound == TimerSpec => []StopTakesHold
  <1>1. TimerIInv => StopTakesHold
    <2> SUFFICES ASSUME TimerIInv, NEW t \in Tasks PROVE extra[t] <= 1
      BY DEF StopTakesHold
    <2>1. extra[t] = 0 \/ extra[t] = 1
      BY DEF TimerIInv, TaskInv, Held
    <2> QED BY <2>1
  <1> QED BY <1>1, SpecTimerIInv, PTL

\* A task that was added while the wheels stood still is posted exactly when its
\* delay is over, for every delay the wheels can hold.
THEOREM OnTimeSound == TimerSpec => OnTime
  <1> DEFINE A == \A t \in Tasks :
                    pc[t] = "waiting" /\ pc'[t] = "posted" /\ ~disturbed[t]
                      => left[t] = 0
  <1>1. TimerIInv /\ [TimerNext]_timerVars => [A]_timerVars
    <2> SUFFICES ASSUME TimerIInv, TimerNext, NEW t \in Tasks,
                        pc[t] = "waiting", pc'[t] = "posted", ~disturbed[t]
                 PROVE  left[t] = 0
      OBVIOUS
    <2>1. pc \in [Tasks -> {"new", "choose", "insert", "waiting", "posted",
                            "entered", "running", "gone"}]
      BY DEF TimerIInv, TimerTypeOK
    <2>2. Tick
      <3>1. ASSUME NEW u \in Tasks, Start(u) \/ AddStep(u) \/ PoolStep(u) \/ LeaveStep(u) \/ StopStep(u)
            PROVE  FALSE
        BY <2>1, <3>1 DEF Start, AddStep, Choose, Insert, PoolStep, Enter, EnterGone,
                   Run, Again, FinishOneshot, LeaveStep, Unlock, Release, StopStep,
                   Stop, StopReturns, AddTask, Goto
      <3>2. ~Advance /\ ~Carry /\ ~Cascade
        BY DEF Advance, Carry, Cascade, taskVars
      <3> QED BY <3>1, <3>2 DEF TimerNext, TickThread
    <2>3. t \in work_wheel[work_index] /\ work_index \in WorkSlots
      BY <2>2 DEF Tick, TimerIInv, TimerTypeOK
    <2>4. WorkDue(t, work_index)
      BY <2>3 DEF TimerIInv, TaskInv, Due
    <2> DEFINE c == WORK_WHEEL_SIZE
               x == work_index
               n == left[t]
    <2>5. c \in Nat \ {0} /\ x \in 0 .. c - 1
      BY <2>3, WheelAssumption DEF WorkSlots
    <2>6. n \in 0 .. c - 1 /\ (x = x + n \/ x = x + n - c)
      BY <2>4 DEF WorkDue
    <2> HIDE DEF c, x, n
    <2>7. n = 0
      BY <2>5, <2>6
    <2> QED BY <2>7 DEF n
  <1> QED BY <1>1, SpecTimerIInv, PTL DEF TimerSpec, OnTime

-----------------------------------------------------------------------------
(* The pool of TaskManager *)

InQueue(c) == \E i \in 1 .. Len(queue) : queue[i] = c
InHand(c) == \E w \in Workers : task[w] = c

\* No task is twice in the queue, in two hands or in both.
OnePlace ==
    /\ \A i, j \in 1 .. Len(queue) : queue[i] = queue[j] => i = j
    /\ \A v, w \in Workers : task[v] # None /\ task[v] = task[w] => v = w
    /\ \A c \in Clients : ~(InQueue(c) /\ InHand(c))

\* A task that has been run is nowhere else, and neither is one whose call has
\* not begun.
RunInv ==
    \A c \in Clients :
        /\ runs[c] <= 1
        /\ runs[c] = 1 \/ cpc[c] = "idle" => ~InQueue(c) /\ ~InHand(c)
        /\ cpc[c] = "idle" => runs[c] = 0

\* A worker has a task in hand exactly between Dequeue and the call of it.
HandInv == \A w \in Workers : wpc[w] = "task" <=> task[w] # None

\* A client that has found a worker suspended notifies that worker.
MarkInv == \A c \in Clients : cpc[c] = "mark" => index[c] <= NumThreads

IInv == TypeOK /\ OnePlace /\ RunInv /\ HandInv /\ MarkInv

-----------------------------------------------------------------------------
\* The initial state satisfies the invariant.
LEMMA InitIInv == Init => IInv
  <1> SUFFICES ASSUME Init PROVE IInv
    OBVIOUS
  <1> USE DEF Init, Fifo!Init
  <1>1. TypeOK
    <2>1. queue = <<>> /\ Len(queue) = 0 /\ queue \in Seq(Clients)
      OBVIOUS
    <2>2. 1 \in 1 .. NumThreads + 1
      BY NumThreadsAssumption
    <2>3. queue \in Seq(Clients) /\ Len(queue) <= QueueSize
      BY <2>1, QueueSizeAssumption
    <2>4. index \in [Clients -> 1 .. NumThreads + 1]
      BY <2>2
    <2>5. QED
      BY <2>3, <2>4 DEF TypeOK
  <1>2. OnePlace
    BY DEF OnePlace, InQueue
  <1>3. RunInv
    BY NoneAssumption DEF RunInv, InQueue, InHand, Clients
  <1>4. HandInv /\ MarkInv
    BY DEF HandInv, MarkInv
  <1>5. QED
    BY <1>1, <1>2, <1>3, <1>4 DEF IInv

\* What the queue does to the places of the tasks: a task that is put is at its
\* end and the others stay where they were ...
LEMMA PutPlaces ==
  ASSUME TypeOK, NEW c \in Clients, ~InQueue(c), Put(c)
  PROVE  /\ queue' \in Seq(Clients) /\ Len(queue') <= QueueSize /\ task' = task
         /\ \A d \in Clients : InQueue(d)' => InQueue(d) \/ d = c
         /\ (\A i, j \in 1 .. Len(queue) : queue[i] = queue[j] => i = j)
            => \A i, j \in 1 .. Len(queue') : queue'[i] = queue'[j] => i = j
  <1>1. queue \in Seq(Clients) /\ Len(queue) \in Nat /\ Len(queue) < QueueSize
    BY DEF TypeOK, Put, Fifo!Put
  <1>2. queue' = Append(queue, c) /\ task' = task
    BY DEF Put, Fifo!Put
  <1>3. queue' \in Seq(Clients) /\ Len(queue') = Len(queue) + 1
    BY <1>1, <1>2
  <1>4. ASSUME NEW i \in 1 .. Len(queue')
        PROVE  \/ i \in 1 .. Len(queue) /\ queue'[i] = queue[i]
               \/ i = Len(queue) + 1 /\ queue'[i] = c
    <2>1. i \in 1 .. Len(queue) \/ i = Len(queue) + 1
      BY <1>1, <1>3
    <2>2. CASE i \in 1 .. Len(queue)
      BY <1>1, <1>2, <2>2
    <2>3. CASE i = Len(queue) + 1
      BY <1>1, <1>2, <2>3
    <2> QED BY <2>1, <2>2, <2>3
  <1>5. Len(queue') <= QueueSize
    BY <1>1, <1>3, QueueSizeAssumption
  <1>6. \A d \in Clients : InQueue(d)' => InQueue(d) \/ d = c
    BY <1>4 DEF InQueue
  <1>7. \A i \in 1 .. Len(queue) : queue[i] # c
    BY DEF InQueue
  <1>8. ASSUME \A i, j \in 1 .. Len(queue) : queue[i] = queue[j] => i = j,
               NEW i \in 1 .. Len(queue'), NEW j \in 1 .. Len(queue'), queue'[i] = queue'[j]
        PROVE  i = j
    BY <1>4, <1>7, <1>8
  <1> QED BY <1>2, <1>3, <1>5, <1>6, <1>8

\* ... and a task that is taken goes from the queue into one hand.
LEMMA TakePlaces ==
  ASSUME TypeOK, NEW w \in Workers, queue # <<>>, Take(w)
  PROVE  /\ queue' \in Seq(Clients) /\ Len(queue') <= QueueSize
         /\ Head(queue) \in Clients /\ InQueue(Head(queue))
         /\ task[w] = None /\ task' = [task EXCEPT ![w] = Head(queue)]
         /\ \A d \in Clients : InQueue(d)' => InQueue(d)
         /\ (\A i, j \in 1 .. Len(queue) : queue[i] = queue[j] => i = j)
            => /\ \A i, j \in 1 .. Len(queue') : queue'[i] = queue'[j] => i = j
               /\ \A d \in Clients : InQueue(d)' => d # Head(queue)
  <1> USE DEF TypeOK, Take, Fifo!Take
  <1>1. /\ Len(queue) \in Nat \ {0}
        /\ queue' \in Seq(Clients) /\ Len(queue') = Len(queue) - 1
        /\ \A i \in 1 .. Len(queue') : queue'[i] = queue[i + 1]
    OBVIOUS
  <1>2. Head(queue) = queue[1] /\ Head(queue) \in Clients
    BY <1>1
  <1>3. InQueue(Head(queue))
    BY <1>1, <1>2 DEF InQueue
  <1>4. ASSUME NEW d \in Clients, InQueue(d)' PROVE InQueue(d)
    <2>1. PICK i \in 1 .. Len(queue') : queue'[i] = d
      BY <1>4 DEF InQueue
    <2>2. i + 1 \in 1 .. Len(queue) /\ queue[i + 1] = d
      BY <1>1, <2>1
    <2>3. QED
      BY <2>2 DEF InQueue
  <1>5. ASSUME \A i, j \in 1 .. Len(queue) : queue[i] = queue[j] => i = j
        PROVE  /\ \A i, j \in 1 .. Len(queue') : queue'[i] = queue'[j] => i = j
               /\ \A d \in Clients : InQueue(d)' => d # Head(queue)
    <2> SUFFICES /\ \A i, j \in 1 .. Len(queue') : queue'[i] = queue'[j] => i = j
                 /\ \A i \in 1 .. Len(queue') : queue'[i] # queue[1]
      BY <1>2 DEF InQueue
    <2>1. \A i \in 1 .. Len(queue') : i + 1 \in 1 .. Len(queue) /\ i + 1 # 1
      BY <1>1
    <2>2. 1 \in 1 .. Len(queue)
      BY <1>1
    <2>3. QED
      BY <1>1, <1>5, <2>1, <2>2
  <1>6. QED
    BY <1>1, <1>2, <1>3, <1>4, <1>5, QueueSizeAssumption

\* The steps of Async and Enqueue keep the invariant.
LEMMA ClientIInv ==
  ASSUME IInv, NEW c \in Clients, Enqueue(c) \/ EnqueueStopped(c) \/ ClientStep(c)
  PROVE  IInv'
  <1> USE NumThreadsAssumption, QueueSizeAssumption, NoneAssumption
      DEF IInv, TypeOK, OnePlace, RunInv, HandInv, MarkInv, InQueue, InHand, Workers,
          queueVars, workerVars, clientVars, Begins, CGoto
  <1>1. CASE Enqueue(c) /\ Put(c)
    <2> SUFFICES ASSUME ~InQueue(c), ~InHand(c) PROVE IInv'
      BY <1>1 DEF Enqueue
    <2>1. /\ queue' \in Seq(Clients) /\ Len(queue') <= QueueSize /\ task' = task
          /\ \A d \in Clients : InQueue(d)' => InQueue(d) \/ d = c
          /\ \A i, j \in 1 .. Len(queue') : queue'[i] = queue'[j] => i = j
      BY <1>1, PutPlaces
    <2>2. TypeOK' /\ HandInv' /\ MarkInv'
      BY <1>1, <2>1 DEF Enqueue
    <2>3. OnePlace'
      BY <1>1, <2>1 DEF Enqueue
    <2>4. RunInv'
      <3> SUFFICES ASSUME NEW d \in Clients
                   PROVE  /\ runs[d] <= 1
                          /\ runs[d] = 1 \/ cpc'[d] = "idle" => ~InQueue(d)' /\ ~InHand(d)
                          /\ cpc'[d] = "idle" => runs[d] = 0
        BY <1>1, <2>1 DEF Enqueue
      <3> HIDE DEF InQueue, InHand
      <3>1. QED
        BY <1>1, <2>1 DEF Enqueue
    <2>5. QED
      BY <2>2, <2>3, <2>4
  <1>2. CASE Enqueue(c) /\ UNCHANGED queueVars
    BY <1>2, ZenonT(40) DEF Enqueue
  <1>3. CASE EnqueueStopped(c)
    BY <1>3, SMTT(40) DEF EnqueueStopped
  <1>4. CASE ReadState(c)
    <2>1. index' \in [Clients -> 1 .. NumThreads + 1]
      <3>1. index[c] + 1 \in 1 .. NumThreads + 1
        BY <1>4 DEF ReadState
      <3>2. QED
        BY <1>4, <3>1 DEF ReadState
    <2>2. MarkInv' /\ cpc' \in [Clients -> {"idle", "read", "mark", "waiting"}]
      BY <1>4, ZenonT(40) DEF ReadState
    <2>3. RunInv'
      BY <1>4 DEF ReadState
    <2>4. OnePlace' /\ HandInv'
      BY <1>4 DEF ReadState
    <2>5. TypeOK'
      <3> HIDE DEF OnePlace, RunInv, HandInv, MarkInv
      <3>1. QED
        BY <1>4, <2>1, <2>2 DEF ReadState
    <2>6. QED
      BY <2>2, <2>3, <2>4, <2>5
  <1>5. CASE SetUpdateFlag(c)
    <2>1. index' \in [Clients -> 1 .. NumThreads + 1]
      <3>1. index[c] + 1 \in 1 .. NumThreads + 1
        BY <1>5 DEF SetUpdateFlag
      <3>2. QED
        BY <1>5, <3>1 DEF SetUpdateFlag
    <2>2. RunInv' /\ MarkInv'
      BY <1>5 DEF SetUpdateFlag
    <2>3. OnePlace' /\ HandInv'
      BY <1>5 DEF SetUpdateFlag
    <2>4. TypeOK'
      <3> HIDE DEF OnePlace, RunInv, HandInv, MarkInv
      <3>1. QED
        BY <1>5, <2>1 DEF SetUpdateFlag, Marked
    <2>5. QED
      BY <2>2, <2>3, <2>4
  <1>6. CASE EnqueueReturns(c)
    BY <1>6 DEF EnqueueReturns
  <1>7. QED
    BY <1>1, <1>2, <1>3, <1>4, <1>5, <1>6 DEF ClientStep, Enqueue

\* The steps of the worker loop keep the invariant.
LEMMA WorkerIInv ==
  ASSUME IInv, NEW w \in Workers, WorkerStep(w)
  PROVE  IInv'
  <1> USE NumThreadsAssumption, QueueSizeAssumption, NoneAssumption
      DEF IInv, TypeOK, OnePlace, RunInv, HandInv, MarkInv, InQueue, InHand,
          queueVars, workerVars, clientVars, WGoto
  <1>1. CASE Schedule(w)
    BY <1>1 DEF Schedule
  <1>2. CASE Finish(w)
    BY <1>2 DEF Finish
  <1>3. CASE Dequeue(w)
    <2> DEFINE d == Head(queue)
    <2>1. /\ queue' \in Seq(Clients) /\ Len(queue') <= QueueSize
          /\ d \in Clients /\ InQueue(d)
          /\ task[w] = None /\ task' = [task EXCEPT ![w] = d]
          /\ \A e \in Clients : InQueue(e)' => InQueue(e) /\ e # d
          /\ \A i, j \in 1 .. Len(queue') : queue'[i] = queue'[j] => i = j
      <3> HIDE DEF InQueue
      <3>1. QED
        BY <1>3, TakePlaces DEF Dequeue
    <2> HIDE DEF d, InQueue
    <2>2. TypeOK' /\ HandInv' /\ MarkInv'
      BY <1>3, <2>1 DEF Dequeue, Clients
    <2>3. \A e \in Clients : InHand(e)' => InHand(e) \/ e = d
      BY <2>1
    <2>4. \A v, u \in Workers : task'[v] # None /\ task'[v] = task'[u] => v = u
      BY <2>1
    <2>5. OnePlace' /\ RunInv'
      <3> HIDE DEF InHand
      <3>1. QED
        BY <1>3, <2>1, <2>3, <2>4 DEF Dequeue
    <2>6. QED
      BY <2>2, <2>5
  <1>4. CASE DequeueFails(w)
    BY <1>4 DEF DequeueFails
  <1>5. CASE RunTask(w)
    <2> DEFINE d == task[w]
    <2>1. d \in Clients /\ runs[d] = 0 /\ cpc[d] # "idle" /\ ~InQueue(d)
      BY <1>5, SMTT(40) DEF RunTask
    <2>2. /\ task' = [task EXCEPT ![w] = None] /\ runs' = [runs EXCEPT ![d] = 1]
          /\ queue' = queue
      BY <1>5, <2>1 DEF RunTask, Fifo!Use
    <2>3. \A e \in Clients : (InHand(e)' => InHand(e) /\ e # d) /\ (InQueue(e)' = InQueue(e))
      BY <2>2 DEF Clients
    <2>4. TypeOK' /\ HandInv' /\ MarkInv'
      BY <1>5, <2>1, <2>2 DEF RunTask
    <2>5. \A v, u \in Workers : task'[v] # None /\ task'[v] = task'[u] => v = u
      BY <2>2
    <2>6. OnePlace' /\ RunInv'
      <3> HIDE DEF InHand, InQueue, d
      <3>1. QED
        BY <1>5, <2>1, <2>2, <2>3, <2>5 DEF RunTask
    <2>7. QED
      BY <2>4, <2>6
  <1>6. CASE HangUp(w)
    BY <1>6 DEF HangUp
  <1>7. QED
    BY <1>1, <1>2, <1>3, <1>4, <1>5, <1>6 DEF WorkerStep

\* The invariant is inductive: one case per action.
LEMMA NextIInv == IInv /\ [Next]_vars => IInv'
  <1> SUFFICES ASSUME IInv, [Next]_vars PROVE IInv'
    OBVIOUS
  <1>1. CASE UNCHANGED vars \/ Shutdown
    BY <1>1, ZenonT(40)
    DEF vars, Shutdown, queueVars, workerVars, clientVars, IInv, TypeOK, OnePlace,
        RunInv, HandInv, MarkInv, InQueue, InHand
  <1>2. ASSUME NEW c \in Clients, Enqueue(c) \/ EnqueueStopped(c) \/ ClientStep(c)
        PROVE  IInv'
    BY <1>2, ClientIInv
  <1>3. ASSUME NEW w \in Workers, WorkerStep(w) PROVE IInv'
    BY <1>3, WorkerIInv
  <1>4. QED
    BY <1>1, <1>2, <1>3 DEF Next

\* Every reachable state satisfies the inductive invariant.
LEMMA SpecIInv == Spec => []IInv
  BY InitIInv, NextIInv, PTL DEF Spec

-----------------------------------------------------------------------------
\* A set whose elements are equal has at most one.
LEMMA AtMostOne ==
  ASSUME NEW S, \A x, y \in S : x = y
  PROVE  Cardinality(S) \in {0, 1} /\ (S = {} <=> Cardinality(S) = 0)
  <1>1. CASE S = {}
    BY <1>1, FS_EmptySet
  <1>2. ASSUME NEW x \in S PROVE S = {x}
    OBVIOUS
  <1>3. ASSUME NEW x \in S PROVE Cardinality(S) = 1
    BY <1>2, FS_Singleton
  <1>4. QED
    BY <1>1, <1>3

\* Async runs a task at most once, though every call wakes every worker and
\* several look into the queue at a time, and a task that has been run is no
\* longer queued nor in a worker's hands.
THEOREM PoolSound == Spec => []PoolInv
  <1>1. IInv => PoolInv
    <2> SUFFICES ASSUME IInv, NEW c \in Clients
                 PROVE  Cardinality({i \in 1 .. Len(queue) : queue[i] = c})
                          + Cardinality({w \in Workers : task[w] = c}) + runs[c] <= 1
      BY DEF IInv, PoolInv, RunAtMostOnce
    <2> DEFINE places == {i \in 1 .. Len(queue) : queue[i] = c}
               hands == {w \in Workers : task[w] = c}
    <2>1. \A x, y \in places : x = y
      BY DEF IInv, OnePlace
    <2>2. \A x, y \in hands : x = y
      BY NoneAssumption DEF IInv, OnePlace, Clients
    <2>3. places = {} \/ hands = {}
      BY DEF IInv, OnePlace, InQueue, InHand
    <2>4. runs[c] \in {0, 1} /\ (runs[c] = 1 => places = {} /\ hands = {})
      BY DEF IInv, TypeOK, RunInv, InQueue, InHand
    <2>5. QED
      <3> HIDE DEF places, hands
      <3>1. /\ Cardinality(places) \in {0, 1} /\ (places = {} <=> Cardinality(places) = 0)
            /\ Cardinality(hands) \in {0, 1} /\ (hands = {} <=> Cardinality(hands) = 0)
        BY <2>1, <2>2, AtMostOne
      <3>2. Cardinality(places) + Cardinality(hands) + runs[c] <= 1
        BY <3>1, <2>3, <2>4
      <3>3. QED
        BY <3>2 DEF places, hands
  <1>2. QED
    BY <1>1, SpecIInv, PTL

=============================================================================
