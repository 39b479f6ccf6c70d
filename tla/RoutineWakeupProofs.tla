------------------------ MODULE RoutineWakeupProofs ------------------------
(***************************************************************************)
(* For any number of processors, routines, senders and contexts, and any   *)
(* run queues: a routine has one user at a time, no wake-up is lost, and a *)
(* processor with a run queue of its own sleeps on no work but a routine   *)
(* that was dispatched to it without Notify.                               *)
(***************************************************************************)
EXTENDS RoutineWakeup, TLAPS

\* A processor holds a routine exactly in the steps between Acquire and
\* Release.
HoldInv ==
    \A p \in Processors : ppc[p] \in Holding <=> cur[p] # None

\* The flag lock_ is set exactly while some processor holds the routine.
LockInv ==
    \A r \in Routines : lock[r] <=> \E p \in Processors : cur[p] = r

\* A dispatch under way has a target.
SenderInv ==
    \A s \in Senders : spc[s] # "idle" => target[s] # None

\* A routine is in the middle of its loop only while it runs; one that slept
\* in its callback is not waiting for data.
AtInv ==
    \A r \in Routines :
        /\ at[r] \in {"fetch", "callback"} =>
             \E p \in Processors : cur[p] = r /\ ppc[p] = "running"
        /\ at[r] = "slept" => state[r] # "DATA_WAIT"

\* The inductive form of NoLostWakeup: it also says who will see to a
\* waiting routine that is held.
WakeInv ==
    \A r \in Routines :
        /\ state[r] = "DATA_WAIT" /\ pending[r] > 0 /\ ~missed[r]
        => \/ ~updated[r]
           \/ Marking(r)
           \/ \E p \in Processors :
                /\ cur[p] = r
                /\ \/ ppc[p] = "promote"
                   \/ ppc[p] = "running" /\ at[r] \in {"fetch", "callback"}

\* Where a processor is in its run queue: one that holds a routine holds the
\* one under its cursor, one that waits has seen them all, and one that was
\* not started does not move.
CursorInv ==
    \A p \in Processors :
        /\ ppc[p] \in Holding => /\ pos[p] <= Len(Queue[CtxOf[p]])
                                /\ cur[p] = Queue[CtxOf[p]][pos[p]]
        /\ ppc[p] \in {"wait", "asleep", "woken"} =>
             pos[p] > Len(Queue[CtxOf[p]])
        /\ p \notin layout.procs => ppc[p] = "scan"

\* The target of a dispatch is in some run queue.
TargetInv ==
    \A s \in Senders : target[s] # None =>
        \E c \in Contexts : InQueue(target[s], c)

\* Nobody has touched a routine that is not in its run queue yet.
NewInv ==
    \A r \in Routines : ~Enqueued(r) => at[r] = "start" /\ ~lock[r]

\* p has looked at place i of its run queue since it took a token, and has
\* found nothing to run.
Seen(p, i) ==
    \/ i < pos[p]
    \/ i = pos[p] /\ ppc[p] = "decide" /\ state[Queue[CtxOf[p]][i]] # "READY"

\* The inductive form of IdleMeansNoWork: it also speaks of a scan under way.
ScanInv ==
    \A p \in Processors :
        /\ ppc[p] \notin {"running", "release"}
        /\ notify[CtxOf[p]] = 0 /\ ~Shared(p)
        => \A i \in 1 .. Len(Queue[CtxOf[p]]) :
             LET r == Queue[CtxOf[p]][i] IN
             Seen(p, i) /\ Enqueued(r) /\ Runnable(r) =>
               TokenComing(r) \/ Unannounced(r)

Structure == TypeOK /\ HoldInv /\ LockInv /\ ExclusiveRun /\ SenderInv /\ AtInv
Inv == Structure /\ WakeInv

-----------------------------------------------------------------------------
\* The routine under the cursor of a scan exists.
LEMMA QueueElement ==
    ASSUME NEW p \in Processors, TypeOK, pos[p] <= Len(Queue[CtxOf[p]])
    PROVE  Queue[CtxOf[p]][pos[p]] \in Routines
<1>1. layout \in [procs : SUBSET Processors, ctx : [Processors -> Contexts],
                 queue : [Contexts -> Seq(Routines)], notifies : BOOLEAN]
  BY LayoutsAssumption DEF TypeOK
<1>2. Queue[CtxOf[p]] \in Seq(Routines) BY <1>1 DEF Queue, CtxOf
<1>3. pos[p] \in 1 .. Len(Queue[CtxOf[p]]) BY DEF TypeOK
<1> QED BY <1>2, <1>3

\* The started processors are processors, and stay the same.
LEMMA LayoutFixed ==
    ASSUME TypeOK, [Next]_vars
    PROVE  /\ layout' = layout
           /\ layout.procs \subseteq Processors
           /\ \A p \in Processors : CtxOf[p] \in Contexts
<1>1. layout \in [procs : SUBSET Processors, ctx : [Processors -> Contexts],
                 queue : [Contexts -> Seq(Routines)], notifies : BOOLEAN]
  BY LayoutsAssumption DEF TypeOK
<1>2. layout' = layout BY DEF Next, vars
<1> QED BY <1>1, <1>2 DEF CtxOf

\* Adding a token keeps the counters natural numbers.
LEMMA OneMoreToken ==
    ASSUME NEW f \in [Contexts -> Nat], NEW c
    PROVE  [f EXCEPT ![c] = OneMore(@)] \in [Contexts -> Nat]
<1>1. CASE c \in Contexts BY <1>1 DEF OneMore
<1>2. CASE c \notin Contexts
  <2>1. [f EXCEPT ![c] = OneMore(@)] = f BY <1>2
  <2> QED BY <2>1
<1> QED BY <1>1, <1>2

\* The initial state satisfies the invariant.
LEMMA InitInv == Init => Inv
<1> SUFFICES ASSUME Init PROVE Inv OBVIOUS
<1>1. TypeOK
  BY DEF Init, TypeOK, RoutineStates, RoutinePcs, CreatePcs, ProcessorPcs,
      SenderPcs
<1>2. HoldInv /\ LockInv /\ ExclusiveRun /\ SenderInv /\ AtInv
  BY RoutinesAssumption
  DEF Init, HoldInv, Holding, LockInv, ExclusiveRun, SenderInv, AtInv
<1>3. WakeInv BY DEF Init, WakeInv
<1> QED BY <1>1, <1>2, <1>3 DEF Inv, Structure

\* Every step keeps the types; one case per action.
LEMMA TypeStep == Structure /\ [Next]_vars => TypeOK'
<1> SUFFICES ASSUME Structure, [Next]_vars PROVE TypeOK'
  OBVIOUS
<1>0. /\ layout' = layout
      /\ layout.procs \subseteq Processors
      /\ \A p \in Processors : CtxOf[p] \in Contexts
  BY LayoutFixed DEF Structure
<1> USE RoutinesAssumption, <1>0
    DEF Structure, TypeOK, HoldInv, Holding, SenderInv, RoutineStates,
        RoutinePcs, CreatePcs, ProcessorPcs, SenderPcs, PGoto, SGoto, routineVars,
        processorVars, senderVars
<1>1. ASSUME NEW p \in Processors, Acquire(p) PROVE TypeOK'
  BY <1>1, QueueElement DEF Acquire
<1>2. ASSUME NEW p \in Processors, Skip(p) PROVE TypeOK'
  BY <1>2 DEF Skip
<1>3. ASSUME NEW p \in Processors, Exhausted(p) PROVE TypeOK'
  BY <1>3 DEF Exhausted
<1>4. ASSUME NEW p \in Processors, UpdateSleeper(p) PROVE TypeOK'
  BY <1>4 DEF UpdateSleeper
<1>5. ASSUME NEW p \in Processors, TestAndSetUpdated(p) PROVE TypeOK'
  BY <1>5 DEF TestAndSetUpdated
<1>6. ASSUME NEW p \in Processors, Promote(p) PROVE TypeOK'
  BY <1>6 DEF Promote
<1>7. ASSUME NEW p \in Processors, Resume(p) PROVE TypeOK'
  BY <1>7 DEF Resume
<1>8. ASSUME NEW p \in Processors, PassOver(p) PROVE TypeOK'
  BY <1>8 DEF PassOver
<1>9. ASSUME NEW p \in Processors, Release(p) PROVE TypeOK'
  BY <1>9 DEF Release
<1>10. ASSUME NEW p \in Processors, SetDataWait(p) PROVE TypeOK'
  BY <1>10 DEF SetDataWait
<1>11. ASSUME NEW p \in Processors, FetchMessage(p) PROVE TypeOK'
  BY <1>11 DEF FetchMessage
<1>12. ASSUME NEW p \in Processors, FetchNothing(p) PROVE TypeOK'
  BY <1>12 DEF FetchNothing
<1>13. ASSUME NEW p \in Processors, CallbackReturns(p) PROVE TypeOK'
  BY <1>13 DEF CallbackReturns
<1>14. ASSUME NEW p \in Processors, Sleep(p) PROVE TypeOK'
  BY <1>14 DEF Sleep
<1>15. ASSUME NEW p \in Processors, WaitPasses(p) \/ Timeout(p) PROVE TypeOK'
  BY <1>15 DEF WaitPasses, Timeout, TakeToken, OneLess
<1>16. ASSUME NEW p \in Processors, WaitBlocks(p) PROVE TypeOK'
  BY <1>16 DEF WaitBlocks
<1>17. ASSUME NEW s \in Senders, NEW r \in Routines, Fill(s, r) PROVE TypeOK'
  BY <1>17, SendsAssumption DEF Fill
<1>18. ASSUME NEW s \in Senders, CallCallback(s) PROVE TypeOK'
  BY <1>18 DEF CallCallback
<1>19. ASSUME NEW s \in Senders, ReadState(s) \/ SetUpdateFlag(s) PROVE TypeOK'
  <2>1. CASE ReadState(s) BY <2>1 DEF ReadState, NeedsMark
  <2>2. CASE SetUpdateFlag(s) BY <2>2 DEF SetUpdateFlag
  <2> QED BY <1>19, <2>1, <2>2
<1>20. ASSUME NEW s \in Senders, Notify(s) PROVE TypeOK'
  <2>1. notify' \in [Contexts -> Nat]
    BY <1>20, OneMoreToken DEF Notify, AddToken
  <2>2. spc' \in [Senders -> SenderPcs]
    BY <1>20 DEF Notify, AddToken
  <2> QED BY <1>20, <2>1, <2>2 DEF Notify, AddToken
<1>21. ASSUME NEW s \in Senders, NotifyOne(s) PROVE TypeOK'
  BY <1>21 DEF NotifyOne, Signal, Asleep
<1>22. ASSUME NEW r \in Routines, Elapse(r) PROVE TypeOK'
  BY <1>22, ZenonT(40) DEF Elapse
<1>24. ASSUME NEW r \in Routines, CreateTask(r) PROVE TypeOK'
  <2>1. CASE DispatchTask(r) BY <2>1 DEF DispatchTask, CGoto
  <2>2. CASE DispatchToken(r)
    <3>1. notify' \in [Contexts -> Nat]
      BY <2>2, OneMoreToken DEF DispatchToken, AddToken
    <3> QED BY <2>2, <3>1 DEF DispatchToken, CGoto
  <2>3. CASE DispatchSignal(r) BY <2>3 DEF DispatchSignal, Signal, Asleep, CGoto
  <2>4. CASE RegisterNotifyCallback(r)
    BY <2>4 DEF RegisterNotifyCallback, CGoto
  <2> QED BY <1>24, <2>1, <2>2, <2>3, <2>4 DEF CreateTask
<1>23. CASE UNCHANGED vars
  BY <1>23 DEF vars
<1> QED
  BY <1>1, <1>2, <1>3, <1>4, <1>5, <1>6, <1>7, <1>8, <1>9, <1>10, <1>11,
     <1>12, <1>13, <1>14, <1>15, <1>16, <1>17, <1>18, <1>19, <1>20, <1>21,
     <1>22, <1>23, <1>24
  DEF Next, NextRoutine, RoutineStep, Wait, Deliver

\* The flag lock_ and the holders stay in step.
LEMMA HoldStep ==
    Structure /\ [Next]_vars => (HoldInv /\ LockInv /\ ExclusiveRun)'
<1> SUFFICES ASSUME Structure, [Next]_vars
       PROVE  (HoldInv /\ LockInv /\ ExclusiveRun)'
  OBVIOUS
<1>0. TypeOK' /\ layout.procs \subseteq Processors
  BY TypeStep, LayoutFixed DEF Inv, Structure
<1> USE <1>0 
    DEF Structure, HoldInv, Holding, LockInv, ExclusiveRun, TypeOK,
        PGoto, SGoto, routineVars, processorVars, senderVars
<1>1. ASSUME NEW p \in Processors, Acquire(p)
       PROVE  (HoldInv /\ LockInv /\ ExclusiveRun)'
  <2> DEFINE r == Queue[CtxOf[p]][pos[p]]
  <2>1. r \in Routines /\ r # None /\ ~lock[r]
    BY <1>1, QueueElement, RoutinesAssumption DEF Acquire, Free
  <2>2. \A q \in Processors : cur[q] # r
    BY <2>1
  <2>3. /\ lock' = [lock EXCEPT ![r] = TRUE]
        /\ cur' = [cur EXCEPT ![p] = r]
        /\ ppc' = [ppc EXCEPT ![p] = "update"]
    BY <1>1 DEF Acquire, Free
  <2> HIDE DEF r
  <2>4. HoldInv' BY <2>1, <2>3
  <2>5. LockInv'
    <3> SUFFICES ASSUME NEW x \in Routines
                 PROVE  lock'[x] <=> \E q \in Processors : cur'[q] = x
      OBVIOUS
    <3>1. CASE x = r BY <3>1, <2>1, <2>3
    <3>2. CASE x # r
      <4>1. cur[p] = None BY <1>1 DEF Acquire, Free
      <4>2. lock'[x] = lock[x] BY <3>2, <2>3
      <4>3. \A q \in Processors : cur'[q] = x <=> cur[q] = x
        BY <3>2, <4>1, <2>3, RoutinesAssumption
      <4> QED BY <4>2, <4>3
    <3> QED BY <3>1, <3>2
  <2>6. ExclusiveRun' BY <2>1, <2>2, <2>3
  <2> QED BY <2>4, <2>5, <2>6
<1>2. ASSUME NEW p \in Processors, Skip(p)
       PROVE  (HoldInv /\ LockInv /\ ExclusiveRun)'
  BY <1>2 DEF Skip
<1>3. ASSUME NEW p \in Processors, Exhausted(p)
       PROVE  (HoldInv /\ LockInv /\ ExclusiveRun)'
  BY <1>3 DEF Exhausted
<1>4. ASSUME NEW p \in Processors, UpdateSleeper(p)
       PROVE  (HoldInv /\ LockInv /\ ExclusiveRun)'
  BY <1>4 DEF UpdateSleeper
<1>5. ASSUME NEW p \in Processors, TestAndSetUpdated(p)
       PROVE  (HoldInv /\ LockInv /\ ExclusiveRun)'
  BY <1>5 DEF TestAndSetUpdated
<1>6. ASSUME NEW p \in Processors, Promote(p)
       PROVE  (HoldInv /\ LockInv /\ ExclusiveRun)'
  BY <1>6 DEF Promote
<1>7. ASSUME NEW p \in Processors, Resume(p)
       PROVE  (HoldInv /\ LockInv /\ ExclusiveRun)'
  BY <1>7 DEF Resume
<1>8. ASSUME NEW p \in Processors, PassOver(p)
       PROVE  (HoldInv /\ LockInv /\ ExclusiveRun)'
  <2>1. cur[p] \in Routines /\ \A q \in Processors \ {p} : cur[q] # cur[p]
    BY <1>8 DEF PassOver
  <2>2. /\ lock' = [lock EXCEPT ![cur[p]] = FALSE]
        /\ cur' = [cur EXCEPT ![p] = None]
        /\ ppc' = [ppc EXCEPT ![p] = "scan"]
    BY <1>8 DEF PassOver
  <2>3. HoldInv' BY <2>1, <2>2
  <2>4. LockInv' BY <2>1, <2>2, RoutinesAssumption
  <2>5. ExclusiveRun' BY <2>1, <2>2
  <2> QED BY <2>3, <2>4, <2>5
<1>9. ASSUME NEW p \in Processors, Release(p)
       PROVE  (HoldInv /\ LockInv /\ ExclusiveRun)'
  <2>1. cur[p] \in Routines /\ \A q \in Processors \ {p} : cur[q] # cur[p]
    BY <1>9 DEF Release
  <2>2. /\ lock' = [lock EXCEPT ![cur[p]] = FALSE]
        /\ cur' = [cur EXCEPT ![p] = None]
        /\ ppc' = [ppc EXCEPT ![p] = "scan"]
    BY <1>9 DEF Release
  <2>3. HoldInv' BY <2>1, <2>2
  <2>4. LockInv' BY <2>1, <2>2, RoutinesAssumption
  <2>5. ExclusiveRun' BY <2>1, <2>2
  <2> QED BY <2>3, <2>4, <2>5
<1>10. ASSUME NEW p \in Processors, SetDataWait(p)
       PROVE  (HoldInv /\ LockInv /\ ExclusiveRun)'
  BY <1>10 DEF SetDataWait
<1>11. ASSUME NEW p \in Processors, FetchMessage(p)
       PROVE  (HoldInv /\ LockInv /\ ExclusiveRun)'
  BY <1>11 DEF FetchMessage
<1>12. ASSUME NEW p \in Processors, FetchNothing(p)
       PROVE  (HoldInv /\ LockInv /\ ExclusiveRun)'
  BY <1>12 DEF FetchNothing
<1>13. ASSUME NEW p \in Processors, CallbackReturns(p)
       PROVE  (HoldInv /\ LockInv /\ ExclusiveRun)'
  BY <1>13 DEF CallbackReturns
<1>14. ASSUME NEW p \in Processors, Sleep(p)
       PROVE  (HoldInv /\ LockInv /\ ExclusiveRun)'
  BY <1>14 DEF Sleep
<1>15. ASSUME NEW p \in Processors, WaitPasses(p) \/ WaitBlocks(p) \/ Timeout(p)
       PROVE  (HoldInv /\ LockInv /\ ExclusiveRun)'
  BY <1>15 DEF WaitPasses, WaitBlocks, Timeout, TakeToken, OneLess
<1>16. ASSUME NEW s \in Senders, NEW r \in Routines, Fill(s, r)
       PROVE  (HoldInv /\ LockInv /\ ExclusiveRun)'
  BY <1>16 DEF Fill
<1>17. ASSUME NEW s \in Senders, CallCallback(s)
       PROVE  (HoldInv /\ LockInv /\ ExclusiveRun)'
  BY <1>17 DEF CallCallback
<1>18. ASSUME NEW s \in Senders, ReadState(s)
       PROVE  (HoldInv /\ LockInv /\ ExclusiveRun)'
  BY <1>18 DEF ReadState, NeedsMark
<1>19. ASSUME NEW s \in Senders, SetUpdateFlag(s)
       PROVE  (HoldInv /\ LockInv /\ ExclusiveRun)'
  BY <1>19 DEF SetUpdateFlag
<1>20. ASSUME NEW s \in Senders, Notify(s)
       PROVE  (HoldInv /\ LockInv /\ ExclusiveRun)'
  BY <1>20 DEF Notify, AddToken
<1>21. ASSUME NEW s \in Senders, NotifyOne(s)
       PROVE  (HoldInv /\ LockInv /\ ExclusiveRun)'
  BY <1>21 DEF NotifyOne, Signal, Asleep
<1>22. ASSUME NEW r \in Routines, Elapse(r) \/ CreateTask(r)
       PROVE  (HoldInv /\ LockInv /\ ExclusiveRun)'
  BY <1>22 DEF Elapse, CreateTask, DispatchTask, DispatchToken, DispatchSignal,
      RegisterNotifyCallback, CGoto, AddToken, Signal, Asleep
<1>23. CASE UNCHANGED vars
  BY <1>23 DEF vars
<1> QED
  BY <1>1, <1>2, <1>3, <1>4, <1>5, <1>6, <1>7, <1>8, <1>9, <1>10, <1>11,
     <1>12, <1>13, <1>14, <1>15, <1>16, <1>17, <1>18, <1>19, <1>20, <1>21,
     <1>22, <1>23
  DEF Next, NextRoutine, RoutineStep, Wait, Deliver

\* The targets of the dispatches and the places of the routines.
LEMMA PlaceStep == Structure /\ [Next]_vars => (SenderInv /\ AtInv)'
<1> SUFFICES ASSUME Structure, [Next]_vars PROVE (SenderInv /\ AtInv)'
  OBVIOUS
<1>0. TypeOK' /\ layout.procs \subseteq Processors
  BY TypeStep, LayoutFixed DEF Inv, Structure
<1> USE <1>0 , RoutinesAssumption
    DEF Structure, HoldInv, Holding, ExclusiveRun, SenderInv, AtInv,
        TypeOK, PGoto, SGoto, routineVars, processorVars, senderVars
<1>1. ASSUME NEW p \in Processors, Acquire(p) PROVE (SenderInv /\ AtInv)'
  BY <1>1 DEF Acquire, Free
<1>2. ASSUME NEW p \in Processors, Skip(p) PROVE (SenderInv /\ AtInv)'
  BY <1>2 DEF Skip
<1>3. ASSUME NEW p \in Processors, Exhausted(p) PROVE (SenderInv /\ AtInv)'
  BY <1>3 DEF Exhausted
<1>4. ASSUME NEW p \in Processors, UpdateSleeper(p) PROVE (SenderInv /\ AtInv)'
  BY <1>4 DEF UpdateSleeper
<1>5. ASSUME NEW p \in Processors, TestAndSetUpdated(p)
       PROVE  (SenderInv /\ AtInv)'
  BY <1>5 DEF TestAndSetUpdated
<1>6. ASSUME NEW p \in Processors, Promote(p) PROVE (SenderInv /\ AtInv)'
  BY <1>6 DEF Promote
<1>7. ASSUME NEW p \in Processors, Resume(p) PROVE (SenderInv /\ AtInv)'
  BY <1>7 DEF Resume
<1>8. ASSUME NEW p \in Processors, PassOver(p) PROVE (SenderInv /\ AtInv)'
  BY <1>8 DEF PassOver
<1>9. ASSUME NEW p \in Processors, Release(p) PROVE (SenderInv /\ AtInv)'
  BY <1>9 DEF Release
<1>10. ASSUME NEW p \in Processors, SetDataWait(p) PROVE (SenderInv /\ AtInv)'
  BY <1>10 DEF SetDataWait
<1>11. ASSUME NEW p \in Processors, FetchMessage(p) PROVE (SenderInv /\ AtInv)'
  BY <1>11 DEF FetchMessage
<1>12. ASSUME NEW p \in Processors, FetchNothing(p) PROVE (SenderInv /\ AtInv)'
  BY <1>12 DEF FetchNothing
<1>13. ASSUME NEW p \in Processors, CallbackReturns(p)
       PROVE  (SenderInv /\ AtInv)'
  BY <1>13 DEF CallbackReturns
<1>14. ASSUME NEW p \in Processors, Sleep(p) PROVE (SenderInv /\ AtInv)'
  BY <1>14 DEF Sleep
<1>15. ASSUME NEW p \in Processors, WaitPasses(p) \/ WaitBlocks(p) \/ Timeout(p)
       PROVE  (SenderInv /\ AtInv)'
  BY <1>15 DEF WaitPasses, WaitBlocks, Timeout, TakeToken, OneLess
<1>16. ASSUME NEW s \in Senders, NEW r \in Routines, Fill(s, r)
       PROVE  (SenderInv /\ AtInv)'
  BY <1>16 DEF Fill
<1>17. ASSUME NEW s \in Senders, CallCallback(s)
       PROVE  (SenderInv /\ AtInv)'
  BY <1>17 DEF CallCallback
<1>18. ASSUME NEW s \in Senders, ReadState(s)
       PROVE  (SenderInv /\ AtInv)'
  BY <1>18 DEF ReadState, NeedsMark
<1>19. ASSUME NEW s \in Senders, SetUpdateFlag(s)
       PROVE  (SenderInv /\ AtInv)'
  BY <1>19 DEF SetUpdateFlag
<1>20. ASSUME NEW s \in Senders, Notify(s)
       PROVE  (SenderInv /\ AtInv)'
  BY <1>20 DEF Notify, AddToken
<1>21. ASSUME NEW s \in Senders, NotifyOne(s)
       PROVE  (SenderInv /\ AtInv)'
  BY <1>21 DEF NotifyOne, Signal, Asleep
<1>22. ASSUME NEW r \in Routines, Elapse(r) \/ CreateTask(r)
       PROVE  (SenderInv /\ AtInv)'
  BY <1>22 DEF Elapse, CreateTask, DispatchTask, DispatchToken, DispatchSignal,
      RegisterNotifyCallback, CGoto, AddToken, Signal, Asleep
<1>23. CASE UNCHANGED vars
  BY <1>23 DEF vars
<1> QED
  BY <1>1, <1>2, <1>3, <1>4, <1>5, <1>6, <1>7, <1>8, <1>9, <1>10, <1>11,
     <1>12, <1>13, <1>14, <1>15, <1>16, <1>17, <1>18, <1>19, <1>20, <1>21,
     <1>22, <1>23
  DEF Next, NextRoutine, RoutineStep, Wait, Deliver

\* No step loses a wake-up.
LEMMA WakeStep == Inv /\ [Next]_vars => WakeInv'
<1> SUFFICES ASSUME Inv, [Next]_vars PROVE WakeInv'
  OBVIOUS
<1>0. TypeOK' /\ layout.procs \subseteq Processors
  BY TypeStep, LayoutFixed DEF Inv, Structure
<1> USE <1>0 , RoutinesAssumption
    DEF Inv, Structure, HoldInv, Holding, ExclusiveRun, SenderInv, AtInv,
        WakeInv, Marking, TypeOK, PGoto, SGoto, routineVars, processorVars,
        senderVars
<1>1. ASSUME NEW p \in Processors, Acquire(p) PROVE WakeInv'
  BY <1>1 DEF Acquire, Free
<1>2. ASSUME NEW p \in Processors, Skip(p) PROVE WakeInv'
  BY <1>2 DEF Skip
<1>3. ASSUME NEW p \in Processors, Exhausted(p) PROVE WakeInv'
  BY <1>3 DEF Exhausted
<1>4. ASSUME NEW p \in Processors, UpdateSleeper(p) PROVE WakeInv'
  BY <1>4 DEF UpdateSleeper
<1>5. ASSUME NEW p \in Processors, TestAndSetUpdated(p) PROVE WakeInv'
  BY <1>5 DEF TestAndSetUpdated
<1>6. ASSUME NEW p \in Processors, Promote(p) PROVE WakeInv'
  BY <1>6 DEF Promote
<1>7. ASSUME NEW p \in Processors, Resume(p) PROVE WakeInv'
  BY <1>7 DEF Resume
<1>8. ASSUME NEW p \in Processors, PassOver(p) PROVE WakeInv'
  BY <1>8 DEF PassOver
<1>9. ASSUME NEW p \in Processors, Release(p) PROVE WakeInv'
  BY <1>9 DEF Release
<1>10. ASSUME NEW p \in Processors, SetDataWait(p) PROVE WakeInv'
  BY <1>10 DEF SetDataWait
<1>11. ASSUME NEW p \in Processors, FetchMessage(p) PROVE WakeInv'
  BY <1>11 DEF FetchMessage
<1>12. ASSUME NEW p \in Processors, FetchNothing(p) PROVE WakeInv'
  BY <1>12 DEF FetchNothing
<1>13. ASSUME NEW p \in Processors, CallbackReturns(p) PROVE WakeInv'
  BY <1>13 DEF CallbackReturns
<1>14. ASSUME NEW p \in Processors, Sleep(p) PROVE WakeInv'
  BY <1>14 DEF Sleep
<1>15. ASSUME NEW p \in Processors, WaitPasses(p) \/ WaitBlocks(p) \/ Timeout(p)
       PROVE  WakeInv'
  BY <1>15 DEF WaitPasses, WaitBlocks, Timeout, TakeToken, OneLess
<1>16. ASSUME NEW s \in Senders, NEW r \in Routines, Fill(s, r)
       PROVE  WakeInv'
  BY <1>16 DEF Fill
<1>17. ASSUME NEW s \in Senders, CallCallback(s)
       PROVE  WakeInv'
  BY <1>17 DEF CallCallback
<1>18. ASSUME NEW s \in Senders, ReadState(s)
       PROVE  WakeInv'
  BY <1>18 DEF ReadState, NeedsMark
<1>19. ASSUME NEW s \in Senders, SetUpdateFlag(s)
       PROVE  WakeInv'
  BY <1>19 DEF SetUpdateFlag
<1>20. ASSUME NEW s \in Senders, Notify(s)
       PROVE  WakeInv'
  BY <1>20 DEF Notify, AddToken
<1>21. ASSUME NEW s \in Senders, NotifyOne(s)
       PROVE  WakeInv'
  BY <1>21 DEF NotifyOne, Signal, Asleep
<1>22. ASSUME NEW r \in Routines, Elapse(r) \/ CreateTask(r)
       PROVE  WakeInv'
  BY <1>22 DEF Elapse, CreateTask, DispatchTask, DispatchToken, DispatchSignal,
      RegisterNotifyCallback, CGoto, AddToken, Signal, Asleep
<1>23. CASE UNCHANGED vars
  BY <1>23 DEF vars
<1> QED
  BY <1>1, <1>2, <1>3, <1>4, <1>5, <1>6, <1>7, <1>8, <1>9, <1>10, <1>11,
     <1>12, <1>13, <1>14, <1>15, <1>16, <1>17, <1>18, <1>19, <1>20, <1>21,
     <1>22, <1>23, SMTT(40)
  DEF Next, NextRoutine, RoutineStep, Wait, Deliver

\* A routine has one place in the run queues.
LEMMA OnePlace ==
    ASSUME TypeOK, NEW c \in Contexts, NEW d \in Contexts,
           NEW i \in 1 .. Len(Queue[c]), NEW j \in 1 .. Len(Queue[d]),
           Queue[c][i] = Queue[d][j]
    PROVE  c = d /\ i = j
BY PlaceAssumption DEF TypeOK, Queue

\* A processor stays in step with its place in the run queue.
LEMMA CursorStep == Structure /\ CursorInv /\ [Next]_vars => CursorInv'
<1> SUFFICES ASSUME Structure, CursorInv, [Next]_vars PROVE CursorInv'
  OBVIOUS
<1>0. /\ layout' = layout /\ Queue' = Queue /\ CtxOf' = CtxOf
      /\ layout.procs \subseteq Processors
  BY LayoutFixed DEF Structure, Queue, CtxOf
<1>l. \A p \in Processors : Len(Queue[CtxOf[p]]) \in Nat
  <2>1. layout \in [procs : SUBSET Processors, ctx : [Processors -> Contexts],
                   queue : [Contexts -> Seq(Routines)], notifies : BOOLEAN]
    BY LayoutsAssumption DEF Structure, TypeOK
  <2> QED BY <2>1 DEF Queue, CtxOf
<1> USE <1>0, <1>l
    DEF Structure, CursorInv, Holding, TypeOK, PGoto, SGoto, routineVars,
        processorVars, senderVars
<1>1. ASSUME NEW q \in layout.procs, Acquire(q) PROVE CursorInv'
  BY <1>1 DEF Acquire, Free
<1>2. ASSUME NEW q \in layout.procs, Skip(q) PROVE CursorInv'
  BY <1>2 DEF Skip
<1>3. ASSUME NEW q \in layout.procs, Exhausted(q) PROVE CursorInv'
  BY <1>3 DEF Exhausted
<1>4. ASSUME NEW q \in layout.procs, UpdateSleeper(q) PROVE CursorInv'
  BY <1>4 DEF UpdateSleeper
<1>5. ASSUME NEW q \in layout.procs, TestAndSetUpdated(q) PROVE CursorInv'
  BY <1>5 DEF TestAndSetUpdated
<1>6. ASSUME NEW q \in layout.procs, Promote(q) PROVE CursorInv'
  BY <1>6 DEF Promote
<1>7. ASSUME NEW q \in layout.procs, Resume(q) PROVE CursorInv'
  BY <1>7 DEF Resume
<1>8. ASSUME NEW q \in layout.procs, PassOver(q) PROVE CursorInv'
  BY <1>8 DEF PassOver
<1>9. ASSUME NEW q \in layout.procs, Release(q) PROVE CursorInv'
  BY <1>9 DEF Release
<1>10. ASSUME NEW q \in layout.procs, SetDataWait(q) PROVE CursorInv'
  BY <1>10 DEF SetDataWait
<1>11. ASSUME NEW q \in layout.procs, FetchMessage(q) PROVE CursorInv'
  BY <1>11 DEF FetchMessage
<1>12. ASSUME NEW q \in layout.procs, FetchNothing(q) PROVE CursorInv'
  BY <1>12 DEF FetchNothing
<1>13. ASSUME NEW q \in layout.procs, CallbackReturns(q) PROVE CursorInv'
  BY <1>13 DEF CallbackReturns
<1>14. ASSUME NEW q \in layout.procs, Sleep(q) PROVE CursorInv'
  BY <1>14 DEF Sleep
<1>15. ASSUME NEW q \in layout.procs, WaitPasses(q) \/ Timeout(q) PROVE CursorInv'
  BY <1>15 DEF WaitPasses, Timeout, TakeToken, OneLess
<1>16. ASSUME NEW q \in layout.procs, WaitBlocks(q) PROVE CursorInv'
  BY <1>16 DEF WaitBlocks
<1>17. ASSUME NEW s \in Senders, CallCallback(s) PROVE CursorInv'
  BY <1>17 DEF CallCallback
<1>18. ASSUME NEW s \in Senders, ReadState(s) PROVE CursorInv'
  BY <1>18 DEF ReadState, NeedsMark
<1>19. ASSUME NEW s \in Senders, SetUpdateFlag(s) PROVE CursorInv'
  BY <1>19 DEF SetUpdateFlag
<1>20. ASSUME NEW s \in Senders, Notify(s) PROVE CursorInv'
  BY <1>20 DEF Notify, AddToken
<1>21. ASSUME NEW s \in Senders, NotifyOne(s) PROVE CursorInv'
  BY <1>21 DEF NotifyOne, Signal, Asleep
<1>22. ASSUME NEW s \in Senders, NEW x \in Routines, Fill(s, x) PROVE CursorInv'
  BY <1>22 DEF Fill
<1>23. ASSUME NEW x \in Routines, Elapse(x) \/ CreateTask(x) PROVE CursorInv'
  BY <1>23 DEF Elapse, CreateTask, DispatchTask, DispatchToken, DispatchSignal,
      RegisterNotifyCallback, CGoto, AddToken, Signal, Asleep
<1>24. CASE UNCHANGED vars BY <1>24 DEF vars
<1> QED
  BY <1>1, <1>2, <1>3, <1>4, <1>5, <1>6, <1>7, <1>8, <1>9, <1>10, <1>11,
     <1>12, <1>13, <1>14, <1>15, <1>16, <1>17, <1>18, <1>19, <1>20, <1>21,
     <1>22, <1>23, <1>24
  DEF Next, NextRoutine, RoutineStep, Wait, Deliver

\* A dispatch is for a routine of some run queue.
LEMMA TargetStep == Structure /\ TargetInv /\ [Next]_vars => TargetInv'
<1> SUFFICES ASSUME Structure, TargetInv, [Next]_vars PROVE TargetInv'
  OBVIOUS
<1>0. layout' = layout /\ Queue' = Queue BY LayoutFixed DEF Structure, Queue
<1>a. \A r, c : InQueue(r, c)' <=> InQueue(r, c) BY <1>0 DEF InQueue
<1> USE <1>0, <1>a
    DEF Structure, TargetInv, TypeOK, routineVars, processorVars, senderVars
<1>1. ASSUME NEW q \in layout.procs, Acquire(q) PROVE TargetInv'
  BY <1>1 DEF Acquire, Free
<1>2. ASSUME NEW q \in layout.procs, Skip(q) PROVE TargetInv'
  BY <1>2 DEF Skip
<1>3. ASSUME NEW q \in layout.procs, Exhausted(q) PROVE TargetInv'
  BY <1>3 DEF Exhausted
<1>4. ASSUME NEW q \in layout.procs, UpdateSleeper(q) PROVE TargetInv'
  BY <1>4 DEF UpdateSleeper
<1>5. ASSUME NEW q \in layout.procs, TestAndSetUpdated(q) PROVE TargetInv'
  BY <1>5 DEF TestAndSetUpdated
<1>6. ASSUME NEW q \in layout.procs, Promote(q) PROVE TargetInv'
  BY <1>6 DEF Promote
<1>7. ASSUME NEW q \in layout.procs, Resume(q) PROVE TargetInv'
  BY <1>7 DEF Resume
<1>8. ASSUME NEW q \in layout.procs, PassOver(q) PROVE TargetInv'
  BY <1>8 DEF PassOver
<1>9. ASSUME NEW q \in layout.procs, Release(q) PROVE TargetInv'
  BY <1>9 DEF Release
<1>10. ASSUME NEW q \in layout.procs, SetDataWait(q) PROVE TargetInv'
  BY <1>10 DEF SetDataWait
<1>11. ASSUME NEW q \in layout.procs, FetchMessage(q) PROVE TargetInv'
  BY <1>11 DEF FetchMessage
<1>12. ASSUME NEW q \in layout.procs, FetchNothing(q) PROVE TargetInv'
  BY <1>12 DEF FetchNothing
<1>13. ASSUME NEW q \in layout.procs, CallbackReturns(q) PROVE TargetInv'
  BY <1>13 DEF CallbackReturns
<1>14. ASSUME NEW q \in layout.procs, Sleep(q) PROVE TargetInv'
  BY <1>14 DEF Sleep
<1>15. ASSUME NEW q \in layout.procs, WaitPasses(q) \/ Timeout(q) PROVE TargetInv'
  BY <1>15 DEF WaitPasses, Timeout, TakeToken, OneLess
<1>16. ASSUME NEW q \in layout.procs, WaitBlocks(q) PROVE TargetInv'
  BY <1>16 DEF WaitBlocks
<1>17. ASSUME NEW s \in Senders, CallCallback(s) PROVE TargetInv'
  BY <1>17 DEF CallCallback
<1>18. ASSUME NEW s \in Senders, ReadState(s) PROVE TargetInv'
  BY <1>18 DEF ReadState, NeedsMark
<1>19. ASSUME NEW s \in Senders, SetUpdateFlag(s) PROVE TargetInv'
  BY <1>19 DEF SetUpdateFlag
<1>20. ASSUME NEW s \in Senders, Notify(s) PROVE TargetInv'
  BY <1>20 DEF Notify, AddToken
<1>21. ASSUME NEW s \in Senders, NotifyOne(s) PROVE TargetInv'
  BY <1>21 DEF NotifyOne, Signal, Asleep
<1>22. ASSUME NEW s \in Senders, NEW x \in Routines, Fill(s, x) PROVE TargetInv'
  BY <1>22 DEF Fill
<1>23. ASSUME NEW x \in Routines, Elapse(x) \/ CreateTask(x) PROVE TargetInv'
  BY <1>23 DEF Elapse, CreateTask, DispatchTask, DispatchToken, DispatchSignal,
      RegisterNotifyCallback, CGoto, AddToken, Signal, Asleep
<1>24. CASE UNCHANGED vars BY <1>24 DEF vars
<1> QED
  BY <1>1, <1>2, <1>3, <1>4, <1>5, <1>6, <1>7, <1>8, <1>9, <1>10, <1>11,
     <1>12, <1>13, <1>14, <1>15, <1>16, <1>17, <1>18, <1>19, <1>20, <1>21,
     <1>22, <1>23, <1>24
  DEF Next, NextRoutine, RoutineStep, Wait, Deliver

\* Only a scan touches a routine, and it finds the ones in the queue only.
LEMMA NewStep == Structure /\ NewInv /\ [Next]_vars => NewInv'
<1> SUFFICES ASSUME Structure, NewInv, [Next]_vars PROVE NewInv'
  OBVIOUS
<1>0. layout.procs \subseteq Processors BY LayoutFixed DEF Structure
<1>l. \A p \in Processors :
        ppc[p] \in Holding => cur[p] \in Routines /\ Enqueued(cur[p])
  BY RoutinesAssumption DEF Structure, TypeOK, HoldInv, LockInv, NewInv
<1> USE <1>0, <1>l
    DEF Structure, NewInv, Enqueued, Holding, TypeOK, routineVars,
        processorVars, senderVars
<1>1. ASSUME NEW q \in layout.procs, Acquire(q) PROVE NewInv'
  BY <1>1 DEF Acquire
<1>2. ASSUME NEW q \in layout.procs, Skip(q) PROVE NewInv'
  BY <1>2 DEF Skip
<1>3. ASSUME NEW q \in layout.procs, Exhausted(q) PROVE NewInv'
  BY <1>3 DEF Exhausted
<1>4. ASSUME NEW q \in layout.procs, UpdateSleeper(q) PROVE NewInv'
  BY <1>4 DEF UpdateSleeper
<1>5. ASSUME NEW q \in layout.procs, TestAndSetUpdated(q) PROVE NewInv'
  BY <1>5 DEF TestAndSetUpdated
<1>6. ASSUME NEW q \in layout.procs, Promote(q) PROVE NewInv'
  BY <1>6 DEF Promote
<1>7. ASSUME NEW q \in layout.procs, Resume(q) PROVE NewInv'
  BY <1>7 DEF Resume
<1>8. ASSUME NEW q \in layout.procs, PassOver(q) PROVE NewInv'
  BY <1>8 DEF PassOver
<1>9. ASSUME NEW q \in layout.procs, Release(q) PROVE NewInv'
  BY <1>9 DEF Release
<1>10. ASSUME NEW q \in layout.procs, SetDataWait(q) PROVE NewInv'
  BY <1>10 DEF SetDataWait
<1>11. ASSUME NEW q \in layout.procs, FetchMessage(q) PROVE NewInv'
  BY <1>11 DEF FetchMessage
<1>12. ASSUME NEW q \in layout.procs, FetchNothing(q) PROVE NewInv'
  BY <1>12 DEF FetchNothing
<1>13. ASSUME NEW q \in layout.procs, CallbackReturns(q) PROVE NewInv'
  BY <1>13 DEF CallbackReturns
<1>14. ASSUME NEW q \in layout.procs, Sleep(q) PROVE NewInv'
  BY <1>14 DEF Sleep
<1>15. ASSUME NEW q \in layout.procs,
              WaitPasses(q) \/ WaitBlocks(q) \/ Timeout(q)
       PROVE  NewInv'
  BY <1>15 DEF WaitPasses, WaitBlocks, Timeout, TakeToken
<1>16. ASSUME NEW s \in Senders, Deliver(s) PROVE NewInv'
  BY <1>16
  DEF Deliver, CallCallback, ReadState, SetUpdateFlag, Notify, NotifyOne
<1>17. ASSUME NEW s \in Senders, NEW r \in Routines, Fill(s, r) PROVE NewInv'
  BY <1>17 DEF Fill
<1>18. ASSUME NEW r \in Routines, Elapse(r) PROVE NewInv'
  BY <1>18 DEF Elapse
<1>19. ASSUME NEW r \in Routines, CreateTask(r) PROVE NewInv'
  BY <1>19
  DEF CreateTask, DispatchTask, DispatchToken, DispatchSignal,
      RegisterNotifyCallback, CGoto
<1>20. CASE UNCHANGED vars BY <1>20 DEF vars
<1> QED
  BY <1>1, <1>2, <1>3, <1>4, <1>5, <1>6, <1>7, <1>8, <1>9, <1>10, <1>11,
     <1>12, <1>13, <1>14, <1>15, <1>16, <1>17, <1>18, <1>19, <1>20
  DEF Next, NextRoutine, RoutineStep, Wait

\* What a processor has seen stays idle until a token is added.
LEMMA ScanStep ==
    Structure /\ CursorInv /\ TargetInv /\ NewInv /\ ScanInv /\ [Next]_vars
      => ScanInv'
<1> SUFFICES ASSUME Structure, CursorInv, TargetInv, NewInv, ScanInv,
                    [Next]_vars,
                    NEW p \in Processors, ~Shared(p),
                    NEW i \in 1 .. Len(Queue[CtxOf[p]])
             PROVE  LET r == Queue[CtxOf[p]][i] IN
                    /\ ppc'[p] \notin {"running", "release"}
                    /\ notify'[CtxOf[p]] = 0
                    /\ Seen(p, i)' /\ Enqueued(r)' /\ Runnable(r)'
                    => TokenComing(r)' \/ Unannounced(r)'
  BY LayoutFixed DEF Structure, ScanInv, Shared, Queue, CtxOf
<1> DEFINE c == CtxOf[p]
           r == Queue[c][i]
           Coming == \/ created[r] = "token"
                     \/ \E s \in Senders : target[s] = r /\ spc[s] = "token"
                     \/ at[r] = "start" /\ ~layout.notifies
           Goal == /\ ppc'[p] \notin {"running", "release"}
                   /\ notify'[c] = 0 /\ Seen(p, i)'
                   /\ created'[r] # "dispatch"
                   /\ \/ state'[r] = "READY"
                      \/ state'[r] = "DATA_WAIT" /\ ~updated'[r]
                   => \/ created'[r] = "token"
                      \/ \E s \in Senders : target'[s] = r /\ spc'[s] = "token"
                      \/ at'[r] = "start" /\ ~layout.notifies
<1>a. /\ layout' = layout /\ Queue' = Queue /\ CtxOf' = CtxOf
      /\ layout.procs \subseteq Processors
      /\ c \in Contexts /\ \A q \in Processors : CtxOf[q] \in Contexts
  BY LayoutFixed DEF Structure, Queue, CtxOf
<1>b. r \in Routines /\ r # None /\ i \in Nat /\ Len(Queue[c]) \in Nat
  <2>1. layout \in [procs : SUBSET Processors, ctx : [Processors -> Contexts],
                   queue : [Contexts -> Seq(Routines)], notifies : BOOLEAN]
    BY LayoutsAssumption DEF Structure, TypeOK
  <2> QED BY <2>1, RoutinesAssumption DEF Queue, CtxOf
<1>c. /\ ppc[p] \notin {"running", "release"}
      /\ notify[c] = 0
      /\ Seen(p, i) /\ created[r] # "dispatch" /\ Runnable(r)
      => Coming
  BY DEF ScanInv, Enqueued, TokenComing, Unannounced
\* The processors of other contexts keep off the routine, and p itself works
\* on it only at this place.
<1>d. \A q \in layout.procs \ {p} : CtxOf[q] # c /\ cur[q] # r
  <2> SUFFICES ASSUME NEW q \in layout.procs \ {p}, cur[q] = r
               PROVE  FALSE
    BY DEF Shared
  <2>1. ppc[q] \in Holding BY <1>a, <1>b DEF Structure, HoldInv
  <2>2. pos[q] \in 1 .. Len(Queue[CtxOf[q]]) /\ Queue[CtxOf[q]][pos[q]] = r
    BY <1>a, <2>1 DEF Structure, TypeOK, CursorInv
  <2>3. CtxOf[q] = c BY <1>a, <2>2, OnePlace DEF Structure
  <2> QED BY <2>3 DEF Shared
<1>e. ppc[p] \in Holding /\ i # pos[p] => cur[p] # r
  <2> SUFFICES ASSUME ppc[p] \in Holding, cur[p] = r PROVE i = pos[p]
    OBVIOUS
  <2>1. pos[p] \in 1 .. Len(Queue[c]) /\ Queue[c][pos[p]] = r
    BY DEF Structure, TypeOK, CursorInv
  <2> QED BY <1>a, <2>1, OnePlace DEF Structure
<1>f. ppc[p] = "scan" /\ p \in layout.procs => ~lock[r]
  BY <1>a, <1>b, <1>d DEF Structure, LockInv, HoldInv, Holding, CursorInv
<1>g. ppc[p] \in Holding /\ i = pos[p] => cur[p] = r
  BY DEF CursorInv
<1>s. Seen(p, i)' <=> \/ i < pos'[p]
                      \/ i = pos'[p] /\ ppc'[p] = "decide" /\ state'[r] # "READY"
  BY <1>a DEF Seen
<1>t. Seen(p, i) <=> \/ i < pos[p]
                     \/ i = pos[p] /\ ppc[p] = "decide" /\ state[r] # "READY"
  BY DEF Seen
<1>n. created[r] = "dispatch" => at[r] = "start" /\ ~lock[r]
  BY <1>b DEF NewInv, Enqueued
<1> SUFFICES Goal
  BY <1>a DEF Runnable, Enqueued, TokenComing, Unannounced
<1>u. CtxOfRoutine(r) = c
  <2> SUFFICES ASSUME NEW d \in Contexts, InQueue(r, d) PROVE d = c
    BY <1>a DEF CtxOfRoutine, InQueue
  <2>1. PICK j \in 1 .. Len(Queue[d]) : Queue[d][j] = r BY DEF InQueue
  <2> QED BY <1>a, <2>1, OnePlace DEF Structure
<1> HIDE DEF c, r
<1> USE <1>a, <1>b, <1>c, <1>d, <1>e, <1>f, <1>g, <1>s, <1>t,
        <1>n
    DEF Structure, TypeOK, HoldInv, Holding, Runnable, PGoto, SGoto,
        routineVars, processorVars, senderVars
<1>1. ASSUME NEW q \in layout.procs, Acquire(q) PROVE Goal
  BY <1>1 DEF Acquire, Free
<1>2. ASSUME NEW q \in layout.procs, Skip(q) PROVE Goal
  <2>1. CASE q = p
    <3>1. pos[p] = i => created[r] = "dispatch"
      BY <1>2, <2>1 DEF Skip, Free, Enqueued, c, r
    <3> QED BY <1>2, <2>1, <3>1 DEF Skip
  <2>2. CASE q # p BY <1>2, <2>2 DEF Skip
  <2> QED BY <2>1, <2>2
<1>3. ASSUME NEW q \in layout.procs, Exhausted(q) PROVE Goal
  BY <1>3 DEF Exhausted
<1>4. ASSUME NEW q \in layout.procs, UpdateSleeper(q) PROVE Goal
  BY <1>4 DEF UpdateSleeper
<1>5. ASSUME NEW q \in layout.procs, TestAndSetUpdated(q) PROVE Goal
  BY <1>5 DEF TestAndSetUpdated
<1>6. ASSUME NEW q \in layout.procs, Promote(q) PROVE Goal
  BY <1>6 DEF Promote
<1>7. ASSUME NEW q \in layout.procs, Resume(q) PROVE Goal
  BY <1>7 DEF Resume
<1>8. ASSUME NEW q \in layout.procs, PassOver(q) PROVE Goal
  BY <1>8 DEF PassOver
<1>9. ASSUME NEW q \in layout.procs, Release(q) PROVE Goal
  BY <1>9 DEF Release
<1>10. ASSUME NEW q \in layout.procs, SetDataWait(q) PROVE Goal
  BY <1>10 DEF SetDataWait
<1>11. ASSUME NEW q \in layout.procs, FetchMessage(q) PROVE Goal
  BY <1>11 DEF FetchMessage
<1>12. ASSUME NEW q \in layout.procs, FetchNothing(q) PROVE Goal
  BY <1>12 DEF FetchNothing
<1>13. ASSUME NEW q \in layout.procs, CallbackReturns(q) PROVE Goal
  BY <1>13 DEF CallbackReturns
<1>14. ASSUME NEW q \in layout.procs, Sleep(q) PROVE Goal
  BY <1>14 DEF Sleep
<1>15. ASSUME NEW q \in layout.procs, WaitPasses(q) \/ Timeout(q) PROVE Goal
  <2>1. CASE q = p BY <1>15, <2>1 DEF WaitPasses, Timeout, TakeToken
  <2>2. CASE q # p
    <3>1. notify'[c] = notify[c]
      BY <1>15, <2>2 DEF WaitPasses, Timeout, TakeToken
    <3> QED BY <1>15, <2>2, <3>1 DEF WaitPasses, Timeout, TakeToken
  <2> QED BY <2>1, <2>2
<1>16. ASSUME NEW q \in layout.procs, WaitBlocks(q) PROVE Goal
  BY <1>16 DEF WaitBlocks
<1>17. ASSUME NEW s \in Senders, CallCallback(s) PROVE Goal
  BY <1>17 DEF CallCallback
<1>18. ASSUME NEW s \in Senders, ReadState(s) PROVE Goal
  BY <1>18 DEF ReadState, NeedsMark
<1>19. ASSUME NEW s \in Senders, SetUpdateFlag(s) PROVE Goal
  BY <1>19 DEF SetUpdateFlag
<1>20. ASSUME NEW s \in Senders, Notify(s) PROVE Goal
  <2>1. CASE target[s] = r
    <3>1. notify'[c] = notify[c] + 1
      BY <1>20, <1>u, <2>1 DEF Notify, AddToken, OneMore
    <3> QED BY <3>1
  <2>2. CASE target[s] # r
    <3>1. notify'[c] = 0 => notify[c] = 0
      BY <1>20, OneMoreToken DEF Notify, AddToken, OneMore
    <3> QED BY <1>20, <2>2, <3>1 DEF Notify, AddToken
  <2> QED BY <2>1, <2>2
<1>21. ASSUME NEW s \in Senders, NotifyOne(s) PROVE Goal
  BY <1>21 DEF NotifyOne, Signal, Asleep
<1>22. ASSUME NEW s \in Senders, NEW x \in Routines, Fill(s, x) PROVE Goal
  BY <1>22 DEF Fill
<1>23. ASSUME NEW x \in Routines, Elapse(x) PROVE Goal
  BY <1>23 DEF Elapse
<1>25. ASSUME NEW x \in Routines, CreateTask(x) PROVE Goal
  <2>1. CASE DispatchTask(x) BY <2>1 DEF DispatchTask, CGoto
  <2>2. CASE DispatchToken(x)
    <3>1. CASE x = r
      <4>1. notify'[c] = notify[c] + 1
        BY <2>2, <3>1, <1>u DEF DispatchToken, AddToken, OneMore
      <4> QED BY <4>1
    <3>2. CASE x # r
      <4>1. notify'[c] = 0 => notify[c] = 0
        BY <2>2 DEF DispatchToken, AddToken, OneMore
      <4> QED BY <2>2, <3>2, <4>1 DEF DispatchToken, CGoto
    <3> QED BY <3>1, <3>2
  <2>3. CASE DispatchSignal(x)
    BY <2>3 DEF DispatchSignal, Signal, Asleep, CGoto
  <2>4. CASE RegisterNotifyCallback(x)
    BY <2>4 DEF RegisterNotifyCallback, CGoto
  <2> QED BY <1>25, <2>1, <2>2, <2>3, <2>4 DEF CreateTask
<1>24. CASE UNCHANGED vars BY <1>24 DEF vars
<1> QED
  BY <1>1, <1>2, <1>3, <1>4, <1>5, <1>6, <1>7, <1>8, <1>9, <1>10, <1>11,
     <1>12, <1>13, <1>14, <1>15, <1>16, <1>17, <1>18, <1>19, <1>20, <1>21,
     <1>22, <1>23, <1>24, <1>25
  DEF Next, NextRoutine, RoutineStep, Wait, Deliver

-----------------------------------------------------------------------------
\* Every reachable state satisfies the inductive invariant.
THEOREM Invariance == Spec => []Inv
<1>1. Inv /\ [Next]_vars => Inv'
  BY TypeStep, HoldStep, PlaceStep, WakeStep DEF Inv, Structure
<1> QED BY InitInv, <1>1, PTL DEF Spec

\* The variables keep their types; the token counters never go negative.
THEOREM TypeCorrect == Spec => []TypeOK
<1>1. Inv => TypeOK BY DEF Inv, Structure
<1> QED BY Invariance, <1>1, PTL

\* A routine has at most one processor at work on it, so its stack and its
\* plain fields have one user: Acquire and Release are enough.
THEOREM OneUser == Spec => []ExclusiveRun
<1>1. Inv => ExclusiveRun BY DEF Inv, Structure
<1> QED BY Invariance, <1>1, PTL

\* Setting DATA_WAIT before TryFetch, and Fill before NotifyProcessor reads
\* the state, is enough for no message to be forgotten, whatever the number
\* of processors, senders and routines.
THEOREM WakeupsKept == Spec => []NoLostWakeup
<1>1. Inv => NoLostWakeup
  BY DEF Inv, Structure, TypeOK, LockInv, WakeInv, NoLostWakeup
<1> QED BY Invariance, <1>1, PTL

\* A processor with a run queue of its own never sleeps on work that was
\* announced to it: the token counter, read under the mutex of the wait queue,
\* covers whatever was marked or dispatched behind the cursor of a scan.  What
\* is left is a routine that the choreography policy dispatched without
\* Notify.
THEOREM IdleSound == Spec => []IdleMeansNoWork
<1> DEFINE IInv == Inv /\ CursorInv /\ TargetInv /\ NewInv /\ ScanInv
<1>1. Init => IInv
  <2> SUFFICES ASSUME Init PROVE IInv OBVIOUS
  <2>1. Inv BY InitInv
  <2>2. CursorInv /\ TargetInv /\ NewInv
    BY DEF Init, CursorInv, Holding, TargetInv, NewInv
  <2>3. ScanInv BY DEF Init, ScanInv, Seen
  <2> QED BY <2>1, <2>2, <2>3
<1>2. IInv /\ [Next]_vars => IInv'
  BY TypeStep, HoldStep, PlaceStep, WakeStep, CursorStep, TargetStep, NewStep,
     ScanStep
  DEF Inv, Structure
<1>3. IInv => IdleMeansNoWork
  <2> SUFFICES ASSUME IInv, NEW p \in Processors, ppc[p] = "asleep",
                      notify[CtxOf[p]] = 0, ~Shared(p),
                      NEW i \in 1 .. Len(Queue[CtxOf[p]]),
                      Enqueued(Queue[CtxOf[p]][i]),
                      Runnable(Queue[CtxOf[p]][i])
               PROVE  \/ TokenComing(Queue[CtxOf[p]][i])
                      \/ Unannounced(Queue[CtxOf[p]][i])
    BY DEF IdleMeansNoWork
  <2>1. Len(Queue[CtxOf[p]]) \in Nat
    <3>1. layout \in [procs : SUBSET Processors, ctx : [Processors -> Contexts],
                     queue : [Contexts -> Seq(Routines)], notifies : BOOLEAN]
      BY LayoutsAssumption DEF Inv, Structure, TypeOK
    <3> QED BY <3>1 DEF Queue, CtxOf
  <2>2. Seen(p, i)
    BY <2>1 DEF Inv, Structure, TypeOK, CursorInv, Seen
  <2> QED BY <2>2 DEF ScanInv
<1> QED BY <1>1, <1>2, <1>3, PTL DEF Spec

=============================================================================
