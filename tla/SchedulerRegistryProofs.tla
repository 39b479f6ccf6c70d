---------------------- MODULE SchedulerRegistryProofs ----------------------
(***************************************************************************)
(* The registry is sound and a removed routine is gone, for any threads,   *)
(* processors, routines and names.                                         *)
(*                                                                         *)
(* The argument: who has locked the mutex of an id is the only one at work *)
(* on its entry in the table and on its routine in the run queue, so the   *)
(* two disagree only by what the holder is about to do.  And a routine     *)
(* that a processor holds, or is about to look at, is in the run queue,    *)
(* since nobody takes one out during a scan or without the routine's flag. *)
(***************************************************************************)
EXTENDS SchedulerRegistry, TLAPS

Creating(a) == apc[a] \in {"c_mutex", "c_table", "c_queue"}
Removing(a) == apc[a] \in {"r_queue", "r_acquire", "r_erase"}

\* a is in the part of a call that holds the mutex of id.
AtWork(a, id) ==
    \/ apc[a] \in {"c_table", "c_queue"} /\ id_of[arg[a]] = id
    \/ (apc[a] = "r_table" \/ Removing(a)) /\ arg[a] = id

\* What a call has in hand.
ArgInv ==
    \A a \in Actors :
        /\ Creating(a) => arg[a] \in Instances /\ id_of[arg[a]] \in Ids
        /\ apc[a] \in {"r_mutex", "r_table"} \/ Removing(a) => arg[a] \in Ids
        /\ Removing(a) => victim[a] \in Instances /\ id_of[victim[a]] = arg[a]

MutexInv == \A a \in Actors, id \in Ids : AtWork(a, id) => id_mutex[id] = a

\* A routine that is being created is in one call only, and in the table only
\* when it is about to enter the queue.
NewInv ==
    \A a \in Actors : Creating(a) =>
        /\ arg[a] \notin rq \cup gone
        /\ \A b \in Actors : Creating(b) /\ arg[b] = arg[a] => b = a
        /\ \A id \in Ids : id_cr[id] = arg[a] => apc[a] = "c_queue"
        /\ apc[a] = "c_queue" => id_cr[id_of[arg[a]]] = arg[a]

\* Routines that do not exist yet have no id; those that are gone do.
FreshInv ==
    /\ \A c \in fresh : id_of[c] = None
    /\ \A c \in gone : id_of[c] # None

\* A routine in the table is in the queue, or the holder of the mutex is
\* about to put it there.
TableInv ==
    \A id \in Ids : id_cr[id] # None =>
        /\ id_of[id_cr[id]] = id /\ id_cr[id] \notin gone
        /\ \/ id_cr[id] \in rq
           \/ /\ id_mutex[id] \in Actors /\ apc[id_mutex[id]] = "c_queue"
              /\ arg[id_mutex[id]] = id_cr[id]

\* A routine in the queue is in the table, or the holder of the mutex is
\* about to take it out.
QueueInv ==
    \A c \in rq :
        /\ id_of[c] \in Ids /\ c \notin gone
        /\ \/ id_cr[id_of[c]] = c
           \/ /\ id_mutex[id_of[c]] \in Actors /\ Removing(id_mutex[id_of[c]])
              /\ victim[id_mutex[id_of[c]]] = c

VictimInv ==
    \A a \in Actors : Removing(a) => victim[a] \in rq /\ id_cr[arg[a]] = None

\* The run-queue lock: its writer is a removal, which excludes scans.
QueueLockInv ==
    /\ \A a \in Actors : apc[a] \in {"r_acquire", "r_erase"} => rq_writer = a
    /\ rq_writer # None => rq_readers = {}
    /\ \A p \in Processors : ppc[p] = "scan" => p \in rq_readers
    /\ \A p \in Processors : ppc[p] # "scan" => todo[p] = {}
    /\ \A p \in Processors : todo[p] \subseteq rq

\* The flag of a routine: a processor holds it while it has the routine in
\* hand, or a removal that is about to take it out.
HoldInv ==
    /\ \A p \in Processors :
         ppc[p] \in {"resume", "running", "release"} <=> cur[p] # None
    /\ \A p \in Processors : cur[p] # None => cur[p] \in rq /\ lock[cur[p]]
    /\ \A p, q \in Processors : cur[p] # None /\ cur[p] = cur[q] => p = q
    /\ \A a \in Actors : apc[a] = "r_erase" =>
         lock[victim[a]] /\ \A p \in Processors : cur[p] # victim[a]

IInv ==
    /\ TypeOK /\ ArgInv /\ MutexInv /\ NewInv /\ FreshInv /\ TableInv /\ QueueInv
    /\ VictimInv /\ QueueLockInv /\ HoldInv

-----------------------------------------------------------------------------
\* The initial state satisfies the invariant.
LEMMA InitIInv == Init => IInv
  <1> SUFFICES ASSUME Init PROVE IInv
    OBVIOUS
  <1>1. TypeOK
    BY DEF Init, TypeOK
  <1>2. ArgInv /\ MutexInv /\ NewInv /\ FreshInv /\ VictimInv
    BY DEF Init, ArgInv, MutexInv, NewInv, FreshInv, VictimInv, AtWork, Creating,
       Removing
  <1>3. TableInv /\ QueueInv
    BY DEF Init, TableInv, QueueInv
  <1>4. QueueLockInv /\ HoldInv
    BY DEF Init, QueueLockInv, HoldInv
  <1>5. QED
    BY <1>1, <1>2, <1>3, <1>4 DEF IInv

\* Nothing happens.
LEMMA StutterIInv == IInv /\ UNCHANGED vars => IInv'
  BY DEF vars, flagVars, regVars, procVars, callVars, IInv, TypeOK, ArgInv, MutexInv, NewInv, FreshInv,
     TableInv, QueueInv, VictimInv, QueueLockInv, HoldInv, AtWork, Creating,
     Removing, Actors

\* Processor::Run: what a processor picks is in the run queue and free.
LEMMA ProcessorIInv ==
  ASSUME IInv, NEW p \in Processors, ProcessorStep(p)
  PROVE  IInv'
  <1> USE NoneAssumption
      DEF IInv, TypeOK, ArgInv, MutexInv, NewInv, FreshInv,
          TableInv, QueueInv, VictimInv, QueueLockInv, HoldInv, AtWork, Creating,
          Removing, Actors, flagVars, regVars, procVars, callVars, PGoto
  <1>1. CASE ScanStart(p)
    BY <1>1 DEF ScanStart
  <1>2. CASE ScanEnd(p)
    BY <1>2 DEF ScanEnd, DoneReading
  <1>3. ASSUME NEW c \in Instances, PassOver(p, c) PROVE IInv'
    BY <1>3 DEF PassOver
  <1>4. ASSUME NEW c \in Instances, Pick(p, c) PROVE IInv'
    BY <1>4 DEF Pick, Free, DoneReading
  <1>5. CASE Resume(p)
    BY <1>5 DEF Resume
  <1>6. CASE Yield(p)
    BY <1>6 DEF Yield
  <1>7. CASE Release(p)
    BY <1>7 DEF Release, Unlocked
  <1>8. CASE Exit(p)
    BY <1>8 DEF Exit
  <1>9. QED
    BY <1>1, <1>2, <1>3, <1>4, <1>5, <1>6, <1>7, <1>8 DEF ProcessorStep

\* CreateTask and DispatchTask: the mutex of the id is held from the look into
\* the table to the entry into the queue.
LEMMA CreateIInv ==
  ASSUME IInv, NEW a \in Actors,
         \/ \E id \in Ids : CreateTask(a, id)
         \/ DispatchLock(a) \/ DispatchRefused(a) \/ DispatchTable(a)
         \/ DispatchEnqueue(a)
  PROVE  IInv'
  <1> USE NoneAssumption
      DEF IInv, TypeOK, ArgInv, MutexInv, NewInv, FreshInv,
          TableInv, QueueInv, VictimInv, QueueLockInv, HoldInv, AtWork, Creating,
          Removing, Actors, flagVars, regVars, procVars, callVars, AGoto
  <1>1. ASSUME NEW id \in Ids, CreateTask(a, id) PROVE IInv'
    BY <1>1 DEF CreateTask, MayCall
  <1>2. CASE DispatchLock(a)
    BY <1>2 DEF DispatchLock, MutexFree
  <1>3. CASE DispatchRefused(a)
    BY <1>3 DEF DispatchRefused, Return
  <1>4. CASE DispatchTable(a)
    BY <1>4 DEF DispatchTable
  <1>5. CASE DispatchEnqueue(a)
    BY <1>5 DEF DispatchEnqueue, Return
  <1>6. QED
    BY <1>1, <1>2, <1>3, <1>4, <1>5

\* RemoveTask and RemoveCRoutine.  The last step is where the routine becomes
\* one of those that are gone: the removal has its flag, so no processor has
\* it in hand, and the run-queue lock, so none is about to look at it.
LEMMA RemoveIInv ==
  ASSUME IInv, NEW a \in Actors,
         \/ \E id \in Ids : RemoveTask(a, id)
         \/ RemoveLock(a) \/ RemoveRefused(a) \/ RemoveTable(a)
         \/ RemoveLockQueue(a) \/ RemoveAcquire(a) \/ RemoveErase(a)
  PROVE  IInv'
  <1> USE NoneAssumption
      DEF IInv, TypeOK, ArgInv, MutexInv, NewInv, FreshInv,
          TableInv, QueueInv, VictimInv, QueueLockInv, HoldInv, AtWork, Creating,
          Removing, Actors, flagVars, regVars, procVars, callVars, AGoto
  <1>1. ASSUME NEW id \in Ids, RemoveTask(a, id) PROVE IInv'
    BY <1>1 DEF RemoveTask, MayCall
  <1>2. CASE RemoveLock(a)
    BY <1>2 DEF RemoveLock, MutexFree
  <1>3. CASE RemoveRefused(a)
    BY <1>3 DEF RemoveRefused, Return
  <1>4. CASE RemoveTable(a)
    BY <1>4 DEF RemoveTable, Unlisted
  <1>5. CASE RemoveLockQueue(a)
    BY <1>5 DEF RemoveLockQueue
  <1>6. CASE RemoveAcquire(a)
    BY <1>6 DEF RemoveAcquire, Free
  <1>7. CASE RemoveErase(a)
    <2> USE <1>7 DEF RemoveErase, Return, Unlocked
    <2>1. TypeOK' /\ ArgInv'
      OBVIOUS
    <2>2. MutexInv' /\ NewInv' /\ FreshInv'
      OBVIOUS
    <2>3. TableInv'
      OBVIOUS
    <2>4. QueueInv'
      OBVIOUS
    <2>5. VictimInv'
      OBVIOUS
    <2>6. QueueLockInv'
      OBVIOUS
    <2>7. HoldInv'
      OBVIOUS
    <2>8. QED
      BY <2>1, <2>2, <2>3, <2>4, <2>5, <2>6, <2>7
  <1>8. QED
    BY <1>1, <1>2, <1>3, <1>4, <1>5, <1>6, <1>7

\* The steps of Shutdown keep the invariant.
LEMMA ShutdownIInv ==
  ASSUME IInv, ShutdownStart \/ ShutdownStep
  PROVE  IInv'
  <1> USE NoneAssumption
      DEF IInv, TypeOK, ArgInv, MutexInv, NewInv, FreshInv,
          TableInv, QueueInv, VictimInv, QueueLockInv, HoldInv, AtWork, Creating,
          Removing, Actors, flagVars, regVars, procVars, callVars, AGoto
  <1>1. CASE ShutdownStart
    BY <1>1 DEF ShutdownStart
  <1>2. CASE ShutdownContexts
    BY <1>2 DEF ShutdownContexts
  <1>3. CASE ShutdownList
    BY <1>3 DEF ShutdownList
  <1>4. CASE ShutdownStop
    BY <1>4 DEF ShutdownStop
  <1>5. CASE ShutdownJoin
    BY <1>5 DEF ShutdownJoin
  <1>6. ASSUME NEW id \in Ids, ShutdownRemove(id) PROVE IInv'
    BY <1>6 DEF ShutdownRemove
  <1>7. QED
    BY <1>1, <1>2, <1>3, <1>4, <1>5, <1>6 DEF ShutdownStep

\* The invariant is inductive: one case per action.
LEMMA NextIInv == IInv /\ [Next]_vars => IInv'
  <1> SUFFICES ASSUME IInv, [Next]_vars PROVE IInv'
    OBVIOUS
  <1>1. CASE UNCHANGED vars
    BY <1>1, StutterIInv
  <1>2. ASSUME NEW p \in Processors, ProcessorStep(p) PROVE IInv'
    BY <1>2, ProcessorIInv
  <1>3. ASSUME NEW a \in Actors,
               CallStep(a) \/ \E id \in Ids : CreateTask(a, id) \/ RemoveTask(a, id)
        PROVE  IInv'
    BY <1>3, CreateIInv, RemoveIInv DEF CallStep
  <1>4. CASE ShutdownStart \/ ShutdownStep
    BY <1>4, ShutdownIInv
  <1>5. QED
    BY <1>1, <1>2, <1>3, <1>4 DEF Next

\* Every reachable state satisfies the inductive invariant.
LEMMA SpecIInv == Spec => []IInv
  BY InitIInv, NextIInv, PTL DEF Spec

-----------------------------------------------------------------------------
\* Whatever calls of CreateTask, RemoveTask and Shutdown are mixed: outside
\* them the table id_cr_ and the run queue hold the same routines, and never
\* two of the same name.
THEOREM RegistrySound == Spec => []RegistryInv
  <1>1. IInv => RegistryInv
    <2> SUFFICES ASSUME IInv PROVE RegistryInv
      OBVIOUS
    <2>1. TableAndQueueAgree
      BY NoneAssumption DEF IInv, TypeOK, TableInv, QueueInv, TableAndQueueAgree
    <2>2. OneRoutinePerId
      BY NoneAssumption DEF IInv, TypeOK, ArgInv, QueueInv, VictimInv, OneRoutinePerId
    <2>3. QED
      BY <2>1, <2>2 DEF IInv, RegistryInv
  <1>2. QED
    BY <1>1, SpecIInv, PTL

\* After RemoveTask has returned true no processor has the routine in hand or
\* will find it: Reader::Shutdown may destroy what its callback refers to.
THEOREM RemovedIsGone == Spec => []GoneForGood
  <1>1. IInv => GoneForGood
    BY NoneAssumption DEF IInv, TypeOK, QueueInv, QueueLockInv, HoldInv, GoneForGood
  <1>2. QED
    BY <1>1, SpecIInv, PTL

=============================================================================
