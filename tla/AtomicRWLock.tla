---------------------------- MODULE AtomicRWLock ----------------------------
(***************************************************************************)
(* The spinning reader-writer lock of cyber/base/atomic_rw_lock.h, which   *)
(* guards the run queues, the routine table, the shared-memory segment     *)
(* table and every container of service discovery.                         *)
(*                                                                         *)
(* Each atomic load, compare-exchange and fetch-add is one step; a thread  *)
(* may be preempted between any two of them.  compare_exchange_weak may    *)
(* fail although the values agree.  retry_times only decides when the      *)
(* thread yields the processor and is left out.                            *)
(***************************************************************************)
EXTENDS Integers, FiniteSets

CONSTANTS Threads,      \* threads that use one lock object
          WriteFirst    \* the constructor argument write_first_

ASSUME ThreadsAssumption == IsFiniteSet(Threads)
ASSUME WriteFirstAssumption == WriteFirst \in BOOLEAN

RW_LOCK_FREE    == 0
WRITE_EXCLUSIVE == -1

VARIABLES
    lock_num,               \* number of readers, or WRITE_EXCLUSIVE
    write_lock_wait_num,    \* writers announced and not yet inside
    seen,                   \* per thread: the local lock_num of ReadLock
    pc                      \* per thread: the next step

lockVars == <<lock_num, write_lock_wait_num, seen, pc>>

\* Where a thread can be.  "reading" and "writing" are the guarded scopes.
Pcs == {"idle", "r_check", "r_reload", "r_cas", "reading",
        "w_cas", "w_dec", "writing"}

LockInit ==
    /\ lock_num = RW_LOCK_FREE
    /\ write_lock_wait_num = 0
    /\ seen = [t \in Threads |-> 0]
    /\ pc = [t \in Threads |-> "idle"]

Goto(t, label) == pc' = [pc EXCEPT ![t] = label]

-----------------------------------------------------------------------------
(* ReadLock *)

\* int32_t lock_num = lock_num_.load()
ReadLock(t) ==
    /\ pc[t] = "idle"
    /\ seen' = [seen EXCEPT ![t] = lock_num]
    /\ Goto(t, "r_check")
    /\ UNCHANGED <<lock_num, write_lock_wait_num>>

\* Fault: the announced writers are not consulted.
MustWaitForInsideOnly(t) == seen[t] < RW_LOCK_FREE

\* The condition of the inner while: a reader stays out while it saw a
\* writer inside and, with write_first_, while a writer is announced.
MustWait(t) ==
    \/ seen[t] < RW_LOCK_FREE
    \/ WriteFirst /\ write_lock_wait_num > 0

ReadCheck(t) ==
    /\ pc[t] = "r_check"
    /\ Goto(t, IF MustWait(t) THEN "r_reload" ELSE "r_cas")
    /\ UNCHANGED <<lock_num, write_lock_wait_num, seen>>

\* The body of the inner while: lock_num = lock_num_.load()
ReadReload(t) ==
    /\ pc[t] = "r_reload"
    /\ seen' = [seen EXCEPT ![t] = lock_num]
    /\ Goto(t, "r_check")
    /\ UNCHANGED <<lock_num, write_lock_wait_num>>

\* Fault: a plain store in place of the compare-exchange.
ReadStore(t) ==
    /\ pc[t] = "r_cas"
    /\ lock_num' = seen[t] + 1
    /\ Goto(t, "reading")
    /\ UNCHANGED <<write_lock_wait_num, seen>>

\* The compare-exchange of the outer do-while succeeds.
ReadCasOk(t) ==
    /\ pc[t] = "r_cas"
    /\ lock_num = seen[t]
    /\ lock_num' = lock_num + 1
    /\ Goto(t, "reading")
    /\ UNCHANGED <<write_lock_wait_num, seen>>

\* It fails, possibly spuriously, and leaves the current value in lock_num.
ReadCasFail(t) ==
    /\ pc[t] = "r_cas"
    /\ seen' = [seen EXCEPT ![t] = lock_num]
    /\ Goto(t, "r_check")
    /\ UNCHANGED <<lock_num, write_lock_wait_num>>

ReadUnlock(t) ==
    /\ pc[t] = "reading"
    /\ lock_num' = lock_num - 1
    /\ Goto(t, "idle")
    /\ UNCHANGED <<write_lock_wait_num, seen>>

-----------------------------------------------------------------------------
(* WriteLock *)

\* write_lock_wait_num_.fetch_add(1): from here on readers stay out.
WriteLock(t) ==
    /\ pc[t] = "idle"
    /\ write_lock_wait_num' = write_lock_wait_num + 1
    /\ Goto(t, "w_cas")
    /\ UNCHANGED <<lock_num, seen>>

\* Fault: rw_lock_free keeps the value a failed exchange put into it, so the
\* next exchange expects the readers that are inside.
WriteCasStaleExpected(t) ==
    /\ pc[t] = "w_cas"
    /\ lock_num' = WRITE_EXCLUSIVE
    /\ Goto(t, "w_dec")
    /\ UNCHANGED <<write_lock_wait_num, seen>>

\* The compare-exchange succeeds; a failed one changes nothing and retries.
WriteCas(t) ==
    /\ pc[t] = "w_cas"
    /\ lock_num = RW_LOCK_FREE
    /\ lock_num' = WRITE_EXCLUSIVE
    /\ Goto(t, "w_dec")
    /\ UNCHANGED <<write_lock_wait_num, seen>>

WriteDec(t) ==
    /\ pc[t] = "w_dec"
    /\ write_lock_wait_num' = write_lock_wait_num - 1
    /\ Goto(t, "writing")
    /\ UNCHANGED <<lock_num, seen>>

WriteUnlock(t) ==
    /\ pc[t] = "writing"
    /\ lock_num' = lock_num + 1
    /\ Goto(t, "idle")
    /\ UNCHANGED <<write_lock_wait_num, seen>>

-----------------------------------------------------------------------------
Reader(t) ==
    \/ ReadLock(t) \/ ReadCheck(t) \/ ReadReload(t)
    \/ ReadCasOk(t) \/ ReadCasFail(t) \/ ReadUnlock(t)

Writer(t) ==
    WriteLock(t) \/ WriteCas(t) \/ WriteDec(t) \/ WriteUnlock(t)

LockNext == \E t \in Threads : Reader(t) \/ Writer(t)

LockSpec == LockInit /\ [][LockNext]_lockVars

\* A thread that is inside a lock operation or a guarded scope is scheduled
\* again and again; nobody has to start an operation.
GoesOn(t) ==
    \/ ReadCheck(t) \/ ReadReload(t) \/ ReadCasOk(t) \/ ReadCasFail(t)
    \/ ReadUnlock(t) \/ WriteCas(t) \/ WriteDec(t) \/ WriteUnlock(t)

Fairness == \A t \in Threads : WF_lockVars(GoesOn(t))

FairLockSpec == LockSpec /\ Fairness

-----------------------------------------------------------------------------
Readers == {t \in Threads : pc[t] = "reading"}
Writers == {t \in Threads : pc[t] \in {"w_dec", "writing"}}
Announced == {t \in Threads : pc[t] \in {"w_cas", "w_dec"}}

\* The lock word is a reader count or WRITE_EXCLUSIVE and the unsigned
\* counter of announced writers never wraps below zero.
LockTypeOK ==
    /\ lock_num \in Nat \cup {WRITE_EXCLUSIVE}
    /\ write_lock_wait_num \in Nat
    /\ seen \in [Threads -> Nat \cup {WRITE_EXCLUSIVE}]
    /\ pc \in [Threads -> Pcs]

\* A thread inside a WriteLockGuard excludes every other holder: no reader,
\* no second writer, whatever the interleaving of the loads and exchanges.
MutualExclusion ==
    \A t \in Writers : Readers = {} /\ Writers = {t}

\* The one word lock_num_ encodes exactly who is inside: WRITE_EXCLUSIVE for
\* a writer, else the number of readers.  This is what makes the exchanges
\* safe and the lock free again after the last guard is gone.
CountMatchesHolders ==
    lock_num = IF Writers # {} THEN WRITE_EXCLUSIVE ELSE Cardinality(Readers)

\* write_lock_wait_num_ counts the writers between announcement and
\* admission, so it returns to zero and readers are let in again.
WaitNumMatchesAnnounced == write_lock_wait_num = Cardinality(Announced)

\* What the words say at any moment: who is inside, and who waits to write.
LockInv ==
    LockTypeOK /\ MutualExclusion /\ CountMatchesHolders /\ WaitNumMatchesAnnounced

\* The lock implements the abstract reader-writer lock: a guard is held from
\* the successful exchange to the unlock.
Abstract == INSTANCE RWLock WITH readers <- Readers, writers <- Writers
ImplementsRWLock == Abstract!Spec

\* With write_first_ a stream of readers cannot keep a writer out for ever:
\* once it is announced some announced writer is eventually admitted.
WriterAdmitted == (Announced # {}) ~> (Writers # {})

=============================================================================
