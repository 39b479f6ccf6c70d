------------------------------- MODULE RWLock -------------------------------
(***************************************************************************)
(* What a reader-writer lock of cyber/base promises, with no algorithm:    *)
(* a set of threads holds the lock for reading, a set of at most one       *)
(* holds it for writing, and the two never overlap.  AtomicRWLock is       *)
(* shown to implement this specification.                                  *)
(***************************************************************************)
CONSTANT Threads        \* the threads that build lock guards

VARIABLES readers,      \* threads inside a ReadLockGuard scope
          writers       \* threads inside a WriteLockGuard scope

vars == <<readers, writers>>

Init == readers = {} /\ writers = {}

\* A ReadLockGuard is built: nobody may be writing.
AcquireRead(t) ==
    /\ t \notin readers
    /\ writers = {}
    /\ readers' = readers \cup {t}
    /\ UNCHANGED writers

\* A ReadLockGuard is destroyed.
ReleaseRead(t) ==
    /\ t \in readers
    /\ readers' = readers \ {t}
    /\ UNCHANGED writers

\* A WriteLockGuard is built: nobody may be reading or writing.
AcquireWrite(t) ==
    /\ readers = {}
    /\ writers = {}
    /\ writers' = {t}
    /\ UNCHANGED readers

\* A WriteLockGuard is destroyed.
ReleaseWrite(t) ==
    /\ t \in writers
    /\ writers' = writers \ {t}
    /\ UNCHANGED readers

Next ==
    \E t \in Threads :
        \/ AcquireRead(t)
        \/ ReleaseRead(t)
        \/ AcquireWrite(t)
        \/ ReleaseWrite(t)

Spec == Init /\ [][Next]_vars
=============================================================================
