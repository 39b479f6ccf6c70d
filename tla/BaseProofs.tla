------------------------------- MODULE BaseProofs ---------------------------
(***************************************************************************)
(* The lock-free building blocks of cyber/base: the spinning lock, and the *)
(* bounded queue under the thread pool.                                    *)
(*                                                                         *)
(* The lock, for every finite set of threads and either value of           *)
(* write_first_: the lock word always encodes the holders, the guards      *)
(* exclude each other, and the algorithm implements the abstract lock of   *)
(* RWLock.  CountMatchesHolders is the inductive core: an exchange that    *)
(* succeeds reads the holders off lock_num_, so exclusion follows from it; *)
(* LockTypeOK follows from the counts being cardinalities.                 *)
(*                                                                         *)
(* The queue, for any number of producers and consumers and any size: it   *)
(* is sound and implements a first-in first-out queue.  The positions in   *)
(* use, from head_ to tail_, never span a whole pool_, so that two of them *)
(* are different slots (Distinct).  Hence the producers that have claimed  *)
(* positions store into slots of their own, none of them a slot that is    *)
(* published; and a consumer whose compare-and-swap of head_ succeeds has  *)
(* copied a slot that was published all the while.                         *)
(***************************************************************************)
EXTENDS AtomicRWLock, ThreadPool, FiniteSetTheorems, TLAPS

-----------------------------------------------------------------------------
(* AtomicRWLock *)

\* A reader at the compare-exchange expects a word that is no writer's.
ExpectsNoWriter == \A t \in Threads : pc[t] = "r_cas" => seen[t] >= RW_LOCK_FREE

\* The inductive invariant.
LockIInv ==
    /\ LockTypeOK
    /\ MutualExclusion
    /\ CountMatchesHolders
    /\ WaitNumMatchesAnnounced
    /\ ExpectsNoWriter

\* The sets the counters stand for are finite.
LEMMA HoldersFinite ==
    /\ IsFiniteSet(Readers) /\ IsFiniteSet(Writers) /\ IsFiniteSet(Announced)
    /\ IsFiniteSet(Readers)' /\ IsFiniteSet(Writers)' /\ IsFiniteSet(Announced)'
  <1>1. /\ Readers \subseteq Threads /\ Writers \subseteq Threads
        /\ Announced \subseteq Threads
    BY DEF Readers, Writers, Announced
  <1>2. /\ Readers' \subseteq Threads /\ Writers' \subseteq Threads
        /\ Announced' \subseteq Threads
    BY DEF Readers, Writers, Announced
  <1>3. \A S \in SUBSET Threads : IsFiniteSet(S)
    BY ThreadsAssumption, FS_Subset
  <1>4. QED
    BY <1>1, <1>2, <1>3

\* Adding a new element to a finite set, or removing a member, moves its
\* cardinality by one.
LEMMA CardinalityStep ==
    ASSUME NEW S, IsFiniteSet(S), NEW x
    PROVE  /\ Cardinality(S) \in Nat
           /\ x \notin S => Cardinality(S \cup {x}) = Cardinality(S) + 1
           /\ x \in S => Cardinality(S \ {x}) = Cardinality(S) - 1
           /\ (Cardinality(S) = 0) <=> (S = {})
  BY FS_AddElement, FS_RemoveElement, FS_CardinalityType, FS_EmptySet

\* What a step of one thread does to the three sets, by its old and new
\* program counter.
LEMMA HoldersMove ==
    ASSUME LockTypeOK, NEW t \in Threads, NEW label \in Pcs, Goto(t, label)
    PROVE  /\ Readers' = IF label = "reading" THEN Readers \cup {t}
                                              ELSE Readers \ {t}
           /\ Writers' = IF label \in {"w_dec", "writing"}
                         THEN Writers \cup {t} ELSE Writers \ {t}
           /\ Announced' = IF label \in {"w_cas", "w_dec"}
                           THEN Announced \cup {t} ELSE Announced \ {t}
           /\ pc' \in [Threads -> Pcs]
           /\ pc'[t] = label
  BY DEF LockTypeOK, Goto, Readers, Writers, Announced, Pcs

\* The initial state satisfies the invariant.
LEMMA InitLockIInv == LockInit => LockIInv
  <1> SUFFICES ASSUME LockInit PROVE LockIInv
    OBVIOUS
  <1>1. Readers = {} /\ Writers = {} /\ Announced = {}
    BY DEF LockInit, Readers, Writers, Announced
  <1>2. Cardinality({}) = 0
    BY FS_EmptySet
  <1>3. LockTypeOK
    BY DEF LockInit, LockTypeOK, Pcs, RW_LOCK_FREE
  <1>4. QED
    BY <1>1, <1>2, <1>3 DEF LockIInv, MutualExclusion, CountMatchesHolders,
       WaitNumMatchesAnnounced, ExpectsNoWriter, LockInit, RW_LOCK_FREE

\* A step that moves no thread into or out of the three sets.
LEMMA QuietStep ==
    ASSUME LockIInv, NEW t \in Threads,
           ReadLock(t) \/ ReadCheck(t) \/ ReadReload(t) \/ ReadCasFail(t)
    PROVE  LockIInv' /\ Readers' = Readers /\ Writers' = Writers
  <1>1. PICK label \in {"r_check", "r_reload", "r_cas"} : Goto(t, label)
    BY DEF ReadLock, ReadCheck, ReadReload, ReadCasFail
  <1>2. t \notin Readers /\ t \notin Writers /\ t \notin Announced
    BY DEF ReadLock, ReadCheck, ReadReload, ReadCasFail, Readers, Writers,
       Announced
  <1>3. /\ Readers' = Readers /\ Writers' = Writers
        /\ Announced' = Announced /\ pc' \in [Threads -> Pcs]
    BY <1>1, <1>2, HoldersMove DEF LockIInv, Pcs
  <1>4. UNCHANGED <<lock_num, write_lock_wait_num>>
    BY DEF ReadLock, ReadCheck, ReadReload, ReadCasFail
  <1>5. seen' \in [Threads -> Nat \cup {WRITE_EXCLUSIVE}]
    BY DEF LockIInv, LockTypeOK, ReadLock, ReadCheck, ReadReload, ReadCasFail
  <1>6. ExpectsNoWriter'
    BY DEF LockIInv, LockTypeOK, ExpectsNoWriter, ReadLock, ReadCheck, ReadReload,
       ReadCasFail, Goto, MustWait, RW_LOCK_FREE, WRITE_EXCLUSIVE
  <1>7. QED
    BY <1>3, <1>4, <1>5, <1>6 DEF LockIInv, LockTypeOK, MutualExclusion,
       CountMatchesHolders, WaitNumMatchesAnnounced

\* A reader enters: the exchange found the word it had checked, which was no
\* writer's.
LEMMA ReadCasOkStep ==
    ASSUME LockIInv, NEW t \in Threads, ReadCasOk(t)
    PROVE  /\ LockIInv' /\ Readers' = Readers \cup {t} /\ Writers' = Writers
           /\ t \notin Readers /\ Writers = {}
  <1>1. t \notin Readers /\ t \notin Writers /\ t \notin Announced
    BY DEF ReadCasOk, Readers, Writers, Announced
  <1>2. /\ Readers' = Readers \cup {t} /\ Writers' = Writers
        /\ Announced' = Announced /\ pc' \in [Threads -> Pcs]
    BY <1>1, HoldersMove DEF LockIInv, ReadCasOk, Pcs
  <1>3. Writers = {}
    BY DEF ReadCasOk, LockIInv, CountMatchesHolders, ExpectsNoWriter, RW_LOCK_FREE,
       WRITE_EXCLUSIVE
  <1>4. lock_num = Cardinality(Readers)
    BY <1>3 DEF LockIInv, CountMatchesHolders
  <1>5. lock_num' = Cardinality(Readers')
    BY <1>1, <1>2, <1>4, HoldersFinite, CardinalityStep DEF ReadCasOk
  <1>6. lock_num' \in Nat
    BY <1>5, HoldersFinite, CardinalityStep
  <1>7. UNCHANGED <<write_lock_wait_num, seen>>
    BY DEF ReadCasOk
  <1>8. ExpectsNoWriter'
    BY <1>7 DEF LockIInv, LockTypeOK, ExpectsNoWriter, ReadCasOk, Goto
  <1>9. QED
    BY <1>1, <1>2, <1>3, <1>5, <1>6, <1>7, <1>8 DEF LockIInv, LockTypeOK,
       MutualExclusion, CountMatchesHolders, WaitNumMatchesAnnounced

\* A reader leaves: it was counted, and no writer can be inside.
LEMMA ReadUnlockStep ==
    ASSUME LockIInv, NEW t \in Threads, ReadUnlock(t)
    PROVE  /\ LockIInv' /\ Readers' = Readers \ {t} /\ Writers' = Writers
           /\ t \in Readers
  <1>1. t \in Readers /\ t \notin Writers /\ t \notin Announced
    BY DEF ReadUnlock, Readers, Writers, Announced
  <1>2. /\ Readers' = Readers \ {t} /\ Writers' = Writers
        /\ Announced' = Announced /\ pc' \in [Threads -> Pcs]
    BY <1>1, HoldersMove DEF LockIInv, ReadUnlock, Pcs
  <1>3. Writers = {}
    BY <1>1 DEF LockIInv, MutualExclusion
  <1>4. lock_num = Cardinality(Readers)
    BY <1>3 DEF LockIInv, CountMatchesHolders
  <1>5. lock_num' = Cardinality(Readers')
    BY <1>1, <1>2, <1>4, HoldersFinite, CardinalityStep DEF ReadUnlock
  <1>6. lock_num' \in Nat
    BY <1>5, HoldersFinite, CardinalityStep
  <1>7. UNCHANGED <<write_lock_wait_num, seen>>
    BY DEF ReadUnlock
  <1>8. ExpectsNoWriter'
    BY <1>7 DEF LockIInv, LockTypeOK, ExpectsNoWriter, ReadUnlock, Goto
  <1>9. QED
    BY <1>1, <1>2, <1>3, <1>5, <1>6, <1>7, <1>8 DEF LockIInv, LockTypeOK,
       MutualExclusion, CountMatchesHolders, WaitNumMatchesAnnounced

\* A writer announces itself.
LEMMA WriteLockStep ==
    ASSUME LockIInv, NEW t \in Threads, WriteLock(t)
    PROVE  LockIInv' /\ Readers' = Readers /\ Writers' = Writers
  <1>1. t \notin Readers /\ t \notin Writers /\ t \notin Announced
    BY DEF WriteLock, Readers, Writers, Announced
  <1>2. /\ Readers' = Readers /\ Writers' = Writers
        /\ Announced' = Announced \cup {t} /\ pc' \in [Threads -> Pcs]
    BY <1>1, HoldersMove DEF LockIInv, WriteLock, Pcs
  <1>3. write_lock_wait_num' = Cardinality(Announced')
    BY <1>1, <1>2, HoldersFinite, CardinalityStep
       DEF WriteLock, LockIInv, WaitNumMatchesAnnounced
  <1>4. write_lock_wait_num' \in Nat
    BY <1>3, HoldersFinite, CardinalityStep
  <1>5. UNCHANGED <<lock_num, seen>>
    BY DEF WriteLock
  <1>6. ExpectsNoWriter'
    BY <1>5 DEF LockIInv, LockTypeOK, ExpectsNoWriter, WriteLock, Goto
  <1>7. QED
    BY <1>2, <1>3, <1>4, <1>5, <1>6 DEF LockIInv, LockTypeOK, MutualExclusion,
       CountMatchesHolders, WaitNumMatchesAnnounced

\* A writer enters: the word was free, so nobody is inside.
LEMMA WriteCasStep ==
    ASSUME LockIInv, NEW t \in Threads, WriteCas(t)
    PROVE  /\ LockIInv' /\ Readers' = Readers /\ Writers' = {t}
           /\ Readers = {} /\ Writers = {}
  <1>1. t \notin Readers /\ t \notin Writers /\ t \in Announced
    BY DEF WriteCas, Readers, Writers, Announced
  <1>2. Writers = {}
    BY DEF WriteCas, LockIInv, CountMatchesHolders, RW_LOCK_FREE, WRITE_EXCLUSIVE
  <1>3. Readers = {}
    BY <1>2, HoldersFinite, CardinalityStep
       DEF WriteCas, LockIInv, CountMatchesHolders, RW_LOCK_FREE
  <1>4. /\ Readers' = Readers /\ Writers' = {t}
        /\ Announced' = Announced /\ pc' \in [Threads -> Pcs]
    BY <1>1, <1>2, HoldersMove DEF LockIInv, WriteCas, Pcs
  <1>5. ExpectsNoWriter'
    BY DEF LockIInv, LockTypeOK, ExpectsNoWriter, WriteCas, Goto
  <1>6. QED
    BY <1>2, <1>3, <1>4, <1>5 DEF LockIInv, LockTypeOK, MutualExclusion,
       CountMatchesHolders, WaitNumMatchesAnnounced, WriteCas

\* A writer that is inside takes back its announcement.
LEMMA WriteDecStep ==
    ASSUME LockIInv, NEW t \in Threads, WriteDec(t)
    PROVE  LockIInv' /\ Readers' = Readers /\ Writers' = Writers
  <1>1. t \notin Readers /\ t \in Writers /\ t \in Announced
    BY DEF WriteDec, Readers, Writers, Announced
  <1>2. /\ Readers' = Readers /\ Writers' = Writers
        /\ Announced' = Announced \ {t} /\ pc' \in [Threads -> Pcs]
    <2>1. LockTypeOK /\ Goto(t, "writing") /\ "writing" \in Pcs
      BY DEF LockIInv, WriteDec, Pcs
    <2>2. /\ Readers' = Readers \ {t} /\ Writers' = Writers \cup {t}
          /\ Announced' = Announced \ {t} /\ pc' \in [Threads -> Pcs]
      BY <2>1, HoldersMove
    <2> QED BY <1>1, <2>2
  <1>3. write_lock_wait_num' = Cardinality(Announced')
    BY <1>1, <1>2, HoldersFinite, CardinalityStep
       DEF WriteDec, LockIInv, WaitNumMatchesAnnounced
  <1>4. write_lock_wait_num' \in Nat
    BY <1>3, HoldersFinite, CardinalityStep
  <1>5. UNCHANGED <<lock_num, seen>>
    BY DEF WriteDec
  <1>6. ExpectsNoWriter'
    BY <1>5 DEF LockIInv, LockTypeOK, ExpectsNoWriter, WriteDec, Goto
  <1>7. QED
    BY <1>2, <1>3, <1>4, <1>5, <1>6 DEF LockIInv, LockTypeOK, MutualExclusion,
       CountMatchesHolders, WaitNumMatchesAnnounced

\* A writer leaves: it was alone, so the word becomes free.
LEMMA WriteUnlockStep ==
    ASSUME LockIInv, NEW t \in Threads, WriteUnlock(t)
    PROVE  /\ LockIInv' /\ Readers' = Readers /\ Writers' = Writers \ {t}
           /\ t \in Writers
  <1>1. t \notin Readers /\ t \in Writers /\ t \notin Announced
    BY DEF WriteUnlock, Readers, Writers, Announced
  <1>2. Readers = {} /\ Writers = {t}
    BY <1>1 DEF LockIInv, MutualExclusion
  <1>3. /\ Readers' = {} /\ Writers' = {}
        /\ Announced' = Announced /\ pc' \in [Threads -> Pcs]
    BY <1>1, <1>2, HoldersMove DEF LockIInv, WriteUnlock, Pcs
  <1>4. lock_num' = 0
    BY <1>2 DEF WriteUnlock, LockIInv, CountMatchesHolders, WRITE_EXCLUSIVE
  <1>5. Cardinality({}) = 0
    BY FS_EmptySet
  <1>6. UNCHANGED <<write_lock_wait_num, seen>>
    BY DEF WriteUnlock
  <1>7. ExpectsNoWriter'
    BY <1>6 DEF LockIInv, LockTypeOK, ExpectsNoWriter, WriteUnlock, Goto
  <1>8. QED
    BY <1>1, <1>2, <1>3, <1>4, <1>5, <1>6, <1>7 DEF LockIInv, LockTypeOK,
       MutualExclusion, CountMatchesHolders, WaitNumMatchesAnnounced

\* The invariant is inductive: one case per action.
LEMMA NextLockIInv == LockIInv /\ [LockNext]_lockVars => LockIInv'
  <1> SUFFICES ASSUME LockIInv, [LockNext]_lockVars PROVE LockIInv'
    OBVIOUS
  <1>1. CASE UNCHANGED lockVars
    BY <1>1 DEF lockVars, LockIInv, LockTypeOK, MutualExclusion, CountMatchesHolders,
       WaitNumMatchesAnnounced, ExpectsNoWriter, Readers, Writers, Announced
  <1>2. ASSUME NEW t \in Threads, Reader(t) PROVE LockIInv'
    BY <1>2, QuietStep, ReadCasOkStep, ReadUnlockStep DEF Reader
  <1>3. ASSUME NEW t \in Threads, Writer(t) PROVE LockIInv'
    BY <1>3, WriteLockStep, WriteCasStep, WriteDecStep, WriteUnlockStep
       DEF Writer
  <1>4. QED
    BY <1>1, <1>2, <1>3 DEF LockNext

\* Every reachable state satisfies the inductive invariant.
LEMMA SpecLockIInv == LockSpec => []LockIInv
  BY InitLockIInv, NextLockIInv, PTL DEF LockSpec

\* Who is inside and who waits to write is what lock_num_ and
\* write_lock_wait_num_ say, for any number of threads.  The second, an unsigned
\* counter in WriteLock, never goes below zero.
THEOREM LockSound == LockSpec => []LockInv
  <1>1. LockIInv => LockInv
    BY DEF LockIInv, LockInv
  <1>2. QED
    BY <1>1, SpecLockIInv, PTL

\* A WriteLockGuard excludes all other guards, for any number of threads
\* interleaving the loads and exchanges of ReadLock and WriteLock.
THEOREM Exclusion == LockSpec => []MutualExclusion
  <1>1. LockIInv => MutualExclusion
    BY DEF LockIInv
  <1>2. QED
    BY <1>1, SpecLockIInv, PTL

\* Every step of ReadLock, WriteLock and the unlocks is a step of the
\* abstract lock or leaves its holders alone.
THEOREM Refinement == LockSpec => ImplementsRWLock
  <1>1. LockInit => Abstract!Init
    BY DEF LockInit, Abstract!Init, Readers, Writers
  <1>2. LockIInv /\ [LockNext]_lockVars => [Abstract!Next]_(Abstract!vars)
    <2> SUFFICES ASSUME LockIInv, [LockNext]_lockVars
                 PROVE  [Abstract!Next]_(Abstract!vars)
      OBVIOUS
    <2>1. CASE UNCHANGED lockVars
      BY <2>1 DEF lockVars, Abstract!vars, Readers, Writers
    <2>2. ASSUME NEW t \in Threads, Reader(t)
          PROVE  [Abstract!Next]_(Abstract!vars)
      <3>1. CASE ReadCasOk(t)
        BY <3>1, ReadCasOkStep DEF Abstract!Next, Abstract!AcquireRead
      <3>2. CASE ReadUnlock(t)
        BY <3>2, ReadUnlockStep DEF Abstract!Next, Abstract!ReleaseRead
      <3>3. CASE ReadLock(t) \/ ReadCheck(t) \/ ReadReload(t) \/ ReadCasFail(t)
        BY <3>3, QuietStep DEF Abstract!vars
      <3>4. QED
        BY <2>2, <3>1, <3>2, <3>3 DEF Reader
    <2>3. ASSUME NEW t \in Threads, Writer(t)
          PROVE  [Abstract!Next]_(Abstract!vars)
      <3>1. CASE WriteCas(t)
        BY <3>1, WriteCasStep DEF Abstract!Next, Abstract!AcquireWrite
      <3>2. CASE WriteUnlock(t)
        BY <3>2, WriteUnlockStep DEF Abstract!Next, Abstract!ReleaseWrite
      <3>3. CASE WriteLock(t)
        BY <3>3, WriteLockStep DEF Abstract!vars
      <3>4. CASE WriteDec(t)
        BY <3>4, WriteDecStep DEF Abstract!vars
      <3>5. QED
        BY <2>3, <3>1, <3>2, <3>3, <3>4 DEF Writer
    <2>4. QED
      BY <2>1, <2>2, <2>3 DEF LockNext
  <1>3. QED
    BY <1>1, <1>2, SpecLockIInv, PTL DEF LockSpec, ImplementsRWLock, Abstract!Spec

-----------------------------------------------------------------------------
(* BoundedQueue and ThreadPool *)

Slots == 0 .. PoolSize - 1

Claimed(c) == epc[c] \in {"store", "commit"}

\* The claims are different positions between commit_ and tail_, and what has
\* been stored stays until it is published.
ClaimInv ==
    /\ \A c \in Producers : epc[c] = "cas" => old_tail[c] <= tail
    /\ \A c \in Producers : Claimed(c) => commit <= old_tail[c] /\ old_tail[c] < tail
    /\ \A c, d \in Producers :
         Claimed(c) /\ Claimed(d) /\ old_tail[c] = old_tail[d] => c = d
    /\ \A c \in Producers : epc[c] = "commit" => pool[GetIndex(old_tail[c])] = c

\* Every position that is published holds an element.
PublishedInv ==
    \A n \in head + 1 .. commit - 1 : pool[GetIndex(n)] \in Producers

\* What a consumer has copied is in the slot, as long as head_ has not moved.
ConsumerInv ==
    \A w \in Consumers :
        /\ dpc[w] \in {"copy", "cas"} => old_head[w] <= head
        /\ dpc[w] = "cas" => old_head[w] + 1 < commit
        /\ dpc[w] = "cas" /\ old_head[w] = head => element[w] = pool[GetIndex(head + 1)]
        /\ dpc[w] = "got" => element[w] \in Producers

QueueIInv == QueueTypeOK /\ ClaimInv /\ PublishedInv /\ ConsumerInv

IInv == TypeOK /\ QueueIInv

-----------------------------------------------------------------------------
(* Positions and slots *)

\* GetIndex yields a slot of the pool.
LEMMA IndexRange == \A n \in Nat : GetIndex(n) \in Slots
  BY QueueSizeAssumption DEF GetIndex, Slots, PoolSize

\* Two positions of one slot are a whole pool apart.
LEMMA SameSlot ==
  ASSUME NEW m \in Nat, NEW n \in Nat, GetIndex(m) = GetIndex(n), m < n
  PROVE  m + PoolSize <= n
  <1> DEFINE p == m \div PoolSize
             q == n \div PoolSize
             i == m % PoolSize
  <1>1. PoolSize \in Nat \ {0}
    BY QueueSizeAssumption DEF PoolSize
  <1>2. /\ p \in Nat /\ q \in Nat /\ i \in Nat
        /\ m = PoolSize * p + i /\ n = PoolSize * q + i
    BY <1>1 DEF GetIndex
  <1> HIDE DEF p, q, i
  <1>3. PoolSize * p < PoolSize * q
    BY <1>1, <1>2
  <1>4. p < q
    BY <1>1, <1>2, <1>3
  <1>5. PoolSize * p + PoolSize <= PoolSize * q
    BY <1>1, <1>2, <1>4
  <1>6. QED
    BY <1>1, <1>2, <1>5

\* Positions less than a pool apart are different slots.
LEMMA Distinct ==
  ASSUME NEW m \in Nat, NEW n \in Nat, GetIndex(m) = GetIndex(n),
         m < n + QueueSize + 2, n < m + QueueSize + 2
  PROVE  m = n
  BY SameSlot, QueueSizeAssumption DEF PoolSize

\* A whole pool on is the same slot again.
LEMMA Wrap ==
  ASSUME NEW n \in Nat
  PROVE  GetIndex(n + QueueSize + 2) = GetIndex(n)
  <1> DEFINE m == n + PoolSize
             p == n \div PoolSize
             q == m \div PoolSize
             i == n % PoolSize
             j == m % PoolSize
  <1>1. PoolSize \in Nat \ {0} /\ m \in Nat
    BY QueueSizeAssumption DEF PoolSize
  <1>2. /\ p \in Nat /\ q \in Nat /\ i \in 0 .. PoolSize - 1 /\ j \in 0 .. PoolSize - 1
        /\ n = PoolSize * p + i /\ m = PoolSize * q + j
    <2> HIDE DEF m
    <2>1. QED
      BY <1>1
  <1>3. m = n + PoolSize
    OBVIOUS
  <1> HIDE DEF m, p, q, i, j
  <1>4. PoolSize * (p + 1) + i = PoolSize * q + j
    BY <1>1, <1>2, <1>3
  <1>5. CASE q < p + 1
    <2>1. PoolSize * q + PoolSize <= PoolSize * (p + 1)
      BY <1>1, <1>2, <1>5
    <2>2. QED
      BY <1>1, <1>2, <1>4, <2>1
  <1>6. CASE q > p + 1
    <2>1. PoolSize * (p + 1) + PoolSize <= PoolSize * q
      BY <1>1, <1>2, <1>6
    <2>2. QED
      BY <1>1, <1>2, <1>4, <2>1
  <1>7. CASE q = p + 1
    <2>1. i = j
      BY <1>1, <1>2, <1>4, <1>7
    <2>2. n + QueueSize + 2 = m
      BY QueueSizeAssumption DEF PoolSize, m
    <2>3. QED
      BY <2>1, <2>2 DEF GetIndex, i, j
  <1>8. QED
    BY <1>2, <1>5, <1>6, <1>7

-----------------------------------------------------------------------------
(* Enqueue *)

\* Enqueue loads tail_.
LEMMA EnqLoadTailInv ==
  ASSUME QueueIInv, NEW c \in Producers, EnqLoadTail(c)
  PROVE  QueueIInv'
  <1> USE DEF EnqLoadTail, EGoto, ringVars, deqVars, waitVars, QueueIInv
  <1>1. QueueTypeOK' /\ PublishedInv' /\ ConsumerInv'
    BY DEF QueueTypeOK, PublishedInv, ConsumerInv
  <1>2. /\ old_tail'[c] = tail /\ epc'[c] = "cas"
        /\ \A d \in Producers \ {c} : epc'[d] = epc[d] /\ old_tail'[d] = old_tail[d]
    BY DEF QueueTypeOK
  <1>3. ClaimInv'
    BY <1>2 DEF QueueTypeOK, ClaimInv, Claimed
  <1>4. QED
    BY <1>1, <1>3

\* Enqueue finds the queue full and returns false.
LEMMA EnqFullInv ==
  ASSUME QueueIInv, NEW c \in Producers, EnqFull(c)
  PROVE  QueueIInv'
  <1> USE DEF EnqFull, EnqReturn, EGoto, ringVars, deqVars, waitVars, QueueIInv
  <1>1. QueueTypeOK' /\ PublishedInv' /\ ConsumerInv'
    BY DEF QueueTypeOK, PublishedInv, ConsumerInv
  <1>2. ClaimInv'
    BY DEF QueueTypeOK, ClaimInv, Claimed
  <1>3. QED
    BY <1>1, <1>2

\* The exchange on tail_ succeeds or fails.
LEMMA EnqClaimInv ==
  ASSUME QueueIInv, NEW c \in Producers, EnqClaim(c)
  PROVE  QueueIInv'
  <1> USE QueueSizeAssumption DEF EnqClaim, TailUnmoved, EGoto, deqVars, waitVars, QueueIInv
  <1>1. CASE TailUnmoved(c)
    <2>1. /\ tail = old_tail[c] /\ tail' = tail + 1 /\ old_tail' = old_tail
          /\ epc[c] = "cas" /\ epc' = [epc EXCEPT ![c] = "store"]
          /\ UNCHANGED <<head, commit, pool, deqVars, waitVars>>
      BY <1>1
    <2>2. tail' - head <= QueueSize + 1
      <3>1. tail + 1 # head + QueueSize + 2
        BY <2>1, Wrap DEF NoRoom, QueueTypeOK
      <3>2. tail - head <= QueueSize + 1 /\ tail \in Nat /\ head \in Nat
        BY DEF QueueTypeOK
      <3> HIDE DEF EnqClaim, QueueIInv
      <3>3. QED
        BY <2>1, <3>1, <3>2
    <2>3. QueueTypeOK'
      <3>1. head < commit /\ commit <= tail' /\ tail' \in Nat
        BY <2>1 DEF QueueTypeOK
      <3>2. QED
        BY <2>1, <2>2, <3>1 DEF QueueTypeOK
    <2>4. /\ epc'[c] = "store" /\ \A d \in Producers \ {c} : epc'[d] = epc[d]
      BY <2>1 DEF QueueTypeOK
    <2>5. ClaimInv'
      <3>1. ~Claimed(c) /\ \A d \in Producers \ {c} : Claimed(d)' <=> Claimed(d)
        BY <2>1, <2>4 DEF Claimed
      <3>2. \A d \in Producers : old_tail[d] \in Nat
        BY DEF QueueTypeOK
      <3>3. \A d \in Producers : Claimed(d)' => commit <= old_tail[d] /\ old_tail[d] < tail'
        BY <2>1, <3>1, <3>2 DEF QueueTypeOK, ClaimInv
      <3>4. \A d, e \in Producers :
              Claimed(d)' /\ Claimed(e)' /\ old_tail[d] = old_tail[e] => d = e
        BY <2>1, <3>1, <3>2 DEF QueueTypeOK, ClaimInv
      <3>5. \A d \in Producers : epc'[d] = "cas" => old_tail[d] <= tail'
        BY <2>1, <2>4, <3>2 DEF QueueTypeOK, ClaimInv
      <3>6. \A d \in Producers : epc'[d] = "commit" => pool[GetIndex(old_tail[d])] = d
        BY <2>4 DEF ClaimInv
      <3>7. QED
        BY <2>1, <3>3, <3>4, <3>5, <3>6 DEF ClaimInv
    <2>6. PublishedInv' /\ ConsumerInv'
      BY <2>1 DEF PublishedInv, ConsumerInv
    <2>7. QED
      BY <2>3, <2>5, <2>6
  <1>2. CASE ~TailUnmoved(c)
    <2>1. /\ old_tail' = [old_tail EXCEPT ![c] = tail] /\ epc[c] = "cas"
          /\ UNCHANGED <<epc, head, tail, commit, pool, deqVars, waitVars>>
      BY <1>2
    <2>2. QueueTypeOK' /\ PublishedInv' /\ ConsumerInv'
      BY <2>1 DEF QueueTypeOK, PublishedInv, ConsumerInv
    <2>3. old_tail'[c] = tail /\ \A d \in Producers \ {c} : old_tail'[d] = old_tail[d]
      BY <2>1 DEF QueueTypeOK
    <2>4. ClaimInv'
      BY <2>1, <2>3 DEF QueueTypeOK, ClaimInv, Claimed
    <2>5. QED
      BY <2>2, <2>4
  <1>3. QED
    BY <1>1, <1>2

\* A claimed position shares its slot with no published one and no other claim.
LEMMA ClaimAlone ==
  ASSUME QueueIInv, NEW c \in Producers, Claimed(c), NEW n \in Nat, head < n, n < tail,
         GetIndex(n) = GetIndex(old_tail[c])
  PROVE  n = old_tail[c]
  BY Distinct, QueueSizeAssumption DEF QueueIInv, QueueTypeOK, ClaimInv

\* An assignment leaves what is published alone.
LEMMA StoreElsewhere ==
  ASSUME QueueIInv, NEW c \in Producers, EnqStore(c), NEW n \in Nat, head < n, n < commit
  PROVE  pool'[GetIndex(n)] = pool[GetIndex(n)]
  <1>1. Claimed(c) /\ pool' = [pool EXCEPT ![GetIndex(old_tail[c])] = c]
    BY DEF EnqStore, Claimed
  <1>2. n < tail /\ n # old_tail[c]
    BY <1>1 DEF QueueIInv, QueueTypeOK, ClaimInv
  <1>3. GetIndex(n) \in Slots /\ GetIndex(n) # GetIndex(old_tail[c])
    BY <1>1, <1>2, ClaimAlone, IndexRange
  <1>4. QED
    BY <1>1, <1>3 DEF QueueIInv, QueueTypeOK, Slots

\* The element is stored into the claimed slot.
LEMMA EnqStoreInv ==
  ASSUME QueueIInv, NEW c \in Producers, EnqStore(c)
  PROVE  QueueIInv'
  <1> DEFINE i == GetIndex(old_tail[c])
  <1>1. /\ epc[c] = "store" /\ Claimed(c)
        /\ pool' = [pool EXCEPT ![i] = c] /\ epc' = [epc EXCEPT ![c] = "commit"]
        /\ UNCHANGED <<head, tail, commit, old_tail, deqVars, waitVars>>
    BY DEF EnqStore, EGoto, Claimed
  <1>2. /\ old_tail[c] \in Nat /\ i \in Slots /\ commit <= old_tail[c]
        /\ head \in Nat /\ commit \in Nat /\ tail \in Nat /\ head < commit /\ commit <= tail
    BY <1>1, IndexRange DEF QueueIInv, QueueTypeOK, ClaimInv
  <1>3. QueueTypeOK'
    BY <1>1, <1>2 DEF QueueIInv, QueueTypeOK, Slots, deqVars, waitVars
  <1>4. /\ epc'[c] = "commit" /\ \A d \in Producers \ {c} : epc'[d] = epc[d]
        /\ pool'[i] = c /\ \A j \in Slots \ {i} : pool'[j] = pool[j]
    BY <1>1, <1>2 DEF QueueIInv, QueueTypeOK, Slots
  <1>5. ClaimInv'
    <2>1. \A d \in Producers : Claimed(d)' => Claimed(d)
      BY <1>1, <1>4 DEF Claimed
    <2>2. ASSUME NEW d \in Producers, epc'[d] = "commit"
          PROVE  pool'[GetIndex(old_tail[d])] = d
      <3>1. CASE d = c
        BY <1>4, <3>1
      <3>2. CASE d # c
        <4>1. Claimed(d) /\ pool[GetIndex(old_tail[d])] = d /\ old_tail[d] # old_tail[c]
          BY <1>1, <1>4, <2>2, <3>2 DEF QueueIInv, ClaimInv, Claimed
        <4>2. old_tail[d] \in Nat /\ head < old_tail[d] /\ old_tail[d] < tail
          BY <1>2, <4>1 DEF QueueIInv, QueueTypeOK, ClaimInv
        <4>3. GetIndex(old_tail[d]) \in Slots \ {i}
          BY <1>1, <4>1, <4>2, ClaimAlone, IndexRange
        <4>4. QED
          BY <1>4, <4>1, <4>3
      <3>3. QED
        BY <3>1, <3>2
    <2>3. \A d \in Producers : epc'[d] = "cas" => epc[d] = "cas"
      BY <1>4
    <2>4. QED
      BY <1>1, <2>1, <2>2, <2>3 DEF QueueIInv, ClaimInv
  <1>6. \A n \in Nat : head < n /\ n < commit => pool'[GetIndex(n)] = pool[GetIndex(n)]
    BY StoreElsewhere
  <1>7. PublishedInv'
    BY <1>1, <1>2, <1>6 DEF QueueIInv, PublishedInv
  <1>8. ConsumerInv'
    <2> SUFFICES ASSUME NEW w \in Consumers, dpc[w] = "cas", old_head[w] = head
                 PROVE  pool'[GetIndex(head + 1)] = pool[GetIndex(head + 1)]
      BY <1>1 DEF QueueIInv, ConsumerInv, deqVars
    <2>1. head + 1 < commit
      BY DEF QueueIInv, ConsumerInv
    <2>2. QED
      BY <1>2, <1>6, <2>1
  <1>9. QED
    BY <1>3, <1>5, <1>7, <1>8 DEF QueueIInv

\* The exchange on commit_ publishes the slot, in the order of the claims.
LEMMA EnqCommitInv ==
  ASSUME QueueIInv, NEW c \in Producers, EnqCommit(c)
  PROVE  QueueIInv'
  <1>1. /\ epc[c] = "commit" /\ Claimed(c) /\ commit = old_tail[c] /\ commit' = commit + 1
        /\ epc' = [epc EXCEPT ![c] = "notify"]
        /\ UNCHANGED <<head, tail, pool, old_tail, deqVars, waitVars>>
    BY DEF EnqCommit, CommitTurn, EGoto, Claimed
  <1>2. /\ head \in Nat /\ commit \in Nat /\ tail \in Nat /\ head < commit /\ commit < tail
        /\ \A d \in Producers : old_tail[d] \in Nat
    BY <1>1 DEF QueueIInv, QueueTypeOK, ClaimInv
  <1>3. QueueTypeOK'
    <2>1. commit' \in Nat /\ head < commit' /\ commit' <= tail
      BY <1>1, <1>2
    <2>2. QED
      BY <1>1, <2>1 DEF QueueIInv, QueueTypeOK, deqVars, waitVars
  <1>4. \A d \in Producers : /\ Claimed(d)' => Claimed(d) /\ d # c
                             /\ epc'[d] = "cas" => epc[d] = "cas"
                             /\ epc'[d] = "commit" => epc[d] = "commit"
    BY <1>1 DEF QueueIInv, QueueTypeOK, Claimed
  <1>5. ClaimInv'
    <2>1. ASSUME NEW d \in Producers, Claimed(d)'
          PROVE  commit' <= old_tail[d] /\ old_tail[d] < tail
      <3>1. commit <= old_tail[d] /\ old_tail[d] < tail /\ old_tail[d] # old_tail[c]
        BY <1>1, <1>4, <2>1 DEF QueueIInv, ClaimInv
      <3>2. QED
        BY <1>1, <1>2, <3>1
    <2>2. QED
      BY <1>1, <1>4, <2>1 DEF QueueIInv, ClaimInv
  <1>6. PublishedInv'
    <2> SUFFICES ASSUME NEW n \in head + 1 .. commit' - 1 PROVE pool[GetIndex(n)] \in Producers
      BY <1>1 DEF PublishedInv
    <2>1. n \in head + 1 .. commit - 1 \/ n = commit
      BY <1>1, <1>2
    <2>2. pool[GetIndex(commit)] = c
      BY <1>1 DEF QueueIInv, ClaimInv
    <2>3. QED
      BY <2>1, <2>2 DEF QueueIInv, PublishedInv
  <1>7. ConsumerInv'
    <2>1. \A w \in Consumers : old_head[w] \in Nat
      BY DEF QueueIInv, QueueTypeOK
    <2>2. \A w \in Consumers : old_head[w] + 1 < commit => old_head[w] + 1 < commit'
      BY <1>1, <1>2, <2>1
    <2>3. QED
      BY <1>1, <2>2 DEF QueueIInv, ConsumerInv, deqVars
  <1>8. QED
    BY <1>3, <1>5, <1>6, <1>7 DEF QueueIInv

\* Enqueue notifies a waiter.
LEMMA EnqNotifyInv ==
  ASSUME QueueIInv, NEW c \in Producers, EnqNotify(c)
  PROVE  QueueIInv'
  <1> USE DEF EnqNotify, EnqReturn, Waiting, EGoto, DGoto, ringVars, waitVars, QueueIInv
  <1>1. QueueTypeOK' /\ PublishedInv'
    BY DEF QueueTypeOK, PublishedInv
  <1>2. ClaimInv'
    BY DEF QueueTypeOK, ClaimInv, Claimed
  <1>3. ConsumerInv'
    BY DEF QueueTypeOK, ConsumerInv
  <1>4. QED
    BY <1>1, <1>2, <1>3

-----------------------------------------------------------------------------
(* Dequeue *)

\* A worker looks for an element, or waits.
LEMMA DeqWaitInv ==
  ASSUME QueueIInv, NEW w \in Consumers,
         \/ DeqLoadHead(w) \/ DeqEmpty(w) \/ EmptyWait(w) \/ WaitOver(w) \/ WaitBroken(w)
         \/ DeqUsed(w)
  PROVE  QueueIInv'
  <1> USE DEF DGoto, ringVars, enqVars, waitVars, QueueIInv
  <1>1. ClaimInv'
    BY DEF DeqLoadHead, DeqEmpty, EmptyWait, WaitOver, WaitBroken, DeqUsed, ClaimInv, Claimed
  <1>2. PublishedInv'
    BY DEF DeqLoadHead, DeqEmpty, EmptyWait, WaitOver, WaitBroken, DeqUsed, PublishedInv
  <1>3. QueueTypeOK' /\ ConsumerInv'
    <2> USE DEF QueueTypeOK, ConsumerInv
    <2>1. CASE DeqLoadHead(w)
      BY <2>1 DEF DeqLoadHead
    <2>2. CASE DeqEmpty(w)
      BY <2>2 DEF DeqEmpty, DeqReturn
    <2>3. CASE EmptyWait(w)
      BY <2>3 DEF EmptyWait
    <2>4. CASE WaitOver(w)
      BY <2>4 DEF WaitOver
    <2>5. CASE WaitBroken(w)
      BY <2>5 DEF WaitBroken
    <2>6. CASE DeqUsed(w)
      BY <2>6 DEF DeqUsed
    <2>7. QED
      BY <2>1, <2>2, <2>3, <2>4, <2>5, <2>6
  <1>4. QED
    BY <1>1, <1>2, <1>3

\* No producer assigns to the slot after head_ while it is published.
LEMMA NobodyStores ==
  ASSUME QueueIInv, head + 1 < commit
  PROVE  ~Storing(head + 1)
  <1> SUFFICES ASSUME NEW c \in Producers, epc[c] = "store",
                      GetIndex(old_tail[c]) = GetIndex(head + 1)
               PROVE  FALSE
    BY DEF Storing
  <1>1. Claimed(c) /\ commit <= old_tail[c]
    BY DEF QueueIInv, ClaimInv, Claimed
  <1>2. head + 1 \in Nat /\ head + 1 < tail /\ head < head + 1
    BY DEF QueueIInv, QueueTypeOK
  <1>3. head + 1 = old_tail[c]
    BY <1>1, <1>2, ClaimAlone
  <1>4. QED
    BY <1>1, <1>3 DEF QueueIInv, QueueTypeOK

\* A worker copies the slot after the head it has loaded.
LEMMA DeqCopyInv ==
  ASSUME QueueIInv, NEW w \in Consumers, DeqCopy(w)
  PROVE  QueueIInv'
  <1>1. PICK v \in Producers \cup {None} :
          /\ Storing(old_head[w] + 1) \/ v = pool[GetIndex(old_head[w] + 1)]
          /\ element' = [element EXCEPT ![w] = v]
    BY DEF DeqCopy
  <1>2. /\ dpc[w] = "copy" /\ old_head[w] + 1 # commit /\ dpc' = [dpc EXCEPT ![w] = "cas"]
        /\ UNCHANGED <<ringVars, old_head, enqVars, waitVars>>
    BY DEF DeqCopy, DGoto, NoElement
  <1> USE DEF ringVars, enqVars, waitVars
  <1>3. QueueTypeOK'
    BY <1>1, <1>2 DEF QueueIInv, QueueTypeOK
  <1>4. ClaimInv' /\ PublishedInv'
    BY <1>2 DEF QueueIInv, ClaimInv, PublishedInv, Claimed
  <1>5. /\ dpc'[w] = "cas" /\ element'[w] = v
        /\ \A x \in Consumers \ {w} : dpc'[x] = dpc[x] /\ element'[x] = element[x]
    BY <1>1, <1>2 DEF QueueIInv, QueueTypeOK
  <1>6. old_head[w] <= head /\ old_head[w] + 1 < commit
    BY <1>2 DEF QueueIInv, QueueTypeOK, ConsumerInv
  <1>7. old_head[w] = head => v = pool[GetIndex(head + 1)]
    BY <1>1, <1>6, NobodyStores
  <1>8. ConsumerInv'
    BY <1>2, <1>5, <1>6, <1>7 DEF QueueIInv, ConsumerInv
  <1>9. QED
    BY <1>3, <1>4, <1>8 DEF QueueIInv

\* The exchange on head_ succeeds, or the copy is dropped.
LEMMA DeqClaimInv ==
  ASSUME QueueIInv, NEW w \in Consumers, DeqClaim(w)
  PROVE  QueueIInv'
  <1> USE DEF enqVars, waitVars
  <1>1. CASE HeadUnmoved(w)
    <2>1. /\ dpc[w] = "cas" /\ head = old_head[w] /\ head' = head + 1
          /\ dpc' = [dpc EXCEPT ![w] = "got"] /\ old_head' = [old_head EXCEPT ![w] = 0]
          /\ UNCHANGED <<tail, commit, pool, element, enqVars, waitVars>>
      BY <1>1 DEF DeqClaim, HeadUnmoved, DeqReturn, DGoto
    <2>2. /\ head \in Nat /\ commit \in Nat /\ tail \in Nat /\ head + 1 < commit
          /\ element[w] = pool[GetIndex(head + 1)]
      BY <2>1 DEF QueueIInv, QueueTypeOK, ConsumerInv
    <2>3. QueueTypeOK'
      <3>1. head' \in Nat /\ head' < commit /\ commit <= tail /\ tail - head' <= QueueSize + 1
        BY <2>1, <2>2, QueueSizeAssumption DEF QueueIInv, QueueTypeOK
      <3>2. QED
        BY <2>1, <3>1 DEF QueueIInv, QueueTypeOK
    <2>4. ClaimInv'
      BY <2>1 DEF QueueIInv, ClaimInv, Claimed
    <2>5. PublishedInv'
      <3>1. \A n \in head' + 1 .. commit - 1 : n \in head + 1 .. commit - 1
        BY <2>1, <2>2
      <3>2. QED
        BY <2>1, <3>1 DEF QueueIInv, PublishedInv
    <2>6. element[w] \in Producers
      <3>1. head + 1 \in head + 1 .. commit - 1
        BY <2>2
      <3>2. QED
        BY <2>2, <3>1 DEF QueueIInv, PublishedInv
    <2>7. /\ dpc'[w] = "got"
          /\ \A x \in Consumers \ {w} : dpc'[x] = dpc[x] /\ old_head'[x] = old_head[x]
      BY <2>1 DEF QueueIInv, QueueTypeOK
    <2>8. \A x \in Consumers : old_head[x] \in Nat
      BY DEF QueueIInv, QueueTypeOK
    <2>9. \A x \in Consumers : dpc[x] \in {"copy", "cas"} =>
            old_head[x] <= head' /\ old_head[x] # head'
      BY <2>1, <2>2, <2>8 DEF QueueIInv, ConsumerInv
    <2>10. ConsumerInv'
      BY <2>1, <2>6, <2>7, <2>9 DEF QueueIInv, ConsumerInv
    <2>11. QED
      BY <2>3, <2>4, <2>5, <2>10 DEF QueueIInv
  <1>2. CASE ~HeadUnmoved(w)
    <2>1. /\ dpc[w] = "cas" /\ dpc' = [dpc EXCEPT ![w] = "copy"]
          /\ old_head' = [old_head EXCEPT ![w] = head]
          /\ UNCHANGED <<head, tail, commit, pool, element, enqVars, waitVars>>
      BY <1>2 DEF DeqClaim, DGoto
    <2>2. QueueTypeOK' /\ PublishedInv'
      BY <2>1 DEF QueueIInv, QueueTypeOK, PublishedInv
    <2>3. ClaimInv'
      BY <2>1 DEF QueueIInv, ClaimInv, Claimed
    <2>4. ConsumerInv'
      BY <2>1 DEF QueueIInv, QueueTypeOK, ConsumerInv
    <2>5. QED
      BY <2>2, <2>3, <2>4 DEF QueueIInv
  <1>3. QED
    BY <1>1, <1>2

\* BreakAllWait leaves the ring alone.
LEMMA BreakInv ==
  ASSUME QueueIInv, SetBreakAllWait \/ NotifyAll \/ UNCHANGED queueVars
  PROVE  QueueIInv'
  <1> USE DEF SetBreakAllWait, NotifyAll, Waiting, queueVars, ringVars, enqVars, deqVars,
              waitVars, QueueIInv
  <1>1. QueueTypeOK' /\ PublishedInv'
    BY DEF QueueTypeOK, PublishedInv
  <1>2. ClaimInv'
    BY DEF ClaimInv, Claimed
  <1>3. ConsumerInv'
    BY DEF QueueTypeOK, ConsumerInv
  <1>4. QED
    BY <1>1, <1>2, <1>3

-----------------------------------------------------------------------------
(* The pool *)

\* The initial state satisfies the invariant.
LEMMA InitIInv == Init => IInv
  <1> SUFFICES ASSUME Init PROVE IInv
    OBVIOUS
  <1> USE QueueSizeAssumption DEF Init, QueueInit, PoolSize
  <1>1. QueueTypeOK
    <2>1. tail - head <= QueueSize + 1
      OBVIOUS
    <2>2. pool \in [0 .. PoolSize - 1 -> Producers \cup {None}]
      OBVIOUS
    <2>3. head \in Nat /\ tail \in Nat /\ commit \in Nat /\ head < commit /\ commit <= tail
      OBVIOUS
    <2>4. /\ epc \in [Producers -> {"idle"}] /\ old_tail \in [Producers -> Nat]
          /\ dpc \in [Consumers -> {"idle"}] /\ old_head \in [Consumers -> Nat]
          /\ element \in [Consumers -> Producers \cup {None}]
          /\ strategy \in Strategies /\ break_all_wait \in BOOLEAN
      OBVIOUS
    <2> HIDE DEF Init, QueueInit, PoolSize
    <2>5. QED
      BY <2>1, <2>2, <2>3, <2>4 DEF QueueTypeOK
  <1>2. ClaimInv /\ PublishedInv /\ ConsumerInv
    BY DEF ClaimInv, PublishedInv, ConsumerInv, Claimed
  <1>3. QED
    BY <1>1, <1>2 DEF IInv, TypeOK, QueueIInv

\* The invariant is inductive: one case per action.
LEMMA NextIInv == IInv /\ [Next]_vars => IInv'
  <1> SUFFICES ASSUME IInv, [Next]_vars PROVE IInv'
    OBVIOUS
  <1>1. stop' \in BOOLEAN /\ exited' \subseteq Consumers
        /\ dtor' \in {"none", "break", "notify", "join", "joined"}
    BY DEF IInv, TypeOK, Next, vars, Enqueue, EnqueueGoesOn, WorkerStep, Worker, RunTask,
           WorkerExits, DtorStop, DtorStep, DtorBreak, DtorNotify, DtorJoin
  <1>2. QueueIInv'
    <2> USE DEF IInv
    <2>1. CASE UNCHANGED vars \/ DtorStop \/ DtorStep
      BY <2>1, BreakInv DEF vars, DtorStop, DtorStep, DtorBreak, DtorNotify, DtorJoin
    <2>2. ASSUME NEW c \in Producers, Enqueue(c) \/ EnqueueGoesOn(c) PROVE QueueIInv'
      BY <2>2, EnqLoadTailInv, EnqFullInv, EnqClaimInv, EnqStoreInv, EnqCommitInv,
         EnqNotifyInv
      DEF Enqueue, EnqueueGoesOn, EnqueueStep
    <2>3. ASSUME NEW w \in Consumers, WorkerStep(w) PROVE QueueIInv'
      BY <2>3, DeqWaitInv, DeqCopyInv, DeqClaimInv, BreakInv
      DEF WorkerStep, Worker, WaitDequeueStep, RunTask, WorkerExits
    <2>4. QED
      BY <2>1, <2>2, <2>3 DEF Next
  <1>3. QED
    BY <1>1, <1>2 DEF IInv, TypeOK, QueueIInv

\* Every reachable state satisfies the inductive invariant.
LEMMA SpecIInv == Spec => []IInv
  BY InitIInv, NextIInv, PTL DEF Spec

-----------------------------------------------------------------------------
\* The positions of the queue never pass each other, and no consumer uses what
\* it copied while a producer was assigning to the slot.
THEOREM QueueSound == Spec => []QueueInv
  <1>1. IInv => QueueInv
    <2> SUFFICES ASSUME IInv, NEW w \in Consumers, NEW c \in Producers,
                        dpc[w] = "cas" \/ (dpc[w] = "copy" /\ ~NoElement(w)),
                        epc[c] = "store",
                        GetIndex(old_head[w] + 1) = GetIndex(old_tail[c]),
                        head = old_head[w]
                 PROVE  FALSE
      BY DEF IInv, QueueInv, TornCopyDiscarded
    <2>1. head + 1 < commit
      BY DEF IInv, QueueIInv, QueueTypeOK, ConsumerInv, NoElement
    <2>2. Storing(head + 1)
      BY DEF Storing
    <2>3. QED
      BY <2>1, <2>2, NobodyStores DEF IInv
  <1>2. QED
    BY <1>1, SpecIInv, PTL

\* Enqueue refuses an element only when QueueSize are claimed, or when head_ has
\* passed the tail that it judges by.
THEOREM RefusalsSound == Spec => RefusedOnlyIfFullOrOvertaken
  <1> DEFINE Refusals == \A c \in Producers :
               epc[c] = "cas" /\ epc'[c] = "full" =>
                   tail - head - 1 = QueueSize \/ head > old_tail[c]
  <1>1. ASSUME IInv, [Next]_vars PROVE [Refusals]_<<epc>>
    <2> SUFFICES ASSUME Next, NEW c \in Producers, epc[c] = "cas", epc'[c] = "full",
                        ~(head > old_tail[c])
                 PROVE  tail - head - 1 = QueueSize
      BY <1>1 DEF vars, queueVars, enqVars
    <2>1. NoRoom(c)
      <3>1. ASSUME NEW d \in Producers, Enqueue(d) \/ EnqueueGoesOn(d) PROVE NoRoom(c)
        BY <1>1, <3>1
        DEF IInv, QueueIInv, QueueTypeOK, Enqueue, EnqueueGoesOn, EnqueueStep, EnqLoadTail,
            EnqFull, EnqClaim, EnqStore, EnqCommit, EnqNotify, EnqReturn, EGoto
      <3>2. CASE epc' = epc
        BY <3>2
      <3>3. ASSUME NEW w \in Consumers, WorkerStep(w) PROVE epc' = epc
        BY <3>3
        DEF WorkerStep, Worker, WaitDequeueStep, RunTask, WorkerExits, DeqLoadHead, WaitBroken,
            DeqEmpty, DeqCopy, DeqClaim, EmptyWait, WaitOver, DeqUsed, queueVars, enqVars
      <3>4. CASE DtorStop \/ DtorStep
        BY <3>2, <3>4
        DEF DtorStop, DtorStep, DtorBreak, DtorNotify, DtorJoin, SetBreakAllWait, NotifyAll,
            queueVars, enqVars
      <3>5. QED
        BY <3>1, <3>2, <3>3, <3>4 DEF Next
    <2>2. /\ head \in Nat /\ tail \in Nat /\ old_tail[c] \in Nat
          /\ old_tail[c] <= tail /\ tail - head <= QueueSize + 1
      BY <1>1 DEF IInv, QueueIInv, QueueTypeOK, ClaimInv
    <2>3. head + QueueSize + 2 <= old_tail[c] + 1
      <3>1. head < old_tail[c] + 1 /\ old_tail[c] + 1 \in Nat
        BY <2>2
      <3>2. head + PoolSize <= old_tail[c] + 1
        BY <2>1, <2>2, <3>1, SameSlot DEF NoRoom
      <3>3. QED
        BY <2>2, <3>2, QueueSizeAssumption DEF PoolSize
    <2>4. QED
      BY <2>2, <2>3, QueueSizeAssumption
  <1>2. QED
    BY <1>1, SpecIInv, PTL DEF Spec, RefusedOnlyIfFullOrOvertaken

-----------------------------------------------------------------------------
(* Refinement *)

\* The elements at the positions between h and k of a pool f, as a sequence.
Window(f, h, k) == [i \in 1 .. k - 1 - h |-> f[GetIndex(h + i)]]

\* The slots that Dequeue may take are those from head_ up to commit_.
LEMMA WindowShape ==
  ASSUME NEW f, NEW h \in Nat, NEW k \in Nat, h < k,
         \A n \in h + 1 .. k - 1 : f[GetIndex(n)] \in Producers
  PROVE  /\ Window(f, h, k) \in Seq(Producers) /\ Len(Window(f, h, k)) = k - 1 - h
         /\ \A i \in 1 .. k - 1 - h : Window(f, h, k)[i] = f[GetIndex(h + i)]
  <1>1. k - 1 - h \in Nat
    OBVIOUS
  <1>2. \A i \in 1 .. k - 1 - h : f[GetIndex(h + i)] \in Producers
    <2> SUFFICES ASSUME NEW i \in 1 .. k - 1 - h PROVE h + i \in h + 1 .. k - 1
      OBVIOUS
    <2>1. QED
      OBVIOUS
  <1>3. QED
    BY <1>1, <1>2 DEF Window

\* The queue as its users see it, before and after a step.
LEMMA ItemsShape ==
  ASSUME IInv
  PROVE  /\ Items \in Seq(Producers) /\ Len(Items) = commit - 1 - head
         /\ \A i \in 1 .. commit - 1 - head : Items[i] = pool[GetIndex(head + i)]
  <1>1. QueueTypeOK /\ PublishedInv
    BY DEF IInv, QueueIInv
  <1>2. head \in Nat /\ commit \in Nat /\ head < commit
    BY <1>1 DEF QueueTypeOK
  <1>3. Items = Window(pool, head, commit)
    BY DEF Items, Window
  <1>4. QED
    BY <1>1, <1>2, <1>3, WindowShape DEF PublishedInv

\* The items of the abstract queue in the next state.
LEMMA ItemsPrimed ==
  ASSUME IInv'
  PROVE  /\ Items' \in Seq(Producers) /\ Len(Items') = commit' - 1 - head'
         /\ \A i \in 1 .. commit' - 1 - head' : Items'[i] = pool'[GetIndex(head' + i)]
  <1>1. QueueTypeOK' /\ PublishedInv'
    BY DEF IInv, QueueIInv
  <1>2. head' \in Nat /\ commit' \in Nat /\ head' < commit'
    BY <1>1 DEF QueueTypeOK
  <1>3. Items' = Window(pool', head', commit')
    BY DEF Items, Window
  <1>4. QED
    BY <1>1, <1>2, <1>3, WindowShape DEF PublishedInv

\* Steps that neither publish nor claim an element leave the queue alone.
LEMMA SameItems ==
  ASSUME IInv, head' = head, commit' = commit,
         \A n \in Nat : head < n /\ n < commit => pool'[GetIndex(n)] = pool[GetIndex(n)]
  PROVE  Items' = Items
  <1>1. head \in Nat /\ commit \in Nat
    BY DEF IInv, QueueIInv, QueueTypeOK
  <1>2. \A i \in 1 .. commit - 1 - head : pool'[GetIndex(head + i)] = pool[GetIndex(head + i)]
    <2> SUFFICES ASSUME NEW i \in 1 .. commit - 1 - head
                 PROVE  head + i \in Nat /\ head < head + i /\ head + i < commit
      OBVIOUS
    <2>1. QED
      BY <1>1
  <1>3. QED
    BY <1>2 DEF Items

\* A step of Enqueue puts one item or none.
LEMMA EnqueueMaps ==
  ASSUME IInv, IInv', NEW c \in Producers, Enqueue(c) \/ EnqueueGoesOn(c)
  PROVE  Fifo!Put(c) \/ UNCHANGED <<Items, Got>>
  <1>1. CASE EnqLoadTail(c) \/ EnqFull(c) \/ EnqClaim(c)
    <2>1. UNCHANGED <<head, commit, pool, deqVars>>
      BY <1>1 DEF EnqLoadTail, EnqFull, EnqClaim, ringVars
    <2>2. QED
      BY <2>1, SameItems DEF Got, deqVars
  <1>2. CASE EnqStore(c)
    <2>1. UNCHANGED <<head, commit, deqVars>>
      BY <1>2 DEF EnqStore
    <2>2. QED
      BY <1>2, <2>1, SameItems, StoreElsewhere DEF Got, deqVars, IInv
  <1>3. CASE EnqCommit(c)
    <2>1. /\ commit = old_tail[c] /\ commit' = commit + 1 /\ pool[GetIndex(commit)] = c
          /\ UNCHANGED <<head, tail, pool, deqVars>>
      BY <1>3 DEF EnqCommit, CommitTurn, IInv, QueueIInv, ClaimInv
    <2>2. head \in Nat /\ commit \in Nat /\ head < commit /\ commit' - 1 - head <= QueueSize
      BY <2>1, QueueSizeAssumption DEF IInv, QueueIInv, QueueTypeOK
    <2>3. Len(Items) = commit - 1 - head /\ Len(Items) < QueueSize
      <3>1. Len(Items) = commit - 1 - head
        BY ItemsShape
      <3>2. QED
        BY <2>1, <2>2, <3>1, QueueSizeAssumption, SMTT(40)
    <2>4. Items' = Append(Items, c)
      <3>1. /\ Items' \in Seq(Producers) /\ Len(Items') = Len(Items) + 1
            /\ \A i \in 1 .. Len(Items) + 1 : Items'[i] = pool[GetIndex(head + i)]
        <4>1. /\ Items' \in Seq(Producers) /\ Len(Items') = commit' - 1 - head'
              /\ \A i \in 1 .. commit' - 1 - head' : Items'[i] = pool'[GetIndex(head' + i)]
          BY ItemsPrimed
        <4>2. head' = head /\ pool' = pool /\ commit' - 1 - head = Len(Items) + 1
          BY <2>1, <2>2, <2>3
        <4>3. QED
          BY <4>1, <4>2
      <3>2. \A i \in 1 .. Len(Items) : Items'[i] = Items[i]
        BY <2>2, <2>3, <3>1, ItemsShape
      <3>3. Items'[Len(Items')] = c
        <4>1. head + (Len(Items) + 1) = commit /\ Len(Items) + 1 \in 1 .. Len(Items) + 1
          BY <2>2, <2>3
        <4>2. QED
          BY <2>1, <3>1, <4>1
      <3>4. QED
        BY <3>1, <3>2, <3>3, ItemsShape
    <2>5. UNCHANGED Got
      BY <2>1 DEF Got, deqVars
    <2>6. QED
      BY <2>3, <2>4, <2>5 DEF Fifo!Put
  <1>4. CASE EnqNotify(c)
    <2>1. UNCHANGED <<ringVars, element>>
      BY <1>4 DEF EnqNotify
    <2>2. \A w \in Consumers : dpc'[w] = "got" <=> dpc[w] = "got"
      BY <1>4 DEF EnqNotify, Waiting, DGoto, IInv, QueueIInv, QueueTypeOK
    <2>3. UNCHANGED Got
      BY <2>1, <2>2 DEF Got
    <2>4. QED
      BY <2>1, <2>3, SameItems DEF ringVars
  <1>5. QED
    BY <1>1, <1>2, <1>3, <1>4 DEF Enqueue, EnqueueGoesOn, EnqueueStep

\* A step of a worker takes one item or none.
LEMMA WorkerMaps ==
  ASSUME IInv, IInv', NEW w \in Consumers, WorkerStep(w)
  PROVE  Fifo!Take(w) \/ Fifo!Use(w) \/ UNCHANGED <<Items, Got>>
  <1>1. CASE DeqLoadHead(w) \/ DeqEmpty(w) \/ EmptyWait(w) \/ WaitOver(w) \/ WaitBroken(w)
    <2>1. UNCHANGED <<ringVars, element>>
      BY <1>1 DEF DeqLoadHead, DeqEmpty, EmptyWait, WaitOver, WaitBroken
    <2>2. \A x \in Consumers : dpc'[x] = "got" <=> dpc[x] = "got"
      BY <1>1 DEF DeqLoadHead, DeqEmpty, EmptyWait, WaitOver, WaitBroken, DeqReturn, DGoto,
                  IInv, QueueIInv, QueueTypeOK
    <2>3. UNCHANGED Got
      BY <2>1, <2>2 DEF Got
    <2>4. QED
      BY <2>1, <2>3, SameItems DEF ringVars
  <1>2. CASE DeqCopy(w)
    <2>1. UNCHANGED ringVars
      BY <1>2 DEF DeqCopy
    <2>2. \A x \in Consumers : /\ dpc'[x] = "got" <=> dpc[x] = "got"
                               /\ dpc[x] = "got" => element'[x] = element[x]
      BY <1>2 DEF DeqCopy, DGoto, IInv, QueueIInv, QueueTypeOK
    <2>3. UNCHANGED Got
      BY <2>2 DEF Got
    <2>4. QED
      BY <2>1, <2>3, SameItems DEF ringVars
  <1>3. CASE DeqClaim(w) /\ ~HeadUnmoved(w)
    <2>1. UNCHANGED <<head, commit, pool, element>>
      BY <1>3 DEF DeqClaim
    <2>2. \A x \in Consumers : dpc'[x] = "got" <=> dpc[x] = "got"
      BY <1>3 DEF DeqClaim, DGoto, IInv, QueueIInv, QueueTypeOK
    <2>3. UNCHANGED Got
      BY <2>1, <2>2 DEF Got
    <2>4. QED
      BY <2>1, <2>3, SameItems
  <1>4. CASE DeqClaim(w) /\ HeadUnmoved(w)
    <2>1. /\ dpc[w] = "cas" /\ head = old_head[w] /\ head' = head + 1
          /\ dpc' = [dpc EXCEPT ![w] = "got"]
          /\ UNCHANGED <<commit, pool, element>>
      BY <1>4 DEF DeqClaim, HeadUnmoved, DeqReturn, DGoto
    <2>2. /\ head \in Nat /\ commit \in Nat /\ head + 1 < commit
          /\ element[w] = pool[GetIndex(head + 1)]
      BY <2>1 DEF IInv, QueueIInv, QueueTypeOK, ConsumerInv
    <2>3. Len(Items) = commit - 1 - head /\ Len(Items) >= 1 /\ Items # <<>>
      BY <2>2, ItemsShape
    <2>4. Items[1] = element[w] /\ Head(Items) = element[w]
      BY <2>2, <2>3, ItemsShape
    <2>5. Items' = Tail(Items)
      <3>1. /\ Items' \in Seq(Producers) /\ Len(Items) = Len(Items') + 1
            /\ \A i \in 1 .. Len(Items') : Items'[i] = pool[GetIndex((head + 1) + i)]
        <4>1. /\ Items' \in Seq(Producers) /\ Len(Items') = commit' - 1 - head'
              /\ \A i \in 1 .. commit' - 1 - head' : Items'[i] = pool'[GetIndex(head' + i)]
          BY ItemsPrimed
        <4>2. QED
          BY <2>1, <2>2, <2>3, <4>1
      <3>2. ASSUME NEW i \in 1 .. Len(Items') PROVE Items'[i] = Items[i + 1]
        <4>1. i + 1 \in 1 .. commit - 1 - head /\ (head + 1) + i = head + (i + 1)
          BY <2>2, <2>3, <3>1
        <4>2. QED
          BY <3>1, <4>1, ItemsShape
      <3>3. QED
        BY <2>3, <3>1, <3>2, ItemsShape
    <2>6. Got[w] = None
      BY <2>1 DEF Got
    <2>7. Got' = [Got EXCEPT ![w] = Head(Items)]
      <3>1. /\ dpc'[w] = "got" /\ \A x \in Consumers \ {w} : dpc'[x] = dpc[x]
        BY <2>1 DEF IInv, QueueIInv, QueueTypeOK
      <3>2. QED
        BY <2>1, <2>4, <3>1 DEF Got
    <2>8. QED
      BY <2>3, <2>5, <2>6, <2>7 DEF Fifo!Take
  <1>5. CASE RunTask(w)
    <2>1. /\ dpc[w] = "got" /\ dpc' = [dpc EXCEPT ![w] = "idle"]
          /\ element' = [element EXCEPT ![w] = None] /\ UNCHANGED ringVars
      BY <1>5 DEF RunTask, DeqUsed, DGoto
    <2>2. Got[w] # None
      BY <2>1, NoneAssumption DEF Got, IInv, QueueIInv, ConsumerInv
    <2>3. Got' = [Got EXCEPT ![w] = None]
      <3>1. /\ dpc'[w] = "idle"
            /\ \A x \in Consumers \ {w} : dpc'[x] = dpc[x] /\ element'[x] = element[x]
        BY <2>1 DEF IInv, QueueIInv, QueueTypeOK
      <3>2. QED
        BY <3>1 DEF Got
    <2>4. UNCHANGED Items
      BY <2>1, SameItems DEF ringVars
    <2>5. QED
      BY <2>2, <2>3, <2>4 DEF Fifo!Use
  <1>6. CASE WorkerExits(w)
    BY <1>6, SameItems DEF WorkerExits, queueVars, ringVars, deqVars, Got
  <1>7. QED
    BY <1>1, <1>2, <1>3, <1>4, <1>5, <1>6 DEF WorkerStep, Worker, WaitDequeueStep

\* For those who use it the queue is first-in first-out and loses, doubles or
\* tears nothing: every step of the producers and consumers puts a whole element
\* at the end, takes the first one, or changes nothing that they can see.
THEOREM QueueRefinesFifo == Spec => ImplementsFifo
  <1>1. Init => Fifo!Init
    <2> SUFFICES ASSUME Init PROVE Items = <<>> /\ Got = [w \in Consumers |-> None]
      BY DEF Fifo!Init
    <2>1. Items = <<>>
      BY DEF Init, QueueInit, Items
    <2>2. Got = [w \in Consumers |-> None]
      BY DEF Init, QueueInit, Got
    <2>3. QED
      BY <2>1, <2>2
  <1>2. IInv /\ IInv' /\ [Next]_vars => [Fifo!Next]_(Fifo!fifoVars)
    <2> SUFFICES ASSUME IInv, IInv', [Next]_vars
                 PROVE  Fifo!Next \/ UNCHANGED <<Items, Got>>
      BY DEF Fifo!fifoVars
    <2>1. CASE UNCHANGED vars \/ DtorStop \/ DtorStep
      <3>1. UNCHANGED <<ringVars, element>>
        BY <2>1 DEF vars, queueVars, deqVars, DtorStop, DtorStep, DtorBreak, DtorNotify,
                    DtorJoin, SetBreakAllWait, NotifyAll
      <3>2. \A w \in Consumers : dpc'[w] = "got" <=> dpc[w] = "got"
        BY <2>1 DEF vars, queueVars, deqVars, DtorStop, DtorStep, DtorBreak, DtorNotify,
                    DtorJoin, SetBreakAllWait, NotifyAll, Waiting
      <3>3. UNCHANGED Got
        BY <3>1, <3>2 DEF Got
      <3>4. QED
        BY <3>1, <3>3, SameItems DEF ringVars
    <2>2. ASSUME NEW c \in Producers, Enqueue(c) \/ EnqueueGoesOn(c)
          PROVE  Fifo!Next \/ UNCHANGED <<Items, Got>>
      BY <2>2, EnqueueMaps DEF Fifo!Next
    <2>3. ASSUME NEW w \in Consumers, WorkerStep(w)
          PROVE  Fifo!Next \/ UNCHANGED <<Items, Got>>
      BY <2>3, WorkerMaps DEF Fifo!Next
    <2>4. QED
      BY <2>1, <2>2, <2>3 DEF Next
  <1>3. QED
    BY <1>1, <1>2, SpecIInv, PTL DEF Spec, ImplementsFifo, Fifo!Spec

=============================================================================
