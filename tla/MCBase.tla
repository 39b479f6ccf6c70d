------------------------------- MODULE MCBase -------------------------------
(* Small instances of the building blocks of cyber/base, AtomicRWLock and    *)
(* ThreadPool with its BoundedQueue, side by side: a behaviour is one of the *)
(* lock or one of the pool.                                                  *)
EXTENDS AtomicRWLock, ThreadPool

VARIABLE part

mcVars == <<part, lockVars, vars>>

MCInit ==
    /\ part \in {"lock", "pool"}
    /\ LockInit /\ Init
    /\ part = "lock" => strategy = "block"

LockPart == part = "lock" /\ LockNext /\ UNCHANGED vars
\* The last call is made of a sleeping pool only.
PoolPart ==
    /\ part = "pool" /\ Next /\ UNCHANGED lockVars
    /\ strategy = "block" => epc'[NumCalls] = "idle"

MCNext == (LockPart \/ PoolPart) /\ UNCHANGED part

\* The fairness of FairLockSpec, which asks nothing of a lock nobody uses, and
\* that of FairSpec for the pool.
MCFairness ==
    /\ Fairness
    /\ \A c \in Producers : WF_vars(EnqueueGoesOn(c))
    /\ \A w \in Consumers : WF_vars(part = "pool" /\ WorkerStep(w))
    /\ WF_vars(DtorStep)

MCSpec == MCInit /\ [][MCNext]_mcVars /\ MCFairness

=============================================================================
