------------------------------ MODULE MCTimer -------------------------------
(* Small instances of TimingWheel and of TaskManager, the pool that runs the *)
(* callbacks, side by side: a behaviour is one of the wheels or one of the   *)
(* pool.  On the wheels a single task is added, which may be stopped, or two *)
(* tasks that are not.                                                       *)
EXTENDS TimingWheel, TaskManager

CONSTANTS once, again

VARIABLE part       \* the tasks that are added; none if it is about the pool

mcVars == <<part, timerVars, vars>>

MCInit == part \in {{once}, {again}, {once, again}, {}} /\ TimerInit /\ Init

WheelStep ==
    /\ part # {}
    /\ TimerNext
    /\ \A t \in Tasks \ part : pc'[t] = "new"
    /\ part = Tasks => UNCHANGED stopping
    /\ UNCHANGED vars

PoolNext == part = {} /\ Next /\ UNCHANGED timerVars

MCNext == (WheelStep \/ PoolNext) /\ UNCHANGED part

\* The fairness of FairTimerSpec for the wheels, of FairSpec for the pool.
MCFairness ==
    /\ WF_timerVars(part # {} /\ TickThread)
    /\ \A t \in Tasks :
         /\ WF_timerVars(AddStep(t)) /\ WF_timerVars(PoolStep(t))
         /\ WF_timerVars(LeaveStep(t))
    /\ \A c \in Clients : WF_vars(ClientStep(c))
    /\ \A w \in Workers : WF_vars(part = {} /\ WorkerStep(w))

MCSpec == MCInit /\ [][MCNext]_mcVars /\ MCFairness

=============================================================================
