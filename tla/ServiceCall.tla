---------------------------- MODULE ServiceCall ----------------------------
(***************************************************************************)
(* Clients and the services of one name.                                   *)
(*                                                                         *)
(* All clients write requests to one channel and all services answer on    *)
(* another, so that every client gets every response; several services of  *)
(* the name may run, and each answers every request.  A request is known   *)
(* by its client (the spare_id of the message info) and its number.        *)
(*                                                                         *)
(* The channels are RTPS with the profile of services: a subscriber gets   *)
(* the messages of one writer in order, also those sent before it started  *)
(* (transient local), except what the writer has overwritten (keep last,   *)
(* Depth messages).  A process has one subscriber of a channel: a position *)
(* in the history of each writer.  It takes one message at a time and      *)
(* calls the clients, or the services, of its process with it one after    *)
(* another, in an order that is left open; the next message is taken when  *)
(* the last of them has returned.                                          *)
(***************************************************************************)
EXTENDS Naturals, Sequences

CONSTANTS
    Clients, Callers, Services, Processes,
    ClientOf,       \* the client a calling thread uses
    ProcessOf,      \* the process of a client or a service
    Setups,         \* bound: calls of each thread and the services that start
    MaxNumber,      \* bound: calls of one client (the setups make no more)
    Depth,          \* depth of the writers' histories
    Nobody          \* no thread holds the mutex

ASSUME ClientOfAssumption == ClientOf \in [Callers -> Clients]
ASSUME ProcessOfAssumption == ProcessOf \in [Clients \cup Services -> Processes]
ASSUME SetupsAssumption ==
    /\ MaxNumber \in Nat
    /\ \A u \in Setups : u.calls \in [Callers -> Nat] /\ u.services \subseteq Services
ASSUME DepthAssumption == Depth \in Nat \ {0}
ASSUME NobodyAssumption ==
    Nobody \notin Callers \cup Clients \cup [client : Clients, num : 1 .. MaxNumber]

VARIABLES
    sequence_number, pending_requests,
    mutex,          \* pending_requests_mutex_ (a client stands for its listener)
    promise,        \* the values given to set_value, by request
    cpc, call, left,            \* caller: step, its request, calls left
    incoming,                   \* client: the response it is to be called with
    handling,                   \* client: the subscriber runs its callback
    read,                       \* process: position in the responses of a service
    phase,                      \* service: step of Init or destroy
    inited, tasks, queue_mutex, \* service: its members
    thread, task,               \* service: step of Process and its task
    offered,                    \* service: the request it is to be called with
    taken,                      \* process: position in the requests of a client
    sent,                       \* service: the responses sent
    is_shutdown,                \* process: cyber::IsShutdown()
    missed                      \* a message was overwritten before it was read

clientVars == <<sequence_number, pending_requests, mutex, promise, incoming, handling,
                read>>
callerVars == <<cpc, call, left>>
serviceVars == <<phase, inited, tasks, queue_mutex, thread, task, offered, taken,
                 sent>>
vars == <<clientVars, callerVars, serviceVars, is_shutdown, missed>>

Numbers == 1 .. MaxNumber
Requests == [client : Clients, num : Numbers]

Init ==
    /\ sequence_number = [c \in Clients |-> 0]
    /\ pending_requests = [c \in Clients |-> {}]
    /\ mutex = [c \in Clients |-> Nobody]
    /\ promise = [r \in Requests |-> <<>>]
    /\ cpc = [t \in Callers |-> "idle"]
    /\ call = [t \in Callers |-> 0]
    /\ handling = [c \in Clients |-> "no"]
    /\ incoming = [c \in Clients |-> Nobody]
    /\ read = [p \in Processes |-> [s \in Services |-> 0]]
    /\ \E u \in Setups :
         /\ left = u.calls
         /\ phase = [s \in Services |-> IF s \in u.services THEN "new" ELSE "never"]
    /\ inited = [s \in Services |-> FALSE]
    /\ tasks = [s \in Services |-> <<>>]
    /\ queue_mutex = [s \in Services |-> FALSE]
    /\ thread = [s \in Services |-> "none"]
    /\ task = [s \in Services |-> Nobody]
    /\ offered = [s \in Services |-> Nobody]
    /\ taken = [p \in Processes |-> [c \in Clients |-> 0]]
    /\ sent = [s \in Services |-> <<>>]
    /\ is_shutdown = [p \in Processes |-> FALSE]
    /\ missed = FALSE

\* What a subscriber at position pos gets next of total messages: the next one,
\* or the oldest that is kept.
NextOf(pos, total) ==
    {i \in pos + 1 .. total : i = pos + 1 \/ i = total - Depth + 1}

-----------------------------------------------------------------------------
(* Client *)

\* Fault: the mutex is not taken.
NoMutex(c) == TRUE
MutexFree(c) == mutex[c] = Nobody

NextNumber(c) == sequence_number[c] + 1

\* A thread calls SendRequest or AsyncSendRequest.
Call(t) ==
    /\ cpc[t] = "idle" /\ left[t] > 0
    /\ left' = [left EXCEPT ![t] = @ - 1]
    /\ cpc' = [cpc EXCEPT ![t] = "enter"]
    /\ UNCHANGED <<clientVars, call, serviceVars, is_shutdown, missed>>

\* AsyncSendRequest from the mutex to Transmit.
Send(t) ==
    LET c == ClientOf[t] IN
    /\ cpc[t] = "enter" /\ sequence_number[c] < MaxNumber
    /\ mutex[c] = Nobody
    /\ mutex' = [mutex EXCEPT ![c] = t]
    /\ sequence_number' = [sequence_number EXCEPT ![c] = NextNumber(c)]
    /\ call' = [call EXCEPT ![t] = NextNumber(c)]
    /\ cpc' = [cpc EXCEPT ![t] = "insert"]
    /\ UNCHANGED <<pending_requests, promise, incoming, handling, read, left,
                   serviceVars, is_shutdown, missed>>

\* The rest of AsyncSendRequest; SendRequest goes on to wait for the future,
\* the other callers return with it and may have given a callback.
Insert(t) ==
    LET c == ClientOf[t] IN
    /\ cpc[t] = "insert"
    /\ \E waits \in BOOLEAN :
         /\ pending_requests' = [pending_requests EXCEPT
                                  ![c] = @ \cup {[num |-> call[t], cb |-> ~waits]}]
         /\ cpc' = [cpc EXCEPT ![t] = IF waits THEN "wait" ELSE "idle"]
    /\ mutex' = [mutex EXCEPT ![c] = Nobody]
    /\ UNCHANGED <<sequence_number, promise, incoming, handling, read, call, left,
                   serviceVars, is_shutdown, missed>>

Request(t) == [client |-> ClientOf[t], num |-> call[t]]

Return(t) ==
    /\ cpc' = [cpc EXCEPT ![t] = "idle"]
    /\ UNCHANGED <<clientVars, call, left, serviceVars, is_shutdown, missed>>

GetAnswer(t) == cpc[t] = "wait" /\ promise[Request(t)] # <<>> /\ Return(t)

\* wait_for ends without an answer: the request stays pending.
TimeOut(t) == cpc[t] = "wait" /\ promise[Request(t)] = <<>> /\ Return(t)

\* Fault: any client's response is accepted.
AnyClient(c, r) == TRUE
ForMe(c, r) == r.client = c

Pending(c, n) == {p \in pending_requests[c] : p.num = n}

Erased(c, n) == pending_requests[c] \ Pending(c, n)

ClientsOf(p) == {c \in Clients : ProcessOf[c] = p}

\* No client of the process is being called.
NoneCalled(p) == \A c \in ClientsOf(p) : handling[c] = "no"

\* The process' subscriber of responses takes one of service s, for all clients
\* of the process.
TakeResponse(p, s) ==
    /\ ClientsOf(p) # {} /\ NoneCalled(p)
    /\ \A c \in ClientsOf(p) : incoming[c] = Nobody
    /\ \E i \in NextOf(read[p][s], Len(sent[s])) :
         /\ read' = [read EXCEPT ![p][s] = i]
         /\ missed' = (missed \/ i # read[p][s] + 1)
         /\ incoming' = [c \in Clients |->
                           IF c \in ClientsOf(p) THEN sent[s][i] ELSE incoming[c]]
    /\ UNCHANGED <<sequence_number, pending_requests, mutex, promise, handling,
                   callerVars, serviceVars, is_shutdown>>

\* One client is called with the response: its callback runs with the mutex held
\* and keeps the subscriber of the process.
HandleResponse(c) ==
    LET r == incoming[c] IN
    /\ r # Nobody /\ NoneCalled(ProcessOf[c]) /\ MutexFree(c)
    /\ incoming' = [incoming EXCEPT ![c] = Nobody]
    /\ IF ForMe(c, r) /\ Pending(c, r.num) # {}
       THEN /\ pending_requests' = [pending_requests EXCEPT ![c] = Erased(c, r.num)]
            /\ promise' = [promise EXCEPT ![[client |-> c, num |-> r.num]] = Append(@, r)]
            /\ handling' = [handling EXCEPT ![c] =
                 IF [num |-> r.num, cb |-> TRUE] \in pending_requests[c]
                 THEN "callback" ELSE "no"]
            /\ mutex' = [mutex EXCEPT ![c] = IF handling'[c] = "callback" THEN c ELSE @]
       ELSE UNCHANGED <<pending_requests, promise, handling, mutex>>
    /\ UNCHANGED <<sequence_number, read, callerVars, serviceVars, is_shutdown, missed>>

CallbackReturns(c) ==
    /\ handling[c] = "callback"
    /\ handling' = [handling EXCEPT ![c] = "no"]
    /\ mutex' = [mutex EXCEPT ![c] = Nobody]
    /\ UNCHANGED <<sequence_number, pending_requests, promise, incoming, read,
                   callerVars, serviceVars, is_shutdown, missed>>

\* The callback sends a request: AsyncSendRequest waits for the mutex that its
\* own thread holds.
CallbackCalls(c) ==
    /\ handling[c] = "callback"
    /\ handling' = [handling EXCEPT ![c] = "stuck"]
    /\ UNCHANGED <<sequence_number, pending_requests, mutex, promise, incoming, read,
                   callerVars, serviceVars, is_shutdown, missed>>

-----------------------------------------------------------------------------
(* Service *)

ownVars == <<clientVars, callerVars, is_shutdown>>
networkVars == <<offered, taken, sent, missed>>

Goto(s, p) == phase' = [phase EXCEPT ![s] = p]
ThreadGoto(s, p) == thread' = [thread EXCEPT ![s] = p]

\* Init: from here on requests arrive.  Only the first service of a process makes
\* a subscriber, which gets the requests of before; a later one shares it.
CreateReceiver(s) ==
    /\ phase[s] = "new" /\ Goto(s, "created")
    /\ UNCHANGED <<ownVars, networkVars, inited, tasks, queue_mutex, thread, task>>

StartThread(s) ==
    /\ phase[s] = "created" /\ Goto(s, "up")
    /\ inited' = [inited EXCEPT ![s] = TRUE]
    /\ ThreadGoto(s, "top")
    /\ UNCHANGED <<ownVars, networkVars, tasks, queue_mutex, task>>

\* Fault: the queue is used without its mutex.
NoQueueMutex(s) == TRUE
QueueFree(s) == ~queue_mutex[s]

\* A thread in the wait after notify_one or notify_all.
Notify(s) == thread' = [thread EXCEPT ![s] = IF @ = "waiting" THEN "woken" ELSE @]

ServicesOf(p) == {s \in Services : ProcessOf[s] = p}

\* The subscriber of a process stays when its services are destroyed.
Subscribed(p) == \E s \in ServicesOf(p) : phase[s] \notin {"never", "new"}

Connected(p) == {s \in ServicesOf(p) : phase[s] \notin {"never", "new", "gone"}}

\* The process' subscriber of requests takes one of client c, for the services of
\* the process that are connected now.
TakeRequest(p, c) ==
    /\ Subscribed(p)
    /\ \A s \in ServicesOf(p) : offered[s] = Nobody
    /\ \E n \in NextOf(taken[p][c], sequence_number[c]) :
         /\ taken' = [taken EXCEPT ![p][c] = n]
         /\ missed' = (missed \/ n # taken[p][c] + 1)
         /\ offered' = [s \in Services |->
              IF s \in Connected(p) THEN [client |-> c, num |-> n] ELSE offered[s]]
    /\ UNCHANGED <<ownVars, phase, inited, tasks, queue_mutex, thread, task, sent>>

\* One service is called with the request.
Enqueue(s) ==
    /\ offered[s] # Nobody /\ QueueFree(s)
    /\ offered' = [offered EXCEPT ![s] = Nobody]
    /\ tasks' = [tasks EXCEPT ![s] = Append(@, offered[s])]
    /\ Notify(s)
    /\ UNCHANGED <<ownVars, phase, inited, queue_mutex, task, taken, sent, missed>>

\* Process takes the mutex and tests the predicate of the wait.
Test(s) ==
    /\ thread[s] = "woken" \/ (thread[s] = "top" /\ ~is_shutdown[ProcessOf[s]])
    /\ ~queue_mutex[s]
    /\ queue_mutex' = [queue_mutex EXCEPT ![s] = TRUE]
    /\ ThreadGoto(s, IF ~inited[s] \/ tasks[s] # <<>> THEN "go" ELSE "block")
    /\ UNCHANGED <<ownVars, networkVars, phase, inited, tasks, task>>

\* The predicate is false: the mutex is released and the thread blocks.
Block(s) ==
    /\ thread[s] = "block" /\ ThreadGoto(s, "waiting")
    /\ queue_mutex' = [queue_mutex EXCEPT ![s] = FALSE]
    /\ UNCHANGED <<ownVars, networkVars, phase, inited, tasks, task>>

\* After the wait inited_ is tested again; destroy may have cleared it since.
Pop(s) ==
    /\ thread[s] = "go" /\ inited[s] /\ ThreadGoto(s, "run")
    /\ task' = [task EXCEPT ![s] = Head(tasks[s])]
    /\ tasks' = [tasks EXCEPT ![s] = Tail(@)]
    /\ queue_mutex' = [queue_mutex EXCEPT ![s] = FALSE]
    /\ UNCHANGED <<ownVars, networkVars, phase, inited>>

Break(s) ==
    /\ thread[s] = "go" /\ ~inited[s] /\ ThreadGoto(s, "done")
    /\ queue_mutex' = [queue_mutex EXCEPT ![s] = FALSE]
    /\ UNCHANGED <<ownVars, networkVars, phase, inited, tasks, task>>

\* The task: the user's callback, and the response with the info of the request.
HandleRequest(s) ==
    /\ thread[s] = "run" /\ ThreadGoto(s, "top")
    /\ sent' = [sent EXCEPT ![s] = Append(@, task[s])]
    /\ task' = [task EXCEPT ![s] = Nobody]
    /\ UNCHANGED <<ownVars, phase, inited, tasks, queue_mutex, offered, taken, missed>>

\* cyber::IsShutdown ends the loop.
LeaveLoop(s) ==
    /\ thread[s] = "top" /\ is_shutdown[ProcessOf[s]] /\ ThreadGoto(s, "done")
    /\ UNCHANGED <<ownVars, networkVars, phase, inited, tasks, queue_mutex, task>>

\* destroy: the flag is cleared without the mutex.
ClearInited(s) ==
    /\ phase[s] = "up" /\ Goto(s, "clear")
    /\ inited' = [inited EXCEPT ![s] = FALSE]
    /\ UNCHANGED <<ownVars, networkVars, tasks, queue_mutex, thread, task>>

ClearTasks(s) ==
    /\ phase[s] = "clear" /\ QueueFree(s) /\ Goto(s, "notify")
    /\ tasks' = [tasks EXCEPT ![s] = <<>>]
    /\ UNCHANGED <<ownVars, networkVars, inited, queue_mutex, thread, task>>

NotifyAll(s) ==
    /\ phase[s] = "notify" /\ Goto(s, "join")
    /\ Notify(s)
    /\ UNCHANGED <<ownVars, networkVars, inited, tasks, queue_mutex, task>>

\* The end of destroy, after which the receiver goes and disconnects: a subscriber
\* about to call the service does not.
Join(s) ==
    /\ phase[s] = "join" /\ thread[s] = "done" /\ Goto(s, "gone")
    /\ offered' = [offered EXCEPT ![s] = Nobody]
    /\ UNCHANGED <<ownVars, taken, sent, missed, inited, tasks, queue_mutex, thread, task>>

\* cyber::Shutdown in a process, while a thread that looks at it is running.
Shutdown(p) ==
    /\ ~is_shutdown[p] /\ \E s \in ServicesOf(p) : thread[s] \notin {"none", "done"}
    /\ is_shutdown' = [is_shutdown EXCEPT ![p] = TRUE]
    /\ UNCHANGED <<clientVars, callerVars, serviceVars, missed>>

-----------------------------------------------------------------------------
CallerStep(t) == Send(t) \/ Insert(t) \/ GetAnswer(t) \/ TimeOut(t)
Listener(c) == HandleResponse(c) \/ CallbackReturns(c)
Subscriber(p) ==
    \/ \E s \in Services : TakeResponse(p, s)
    \/ \E c \in Clients : TakeRequest(p, c)
Process(s) == Test(s) \/ Block(s) \/ Pop(s) \/ Break(s) \/ HandleRequest(s) \/ LeaveLoop(s)
ServiceInit(s) == CreateReceiver(s) \/ StartThread(s)
Destroy(s) == ClearTasks(s) \/ NotifyAll(s) \/ Join(s)

Next ==
    \/ \E t \in Callers : Call(t) \/ CallerStep(t)
    \/ \E c \in Clients : Listener(c) \/ CallbackCalls(c)
    \/ \E s \in Services :
         ServiceInit(s) \/ Enqueue(s) \/ Process(s) \/ ClearInited(s) \/ Destroy(s)
    \/ \E p \in Processes : Subscriber(p) \/ Shutdown(p)

Spec == Init /\ [][Next]_vars

\* As long as a thread can run, a message kept for a subscriber can be passed on
\* or a wait can end at its time-out, one of them does.  Nobody has to call,
\* start or destroy anything.
System ==
    \/ \E t \in Callers : CallerStep(t)
    \/ \E c \in Clients : Listener(c) \/ CallbackCalls(c)
    \/ \E s \in Services : Enqueue(s) \/ Process(s) \/ Destroy(s)
    \/ \E p \in Processes : Subscriber(p)

FairSpec == Spec /\ WF_vars(System)

-----------------------------------------------------------------------------
TypeOK ==
    /\ sequence_number \in [Clients -> {0} \cup Numbers]
    /\ \A c \in Clients : pending_requests[c] \subseteq [num : Numbers, cb : BOOLEAN]
    /\ \A c \in Clients :
         mutex[c] \in {Nobody, c} \cup {t \in Callers : ClientOf[t] = c}
    /\ promise \in [Requests -> Seq(Requests)]
    /\ cpc \in [Callers -> {"idle", "enter", "insert", "wait"}]
    /\ call \in [Callers -> {0} \cup Numbers] /\ left \in [Callers -> Nat]
    /\ handling \in [Clients -> {"no", "callback", "stuck"}]
    /\ incoming \in [Clients -> Requests \cup {Nobody}]
    /\ read \in [Processes -> [Services -> Nat]]
    /\ phase \in [Services -> {"never", "new", "created", "up", "clear", "notify",
                               "join", "gone"}]
    /\ thread \in [Services -> {"none", "top", "go", "block", "waiting", "woken",
                                "run", "done"}]
    /\ inited \in [Services -> BOOLEAN] /\ queue_mutex \in [Services -> BOOLEAN]
    /\ tasks \in [Services -> Seq(Requests)] /\ sent \in [Services -> Seq(Requests)]
    /\ task \in [Services -> Requests \cup {Nobody}]
    /\ offered \in [Services -> Requests \cup {Nobody}]
    /\ taken \in [Processes -> [Clients -> {0} \cup Numbers]]
    /\ is_shutdown \in [Processes -> BOOLEAN] /\ missed \in BOOLEAN

\* A future is never given the answer to another request, though every client
\* gets the responses to all, numbered from 1 for each client.
OwnAnswer == \A r \in Requests : \A i \in 1 .. Len(promise[r]) : promise[r][i] = r

\* set_value is called once for a promise, though two services may answer the
\* request, and one that starts later in another process is given it again.
AnsweredOnce == \A r \in Requests : Len(promise[r]) <= 1

\* A future is completed at most once, with the answer to its own request.
AnswersInv == TypeOK /\ OwnAnswer /\ AnsweredOnce

Stuck(c) == handling[c] = "stuck"
Awaits(r) == Pending(r.client, r.num) # {}

\* The service has been called with the request, or will be.
Given(r, s) ==
    \/ r.num > taken[ProcessOf[s]][r.client]
    \/ offered[s] = r \/ task[s] = r
    \/ \E i \in 1 .. Len(tasks[s]) : tasks[s][i] = r
    \/ \E i \in 1 .. Len(sent[s]) : sent[s][i] = r

\* Nothing stands between the service and the caller: the service is up, its
\* process is not shut down, and no callback of a client in the process of the
\* caller has called its client.
Unhindered(r, s) ==
    /\ phase[s] = "up" /\ ~is_shutdown[ProcessOf[s]]
    /\ ~\E c \in ClientsOf(ProcessOf[r.client]) : Stuck(c)

\* The pending requests that a service has been, or will be, called with.
Owed == {o \in Requests \X Services :
           Awaits(o[1]) /\ Given(o[1], o[2]) /\ Unhindered(o[1], o[2])}

\* A request that is pending and reaches a service that is up is answered, in
\* whatever order the request, its entry and the response come, unless the
\* answer is hindered or a message is overwritten before it is read: it is not
\* lost on its way through the queue of the service, and what is owed is paid.
Answered ==
    /\ [][\A o \in Owed :
            Given(o[1], o[2])' \/ missed' \/ ~Unhindered(o[1], o[2])']_vars
    /\ Owed # {} ~> (Owed = {} \/ missed)

\* SendRequest returns, also when nobody answers.
CallsReturn == \A t \in Callers : cpc[t] # "idle" ~> cpc[t] = "idle"

\* The calls of SendRequest under way, without those of a client whose own
\* callback is stuck, and the services whose destroy is under way.
Detained ==
    {t \in Callers : cpc[t] # "idle" /\ ~Stuck(ClientOf[t])}
      \cup {s \in Services : phase[s] \in {"clear", "notify", "join"}}

\* Nobody is kept for ever: SendRequest returns, also when nobody answers and
\* while a callback of another client of the process is stuck; and destroy
\* does, whose thread does not sleep through it though inited_ is cleared
\* without the mutex.
AllReturn == Detained # {} ~> Detained = {}

=============================================================================
