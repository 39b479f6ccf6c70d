------------------------- MODULE ServiceCallProofs -------------------------
(***************************************************************************)
(* A client's future is completed at most once and with the answer to its  *)
(* own request, for any numbers of clients, calling threads and services   *)
(* of the name in any processes, and whatever the channels overwrite.      *)
(*                                                                         *)
(* The promise of a request is fulfilled exactly when its entry leaves the *)
(* table of pending requests, and a number gets one entry because the      *)
(* thread that has drawn it holds the mutex until the entry is there.      *)
(***************************************************************************)
EXTENDS ServiceCall, TLAPS

Entries == [num : Numbers, cb : BOOLEAN]

\* TypeOK, of the clients and of the services.
ClientTypes ==
    /\ sequence_number \in [Clients -> {0} \cup Numbers]
    /\ pending_requests \in [Clients -> SUBSET Entries]
    /\ mutex \in [Clients -> {Nobody} \cup Clients \cup Callers]
    /\ \A c \in Clients :
         mutex[c] \in {Nobody, c} \cup {t \in Callers : ClientOf[t] = c}
    /\ promise \in [Requests -> Seq(Requests)]
    /\ cpc \in [Callers -> {"idle", "enter", "insert", "wait"}]
    /\ call \in [Callers -> {0} \cup Numbers] /\ left \in [Callers -> Nat]
    /\ handling \in [Clients -> {"no", "callback", "stuck"}]
    /\ incoming \in [Clients -> Requests \cup {Nobody}]
    /\ read \in [Processes -> [Services -> Nat]]
    /\ is_shutdown \in [Processes -> BOOLEAN]

ServiceTypes ==
    /\ phase \in [Services -> {"never", "new", "created", "up", "clear", "notify",
                               "join", "gone"}]
    /\ thread \in [Services -> {"none", "top", "go", "block", "waiting", "woken",
                                "run", "done"}]
    /\ inited \in [Services -> BOOLEAN] /\ queue_mutex \in [Services -> BOOLEAN]
    /\ tasks \in [Services -> Seq(Requests)] /\ sent \in [Services -> Seq(Requests)]
    /\ task \in [Services -> Requests \cup {Nobody}]
    /\ offered \in [Services -> Requests \cup {Nobody}]
    /\ taken \in [Processes -> [Clients -> {0} \cup Numbers]]
    /\ missed \in BOOLEAN

\* A number between Transmit and the entry is the client's latest, nobody has
\* answered it, and its thread has the mutex.
InsertInv ==
    \A t \in Callers : cpc[t] = "insert" =>
        /\ mutex[ClientOf[t]] = t /\ handling[ClientOf[t]] = "no"
        /\ call[t] = sequence_number[ClientOf[t]] /\ call[t] \in Numbers
        /\ promise[Request(t)] = <<>>

\* A callback runs with the mutex held.
HandlingInv == \A c \in Clients : handling[c] # "no" => mutex[c] = c

\* A pending request has been sent and is not answered.
PendingInv ==
    \A c \in Clients : \A p \in pending_requests[c] :
        /\ p.num <= sequence_number[c]
        /\ promise[[client |-> c, num |-> p.num]] = <<>>

\* An answer is the request's own, and the request has been sent.
AnswerInv ==
    \A r \in Requests : promise[r] # <<>> =>
        promise[r] = <<r>> /\ r.num <= sequence_number[r.client]

\* The thread of a service takes a task only when there is one, and answers
\* only what it has taken.
ServiceInv ==
    \A s \in Services :
        /\ inited[s] <=> phase[s] = "up"
        /\ phase[s] \in {"never", "new", "created"} => thread[s] = "none"
        /\ thread[s] = "go" /\ inited[s] => tasks[s] # <<>>
        /\ thread[s] = "run" => task[s] \in Requests

ClientInv == ClientTypes /\ InsertInv /\ HandlingInv /\ PendingInv /\ AnswerInv

IInv == ClientInv /\ ServiceTypes /\ ServiceInv

-----------------------------------------------------------------------------
\* The initial state satisfies the invariant.
LEMMA InitIInv == Init => IInv
  <1> SUFFICES ASSUME Init PROVE IInv
    OBVIOUS
  <1>1. PICK u \in Setups :
          /\ left = u.calls
          /\ phase = [s \in Services |-> IF s \in u.services THEN "new" ELSE "never"]
    BY DEF Init
  <1>2. <<>> \in Seq(Requests)
    OBVIOUS
  <1>3. ClientTypes
    <2>1. promise \in [Requests -> Seq(Requests)] /\ left \in [Callers -> Nat]
      BY <1>1, <1>2, SetupsAssumption DEF Init
    <2>2. QED
      BY <2>1 DEF Init, ClientTypes
  <1>4. ServiceTypes
    <2>1. tasks \in [Services -> Seq(Requests)] /\ sent \in [Services -> Seq(Requests)]
      BY <1>2 DEF Init
    <2>2. phase \in [Services -> {"new", "never"}]
      BY <1>1
    <2>3. QED
      BY <2>1, <2>2 DEF Init, ServiceTypes
  <1>5. InsertInv /\ HandlingInv /\ PendingInv /\ AnswerInv
    BY DEF Init, InsertInv, HandlingInv, PendingInv, AnswerInv, Requests
  <1>6. ServiceInv
    BY <1>1 DEF Init, ServiceInv
  <1>7. QED
    BY <1>3, <1>4, <1>5, <1>6 DEF IInv, ClientInv

\* A step that leaves the variables of the clients alone keeps their part.
LEMMA ClientFrame == ClientInv /\ UNCHANGED <<clientVars, callerVars, is_shutdown>> => ClientInv'
  <1> SUFFICES ASSUME ClientInv, UNCHANGED <<clientVars, callerVars, is_shutdown>>
               PROVE  ClientInv'
    OBVIOUS
  <1> USE DEF clientVars, callerVars, ClientInv
  <1>1. ClientTypes' /\ HandlingInv'
    BY DEF ClientTypes, HandlingInv
  <1>2. InsertInv'
    BY DEF InsertInv, Request
  <1>3. PendingInv' /\ AnswerInv'
    BY DEF PendingInv, AnswerInv
  <1>4. QED
    BY <1>1, <1>2, <1>3

\* A step that leaves the variables of the services alone keeps their part.
LEMMA ServiceFrame ==
  ServiceTypes /\ ServiceInv /\ UNCHANGED <<serviceVars, missed>>
    => ServiceTypes' /\ ServiceInv'
  BY DEF serviceVars, ServiceTypes, ServiceInv

\* A step that begins no insertion and leaves the clients where one goes on
\* alone keeps InsertInv.
LEMMA InsertFrame ==
  ASSUME InsertInv, UNCHANGED <<sequence_number, promise, call>>,
         \A u \in Callers : cpc'[u] = "insert" =>
            /\ cpc[u] = "insert"
            /\ mutex'[ClientOf[u]] = mutex[ClientOf[u]]
            /\ handling'[ClientOf[u]] = handling[ClientOf[u]]
  PROVE  InsertInv'
  <1> SUFFICES ASSUME NEW u \in Callers, cpc'[u] = "insert"
               PROVE  InsertInv!(u)'
    BY DEF InsertInv
  <1>1. cpc[u] = "insert" /\ Request(u)' = Request(u)
    BY DEF Request
  <1>2. /\ mutex[ClientOf[u]] = u /\ handling[ClientOf[u]] = "no"
        /\ call[u] = sequence_number[ClientOf[u]] /\ call[u] \in Numbers
        /\ promise[Request(u)] = <<>>
    BY <1>1 DEF InsertInv
  <1>3. QED
    BY <1>1, <1>2

-----------------------------------------------------------------------------
(* Client *)

\* The steps of a calling thread keep the invariant.
LEMMA CallerIInv ==
  ASSUME IInv, NEW t \in Callers, Call(t) \/ CallerStep(t)
  PROVE  IInv'
  <1> DEFINE c == ClientOf[t]
  <1> USE ClientOfAssumption, SetupsAssumption, NobodyAssumption DEF Numbers
  <1>1. c \in Clients
    OBVIOUS
  <1>2. ServiceTypes' /\ ServiceInv'
    <2>1. UNCHANGED <<serviceVars, missed>>
      BY DEF Call, Send, CallerStep, Insert, GetAnswer, TimeOut, Return
    <2>2. QED
      BY <2>1, ServiceFrame DEF IInv
  <1>3. CASE Send(t)
    <2> DEFINE n == sequence_number[c] + 1
    <2>1. /\ n \in Numbers /\ mutex[c] = Nobody /\ cpc[t] = "enter"
          /\ mutex' = [mutex EXCEPT ![c] = t]
          /\ sequence_number' = [sequence_number EXCEPT ![c] = n]
          /\ call' = [call EXCEPT ![t] = n]
          /\ cpc' = [cpc EXCEPT ![t] = "insert"]
          /\ UNCHANGED <<pending_requests, promise, incoming, handling, read, left,
                         is_shutdown>>
      <3>1. sequence_number[c] \in Nat
        BY <1>1 DEF IInv, ClientInv, ClientTypes
      <3>2. QED
        BY <1>3, <3>1 DEF Send, NextNumber
    <2>2. \A d \in Clients : sequence_number[d] \in Nat /\ sequence_number'[d] \in Nat
                             /\ sequence_number[d] <= sequence_number'[d]
      BY <2>1 DEF IInv, ClientInv, ClientTypes
    <2>3. ClientTypes'
      <3> HIDE DEF n
      <3>1. QED
        BY <1>1, <2>1 DEF IInv, ClientInv, ClientTypes
    <2>4. HandlingInv' /\ handling[c] = "no"
      BY <1>1, <2>1 DEF IInv, ClientInv, ClientTypes, HandlingInv
    <2>5. promise[[client |-> c, num |-> n]] = <<>>
      <3>1. [client |-> c, num |-> n] \in Requests
        BY <1>1, <2>1 DEF Requests
      <3>2. ~(n <= sequence_number[c])
        BY <1>1, <2>2
      <3>3. QED
        BY <3>1, <3>2 DEF IInv, ClientInv, AnswerInv
    <2>6. InsertInv'
      <3> SUFFICES ASSUME NEW u \in Callers, cpc'[u] = "insert"
                   PROVE  /\ mutex'[ClientOf[u]] = u /\ handling[ClientOf[u]] = "no"
                          /\ call'[u] = sequence_number'[ClientOf[u]] /\ call'[u] \in Numbers
                          /\ promise[[client |-> ClientOf[u], num |-> call'[u]]] = <<>>
        BY <2>1 DEF InsertInv, Request
      <3> HIDE DEF n
      <3>1. CASE u = t
        BY <1>1, <2>1, <2>4, <2>5, <3>1 DEF IInv, ClientInv, ClientTypes
      <3>2. CASE u # t
        <4>1. cpc[u] = "insert" /\ call'[u] = call[u]
          BY <2>1, <3>2 DEF IInv, ClientInv, ClientTypes
        <4>2. mutex[ClientOf[u]] = u /\ ClientOf[u] # c
          BY <1>1, <2>1, <4>1 DEF IInv, ClientInv, InsertInv
        <4>3. QED
          BY <1>1, <2>1, <4>1, <4>2 DEF IInv, ClientInv, ClientTypes, InsertInv, Request
      <3>3. QED
        BY <3>1, <3>2
    <2>7. PendingInv'
      <3> SUFFICES ASSUME NEW d \in Clients, NEW p \in pending_requests[d]
                   PROVE  p.num <= sequence_number'[d]
        BY <2>1 DEF IInv, ClientInv, PendingInv
      <3>1. p.num <= sequence_number[d] /\ p.num \in Nat
        <4>1. p \in Entries
          BY DEF IInv, ClientInv, ClientTypes
        <4>2. QED
          <5>1. p.num \in Numbers
            BY <4>1 DEF Entries
          <5>2. p.num <= sequence_number[d]
            BY DEF IInv, ClientInv, PendingInv
          <5>3. QED
            BY <5>1, <5>2
      <3>2. QED
        BY <2>2, <3>1
    <2>8. AnswerInv'
      <3> SUFFICES ASSUME NEW r \in Requests, promise[r] # <<>>
                   PROVE  promise[r] = <<r>> /\ r.num <= sequence_number'[r.client]
        BY <2>1 DEF AnswerInv
      <3>1. promise[r] = <<r>> /\ r.num <= sequence_number[r.client]
        BY DEF IInv, ClientInv, AnswerInv
      <3>2. r.num \in Nat /\ r.client \in Clients
        BY DEF Requests
      <3>3. QED
        BY <2>2, <3>1, <3>2
    <2>9. QED
      BY <1>2, <2>3, <2>4, <2>6, <2>7, <2>8 DEF IInv, ClientInv
  <1>4. CASE Insert(t)
    <2>1. PICK waits \in BOOLEAN :
            /\ pending_requests' = [pending_requests EXCEPT
                                     ![c] = @ \cup {[num |-> call[t], cb |-> ~waits]}]
            /\ cpc' = [cpc EXCEPT ![t] = IF waits THEN "wait" ELSE "idle"]
      BY <1>4 DEF Insert
    <2>2. /\ cpc[t] = "insert" /\ mutex' = [mutex EXCEPT ![c] = Nobody]
          /\ UNCHANGED <<sequence_number, promise, incoming, handling, read, call, left,
                         is_shutdown>>
      BY <1>4 DEF Insert
    <2>3. /\ mutex[c] = t /\ handling[c] = "no" /\ call[t] = sequence_number[c]
          /\ call[t] \in Numbers /\ promise[[client |-> c, num |-> call[t]]] = <<>>
      BY <2>2 DEF IInv, ClientInv, InsertInv, Request
    <2> DEFINE e == [num |-> call[t], cb |-> ~waits]
    <2>4. e \in Entries /\ e.num = call[t]
      BY <2>3 DEF Entries
    <2>5. \A u \in Callers : cpc'[u] = "insert" => cpc[u] = "insert" /\ u # t
      BY <2>1, <2>2 DEF IInv, ClientInv, ClientTypes
    <2> HIDE DEF e
    <2>6. pending_requests' = [pending_requests EXCEPT ![c] = @ \cup {e}]
      BY <2>1 DEF e
    <2>7. ClientTypes'
      <3>1. cpc' \in [Callers -> {"idle", "enter", "insert", "wait"}]
        BY <2>1 DEF IInv, ClientInv, ClientTypes
      <3>2. pending_requests' \in [Clients -> SUBSET Entries]
        BY <1>1, <2>4, <2>6 DEF IInv, ClientInv, ClientTypes
      <3>3. QED
        BY <1>1, <2>2, <3>1, <3>2 DEF IInv, ClientInv, ClientTypes
    <2>8. InsertInv' /\ HandlingInv'
      <3>1. \A u \in Callers : cpc'[u] = "insert" => ClientOf[u] # c
        BY <2>3, <2>5 DEF IInv, ClientInv, InsertInv
      <3>2. \A d \in Clients \ {c} : mutex'[d] = mutex[d]
        BY <2>2 DEF IInv, ClientInv, ClientTypes
      <3>3. InsertInv'
        BY <2>2, <2>5, <3>1, <3>2, InsertFrame DEF IInv, ClientInv
      <3>4. HandlingInv'
        BY <2>2, <2>3, <3>2 DEF IInv, ClientInv, HandlingInv
      <3>5. QED
        BY <3>3, <3>4
    <2>9. PendingInv'
      <3> SUFFICES ASSUME NEW d \in Clients, NEW p \in pending_requests'[d]
                   PROVE  /\ p.num <= sequence_number[d]
                          /\ promise[[client |-> d, num |-> p.num]] = <<>>
        BY <2>2 DEF PendingInv
      <3>1. p \in pending_requests[d] \/ (d = c /\ p = e)
        BY <2>6 DEF IInv, ClientInv, ClientTypes
      <3>2. CASE p \in pending_requests[d]
        BY <3>2 DEF IInv, ClientInv, PendingInv
      <3>3. CASE d = c /\ p = e
        BY <2>3, <2>4, <3>3
      <3>4. QED
        BY <3>1, <3>2, <3>3
    <2>10. AnswerInv'
      BY <2>2 DEF IInv, ClientInv, AnswerInv
    <2>11. QED
      BY <1>2, <2>7, <2>8, <2>9, <2>10 DEF IInv, ClientInv
  <1>5. CASE GetAnswer(t) \/ TimeOut(t)
    <2>1. cpc' = [cpc EXCEPT ![t] = "idle"] /\ UNCHANGED <<clientVars, call, left, is_shutdown>>
      BY <1>5 DEF GetAnswer, TimeOut, Return
    <2> USE <2>1 DEF clientVars, IInv, ClientInv
    <2>2. ClientTypes' /\ HandlingInv'
      <3>1. cpc' \in [Callers -> {"idle", "enter", "insert", "wait"}]
        BY DEF ClientTypes
      <3>2. QED
        BY <3>1 DEF ClientTypes, HandlingInv
    <2>3. \A u \in Callers : cpc'[u] = "insert" => cpc[u] = "insert"
      BY DEF ClientTypes
    <2>4. InsertInv'
      BY <2>3, InsertFrame
    <2>5. PendingInv' /\ AnswerInv'
      BY DEF PendingInv, AnswerInv
    <2>6. QED
      BY <1>2, <2>2, <2>4, <2>5
  <1>6. CASE Call(t)
    <2> USE <1>6 DEF Call, clientVars, IInv, ClientInv
    <2>1. left[t] \in Nat /\ left[t] - 1 \in Nat
      BY DEF ClientTypes
    <2>2. ClientTypes' /\ HandlingInv'
      <3>1. left' \in [Callers -> Nat] /\ cpc' \in [Callers -> {"idle", "enter", "insert", "wait"}]
        BY <2>1 DEF ClientTypes
      <3>2. QED
        BY <3>1 DEF ClientTypes, HandlingInv
    <2>3. \A u \in Callers : cpc'[u] = "insert" => cpc[u] = "insert"
      BY DEF ClientTypes
    <2>4. InsertInv'
      BY <2>3, InsertFrame
    <2>5. PendingInv' /\ AnswerInv'
      BY DEF PendingInv, AnswerInv
    <2>6. QED
      BY <1>2, <2>2, <2>4, <2>5
  <1>7. QED
    BY <1>3, <1>4, <1>5, <1>6 DEF CallerStep

\* A response taken for the clients of a process keeps the invariant.
LEMMA TakeResponseIInv ==
  ASSUME IInv, NEW p \in Processes, NEW s \in Services, TakeResponse(p, s)
  PROVE  IInv'
  <1>1. PICK i \in NextOf(read[p][s], Len(sent[s])) : TakeResponse(p, s)!3!(i)
    BY DEF TakeResponse
  <1>2. i \in Nat /\ sent[s][i] \in Requests
    BY DEF IInv, ClientInv, ClientTypes, ServiceTypes, NextOf
  <1>3. UNCHANGED <<sequence_number, pending_requests, mutex, promise, handling, callerVars,
                    serviceVars, is_shutdown>>
    BY DEF TakeResponse
  <1>4. ServiceTypes' /\ ServiceInv'
    BY <1>1, <1>3 DEF IInv, ServiceTypes, ServiceInv, serviceVars
  <1>5. incoming' \in [Clients -> Requests \cup {Nobody}]
    <2> DEFINE x == sent[s][i]
    <2>1. incoming' = [c \in Clients |-> IF c \in ClientsOf(p) THEN x ELSE incoming[c]]
      BY <1>1
    <2>2. x \in Requests
      BY <1>2
    <2> HIDE DEF x
    <2>3. QED
      BY <2>1, <2>2 DEF IInv, ClientInv, ClientTypes
  <1>6. read' \in [Processes -> [Services -> Nat]]
    BY <1>1, <1>2 DEF IInv, ClientInv, ClientTypes
  <1> USE <1>3 DEF callerVars, IInv, ClientInv
  <1>7. ClientTypes' /\ HandlingInv'
    BY <1>5, <1>6 DEF ClientTypes, HandlingInv
  <1>8. InsertInv'
    BY DEF InsertInv, Request
  <1>9. PendingInv' /\ AnswerInv'
    BY DEF PendingInv, AnswerInv
  <1>10. QED
    BY <1>4, <1>7, <1>8, <1>9

\* The steps of HandleResponse keep the invariant.
LEMMA HandleResponseIInv ==
  ASSUME IInv, NEW c \in Clients, HandleResponse(c)
  PROVE  IInv'
  <1> USE ClientOfAssumption, ProcessOfAssumption, SetupsAssumption, NobodyAssumption
      DEF Numbers
  <1> DEFINE r == incoming[c]
  <1>1. IF ForMe(c, r) /\ Pending(c, r.num) # {}
        THEN /\ pending_requests' = [pending_requests EXCEPT ![c] = Erased(c, r.num)]
             /\ promise' = [promise EXCEPT ![[client |-> c, num |-> r.num]] = Append(@, r)]
             /\ handling' = [handling EXCEPT ![c] =
                  IF [num |-> r.num, cb |-> TRUE] \in pending_requests[c]
                  THEN "callback" ELSE "no"]
             /\ mutex' = [mutex EXCEPT ![c] = IF handling'[c] = "callback" THEN c ELSE @]
        ELSE UNCHANGED <<pending_requests, promise, handling, mutex>>
    BY DEF HandleResponse
  <1>2. r \in Requests
    BY DEF HandleResponse, IInv, ClientInv, ClientTypes
  <1>3. /\ handling[c] = "no" /\ mutex[c] = Nobody
        /\ UNCHANGED <<sequence_number, read, callerVars, serviceVars, is_shutdown, missed>>
    BY DEF HandleResponse, MutexFree, NoneCalled, ClientsOf
  <1>4. ServiceTypes' /\ ServiceInv'
    BY <1>3, ServiceFrame DEF IInv
  <1>5. incoming' \in [Clients -> Requests \cup {Nobody}]
    BY DEF HandleResponse, IInv, ClientInv, ClientTypes
  <1>6. CASE UNCHANGED <<pending_requests, promise, handling, mutex>>
    <2> USE <1>3, <1>6 DEF callerVars, IInv, ClientInv
    <2>1. ClientTypes' /\ HandlingInv'
      BY <1>5 DEF ClientTypes, HandlingInv
    <2>2. InsertInv'
      BY DEF InsertInv, Request
    <2>3. PendingInv' /\ AnswerInv'
      BY DEF PendingInv, AnswerInv
    <2>4. QED
      BY <1>4, <2>1, <2>2, <2>3
  <1>7. CASE ForMe(c, r) /\ Pending(c, r.num) # {}
    <2>1. /\ pending_requests' = [pending_requests EXCEPT ![c] = Erased(c, r.num)]
          /\ promise' = [promise EXCEPT ![[client |-> c, num |-> r.num]] = Append(@, r)]
          /\ handling' = [handling EXCEPT ![c] =
               IF [num |-> r.num, cb |-> TRUE] \in pending_requests[c]
               THEN "callback" ELSE "no"]
          /\ mutex' = [mutex EXCEPT ![c] = IF handling'[c] = "callback" THEN c ELSE @]
      BY <1>1, <1>7
    <2>2. PICK p \in pending_requests[c] : p.num = r.num
      BY <1>7 DEF Pending
    <2>3. r = [client |-> c, num |-> r.num] /\ r.num \in Nat
      BY <1>2, <1>7 DEF ForMe, Requests
    <2>4. promise[r] = <<>> /\ r.num <= sequence_number[c]
      BY <2>2, <2>3 DEF IInv, ClientInv, PendingInv
    <2>5. promise' = [promise EXCEPT ![r] = <<r>>]
      <3> HIDE DEF r
      <3>1. Append(<<>>, r) = <<r>>
        OBVIOUS
      <3>2. promise' = [promise EXCEPT ![r] = Append(@, r)]
        BY <2>1, <2>3
      <3>3. QED
        BY <2>4, <3>1, <3>2
    <2>6. /\ pending_requests' \in [Clients -> SUBSET Entries]
          /\ \A d \in Clients : pending_requests'[d] \subseteq pending_requests[d]
          /\ \A q \in pending_requests'[c] : q.num # r.num
      BY <2>1 DEF IInv, ClientInv, ClientTypes, Erased, Pending
    <2> HIDE DEF r
    <2>7. \/ handling'[c] = "callback" /\ mutex'[c] = c
          \/ handling'[c] = "no" /\ mutex'[c] = Nobody
      BY <1>3, <2>1 DEF IInv, ClientInv, ClientTypes
    <2>8. /\ handling' \in [Clients -> {"no", "callback", "stuck"}]
          /\ mutex' \in [Clients -> {Nobody} \cup Clients \cup Callers]
          /\ \A d \in Clients \ {c} : handling'[d] = handling[d] /\ mutex'[d] = mutex[d]
      BY <2>1 DEF IInv, ClientInv, ClientTypes
    <2>9. promise' \in [Requests -> Seq(Requests)]
      <3>1. <<r>> \in Seq(Requests)
        BY <1>2
      <3>2. QED
        BY <2>5, <3>1 DEF IInv, ClientInv, ClientTypes
    <2>10. ClientTypes'
      BY <1>3, <1>5, <2>6, <2>7, <2>8, <2>9 DEF IInv, ClientInv, ClientTypes, callerVars
    <2>11. InsertInv'
      <3> SUFFICES ASSUME NEW t \in Callers, cpc[t] = "insert" PROVE InsertInv!(t)'
        BY <1>3 DEF InsertInv, callerVars
      <3>1. /\ ClientOf[t] # c /\ [client |-> ClientOf[t], num |-> call[t]] # r
        BY <1>3, <2>3 DEF IInv, ClientInv, InsertInv
      <3>2. [client |-> ClientOf[t], num |-> call[t]] \in Requests
        BY DEF IInv, ClientInv, InsertInv, Requests
      <3>3. promise'[[client |-> ClientOf[t], num |-> call[t]]]
              = promise[[client |-> ClientOf[t], num |-> call[t]]]
        BY <2>5, <3>1, <3>2 DEF IInv, ClientInv, ClientTypes
      <3>4. QED
        BY <1>3, <2>8, <3>1, <3>3, SMTT(40)
        DEF IInv, ClientInv, InsertInv, callerVars, Request
    <2>12. HandlingInv'
      BY <2>7, <2>8 DEF IInv, ClientInv, HandlingInv
    <2>13. PendingInv'
      <3> SUFFICES ASSUME NEW d \in Clients, NEW q \in pending_requests'[d]
                   PROVE  /\ q.num <= sequence_number[d]
                          /\ promise'[[client |-> d, num |-> q.num]] = <<>>
        BY <1>3 DEF PendingInv
      <3>1. /\ q.num <= sequence_number[d] /\ q.num \in Numbers
            /\ promise[[client |-> d, num |-> q.num]] = <<>>
        BY <2>6 DEF IInv, ClientInv, PendingInv, Entries
      <3>2. /\ [client |-> d, num |-> q.num] # r
            /\ [client |-> d, num |-> q.num] \in Requests
        BY <2>3, <2>6, <3>1 DEF Requests
      <3>3. QED
        BY <2>5, <3>1, <3>2 DEF IInv, ClientInv, ClientTypes
    <2>14. AnswerInv'
      <3> SUFFICES ASSUME NEW x \in Requests, promise'[x] # <<>>
                   PROVE  promise'[x] = <<x>> /\ x.num <= sequence_number[x.client]
        BY <1>3 DEF AnswerInv
      <3>1. CASE x = r
        <4>1. r.client = c
          BY <2>3
        <4>2. promise'[x] = <<x>>
          BY <1>2, <2>5, <3>1 DEF IInv, ClientInv, ClientTypes
        <4>3. QED
          BY <2>4, <3>1, <4>1, <4>2
      <3>2. CASE x # r
        BY <2>5, <3>2 DEF IInv, ClientInv, ClientTypes, AnswerInv
      <3>3. QED
        BY <3>1, <3>2
    <2>15. QED
      BY <1>4, <2>10, <2>11, <2>12, <2>13, <2>14 DEF IInv, ClientInv
  <1>8. QED
    BY <1>1, <1>6, <1>7

\* A callback that returns, or that calls its client again, keeps the invariant.
LEMMA CallbackIInv ==
  ASSUME IInv, NEW c \in Clients, CallbackReturns(c) \/ CallbackCalls(c)
  PROVE  IInv'
  <1> USE NobodyAssumption, ClientOfAssumption
      DEF CallbackReturns, CallbackCalls, callerVars, IInv, ClientInv
  <1>1. ServiceTypes' /\ ServiceInv'
    BY ServiceFrame
  <1>2. ClientTypes'
    <2>1. mutex' = mutex \/ mutex' = [mutex EXCEPT ![c] = Nobody]
      OBVIOUS
    <2>2. /\ mutex' \in [Clients -> {Nobody} \cup Clients \cup Callers]
          /\ \A d \in Clients : mutex'[d] \in {mutex[d], Nobody}
      BY <2>1 DEF ClientTypes
    <2>3. handling' \in [Clients -> {"no", "callback", "stuck"}]
      <3>1. \/ handling' = [handling EXCEPT ![c] = "no"]
            \/ handling' = [handling EXCEPT ![c] = "stuck"]
        OBVIOUS
      <3> HIDE DEF CallbackReturns, CallbackCalls
      <3>2. QED
        BY <3>1 DEF ClientTypes
    <2>4. QED
      BY <2>2, <2>3 DEF ClientTypes
  <1>3. InsertInv' /\ HandlingInv'
    <2>1. mutex[c] = c /\ \A t \in Callers : cpc[t] = "insert" => ClientOf[t] # c
      BY DEF InsertInv, HandlingInv
    <2>2. \A d \in Clients \ {c} : mutex'[d] = mutex[d] /\ handling'[d] = handling[d]
      BY DEF ClientTypes
    <2>3. InsertInv'
      BY <2>1, <2>2, InsertFrame
    <2>4. HandlingInv'
      BY <2>1, <2>2 DEF ClientTypes, HandlingInv
    <2>5. QED
      BY <2>3, <2>4
  <1>4. PendingInv' /\ AnswerInv'
    BY DEF PendingInv, AnswerInv
  <1>5. QED
    BY <1>1, <1>2, <1>3, <1>4

-----------------------------------------------------------------------------
(* Service *)

\* A request taken for the services of a process keeps the invariant.
LEMMA TakeRequestIInv ==
  ASSUME IInv, NEW p \in Processes, NEW c \in Clients, TakeRequest(p, c)
  PROVE  IInv'
  <1> USE SetupsAssumption DEF Numbers
  <1>1. PICK n \in NextOf(taken[p][c], sequence_number[c]) : TakeRequest(p, c)!3!(n)
    BY DEF TakeRequest
  <1> DEFINE r == [client |-> c, num |-> n]
  <1>2. n \in Numbers /\ r \in Requests
    <2>1. taken[p][c] \in Nat /\ sequence_number[c] \in 0 .. MaxNumber
      BY DEF IInv, ClientInv, ClientTypes, ServiceTypes
    <2>2. n \in Numbers
      BY <2>1 DEF NextOf
    <2>3. QED
      BY <2>2 DEF Requests
  <1>3. ClientInv'
    BY ClientFrame DEF TakeRequest, ownVars, IInv
  <1>4. offered' = [s \in Services |-> IF s \in Connected(p) THEN r ELSE offered[s]]
    BY <1>1
  <1> HIDE DEF r
  <1>5. offered' \in [Services -> Requests \cup {Nobody}]
    BY <1>2, <1>4 DEF IInv, ServiceTypes
  <1>6. ServiceTypes' /\ ServiceInv'
    BY <1>1, <1>2, <1>5 DEF IInv, ServiceTypes, ServiceInv, TakeRequest
  <1>7. QED
    BY <1>3, <1>6 DEF IInv

\* The service's Enqueue keeps the invariant.
LEMMA EnqueueIInv ==
  ASSUME IInv, NEW s \in Services, Enqueue(s)
  PROVE  IInv'
  <1> DEFINE r == offered[s]
  <1>1. r \in Requests
    BY DEF Enqueue, IInv, ServiceTypes
  <1>2. ClientInv'
    BY ClientFrame DEF Enqueue, ownVars, IInv
  <1>3. tasks' = [tasks EXCEPT ![s] = Append(tasks[s], r)]
    BY DEF Enqueue
  <1> HIDE DEF r
  <1>4. Append(tasks[s], r) \in Seq(Requests) /\ Append(tasks[s], r) # <<>>
    <2>1. tasks[s] \in Seq(Requests)
      BY DEF IInv, ServiceTypes
    <2>2. QED
      BY <1>1, <2>1
  <1>5. tasks' \in [Services -> Seq(Requests)]
    BY <1>3, <1>4 DEF IInv, ServiceTypes
  <1>6. ServiceTypes'
    BY <1>5 DEF IInv, ServiceTypes, Enqueue, Notify
  <1>7. ServiceInv'
    BY <1>3, <1>4 DEF IInv, ServiceTypes, ServiceInv, Enqueue, Notify
  <1>8. QED
    BY <1>2, <1>6, <1>7 DEF IInv

\* Init, destroy and the thread of a service keep the invariant.
LEMMA ServiceIInv ==
  ASSUME IInv, NEW s \in Services,
         ServiceInit(s) \/ Process(s) \/ ClearInited(s) \/ Destroy(s)
  PROVE  IInv'
  <1>1. ClientInv'
    BY ClientFrame
    DEF IInv, ownVars, ServiceInit, Process, Destroy, CreateReceiver, StartThread, Test,
        Block, Pop, Break, HandleRequest, LeaveLoop, ClearInited, ClearTasks, NotifyAll,
        Join
  <1> USE <1>1 DEF IInv, ServiceTypes, ServiceInv, networkVars, Goto, ThreadGoto
  <1>2. CASE CreateReceiver(s)
    BY <1>2 DEF CreateReceiver
  <1>3. CASE StartThread(s)
    BY <1>3 DEF StartThread
  <1>4. CASE Test(s)
    BY <1>4 DEF Test
  <1>5. CASE Block(s)
    BY <1>5 DEF Block
  <1>6. CASE Pop(s)
    <2>1. tasks[s] \in Seq(Requests) /\ tasks[s] # <<>>
      BY <1>6 DEF Pop
    <2>2. Head(tasks[s]) \in Requests /\ Tail(tasks[s]) \in Seq(Requests)
      BY <2>1
    <2>3. /\ task' = [task EXCEPT ![s] = Head(tasks[s])]
          /\ tasks' = [tasks EXCEPT ![s] = Tail(tasks[s])]
      BY <1>6 DEF Pop
    <2>4. /\ tasks' \in [Services -> Seq(Requests)]
          /\ task' \in [Services -> Requests \cup {Nobody}]
      BY <2>2, <2>3
    <2>5. ServiceTypes'
      BY <1>6, <2>4 DEF Pop
    <2>6. ServiceInv'
      BY <1>6, <2>2, <2>3 DEF Pop
    <2>7. QED
      BY <2>5, <2>6
  <1>7. CASE Break(s)
    BY <1>7 DEF Break
  <1>8. CASE HandleRequest(s)
    <2>1. sent' \in [Services -> Seq(Requests)]
      <3>1. Append(sent[s], task[s]) \in Seq(Requests)
        BY <1>8 DEF HandleRequest
      <3>2. QED
        BY <1>8, <3>1 DEF HandleRequest
    <2>2. QED
      BY <1>8, <2>1 DEF HandleRequest
  <1>9. CASE LeaveLoop(s)
    BY <1>9 DEF LeaveLoop
  <1>10. CASE ClearInited(s)
    BY <1>10 DEF ClearInited
  <1>11. CASE ClearTasks(s)
    <2>1. tasks' \in [Services -> Seq(Requests)]
      <3>1. <<>> \in Seq(Requests)
        OBVIOUS
      <3>2. QED
        BY <1>11, <3>1 DEF ClearTasks
    <2>2. QED
      BY <1>11, <2>1 DEF ClearTasks
  <1>12. CASE NotifyAll(s)
    BY <1>12 DEF NotifyAll, Notify
  <1>13. CASE Join(s)
    BY <1>13 DEF Join
  <1>14. QED
    BY <1>2, <1>3, <1>4, <1>5, <1>6, <1>7, <1>8, <1>9, <1>10, <1>11, <1>12, <1>13
    DEF ServiceInit, Process, Destroy

-----------------------------------------------------------------------------
\* The invariant is inductive: one case per action.
LEMMA NextIInv == IInv /\ [Next]_vars => IInv'
  <1> SUFFICES ASSUME IInv, [Next]_vars PROVE IInv'
    OBVIOUS
  <1>1. CASE UNCHANGED vars
    BY <1>1, ClientFrame, ServiceFrame DEF vars, IInv
  <1>2. ASSUME NEW p \in Processes, Shutdown(p) PROVE IInv'
    <2>1. ServiceTypes' /\ ServiceInv'
      BY <1>2, ServiceFrame DEF Shutdown, IInv
    <2> USE <1>2 DEF Shutdown, clientVars, callerVars, IInv, ClientInv
    <2>2. ClientTypes' /\ HandlingInv'
      BY DEF ClientTypes, HandlingInv
    <2>3. InsertInv'
      BY DEF InsertInv, Request
    <2>4. PendingInv' /\ AnswerInv'
      BY DEF PendingInv, AnswerInv
    <2>5. QED
      BY <2>1, <2>2, <2>3, <2>4
  <1>3. ASSUME NEW t \in Callers, Call(t) \/ CallerStep(t) PROVE IInv'
    BY <1>3, CallerIInv
  <1>4. ASSUME NEW c \in Clients, Listener(c) \/ CallbackCalls(c) PROVE IInv'
    BY <1>4, HandleResponseIInv, CallbackIInv DEF Listener
  <1>5. ASSUME NEW s \in Services,
               ServiceInit(s) \/ Enqueue(s) \/ Process(s) \/ ClearInited(s) \/ Destroy(s)
        PROVE  IInv'
    BY <1>5, EnqueueIInv, ServiceIInv
  <1>6. ASSUME NEW p \in Processes, Subscriber(p) PROVE IInv'
    BY <1>6, TakeResponseIInv, TakeRequestIInv DEF Subscriber
  <1>7. QED
    BY <1>1, <1>2, <1>3, <1>4, <1>5, <1>6 DEF Next

\* Every reachable state satisfies the inductive invariant.
LEMMA SpecIInv == Spec => []IInv
  BY InitIInv, NextIInv, PTL DEF Spec

-----------------------------------------------------------------------------
\* A future of a client is completed at most once, and with the answer to its
\* own request: however many services answer the request, start late or are
\* given it again, and though every client gets the answers to all.
THEOREM AnswersSound == Spec => []AnswersInv
  <1>1. IInv => AnswersInv
    <2> SUFFICES ASSUME IInv PROVE AnswersInv
      OBVIOUS
    <2>1. TypeOK
      BY DEF IInv, ClientInv, ClientTypes, ServiceTypes, TypeOK, Entries
    <2>2. \A r \in Requests : promise[r] = <<>> \/ promise[r] = <<r>>
      BY DEF IInv, ClientInv, AnswerInv
    <2>3. OwnAnswer /\ AnsweredOnce
      <3> SUFFICES ASSUME NEW r \in Requests
                   PROVE  /\ \A i \in 1 .. Len(promise[r]) : promise[r][i] = r
                          /\ Len(promise[r]) <= 1
        BY DEF OwnAnswer, AnsweredOnce
      <3>1. CASE promise[r] = <<>>
        BY <3>1
      <3>2. CASE promise[r] = <<r>>
        BY <3>2
      <3>3. QED
        BY <2>2, <3>1, <3>2
    <2>4. QED
      BY <2>1, <2>3 DEF AnswersInv
  <1>2. QED
    BY <1>1, SpecIInv, PTL

=============================================================================
