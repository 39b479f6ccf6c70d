--------------------------- MODULE TopologyProofs ---------------------------
(***************************************************************************)
(* How the processes come to agree on who is on a channel, and how the     *)
(* endpoints come to be connected, for every number of writers, readers    *)
(* and processes and every layout.                                         *)
(*                                                                         *)
(* What is known: a process learns of the endpoints of another one only    *)
(* through the link between them, whose changes one thread applies in      *)
(* their order.  So what counts is the last word on an endpoint: the last  *)
(* change of it on the link, else the change that is about to be stored,   *)
(* else the table itself.  RemoteInv says that the last word is right;     *)
(* when nothing is under way the table is all there is.                    *)
(*                                                                         *)
(* Who is connected: an endpoint listens before it looks for its peers.  A *)
(* peer that is stored later is announced to it, since it stays among the  *)
(* listeners, and one that was stored earlier is found.  PeerInv says that *)
(* a known peer is linked, or still to be enabled in one of these ways.  A *)
(* leave cuts links, so this is about peers that are steady: the readers   *)
(* of a process share a receiver, and the leave of one cuts the link of    *)
(* the others.                                                             *)
(***************************************************************************)
EXTENDS Topology, TLAPS

\* The endpoint e leaves, has left or has died.
Going(e) == epc[e] \in {"leaving", "gone"} \/ Proc(e) \in dead

\* A user's thread applies the change its endpoint is making, the other two threads
\* those of other processes.
JobInv ==
    \A t \in Threads : job[t] # NoJob =>
      /\ job[t].who \in Used
      /\ \A e \in job[t].todo : e \in Used /\ Opposite(e, job[t].who)
      /\ job[t].op = "LEAVE" => Going(job[t].who)
      /\ \A e \in Ends : t = User(e) =>
           /\ job[t].who = e
           /\ epc[e] = IF job[t].op = "JOIN" THEN "joining" ELSE "leaving"
      /\ \A q \in Procs : t = Discovery(q) => Proc(job[t].who) # q
      /\ \A q \in Procs : t = Participant(q) =>
           /\ job[t].op = "LEAVE"
           /\ Proc(job[t].who) # q /\ Proc(job[t].who) \in dead

\* What is announced is announced by its own process, and a leave only when the
\* endpoint is gone.
LinkInv ==
    \A p, q \in Procs : \A i \in 1 .. Len(link[p][q]) :
      /\ link[p][q][i][2] \in Used /\ Proc(link[p][q][i][2]) = p /\ p # q
      /\ link[p][q][i][1] = "LEAVE" => epc[link[p][q][i][2]] = "gone"

\* The tables are about endpoints that exist; an endpoint listens from its first
\* step until it leaves, and has nothing to enable once it has joined.
TableInv ==
    /\ \A q \in Procs : roles[q] \subseteq Used
    /\ \A q \in Procs : \A e \in listeners[q] : e \in Used /\ Proc(e) = q
    /\ \A q \in Procs : \A e \in removing[q] : e \in Used /\ Proc(e) # q /\ Proc(e) \in dead
    /\ \A e \in Ends : \A f \in found[e] : f \in Used /\ Opposite(e, f)
    /\ \A e \in Ends : epc[e] # "enabling" => found[e] = {}
    /\ \A e \in Used : epc[e] \in {"listening", "enabling", "joining", "joined"}
                         => e \in listeners[Proc(e)]

\* A receiver has one slot per writer it is enabled for, and a transmitter the
\* modes of its receivers.
EndInv ==
    /\ \A q \in Procs, w \in Writers :
         slots[q][w] = IF w \in transmitters[q] THEN 1 ELSE 0
    /\ \A w \in Writers \cap Used : \A q \in receivers[w] : Mode(w, q) \in enabled[w]

\* The process of an endpoint knows it from the dispose of its join to that of
\* its leave.
LocalInv ==
    \A e \in Used : e \in roles[Proc(e)] <=>
        \/ epc[e] = "joined"
        \/ epc[e] = "joining" /\ job[User(e)].step # "dispose"
        \/ epc[e] = "leaving" /\ job[User(e)].step = "dispose"

Published(x) == x \in {"joined", "leaving"}

\* The last word on e is right: in the changes l that are on their way, else in the
\* change j that is about to be stored, else in the roles R.
Word(l, j, R, e, x) ==
    /\ \A i \in 1 .. Len(l) :
         l[i][2] = e /\ (\A k \in i + 1 .. Len(l) : l[k][2] # e)
           => (l[i][1] = "JOIN" <=> Published(x))
    /\ (\A i \in 1 .. Len(l) : l[i][2] # e) =>
         IF j.step = "dispose" /\ j.who = e
         THEN j.op = "JOIN" <=> Published(x)
         ELSE e \in R <=> Published(x)

\* What process p is told of an endpoint of another process.
LastWord(p, e) == Word(link[Proc(e)][p], job[Discovery(p)], roles[p], e, epc[e])

RemoteInv ==
    \A p \in Present, e \in Used : p # Proc(e) /\ Proc(e) \notin dead => LastWord(p, e)

\* No leave of f undoes what its join has enabled; the readers of a process share
\* one receiver.
Steady(f) ==
    /\ Proc(f) \notin dead
    /\ \A g \in Used : g = f \/ (Proc(g) = Proc(f) /\ g \notin Writers /\ f \notin Writers)
                         => epc[g] \notin {"leaving", "gone"}

Linked(e, f) == IF e \in Writers THEN Proc(f) \in receivers[e]
                ELSE f \in transmitters[Proc(e)]

\* A thread is about to tell e that f has joined.
Called(e, f) ==
    \E t \in Threads :
      /\ job[t] # NoJob /\ job[t].op = "JOIN" /\ job[t].who = f
      /\ ProcOf(t) = Proc(e)
      /\ job[t].step = "notify" \/ (job[t].step = "call" /\ e \in job[t].todo)

\* An endpoint that has looked for its peers is linked to every peer that its
\* process knows, or will be.
PeerInv ==
    \A e, f \in Used :
      /\ Opposite(e, f) /\ epc[e] \in {"enabling", "joining", "joined"}
      /\ f \in roles[Proc(e)] /\ Steady(f)
      => Linked(e, f) \/ f \in found[e] \/ Called(e, f)

TopologyIInv ==
    /\ TypeOK /\ JobInv /\ LinkInv /\ TableInv /\ EndInv /\ LocalInv /\ RemoteInv
    /\ PeerInv

Jobs == [step : {"dispose", "notify", "call"}, op : {"JOIN", "LEAVE"},
         who : Ends, todo : SUBSET Ends]
Changes == {"JOIN", "LEAVE"} \X Ends

-----------------------------------------------------------------------------
\* What a job is.
LEMMA JobFacts ==
  /\ NoJob.step = "none"
  /\ \A j \in Jobs : /\ j # NoJob /\ j.step \in {"dispose", "notify", "call"}
                     /\ j.op \in {"JOIN", "LEAVE"} /\ j.who \in Ends /\ j.todo \subseteq Ends
  /\ \A op \in {"JOIN", "LEAVE"}, e \in Ends :
       /\ Apply(op, e) \in Jobs /\ Apply(op, e).step = "dispose"
       /\ Apply(op, e).op = op /\ Apply(op, e).who = e /\ Apply(op, e).todo = {}
  /\ \A j \in Jobs, S \in SUBSET Ends :
       /\ S = {} => Call(j, S) = NoJob
       /\ S # {} => /\ Call(j, S) \in Jobs /\ Call(j, S).step = "call"
                    /\ Call(j, S).op = j.op /\ Call(j, S).who = j.who
                    /\ Call(j, S).todo = S
  /\ \A j \in Jobs : LET n == [j EXCEPT !.step = "notify"] IN
       /\ n \in Jobs /\ n.step = "notify" /\ n.op = j.op /\ n.who = j.who
       /\ n.todo = j.todo
  <1>1. NoJob.step = "none"
    BY DEF NoJob
  <1>2. \A j \in Jobs : /\ j.step \in {"dispose", "notify", "call"}
                        /\ j.op \in {"JOIN", "LEAVE"} /\ j.who \in Ends
                        /\ j.todo \subseteq Ends
    BY DEF Jobs
  <1>3. \A j \in Jobs : j # NoJob
    BY <1>1, <1>2
  <1>4. ASSUME NEW op \in {"JOIN", "LEAVE"}, NEW e \in Ends
        PROVE  /\ Apply(op, e) \in Jobs /\ Apply(op, e).step = "dispose"
               /\ Apply(op, e).op = op /\ Apply(op, e).who = e /\ Apply(op, e).todo = {}
    BY DEF Apply, Jobs
  <1>5. ASSUME NEW j \in Jobs, NEW S \in SUBSET Ends
        PROVE  /\ S = {} => Call(j, S) = NoJob
               /\ S # {} => /\ Call(j, S) \in Jobs /\ Call(j, S).step = "call"
                            /\ Call(j, S).op = j.op /\ Call(j, S).who = j.who
                            /\ Call(j, S).todo = S
    BY DEF Call, Jobs
  <1>6. ASSUME NEW j \in Jobs
        PROVE  LET n == [j EXCEPT !.step = "notify"] IN
               /\ n \in Jobs /\ n.step = "notify" /\ n.op = j.op /\ n.who = j.who
               /\ n.todo = j.todo
    BY DEF Jobs
  <1> QED BY <1>1, <1>2, <1>3, <1>4, <1>5, <1>6

\* The threads are different, and each belongs to its process.
LEMMA ThreadFacts ==
  /\ \A e \in Ends : User(e) \in Threads /\ ProcOf(User(e)) = Proc(e)
  /\ \A q \in Procs : Discovery(q) \in Threads /\ ProcOf(Discovery(q)) = q
  /\ \A q \in Procs : Participant(q) \in Threads /\ ProcOf(Participant(q)) = q
  /\ \A t \in Threads : \/ \E e \in Ends : t = User(e)
                        \/ \E q \in Procs : t = Discovery(q) \/ t = Participant(q)
  /\ \A e, q : User(e) # Discovery(q) /\ User(e) # Participant(q)
  /\ \A p, q : Discovery(p) # Participant(q)
  /\ \A e, f : User(e) = User(f) => e = f
  /\ \A p, q : Discovery(p) = Discovery(q) => p = q
  /\ \A p, q : Participant(p) = Participant(q) => p = q
  BY DEF Threads, User, Discovery, Participant, ProcOf

\* The process of an endpoint that is used is a process.
LEMMA ProcFacts ==
  ASSUME TypeOK
  PROVE  /\ Used \subseteq Ends /\ \A e \in Used : Proc(e) \in Procs
         /\ Present \subseteq Procs /\ \A e \in Used : Proc(e) \in Present
  BY LayoutsAssumption DEF TypeOK, Used, Proc, Present

\* Who applies a change of e: the thread of its user in its own process, the
\* discovery thread elsewhere while the process of e lives.
LEMMA WhoApplies ==
  ASSUME TypeOK, JobInv, NEW t \in Threads, job[t] # NoJob
  PROVE  /\ job[t] \in Jobs /\ ProcOf(t) \in Procs /\ job[t].who \in Used
         /\ Proc(job[t].who) = ProcOf(t) => t = User(job[t].who)
         /\ Proc(job[t].who) # ProcOf(t) /\ Proc(job[t].who) \notin dead
              => t = Discovery(ProcOf(t))
  <1>1. job[t] \in Jobs /\ job[t].who \in Used /\ job[t].who \in Ends
    BY ProcFacts DEF TypeOK, Jobs, JobInv
  <1>2. ASSUME NEW e \in Ends, t = User(e)
        PROVE  ProcOf(t) \in Procs /\ job[t].who = e /\ Proc(e) = ProcOf(t)
    BY <1>1, <1>2, ThreadFacts, ProcFacts DEF JobInv
  <1>3. ASSUME NEW q \in Procs, t = Discovery(q)
        PROVE  ProcOf(t) = q /\ Proc(job[t].who) # q
    BY <1>3, ThreadFacts DEF JobInv
  <1>4. ASSUME NEW q \in Procs, t = Participant(q)
        PROVE  ProcOf(t) = q /\ Proc(job[t].who) # q /\ Proc(job[t].who) \in dead
    BY <1>4, ThreadFacts DEF JobInv
  <1> QED BY <1>1, <1>2, <1>3, <1>4, ThreadFacts

-----------------------------------------------------------------------------
(* The last word *)

\* A change of another endpoint is published.
LEMMA WordOther ==
  ASSUME NEW l \in Seq(Changes), NEW c \in Changes, NEW j, NEW R, NEW e, NEW x,
         Word(l, j, R, e, x), c[2] # e
  PROVE  Word(Append(l, c), j, R, e, x)
  <1> DEFINE a == Append(l, c)
             n == Len(l)
  <1>1. /\ n \in Nat /\ Len(a) = n + 1 /\ a[n + 1] = c
        /\ \A i \in 1 .. n : a[i] = l[i]
    OBVIOUS
  <1> HIDE DEF a
  <1>2. ASSUME NEW i \in 1 .. n + 1, a[i][2] = e, \A k \in i + 1 .. n + 1 : a[k][2] # e
        PROVE  a[i][1] = "JOIN" <=> Published(x)
    <2>1. i \in 1 .. n /\ a[i] = l[i]
      BY <1>1, <1>2
    <2>2. \A k \in i + 1 .. n : k \in i + 1 .. n + 1 /\ a[k] = l[k]
      BY <1>1, <2>1
    <2>3. \A k \in i + 1 .. n : l[k][2] # e
      BY <1>2, <2>2
    <2> QED BY <1>2, <2>1, <2>3 DEF Word
  <1>3. (\A i \in 1 .. n + 1 : a[i][2] # e) => \A i \in 1 .. n : l[i][2] # e
    <2>1. \A i \in 1 .. n : i \in 1 .. n + 1
      BY <1>1
    <2> QED BY <1>1, <2>1
  <1> HIDE DEF n
  <1>4. Word(a, j, R, e, x)
    BY <1>1, <1>2, <1>3 DEF Word, n
  <1> QED BY <1>4 DEF a

\* The change that e makes is published.
LEMMA WordOwn ==
  ASSUME NEW l \in Seq(Changes), NEW c \in Changes, NEW j, NEW R, NEW e, NEW x,
         c[2] = e, c[1] = "JOIN" <=> Published(x)
  PROVE  Word(Append(l, c), j, R, e, x)
  <1> DEFINE a == Append(l, c)
             n == Len(l)
  <1>1. n \in Nat /\ Len(a) = n + 1 /\ a[n + 1] = c /\ n + 1 \in 1 .. n + 1
    OBVIOUS
  <1> HIDE DEF a
  <1>2. ASSUME NEW i \in 1 .. n + 1, a[i][2] = e, \A k \in i + 1 .. n + 1 : a[k][2] # e
        PROVE  a[i][1] = "JOIN" <=> Published(x)
    <2>1. i = n + 1
      <3> SUFFICES ASSUME i # n + 1 PROVE FALSE
        OBVIOUS
      <3>1. n + 1 \in i + 1 .. n + 1
        BY <1>1
      <3> QED BY <1>1, <1>2, <3>1
    <2> QED BY <1>1, <2>1
  <1>3. Word(a, j, R, e, x)
    BY <1>1, <1>2 DEF Word, n
  <1> QED BY <1>3 DEF a

\* The next change is taken.
LEMMA WordTaken ==
  ASSUME NEW l \in Seq(Changes), l # <<>>, NEW R, NEW e, NEW x, Word(l, NoJob, R, e, x),
         NEW j \in Jobs, j.step = "dispose", j.op = Head(l)[1], j.who = Head(l)[2]
  PROVE  Word(Tail(l), j, R, e, x)
  <1> DEFINE b == Tail(l)
             n == Len(l)
             m == n - 1
  <1>1. n \in Nat \ {0} /\ m \in Nat /\ n = m + 1 /\ Head(l) = l[1]
    OBVIOUS
  <1>2. Len(b) = m /\ \A i \in 1 .. m : b[i] = l[i + 1]
    OBVIOUS
  <1> HIDE DEF b, n, m
  <1>3. ASSUME NEW i \in 1 .. m, b[i][2] = e, \A k \in i + 1 .. m : b[k][2] # e
        PROVE  b[i][1] = "JOIN" <=> Published(x)
    <2>1. i + 1 \in 1 .. n /\ b[i] = l[i + 1]
      BY <1>1, <1>2
    <2>2. ASSUME NEW k \in (i + 1) + 1 .. n PROVE l[k][2] # e
      <3>1. k - 1 \in i + 1 .. m /\ k - 1 \in 1 .. m /\ (k - 1) + 1 = k
        BY <1>1, <2>2
      <3> QED BY <1>2, <1>3, <3>1
    <2> QED BY <1>3, <2>1, <2>2 DEF Word, n
  <1>4. ASSUME \A i \in 1 .. m : b[i][2] # e
        PROVE  IF j.who = e THEN j.op = "JOIN" <=> Published(x)
                            ELSE e \in R <=> Published(x)
    <2>1. ASSUME NEW k \in 2 .. n PROVE l[k][2] # e
      <3>1. k - 1 \in 1 .. m /\ (k - 1) + 1 = k
        BY <1>1, <2>1
      <3> QED BY <1>2, <1>4, <3>1
    <2>2. CASE l[1][2] = e
      <3>1. 1 \in 1 .. n /\ 1 + 1 = 2
        BY <1>1
      <3> QED BY <1>1, <2>1, <2>2, <3>1 DEF Word, n
    <2>3. CASE l[1][2] # e
      <3>1. \A k \in 1 .. n : k = 1 \/ k \in 2 .. n
        BY <1>1
      <3>2. \A k \in 1 .. n : l[k][2] # e
        BY <2>1, <2>3, <3>1
      <3> QED BY <1>1, <2>3, <3>2, JobFacts DEF Word, n
    <2> QED BY <2>2, <2>3
  <1>5. Word(b, j, R, e, x)
    BY <1>2, <1>3, <1>4 DEF Word
  <1> QED BY <1>5 DEF b

\* A change of another endpoint is taken, or one that has been stored is done with.
LEMMA WordJob ==
  ASSUME NEW l, NEW j, NEW i, NEW R, NEW e, NEW x, Word(l, j, R, e, x),
         j.step # "dispose", i.step # "dispose" \/ i.who # e
  PROVE  Word(l, i, R, e, x)
  BY DEF Word

\* The change that was taken is stored.
LEMMA WordStored ==
  ASSUME NEW l, NEW j \in Jobs, NEW i, NEW R, NEW e, NEW x, Word(l, j, R, e, x),
         j.step = "dispose", i.step # "dispose"
  PROVE  Word(l, i, IF j.op = "JOIN" THEN R \cup {j.who} ELSE R \ {j.who}, e, x)
  BY DEF Word

\* The label of e changes, but not whether it is in.
LEMMA WordSame ==
  ASSUME NEW l, NEW j, NEW R, NEW e, NEW x, NEW y, Word(l, j, R, e, x),
         Published(x) <=> Published(y)
  PROVE  Word(l, j, R, e, y)
  BY DEF Word

-----------------------------------------------------------------------------
(* One lemma per action *)

\* The initial state satisfies the invariant.
LEMMA InitTopologyIInv == Init => TopologyIInv
  <1> SUFFICES ASSUME Init PROVE TopologyIInv
    OBVIOUS
  <1>1. TypeOK
    <2>1. link \in [Procs -> [Procs -> Seq(Changes)]]
      BY DEF Init
    <2> QED BY <2>1 DEF Init, TypeOK, Changes
  <1>2. \A e \in Used : e \in Ends /\ Proc(e) \in Procs
    BY <1>1, ProcFacts
  <1>3. JobInv /\ LinkInv /\ TableInv /\ EndInv
    BY <1>2 DEF Init, JobInv, LinkInv, TableInv, EndInv
  <1>4. LocalInv
    BY <1>2 DEF Init, LocalInv
  <1>5. RemoteInv
    <2>1. ASSUME NEW p \in Procs, NEW e \in Used PROVE LastWord(p, e)
      <3>1. /\ link[Proc(e)][p] = <<>> /\ job[Discovery(p)] = NoJob
            /\ roles[p] = {} /\ epc[e] = "out"
        BY <1>2, ThreadFacts DEF Init
      <3> QED BY <3>1, JobFacts DEF LastWord, Word, Published
    <2> QED BY <1>1, <2>1, ProcFacts DEF RemoteInv
  <1>6. PeerInv
    BY <1>2 DEF Init, PeerInv
  <1> QED BY <1>1, <1>3, <1>4, <1>5, <1>6 DEF TopologyIInv

\* What the layout fixes stays.
LEMMA SameLayout ==
  ASSUME layout' = layout
  PROVE  /\ Used' = Used /\ Present' = Present
         /\ \A e : Proc(e)' = Proc(e)
         /\ \A t : ProcOf(t)' = ProcOf(t)
         /\ \A w, q : Mode(w, q)' = Mode(w, q)
  BY DEF Used, Present, Proc, ProcOf, Mode

\* The last word on every endpoint stays right if it is neither published nor
\* stored, and no label changes whether its endpoint is in.
LEMMA SameWords ==
  ASSUME TypeOK, RemoteInv, layout' = layout, link' = link, roles' = roles,
         dead \subseteq dead',
         \A p \in Procs : \/ job'[Discovery(p)] = job[Discovery(p)]
                          \/ /\ job'[Discovery(p)].step # "dispose"
                             /\ job[Discovery(p)].step # "dispose",
         \A e \in Used : Published(epc[e]) <=> Published(epc'[e])
  PROVE  RemoteInv'
  <1>1. ASSUME NEW p \in Present, NEW e \in Used, p # Proc(e), Proc(e) \notin dead'
        PROVE  LastWord(p, e)'
    <2> DEFINE l == link[Proc(e)][p]
               j == job[Discovery(p)]
               i == job'[Discovery(p)]
    <2>1. Word(l, j, roles[p], e, epc[e])
      BY <1>1 DEF RemoteInv, LastWord
    <2>2. Word(l, i, roles[p], e, epc[e])
      BY <1>1, <2>1, ProcFacts, WordJob
    <2>3. Word(l, i, roles[p], e, epc'[e])
      BY <2>2, WordSame
    <2> QED BY <2>3, SameLayout DEF LastWord
  <1> QED BY <1>1, SameLayout DEF RemoteInv

\* What has been published stays as it is until it is taken.
LEMMA SameLinks ==
  ASSUME TypeOK, LinkInv, layout' = layout, link' = link,
         \A f \in Used : epc[f] = "gone" => epc'[f] = "gone"
  PROVE  LinkInv'
  <1> SUFFICES ASSUME NEW p \in Procs, NEW q \in Procs, NEW i \in 1 .. Len(link[p][q])
               PROVE  /\ link[p][q][i][2] \in Used /\ Proc(link[p][q][i][2]) = p /\ p # q
                      /\ link[p][q][i][1] = "LEAVE" => epc'[link[p][q][i][2]] = "gone"
    BY SameLayout DEF LinkInv
  <1> DEFINE c == link[p][q][i]
  <1>1. c[2] \in Used /\ Proc(c[2]) = p /\ p # q /\ (c[1] = "LEAVE" => epc[c[2]] = "gone")
    BY DEF LinkInv
  <1> HIDE DEF c
  <1>2. c[1] = "LEAVE" => epc'[c[2]] = "gone"
    BY <1>1
  <1> QED BY <1>1, <1>2 DEF c

\* A change that a thread is given belongs to the thread.
Given(t, j) ==
    /\ j.who \in Used /\ j.todo = {}
    /\ j.op = "LEAVE" => Going(j.who)
    /\ \/ \E e \in Ends : /\ t = User(e) /\ j.who = e
                          /\ epc[e] = IF j.op = "JOIN" THEN "joining" ELSE "leaving"
       \/ \E q \in Procs : t = Discovery(q) /\ Proc(j.who) # q
       \/ \E q \in Procs : /\ t = Participant(q) /\ j.op = "LEAVE"
                           /\ Proc(j.who) # q /\ Proc(j.who) \in dead

\* A thread goes on with its change, is done with it or is given one.
LEMMA JobsKept ==
  ASSUME JobInv, layout' = layout, dead \subseteq dead',
         \A f \in Used : epc[f] \in {"leaving", "gone"} => epc'[f] \in {"leaving", "gone"},
         \A t \in Threads :
           \/ job'[t] = NoJob
           \/ /\ job[t] # NoJob /\ job'[t].who = job[t].who /\ job'[t].op = job[t].op
              /\ \A f \in job'[t].todo : f \in Used /\ Opposite(f, job[t].who)
              /\ \A e \in Ends : t = User(e) => epc'[e] = epc[e]
           \/ Given(t, job[t])'
  PROVE  JobInv'
  <1>1. Used' = Used /\ \A f : Proc(f)' = Proc(f)
    BY SameLayout
  <1>2. ASSUME NEW t \in Threads, job'[t] # NoJob
        PROVE  /\ job'[t].who \in Used
               /\ \A f \in job'[t].todo : f \in Used /\ Opposite(f, job'[t].who)
               /\ job'[t].op = "LEAVE" => \/ epc'[job'[t].who] \in {"leaving", "gone"}
                                          \/ Proc(job'[t].who) \in dead'
               /\ \A e \in Ends : t = User(e) =>
                    /\ job'[t].who = e
                    /\ epc'[e] = IF job'[t].op = "JOIN" THEN "joining" ELSE "leaving"
               /\ \A q \in Procs : t = Discovery(q) => Proc(job'[t].who) # q
               /\ \A q \in Procs : t = Participant(q) =>
                    /\ job'[t].op = "LEAVE"
                    /\ Proc(job'[t].who) # q /\ Proc(job'[t].who) \in dead'
    <2>1. CASE /\ job[t] # NoJob /\ job'[t].who = job[t].who /\ job'[t].op = job[t].op
               /\ \A f \in job'[t].todo : f \in Used /\ Opposite(f, job[t].who)
               /\ \A e \in Ends : t = User(e) => epc'[e] = epc[e]
      <3> DEFINE w == job[t].who
      <3>1. /\ w \in Used /\ job'[t].who = w
            /\ job[t].op = "LEAVE" => epc[w] \in {"leaving", "gone"} \/ Proc(w) \in dead
        BY <2>1 DEF JobInv, Going
      <3>2. job[t].op = "LEAVE" => epc'[w] \in {"leaving", "gone"} \/ Proc(w) \in dead'
        BY <3>1
      <3>3. \A q \in Procs : t = Discovery(q) => Proc(w) # q
        BY <2>1 DEF JobInv
      <3>4. \A q \in Procs : t = Participant(q) =>
               job[t].op = "LEAVE" /\ Proc(w) # q /\ Proc(w) \in dead'
        BY <2>1 DEF JobInv
      <3>5. \A e \in Ends : t = User(e) =>
               /\ w = e
               /\ epc'[e] = IF job[t].op = "JOIN" THEN "joining" ELSE "leaving"
        BY <2>1 DEF JobInv
      <3> HIDE DEF w
      <3> QED BY <2>1, <3>1, <3>2, <3>3, <3>4, <3>5 DEF w
    <2>2. CASE Given(t, job[t])'
      <3> DEFINE j == job'[t]
      <3>1. /\ j.who \in Used /\ j.todo = {}
            /\ j.op = "LEAVE" => epc'[j.who] \in {"leaving", "gone"} \/ Proc(j.who) \in dead'
        BY <1>1, <2>2 DEF Given, Going
      <3>2. \/ \E e \in Ends : /\ t = User(e) /\ j.who = e
                               /\ epc'[e] = IF j.op = "JOIN" THEN "joining" ELSE "leaving"
            \/ \E q \in Procs : t = Discovery(q) /\ Proc(j.who) # q
            \/ \E q \in Procs : /\ t = Participant(q) /\ j.op = "LEAVE"
                                /\ Proc(j.who) # q /\ Proc(j.who) \in dead'
        BY <1>1, <2>2 DEF Given
      <3> HIDE DEF j
      <3>3. /\ \A e \in Ends : t = User(e) =>
                 /\ j.who = e
                 /\ epc'[e] = IF j.op = "JOIN" THEN "joining" ELSE "leaving"
            /\ \A q \in Procs : t = Discovery(q) => Proc(j.who) # q
            /\ \A q \in Procs : t = Participant(q) =>
                 j.op = "LEAVE" /\ Proc(j.who) # q /\ Proc(j.who) \in dead'
        BY <3>2, ThreadFacts
      <3> QED BY <3>1, <3>3 DEF j
    <2> QED BY <1>2, <2>1, <2>2
  <1>3. \A t \in Threads : job'[t] # NoJob /\ job'[t].op = "LEAVE"
           => Going(job[t].who)'
    BY <1>1, <1>2 DEF Going
  <1> QED BY <1>1, <1>2, <1>3 DEF JobInv

\* A new listener.
LEMMA AddChangeListenerIInv ==
  ASSUME TopologyIInv, NEW e \in Used, AddChangeListener(e)
  PROVE  TopologyIInv'
  <1> USE DEF TopologyIInv
  <1>1. e \in Ends /\ Proc(e) \in Procs /\ Used \subseteq Ends
    BY ProcFacts
  <1>2. /\ \A f \in Ends : epc'[f] = IF f = e THEN "listening" ELSE epc[f]
        /\ epc[e] = "out"
        /\ \A q \in Procs : listeners'[q] = IF q = Proc(e) THEN listeners[q] \cup {e}
                                            ELSE listeners[q]
        /\ UNCHANGED <<layout, found, roles, removing, link, job, receivers, enabled,
                       transmitters, slots, dead, dropped>>
    BY <1>1 DEF AddChangeListener, EndGoto, TypeOK, endVars, crashVars
  <1>3. TypeOK'
    BY <1>1 DEF AddChangeListener, EndGoto, TypeOK, endVars, crashVars
  <1>4. /\ Used' = Used /\ \A f : Proc(f)' = Proc(f)
        /\ \A t : ProcOf(t)' = ProcOf(t)
        /\ \A w, q : Mode(w, q)' = Mode(w, q)
    BY <1>2, SameLayout
  <1>5. JobInv'
    BY <1>1, <1>2, <1>4 DEF JobInv, Going
  <1>6. LinkInv'
    BY <1>1, <1>2, SameLinks
  <1>7. TableInv'
    <2>1. \A q \in Procs : roles'[q] \subseteq Used
      BY <1>2 DEF TableInv
    <2>2. ASSUME NEW q \in Procs, NEW f \in listeners'[q] PROVE f \in Used /\ Proc(f) = q
      <3>1. f \in listeners[q] \/ (f = e /\ q = Proc(e))
        BY <1>2, <2>2
      <3> QED BY <3>1 DEF TableInv
    <2>3. \A q \in Procs : \A f \in removing'[q] :
             f \in Used /\ Proc(f) # q /\ Proc(f) \in dead'
      BY <1>2 DEF TableInv
    <2>4. \A f \in Ends : /\ \A g \in found'[f] : g \in Used /\ Opposite(f, g)
                          /\ epc'[f] # "enabling" => found'[f] = {}
      BY <1>2 DEF TableInv
    <2>5. \A f \in Used : epc'[f] \in {"listening", "enabling", "joining", "joined"}
                            => f \in listeners'[Proc(f)]
      BY <1>1, <1>2, ProcFacts DEF TableInv
    <2> QED BY <1>4, <2>1, <2>2, <2>3, <2>4, <2>5 DEF TableInv
  <1>8. EndInv'
    BY <1>2, <1>4 DEF EndInv
  <1>9. LocalInv'
    BY <1>1, <1>2, <1>4 DEF LocalInv
  <1>10. RemoteInv'
    BY <1>1, <1>2, SameWords DEF Published
  <1>11. PeerInv'
    <2>1. \A f \in Used : Steady(f)' => Steady(f)
      BY <1>1, <1>2, <1>4 DEF Steady
    <2>2. \A f, g \in Used : /\ Linked(f, g)' <=> Linked(f, g)
                             /\ Called(f, g)' <=> Called(f, g)
      BY <1>2, <1>4 DEF Linked, Called
    <2> QED BY <1>1, <1>2, <1>4, <2>1, <2>2 DEF PeerInv
  <1> QED BY <1>3, <1>5, <1>6, <1>7, <1>8, <1>9, <1>10, <1>11

\* An endpoint looks for its peers: those that its process knows are found.
LEMMA GetPeersIInv ==
  ASSUME TopologyIInv, NEW e \in Used, GetPeers(e)
  PROVE  TopologyIInv'
  <1> USE DEF TopologyIInv
  <1>1. e \in Ends /\ Proc(e) \in Procs /\ Used \subseteq Ends
    BY ProcFacts
  <1> DEFINE peers == {f \in roles[Proc(e)] : Opposite(e, f)}
  <1>2. /\ \A f \in Ends : epc'[f] = IF f = e THEN "enabling" ELSE epc[f]
        /\ epc[e] = "listening"
        /\ \A f \in Ends : found'[f] = IF f = e THEN peers ELSE found[f]
        /\ UNCHANGED <<layout, roles, listeners, removing, link, job, receivers,
                       enabled, transmitters, slots, dead, dropped>>
    BY <1>1 DEF GetPeers, EndGoto, TypeOK, topoVars, endVars, crashVars
  <1>3. TypeOK'
    <2>1. peers \subseteq Ends
      BY <1>1 DEF TypeOK
    <2> QED BY <1>1, <2>1 DEF GetPeers, EndGoto, TypeOK, topoVars, endVars, crashVars
  <1>4. /\ Used' = Used /\ \A f : Proc(f)' = Proc(f)
        /\ \A t : ProcOf(t)' = ProcOf(t)
        /\ \A w, q : Mode(w, q)' = Mode(w, q)
    BY <1>2, SameLayout
  <1>5. JobInv'
    BY <1>1, <1>2, <1>4 DEF JobInv, Going
  <1>6. LinkInv'
    BY <1>1, <1>2, SameLinks
  <1>7. TableInv'
    <2>1. \A f \in peers : f \in Used /\ Opposite(e, f)
      BY <1>1 DEF TableInv
    <2>2. \A f \in Ends : /\ \A g \in found'[f] : g \in Used /\ Opposite(f, g)
                          /\ epc'[f] # "enabling" => found'[f] = {}
      BY <1>2, <2>1 DEF TableInv
    <2>3. \A f \in Used : epc'[f] \in {"listening", "enabling", "joining", "joined"}
                            => f \in listeners'[Proc(f)]
      BY <1>1, <1>2 DEF TableInv
    <2> QED BY <1>2, <1>4, <2>2, <2>3 DEF TableInv
  <1>8. EndInv'
    BY <1>2, <1>4 DEF EndInv
  <1>9. LocalInv'
    BY <1>1, <1>2, <1>4 DEF LocalInv
  <1>10. RemoteInv'
    BY <1>1, <1>2, SameWords DEF Published
  <1>11. PeerInv'
    <2>1. \A f \in Used : Steady(f)' => Steady(f)
      BY <1>1, <1>2, <1>4 DEF Steady
    <2>2. \A f, g \in Used : /\ Linked(f, g)' <=> Linked(f, g)
                             /\ Called(f, g)' <=> Called(f, g)
      BY <1>2, <1>4 DEF Linked, Called
    <2> QED BY <1>1, <1>2, <1>4, <2>1, <2>2 DEF PeerInv
  <1> QED BY <1>3, <1>5, <1>6, <1>7, <1>8, <1>9, <1>10, <1>11

\* An endpoint that has enabled its peers begins to apply its own join.
LEMMA JoinIInv ==
  ASSUME TopologyIInv, NEW e \in Used, Join(e)
  PROVE  TopologyIInv'
  <1> USE DEF TopologyIInv
  <1>1. /\ e \in Ends /\ Proc(e) \in Procs /\ Used \subseteq Ends
        /\ User(e) \in Threads
    BY ProcFacts, ThreadFacts
  <1> DEFINE n == Apply("JOIN", e)
  <1>2. /\ \A f \in Ends : epc'[f] = IF f = e THEN "joining" ELSE epc[f]
        /\ epc[e] = "enabling" /\ found[e] = {}
        /\ \A t \in Threads : job'[t] = IF t = User(e) THEN n ELSE job[t]
        /\ UNCHANGED <<layout, found, roles, listeners, removing, link, receivers,
                       enabled, transmitters, slots, dead, dropped>>
    BY <1>1 DEF Join, EndGoto, TypeOK, topoVars, endVars, crashVars
  <1>12. /\ n \in Jobs /\ n.step = "dispose" /\ n.op = "JOIN" /\ n.who = e /\ n.todo = {}
         /\ n # NoJob /\ job[User(e)] = NoJob
    BY <1>1, <1>2, JobFacts DEF JobInv
  <1> HIDE DEF n
  <1>3. TypeOK'
    <2>1. job' \in [Threads -> {NoJob} \cup Jobs]
      BY <1>1, <1>12 DEF Join, TypeOK, Jobs, n
    <2> QED BY <1>1, <2>1 DEF Join, EndGoto, TypeOK, topoVars, endVars, crashVars, Jobs
  <1>4. /\ Used' = Used /\ \A f : Proc(f)' = Proc(f)
        /\ \A t : ProcOf(t)' = ProcOf(t)
        /\ \A w, q : Mode(w, q)' = Mode(w, q)
    BY <1>2, SameLayout
  <1>5. JobInv'
    <2>1. \A f \in Ends : User(f) = User(e) => f = e
      BY ThreadFacts
    <2>2. Given(User(e), job[User(e)])'
      BY <1>1, <1>2, <1>4, <1>12 DEF Given
    <2>3. ASSUME NEW t \in Threads, t # User(e), job[t] # NoJob
          PROVE  /\ job'[t] = job[t]
                 /\ \A f \in job[t].todo : f \in Used /\ Opposite(f, job[t].who)
                 /\ \A f \in Ends : t = User(f) => epc'[f] = epc[f]
      BY <1>2, <2>3 DEF JobInv
    <2>4. \A t \in Threads :
             \/ job'[t] = NoJob
             \/ /\ job[t] # NoJob /\ job'[t].who = job[t].who /\ job'[t].op = job[t].op
                /\ \A f \in job'[t].todo : f \in Used /\ Opposite(f, job[t].who)
                /\ \A f \in Ends : t = User(f) => epc'[f] = epc[f]
             \/ Given(t, job[t])'
      BY <1>2, <2>2, <2>3
    <2> QED BY <1>1, <1>2, <2>4, JobsKept
  <1>6. LinkInv'
    BY <1>1, <1>2, SameLinks
  <1>7. TableInv'
    <2>1. \A f \in Ends : epc'[f] # "enabling" => found'[f] = {}
      BY <1>2 DEF TableInv
    <2>2. \A f \in Used : epc'[f] \in {"listening", "enabling", "joining", "joined"}
                            => f \in listeners'[Proc(f)]
      BY <1>1, <1>2 DEF TableInv
    <2> QED BY <1>2, <1>4, <2>1, <2>2 DEF TableInv
  <1>8. EndInv'
    BY <1>2, <1>4 DEF EndInv
  <1>9. LocalInv'
    <2>1. \A f \in Used : f # e => job'[User(f)] = job[User(f)]
      BY <1>1, <1>2, ThreadFacts
    <2> QED BY <1>1, <1>2, <1>4, <1>12, <2>1 DEF LocalInv
  <1>10. RemoteInv'
    <2>1. \A p \in Procs : job'[Discovery(p)] = job[Discovery(p)]
      BY <1>2, ThreadFacts
    <2> QED BY <1>1, <1>2, <2>1, SameWords DEF Published
  <1>11. PeerInv'
    <2>1. \A f \in Used : Steady(f)' => Steady(f)
      BY <1>1, <1>2, <1>4 DEF Steady
    <2>2. \A f, g \in Used : Linked(f, g)' <=> Linked(f, g)
      BY <1>2, <1>4 DEF Linked
    <2>3. \A f, g \in Used : Called(f, g) => Called(f, g)'
      BY <1>2, <1>4, <1>12 DEF Called
    <2> QED BY <1>1, <1>2, <1>4, <2>1, <2>2, <2>3 DEF PeerInv
  <1> QED BY <1>3, <1>5, <1>6, <1>7, <1>8, <1>9, <1>10, <1>11

\* An endpoint stops listening and begins to apply its own leave.
LEMMA RemoveChangeListenerIInv ==
  ASSUME TopologyIInv, NEW e \in Used, RemoveChangeListener(e)
  PROVE  TopologyIInv'
  <1> USE DEF TopologyIInv
  <1>1. /\ e \in Ends /\ Proc(e) \in Procs /\ Used \subseteq Ends
        /\ User(e) \in Threads /\ \A f \in Used : Proc(f) \in Procs
    BY ProcFacts, ThreadFacts
  <1> DEFINE n == Apply("LEAVE", e)
  <1>2. /\ \A f \in Ends : epc'[f] = IF f = e THEN "leaving" ELSE epc[f]
        /\ epc[e] = "joined"
        /\ \A q \in Procs : listeners'[q] = IF q = Proc(e) THEN listeners[q] \ {e}
                                            ELSE listeners[q]
        /\ \A t \in Threads : job'[t] = IF t = User(e) THEN n ELSE job[t]
        /\ UNCHANGED <<layout, found, roles, removing, link, receivers, enabled,
                       transmitters, slots, dead, dropped>>
    BY <1>1 DEF RemoveChangeListener, EndGoto, TypeOK, endVars, crashVars
  <1>12. /\ n \in Jobs /\ n.step = "dispose" /\ n.op = "LEAVE" /\ n.who = e /\ n.todo = {}
         /\ n # NoJob /\ job[User(e)] = NoJob
    BY <1>1, <1>2, JobFacts DEF JobInv
  <1> HIDE DEF n
  <1>3. TypeOK'
    <2>1. job' \in [Threads -> {NoJob} \cup Jobs]
      BY <1>1, <1>12 DEF RemoveChangeListener, TypeOK, Jobs, n
    <2> QED BY <1>1, <2>1 DEF RemoveChangeListener, EndGoto, TypeOK, endVars, crashVars,
                              Jobs
  <1>4. /\ Used' = Used /\ \A f : Proc(f)' = Proc(f)
        /\ \A t : ProcOf(t)' = ProcOf(t)
        /\ \A w, q : Mode(w, q)' = Mode(w, q)
    BY <1>2, SameLayout
  <1>5. JobInv'
    <2>1. Given(User(e), job[User(e)])'
      BY <1>1, <1>2, <1>4, <1>12 DEF Given, Going
    <2>2. ASSUME NEW t \in Threads, t # User(e), job[t] # NoJob
          PROVE  /\ job'[t] = job[t]
                 /\ \A f \in job[t].todo : f \in Used /\ Opposite(f, job[t].who)
                 /\ \A f \in Ends : t = User(f) => epc'[f] = epc[f]
      BY <1>2, <2>2 DEF JobInv
    <2>3. \A t \in Threads :
             \/ job'[t] = NoJob
             \/ /\ job[t] # NoJob /\ job'[t].who = job[t].who /\ job'[t].op = job[t].op
                /\ \A f \in job'[t].todo : f \in Used /\ Opposite(f, job[t].who)
                /\ \A f \in Ends : t = User(f) => epc'[f] = epc[f]
             \/ Given(t, job[t])'
      BY <1>2, <2>1, <2>2
    <2> QED BY <1>1, <1>2, <2>3, JobsKept
  <1>6. LinkInv'
    BY <1>1, <1>2, SameLinks
  <1>7. TableInv'
    <2>1. \A q \in Procs : \A f \in listeners'[q] : f \in Used /\ Proc(f) = q
      BY <1>2 DEF TableInv
    <2>2. \A f \in Ends : epc'[f] # "enabling" => found'[f] = {}
      BY <1>2 DEF TableInv
    <2>3. \A f \in Used : epc'[f] \in {"listening", "enabling", "joining", "joined"}
                            => f \in listeners'[Proc(f)]
      BY <1>1, <1>2 DEF TableInv
    <2> QED BY <1>2, <1>4, <2>1, <2>2, <2>3 DEF TableInv
  <1>8. EndInv'
    BY <1>2, <1>4 DEF EndInv
  <1>9. LocalInv'
    <2>1. \A f \in Used : f # e => job'[User(f)] = job[User(f)]
      BY <1>1, <1>2, ThreadFacts
    <2> QED BY <1>1, <1>2, <1>4, <1>12, <2>1 DEF LocalInv
  <1>10. RemoteInv'
    <2>1. \A p \in Procs : job'[Discovery(p)] = job[Discovery(p)]
      BY <1>2, ThreadFacts
    <2> QED BY <1>1, <1>2, <2>1, SameWords DEF Published
  <1>11. PeerInv'
    <2>1. \A f \in Used : Steady(f)' => Steady(f)
      BY <1>1, <1>2, <1>4 DEF Steady
    <2>2. \A f, g \in Used : Linked(f, g)' <=> Linked(f, g)
      BY <1>2, <1>4 DEF Linked
    <2>3. \A f, g \in Used : Called(f, g) => Called(f, g)'
      BY <1>2, <1>4, <1>12 DEF Called
    <2> QED BY <1>1, <1>2, <1>4, <2>1, <2>2, <2>3 DEF PeerInv
  <1> QED BY <1>3, <1>5, <1>6, <1>7, <1>8, <1>9, <1>10, <1>11

\* A process dies.
LEMMA DieIInv ==
  ASSUME TopologyIInv, NEW p \in Procs, Die(p)
  PROVE  TopologyIInv'
  <1> USE DEF TopologyIInv
  <1>1. Used \subseteq Ends
    BY ProcFacts
  <1>2. /\ dead' = dead \cup {p}
        /\ UNCHANGED <<layout, epc, found, roles, listeners, removing, link, job,
                       receivers, enabled, transmitters, slots, dropped>>
    BY DEF Die, topoVars, endVars
  <1>3. TypeOK'
    BY <1>2 DEF TypeOK
  <1>4. /\ Used' = Used /\ \A f : Proc(f)' = Proc(f)
        /\ \A t : ProcOf(t)' = ProcOf(t)
        /\ \A w, q : Mode(w, q)' = Mode(w, q)
    BY <1>2, SameLayout
  <1>5. JobInv'
    <2>1. \A t \in Threads : job[t] # NoJob =>
             \A f \in job[t].todo : f \in Used /\ Opposite(f, job[t].who)
      BY DEF JobInv
    <2> QED BY <1>2, <2>1, JobsKept
  <1>6. LinkInv'
    BY <1>2, SameLinks
  <1>7. TableInv'
    BY <1>2, <1>4 DEF TableInv
  <1>8. EndInv'
    BY <1>2, <1>4 DEF EndInv
  <1>9. LocalInv'
    BY <1>2, <1>4 DEF LocalInv
  <1>10. RemoteInv'
    BY <1>2, SameWords
  <1>11. PeerInv'
    <2>1. \A f \in Used : Steady(f)' => Steady(f)
      BY <1>2, <1>4 DEF Steady
    <2>2. \A f, g \in Used : /\ Linked(f, g)' <=> Linked(f, g)
                             /\ Called(f, g)' <=> Called(f, g)
      BY <1>2, <1>4 DEF Linked, Called
    <2> QED BY <1>2, <1>4, <2>1, <2>2 DEF PeerInv
  <1> QED BY <1>3, <1>5, <1>6, <1>7, <1>8, <1>9, <1>10, <1>11

\* A process notices that another one has died.
LEMMA OnTopoModuleLeaveIInv ==
  ASSUME TopologyIInv, NEW q \in Procs \ dead, NEW p \in Procs, OnTopoModuleLeave(q, p)
  PROVE  TopologyIInv'
  <1> USE DEF TopologyIInv
  <1>1. Used \subseteq Ends
    BY ProcFacts
  <1>2. /\ \A s \in Procs : removing'[s] = IF s = q THEN RolesOf(q, p) ELSE removing[s]
        /\ p \in dead /\ p # q
        /\ UNCHANGED <<layout, epc, found, roles, listeners, link, job, receivers,
                       enabled, transmitters, slots, dead>>
    BY DEF OnTopoModuleLeave, TypeOK, endVars
  <1>12. \A e \in RolesOf(q, p) : e \in Used /\ Proc(e) = p
    BY DEF RolesOf, TableInv
  <1>3. TypeOK'
    <2>1. removing' \in [Procs -> SUBSET Ends]
      BY <1>1, <1>12 DEF OnTopoModuleLeave, TypeOK
    <2>2. dropped' \in [Procs -> SUBSET Procs]
      BY DEF OnTopoModuleLeave, TypeOK
    <2> QED BY <1>2, <2>1, <2>2 DEF TypeOK
  <1>4. /\ Used' = Used /\ \A f : Proc(f)' = Proc(f)
        /\ \A t : ProcOf(t)' = ProcOf(t)
        /\ \A w, s : Mode(w, s)' = Mode(w, s)
    BY <1>2, SameLayout
  <1>5. JobInv'
    BY <1>2, <1>4 DEF JobInv, Going
  <1>6. LinkInv'
    BY <1>2, SameLinks
  <1>7. TableInv'
    <2>1. \A s \in Procs : \A e \in removing'[s] :
             e \in Used /\ Proc(e) # s /\ Proc(e) \in dead
      BY <1>2, <1>12 DEF TableInv
    <2> QED BY <1>2, <1>4, <2>1 DEF TableInv
  <1>8. EndInv'
    BY <1>2, <1>4 DEF EndInv
  <1>9. LocalInv'
    BY <1>2, <1>4 DEF LocalInv
  <1>10. RemoteInv'
    BY <1>2, SameWords
  <1>11. PeerInv'
    <2>1. \A f \in Used : Steady(f)' => Steady(f)
      BY <1>2, <1>4 DEF Steady
    <2>2. \A f, g \in Used : /\ Linked(f, g)' <=> Linked(f, g)
                             /\ Called(f, g)' <=> Called(f, g)
      BY <1>2, <1>4 DEF Linked, Called
    <2> QED BY <1>2, <1>4, <2>1, <2>2 DEF PeerInv
  <1> QED BY <1>3, <1>5, <1>6, <1>7, <1>8, <1>9, <1>10, <1>11

\* It begins to apply the leave of a role of the dead process.
LEMMA RemoveRoleIInv ==
  ASSUME TopologyIInv, NEW q \in Procs, RemoveRole(q)
  PROVE  TopologyIInv'
  <1> USE DEF TopologyIInv
  <1>1. Used \subseteq Ends /\ Participant(q) \in Threads
    BY ProcFacts, ThreadFacts
  <1>12. PICK e \in removing[q] :
           /\ removing' = [removing EXCEPT ![q] = @ \ {e}]
           /\ job' = [job EXCEPT ![Participant(q)] = Apply("LEAVE", e)]
    BY DEF RemoveRole
  <1> DEFINE n == Apply("LEAVE", e)
  <1>13. e \in Used /\ e \in Ends /\ Proc(e) # q /\ Proc(e) \in dead
    BY <1>1 DEF TableInv
  <1>2. /\ \A s \in Procs : removing'[s] = IF s = q THEN removing[s] \ {e} ELSE removing[s]
        /\ \A t \in Threads : job'[t] = IF t = Participant(q) THEN n ELSE job[t]
        /\ job[Participant(q)] = NoJob
        /\ UNCHANGED <<layout, epc, found, roles, listeners, link, receivers, enabled,
                       transmitters, slots, dead, dropped>>
    BY <1>12 DEF RemoveRole, TypeOK, endVars, crashVars, Idle
  <1>14. /\ n \in Jobs /\ n.op = "LEAVE" /\ n.who = e /\ n.todo = {} /\ n # NoJob
    BY <1>13, JobFacts
  <1> HIDE DEF n
  <1>3. TypeOK'
    <2>1. job' \in [Threads -> {NoJob} \cup Jobs]
      BY <1>1, <1>12, <1>14 DEF TypeOK, Jobs, n
    <2>2. removing' \in [Procs -> SUBSET Ends]
      BY <1>12 DEF TypeOK
    <2> QED BY <1>2, <2>1, <2>2 DEF TypeOK, Jobs
  <1>4. /\ Used' = Used /\ \A f : Proc(f)' = Proc(f)
        /\ \A t : ProcOf(t)' = ProcOf(t)
        /\ \A w, s : Mode(w, s)' = Mode(w, s)
    BY <1>2, SameLayout
  <1>5. JobInv'
    <2>1. Given(Participant(q), job[Participant(q)])'
      BY <1>1, <1>2, <1>4, <1>13, <1>14 DEF Given, Going
    <2>2. ASSUME NEW t \in Threads, t # Participant(q), job[t] # NoJob
          PROVE  /\ job'[t] = job[t]
                 /\ \A f \in job[t].todo : f \in Used /\ Opposite(f, job[t].who)
      BY <1>2, <2>2 DEF JobInv
    <2>3. \A t \in Threads :
             \/ job'[t] = NoJob
             \/ /\ job[t] # NoJob /\ job'[t].who = job[t].who /\ job'[t].op = job[t].op
                /\ \A f \in job'[t].todo : f \in Used /\ Opposite(f, job[t].who)
                /\ \A f \in Ends : t = User(f) => epc'[f] = epc[f]
             \/ Given(t, job[t])'
      BY <1>2, <2>1, <2>2
    <2> QED BY <1>2, <2>3, JobsKept
  <1>6. LinkInv'
    BY <1>2, SameLinks
  <1>7. TableInv'
    <2>1. \A s \in Procs : \A f \in removing'[s] :
             f \in Used /\ Proc(f) # s /\ Proc(f) \in dead
      BY <1>2 DEF TableInv
    <2> QED BY <1>2, <1>4, <2>1 DEF TableInv
  <1>8. EndInv'
    BY <1>2, <1>4 DEF EndInv
  <1>9. LocalInv'
    <2>1. \A f \in Used : job'[User(f)] = job[User(f)]
      BY <1>1, <1>2, ThreadFacts
    <2> QED BY <1>2, <1>4, <2>1 DEF LocalInv
  <1>10. RemoteInv'
    <2>1. \A p \in Procs : job'[Discovery(p)] = job[Discovery(p)]
      BY <1>2, ThreadFacts
    <2> QED BY <1>2, <2>1, SameWords
  <1>11. PeerInv'
    <2>1. \A f \in Used : Steady(f)' => Steady(f)
      BY <1>2, <1>4 DEF Steady
    <2>2. \A f, g \in Used : Linked(f, g)' <=> Linked(f, g)
      BY <1>2, <1>4 DEF Linked
    <2>3. \A f, g \in Used : Called(f, g) => Called(f, g)'
      BY <1>2, <1>4 DEF Called
    <2> QED BY <1>2, <1>4, <2>1, <2>2, <2>3 DEF PeerInv
  <1> QED BY <1>3, <1>5, <1>6, <1>7, <1>8, <1>9, <1>10, <1>11

-----------------------------------------------------------------------------
(* The transmitters and receivers *)

\* Of two opposite endpoints one is a writer and the other is not.
LEMMA OppositeFacts ==
  ASSUME NEW e, NEW f, Opposite(e, f)
  PROVE  /\ e \in Writers => f \notin Writers
         /\ e \notin Writers => f \in Writers
  BY DEF Opposite

\* Enabling a peer links it and cuts no link.
LEMMA EnableEnds ==
  ASSUME TypeOK, EndInv, layout' = layout, NEW e \in Used, NEW f \in Used,
         Opposite(e, f), Enable(e, f)
  PROVE  /\ receivers' \in [Writers -> SUBSET Procs]
         /\ enabled' \in [Writers -> SUBSET {"INTRA", "SHM", "RTPS"}]
         /\ transmitters' \in [Procs -> SUBSET Writers]
         /\ slots' \in [Procs -> [Writers -> Nat]]
         /\ EndInv'
         /\ Linked(e, f)'
         /\ \A g, h \in Used : Opposite(g, h) /\ Linked(g, h) => Linked(g, h)'
  <1>1. /\ Used \subseteq Ends /\ \A g \in Used : Proc(g) \in Procs
        /\ Used' = Used /\ \A g : Proc(g)' = Proc(g)
        /\ \A w, q : Mode(w, q)' = Mode(w, q)
        /\ \A g, h : Opposite(g, h) /\ g \notin Writers => h \in Writers
    BY ProcFacts, SameLayout, OppositeFacts
  <1>2. CASE e \in Writers
    <2> DEFINE p == Proc(f)
               m == Mode(e, p)
    <2>1. p \in Procs /\ m \in {"INTRA", "SHM", "RTPS"}
      BY <1>1 DEF Mode
    <2>2. /\ receivers' = [receivers EXCEPT ![e] = @ \cup {p}]
          /\ enabled' = [enabled EXCEPT ![e] = @ \cup {m}]
          /\ UNCHANGED <<transmitters, slots>>
      BY <1>2 DEF Enable, EnableReceiver
    <2> HIDE DEF p, m
    <2>3. /\ receivers' \in [Writers -> SUBSET Procs]
          /\ enabled' \in [Writers -> SUBSET {"INTRA", "SHM", "RTPS"}]
          /\ \A w \in Writers : /\ receivers'[w] = IF w = e THEN receivers[w] \cup {p}
                                                   ELSE receivers[w]
                                /\ enabled'[w] = IF w = e THEN enabled[w] \cup {m}
                                                 ELSE enabled[w]
      BY <1>2, <2>1, <2>2 DEF TypeOK
    <2>4. ASSUME NEW w \in Writers \cap Used, NEW q \in receivers'[w]
          PROVE  Mode(w, q) \in enabled'[w]
      <3>1. CASE w = e /\ q = p
        BY <2>3, <3>1 DEF m
      <3>2. CASE ~ (w = e /\ q = p)
        <4>1. q \in receivers[w]
          BY <2>3, <2>4, <3>2
        <4> QED BY <2>3, <4>1 DEF EndInv
      <3> QED BY <3>1, <3>2
    <2>5. EndInv'
      BY <1>1, <2>2, <2>4 DEF EndInv
    <2>6. Linked(e, f)'
      BY <1>1, <1>2, <2>3 DEF Linked, p
    <2>7. \A g, h \in Used : Linked(g, h) => Linked(g, h)'
      BY <1>1, <2>2, <2>3 DEF Linked
    <2> QED BY <2>2, <2>3, <2>5, <2>6, <2>7 DEF TypeOK
  <1>3. CASE e \notin Writers
    <2> DEFINE p == Proc(e)
    <2>1. p \in Procs /\ f \in Writers /\ p = Proc(e)'
      BY <1>1, <1>3
    <2>2. /\ UNCHANGED <<receivers, enabled>>
          /\ IF f \notin transmitters[p]
             THEN /\ transmitters' = [transmitters EXCEPT ![p] = @ \cup {f}]
                  /\ slots' = [slots EXCEPT ![p][f] = @ + 1]
             ELSE UNCHANGED <<transmitters, slots>>
      BY <1>3 DEF Enable, EnableTransmitter, NewTo
    <2> HIDE DEF p
    <2>3. CASE f \notin transmitters[p]
      <3>1. transmitters' = [transmitters EXCEPT ![p] = transmitters[p] \cup {f}]
        BY <2>2, <2>3
      <3>2. /\ transmitters' \in [Procs -> SUBSET Writers]
            /\ \A q \in Procs :
                 transmitters'[q] = IF q = p THEN transmitters[q] \cup {f}
                                    ELSE transmitters[q]
        BY <2>1, <3>1 DEF TypeOK
      <3>3. slots[p][f] = 0
        BY <2>1, <2>3 DEF EndInv
      <3>4. slots' = [slots EXCEPT ![p] = [slots[p] EXCEPT ![f] = 1]]
        BY <2>1, <2>2, <2>3, <3>3
      <3>5. /\ slots' \in [Procs -> [Writers -> Nat]]
            /\ \A q \in Procs, w \in Writers :
                 slots'[q][w] = IF q = p /\ w = f THEN 1 ELSE slots[q][w]
        BY <2>1, <3>4 DEF TypeOK
      <3>6. \A q \in Procs, w \in Writers :
              slots'[q][w] = IF w \in transmitters'[q] THEN 1 ELSE 0
        BY <3>2, <3>5 DEF EndInv
      <3>7. EndInv'
        BY <1>1, <2>2, <3>6 DEF EndInv
      <3>8. Linked(e, f)'
        BY <1>3, <2>1, <3>2 DEF Linked
      <3>9. \A g, h \in Used : Linked(g, h) => Linked(g, h)'
        BY <1>1, <2>2, <3>2 DEF Linked
      <3> QED BY <2>2, <3>2, <3>5, <3>7, <3>8, <3>9 DEF TypeOK
    <2>4. CASE f \in transmitters[p]
      BY <1>1, <1>3, <2>1, <2>2, <2>4 DEF EndInv, Linked, TypeOK, p
    <2> QED BY <2>3, <2>4
  <1> QED BY <1>2, <1>3

\* Disabling a peer cuts only links to it, or to the receiver that it shares.
LEMMA DisableEnds ==
  ASSUME TypeOK, EndInv, layout' = layout, NEW e \in Used, NEW f \in Used,
         Opposite(e, f), Disable(e, f)
  PROVE  /\ receivers' \in [Writers -> SUBSET Procs]
         /\ enabled' \in [Writers -> SUBSET {"INTRA", "SHM", "RTPS"}]
         /\ transmitters' \in [Procs -> SUBSET Writers]
         /\ slots' \in [Procs -> [Writers -> Nat]]
         /\ EndInv'
         /\ \A g, h \in Used : Opposite(g, h) /\ Linked(g, h) =>
              \/ Linked(g, h)' \/ h = f
              \/ Proc(h) = Proc(f) /\ h \notin Writers /\ f \notin Writers
  <1>1. /\ Used \subseteq Ends /\ \A g \in Used : Proc(g) \in Procs
        /\ Used' = Used /\ \A g : Proc(g)' = Proc(g)
        /\ \A w, q : Mode(w, q)' = Mode(w, q)
        /\ \A g, h : Opposite(g, h) /\ g \notin Writers => h \in Writers
        /\ \A g, h : Opposite(g, h) /\ g \in Writers => h \notin Writers
    BY ProcFacts, SameLayout, OppositeFacts
  <1>2. CASE e \in Writers
    <2> DEFINE p == Proc(f)
               m == Mode(e, p)
               last == \A q \in receivers[e] \ {p} : Mode(e, q) # m
    <2>1. p \in Procs /\ f \notin Writers
      BY <1>1, <1>2
    <2>2. /\ receivers' = [receivers EXCEPT ![e] = @ \ {p}]
          /\ enabled' = [enabled EXCEPT ![e] = IF last THEN @ \ {m} ELSE @]
          /\ UNCHANGED <<transmitters, slots>>
      BY <1>2 DEF Disable, DisableReceiver, Erased, Unused
    <2>3. last => \A q \in receivers[e] \ {p} : Mode(e, q) # m
      OBVIOUS
    <2> HIDE DEF p, m, last
    <2>4. /\ receivers' \in [Writers -> SUBSET Procs]
          /\ \A w \in Writers : receivers'[w] = IF w = e THEN receivers[w] \ {p}
                                                ELSE receivers[w]
      BY <1>2, <2>1, <2>2 DEF TypeOK
    <2>5. /\ enabled' \in [Writers -> SUBSET {"INTRA", "SHM", "RTPS"}]
          /\ \A w \in Writers : enabled'[w] = IF w = e /\ last THEN enabled[w] \ {m}
                                              ELSE enabled[w]
      <3>1. CASE last
        BY <1>2, <2>2, <3>1 DEF TypeOK
      <3>2. CASE ~ last
        BY <1>2, <2>2, <3>2 DEF TypeOK
      <3> QED BY <3>1, <3>2
    <2>6. ASSUME NEW w \in Writers \cap Used, NEW q \in receivers'[w]
          PROVE  Mode(w, q) \in enabled'[w]
      <3>1. q \in receivers[w] /\ (w = e => q # p)
        BY <2>4, <2>6
      <3>2. Mode(w, q) \in enabled[w]
        BY <3>1 DEF EndInv
      <3>3. w = e /\ last => Mode(w, q) # m
        BY <2>3, <3>1
      <3> QED BY <2>5, <3>2, <3>3
    <2>7. EndInv'
      BY <1>1, <2>2, <2>6 DEF EndInv
    <2>8. \A g, h \in Used : Opposite(g, h) /\ Linked(g, h) =>
             Linked(g, h)' \/ (Proc(h) = Proc(f) /\ h \notin Writers)
      BY <1>1, <1>2, <2>2, <2>4 DEF Linked, p
    <2> QED BY <2>1, <2>2, <2>4, <2>5, <2>7, <2>8 DEF TypeOK
  <1>3. CASE e \notin Writers
    <2> DEFINE p == Proc(e)
    <2>1. p \in Procs /\ f \in Writers /\ p = Proc(e)'
      BY <1>1, <1>3
    <2>2. /\ UNCHANGED <<receivers, enabled>>
          /\ IF f \in transmitters[p]
             THEN /\ transmitters' = [transmitters EXCEPT ![p] = @ \ {f}]
                  /\ slots' = [slots EXCEPT ![p][f] = @ - 1]
             ELSE UNCHANGED <<transmitters, slots>>
      BY <1>3 DEF Disable, DisableTransmitter, HeardBy
    <2> HIDE DEF p
    <2>3. CASE f \in transmitters[p]
      <3>8. transmitters' = [transmitters EXCEPT ![p] = transmitters[p] \ {f}]
        BY <2>2, <2>3
      <3>1. /\ transmitters' \in [Procs -> SUBSET Writers]
            /\ \A q \in Procs :
                 transmitters'[q] = IF q = p THEN transmitters[q] \ {f}
                                    ELSE transmitters[q]
        BY <2>1, <3>8 DEF TypeOK
      <3>2. slots[p][f] = 1
        BY <2>1, <2>3 DEF EndInv
      <3>3. slots' = [slots EXCEPT ![p] = [slots[p] EXCEPT ![f] = 0]]
        BY <2>1, <2>2, <2>3, <3>2
      <3>4. /\ slots' \in [Procs -> [Writers -> Nat]]
            /\ \A q \in Procs, w \in Writers :
                 slots'[q][w] = IF q = p /\ w = f THEN 0 ELSE slots[q][w]
        BY <2>1, <3>3 DEF TypeOK
      <3>5. \A q \in Procs, w \in Writers :
              slots'[q][w] = IF w \in transmitters'[q] THEN 1 ELSE 0
        BY <3>1, <3>4 DEF EndInv
      <3>6. EndInv'
        BY <1>1, <2>2, <3>5 DEF EndInv
      <3>7. \A g, h \in Used : Linked(g, h) => Linked(g, h)' \/ h = f
        BY <1>1, <2>2, <3>1 DEF Linked
      <3> QED BY <2>2, <3>1, <3>4, <3>6, <3>7 DEF TypeOK
    <2>4. CASE f \notin transmitters[p]
      BY <1>1, <2>2, <2>4 DEF EndInv, Linked, TypeOK
    <2> QED BY <2>3, <2>4
  <1> QED BY <1>2, <1>3

\* An endpoint enables one of the peers it has found.
LEMMA EnablePeerIInv ==
  ASSUME TopologyIInv, NEW e \in Used, EnablePeer(e)
  PROVE  TopologyIInv'
  <1> USE DEF TopologyIInv
  <1>1. e \in Ends /\ Used \subseteq Ends
    BY ProcFacts
  <1>12. PICK f \in found[e] : found' = [found EXCEPT ![e] = @ \ {f}] /\ Enable(e, f)
    BY DEF EnablePeer
  <1>13. f \in Used /\ Opposite(e, f)
    BY <1>1 DEF TableInv
  <1>2. /\ \A g \in Ends : found'[g] = IF g = e THEN found[g] \ {f} ELSE found[g]
        /\ epc[e] = "enabling"
        /\ UNCHANGED <<layout, epc, roles, listeners, removing, link, job, dead, dropped>>
    BY <1>1, <1>12 DEF EnablePeer, TypeOK, topoVars, crashVars
  <1>14. /\ receivers' \in [Writers -> SUBSET Procs]
         /\ enabled' \in [Writers -> SUBSET {"INTRA", "SHM", "RTPS"}]
         /\ transmitters' \in [Procs -> SUBSET Writers]
         /\ slots' \in [Procs -> [Writers -> Nat]]
         /\ EndInv' /\ Linked(e, f)'
         /\ \A g, h \in Used : Opposite(g, h) /\ Linked(g, h) => Linked(g, h)'
    BY <1>2, <1>12, <1>13, EnableEnds
  <1>3. TypeOK'
    <2>1. found' \in [Ends -> SUBSET Ends]
      BY <1>1, <1>12 DEF TypeOK
    <2> QED BY <1>2, <1>14, <2>1 DEF TypeOK
  <1>4. /\ Used' = Used /\ \A g : Proc(g)' = Proc(g)
        /\ \A t : ProcOf(t)' = ProcOf(t)
    BY <1>2, SameLayout
  <1>5. JobInv'
    BY <1>2, <1>4 DEF JobInv, Going
  <1>6. LinkInv'
    BY <1>2, SameLinks
  <1>7. TableInv'
    <2>1. \A g \in Ends : /\ \A h \in found'[g] : h \in Used /\ Opposite(g, h)
                          /\ epc'[g] # "enabling" => found'[g] = {}
      BY <1>2 DEF TableInv
    <2> QED BY <1>2, <1>4, <2>1 DEF TableInv
  <1>9. LocalInv'
    BY <1>2, <1>4 DEF LocalInv
  <1>10. RemoteInv'
    BY <1>2, SameWords
  <1>11. PeerInv'
    <2>1. \A g \in Used : Steady(g)' => Steady(g)
      BY <1>2, <1>4 DEF Steady
    <2>2. \A g, h \in Used : Called(g, h)' <=> Called(g, h)
      BY <1>2, <1>4 DEF Called
    <2>3. ASSUME NEW g \in Used, NEW h \in Used, Opposite(g, h),
                 epc[g] \in {"enabling", "joining", "joined"}, h \in roles[Proc(g)],
                 Steady(h)
          PROVE  Linked(g, h)' \/ h \in found'[g] \/ Called(g, h)'
      <3>1. Linked(g, h) \/ h \in found[g] \/ Called(g, h)
        BY <2>3 DEF PeerInv
      <3>2. h \in found[g] => h \in found'[g] \/ (g = e /\ h = f)
        BY <1>1, <1>2
      <3> QED BY <1>14, <2>2, <2>3, <3>1, <3>2
    <2> QED BY <1>2, <1>4, <2>1, <2>3 DEF PeerInv
  <1> QED BY <1>3, <1>5, <1>6, <1>7, <1>14, <1>9, <1>10, <1>11

-----------------------------------------------------------------------------
(* Publishing a change *)

\* The change that e has made is published: the last word on every endpoint is
\* right again.
LEMMA PublishLinks ==
  ASSUME TypeOK, LinkInv, RemoteInv, NEW e \in Used, NEW op \in {"JOIN", "LEAVE"},
         Publish(e, op), epc' = [epc EXCEPT ![e] = IF op = "JOIN" THEN "joined" ELSE "gone"],
         epc[e] # "gone"
  PROVE  /\ link' \in [Procs -> [Procs -> Seq(Changes)]] /\ LinkInv' /\ RemoteInv'
  <1>1. /\ Used \subseteq Ends /\ Present \subseteq Procs
        /\ \A g \in Used : Proc(g) \in Procs /\ Proc(g) \in Present
        /\ UNCHANGED <<layout, roles, job, dead>> /\ <<op, e>> \in Changes
        /\ <<op, e>>[1] = op /\ <<op, e>>[2] = e
    BY ProcFacts DEF Publish, crashVars, Changes
  <1>2. /\ Used' = Used /\ Present' = Present
        /\ \A g : Proc(g)' = Proc(g)
    BY <1>1, SameLayout
  <1> DEFINE c == <<op, e>>
  <1>3. \A p, q \in Procs :
          link'[p][q] = IF p = Proc(e) /\ q \in Present \ {p} THEN Append(link[p][q], c)
                        ELSE link[p][q]
    BY DEF Publish, NeedPublish
  <1>4. \A p, q \in Procs : link[p][q] \in Seq(Changes)
    BY DEF TypeOK, Changes
  <1>5. \A g \in Used : epc'[g] = IF g = e THEN IF op = "JOIN" THEN "joined" ELSE "gone"
                                  ELSE epc[g]
    BY <1>1 DEF TypeOK
  <1> HIDE DEF c
  <1>6. c \in Changes /\ c[1] = op /\ c[2] = e
    BY <1>1 DEF c
  <1>10. ASSUME NEW l \in Seq(Changes)
         PROVE  /\ Append(l, c) \in Seq(Changes)
                /\ \A i \in 1 .. Len(Append(l, c)) :
                     \/ i \in 1 .. Len(l) /\ Append(l, c)[i] = l[i]
                     \/ Append(l, c)[i] = c
    BY <1>6
  <1>7. link' \in [Procs -> [Procs -> Seq(Changes)]]
    <2>1. ASSUME NEW p \in Procs, NEW q \in Procs PROVE link'[p][q] \in Seq(Changes)
      <3>1. link[p][q] \in Seq(Changes) /\ Append(link[p][q], c) \in Seq(Changes)
        BY <1>4, <1>10
      <3>2. link'[p][q] = link[p][q] \/ link'[p][q] = Append(link[p][q], c)
        BY <1>3
      <3> QED BY <3>1, <3>2
    <2>2. link' = [p \in Procs |-> [q \in Procs |-> link'[p][q]]]
      BY DEF Publish
    <2> QED BY <2>1, <2>2
  <1>8. LinkInv'
    <2>1. ASSUME NEW p \in Procs, NEW q \in Procs, NEW i \in 1 .. Len(link'[p][q])
          PROVE  /\ link'[p][q][i][2] \in Used /\ Proc(link'[p][q][i][2]) = p /\ p # q
                 /\ link'[p][q][i][1] = "LEAVE" => epc'[link'[p][q][i][2]] = "gone"
      <3> DEFINE d == link'[p][q][i]
      <3>1. \/ i \in 1 .. Len(link[p][q]) /\ d = link[p][q][i]
            \/ p = Proc(e) /\ q # p /\ d = c
        <4>1. CASE p = Proc(e) /\ q \in Present \ {p}
          <5>1. link'[p][q] = Append(link[p][q], c) /\ link[p][q] \in Seq(Changes)
            BY <1>3, <1>4, <4>1
          <5> QED BY <1>10, <2>1, <4>1, <5>1
        <4>2. CASE ~ (p = Proc(e) /\ q \in Present \ {p})
          BY <1>3, <2>1, <4>2
        <4> QED BY <4>1, <4>2
      <3>2. CASE i \in 1 .. Len(link[p][q]) /\ d = link[p][q][i]
        <4>1. d[2] \in Used /\ Proc(d[2]) = p /\ p # q /\ (d[1] = "LEAVE" => epc[d[2]] = "gone")
          BY <3>2 DEF LinkInv
        <4> HIDE DEF d
        <4>2. d[1] = "LEAVE" => epc'[d[2]] = "gone"
          BY <1>5, <4>1
        <4> QED BY <4>1, <4>2 DEF d
      <3>3. CASE p = Proc(e) /\ q # p /\ d = c
        BY <1>5, <1>6, <3>3
      <3> QED BY <3>1, <3>2, <3>3
    <2> QED BY <1>2, <2>1 DEF LinkInv
  <1>9. RemoteInv'
    <2>1. ASSUME NEW p \in Present, NEW g \in Used, p # Proc(g), Proc(g) \notin dead
          PROVE  Word(link'[Proc(g)][p], job[Discovery(p)], roles[p], g, epc'[g])
      <3> DEFINE l == link[Proc(g)][p]
                 j == job[Discovery(p)]
                 R == roles[p]
                 x == epc'[g]
      <3>1. Word(l, j, R, g, epc[g]) /\ l \in Seq(Changes)
        BY <1>1, <1>4, <2>1 DEF RemoteInv, LastWord
      <3>2. CASE g = e
        <4>1. link'[Proc(g)][p] = Append(l, c)
          BY <1>1, <1>3, <2>1, <3>2
        <4>2. c[2] = g /\ (c[1] = "JOIN" <=> Published(x))
          BY <1>5, <1>6, <3>2 DEF Published
        <4> HIDE DEF l, j, R, x
        <4>3. Word(Append(l, c), j, R, g, x)
          BY <1>6, <3>1, <4>2, WordOwn
        <4> QED BY <4>1, <4>3 DEF l, j, R, x
      <3>3. CASE g # e /\ Proc(g) = Proc(e)
        <4>1. link'[Proc(g)][p] = Append(l, c) /\ c[2] # g /\ x = epc[g]
          BY <1>1, <1>3, <1>5, <1>6, <2>1, <3>3
        <4> HIDE DEF l, j, R, x
        <4>2. Word(Append(l, c), j, R, g, x)
          BY <1>6, <3>1, <4>1, WordOther
        <4> QED BY <4>1, <4>2 DEF l, j, R, x
      <3>4. CASE Proc(g) # Proc(e)
        <4>1. link'[Proc(g)][p] = l /\ x = epc[g]
          BY <1>1, <1>3, <1>5, <3>4
        <4> QED BY <3>1, <4>1
      <3> QED BY <3>2, <3>3, <3>4
    <2> QED BY <1>1, <1>2, <2>1 DEF RemoteInv, LastWord
  <1> QED BY <1>7, <1>8, <1>9

\* An endpoint publishes its join.
LEMMA PublishJoinIInv ==
  ASSUME TopologyIInv, NEW e \in Used, PublishJoin(e)
  PROVE  TopologyIInv'
  <1> USE DEF TopologyIInv
  <1>1. /\ e \in Ends /\ Used \subseteq Ends /\ User(e) \in Threads
        /\ job[User(e)] = NoJob /\ NoJob.step = "none"
    BY ProcFacts, ThreadFacts, JobFacts DEF PublishJoin, Publish, Idle
  <1>2. /\ \A f \in Ends : epc'[f] = IF f = e THEN "joined" ELSE epc[f]
        /\ epc[e] = "joining"
        /\ UNCHANGED <<layout, found, roles, listeners, removing, job, receivers,
                       enabled, transmitters, slots, dead, dropped>>
    BY <1>1 DEF PublishJoin, Publish, EndGoto, TypeOK, crashVars
  <1>12. link' \in [Procs -> [Procs -> Seq(Changes)]] /\ LinkInv' /\ RemoteInv'
    <2>1. epc' = [epc EXCEPT ![e] = IF "JOIN" = "JOIN" THEN "joined" ELSE "gone"]
      BY DEF PublishJoin, EndGoto
    <2> QED BY <1>2, <2>1, PublishLinks DEF PublishJoin
  <1>3. TypeOK'
    <2>1. epc' \in [Ends -> {"out", "listening", "enabling", "joining", "joined",
                             "leaving", "gone"}]
      BY <1>1 DEF PublishJoin, EndGoto, TypeOK
    <2> QED BY <1>2, <1>12, <2>1 DEF TypeOK, Changes
  <1>4. /\ Used' = Used /\ \A f : Proc(f)' = Proc(f)
        /\ \A t : ProcOf(t)' = ProcOf(t)
        /\ \A w, q : Mode(w, q)' = Mode(w, q)
    BY <1>2, SameLayout
  <1>5. JobInv'
    <2>1. ASSUME NEW t \in Threads, job[t] # NoJob
          PROVE  /\ \A f \in job[t].todo : f \in Used /\ Opposite(f, job[t].who)
                 /\ \A f \in Ends : t = User(f) => epc'[f] = epc[f]
      BY <1>1, <1>2, <2>1 DEF JobInv
    <2>2. \A f \in Used : epc[f] \in {"leaving", "gone"} => epc'[f] \in {"leaving", "gone"}
      BY <1>1, <1>2
    <2> QED BY <1>2, <2>1, <2>2, JobsKept
  <1>7. TableInv'
    <2>1. \A f \in Ends : epc'[f] # "enabling" => found'[f] = {}
      BY <1>2 DEF TableInv
    <2>2. \A f \in Used : epc'[f] \in {"listening", "enabling", "joining", "joined"}
                            => f \in listeners'[Proc(f)]
      BY <1>1, <1>2 DEF TableInv
    <2> QED BY <1>2, <1>4, <2>1, <2>2 DEF TableInv
  <1>8. EndInv'
    BY <1>2, <1>4 DEF EndInv
  <1>9. LocalInv'
    BY <1>1, <1>2, <1>4 DEF LocalInv
  <1>11. PeerInv'
    <2>1. \A f \in Used : Steady(f)' => Steady(f)
      BY <1>1, <1>2, <1>4 DEF Steady
    <2>2. \A f, g \in Used : /\ Linked(f, g)' <=> Linked(f, g)
                             /\ Called(f, g)' <=> Called(f, g)
      BY <1>2, <1>4 DEF Linked, Called
    <2> QED BY <1>1, <1>2, <1>4, <2>1, <2>2 DEF PeerInv
  <1> QED BY <1>3, <1>5, <1>12, <1>7, <1>8, <1>9, <1>11

\* An endpoint publishes its leave; a writer gives up its transmitter.
LEMMA PublishLeaveIInv ==
  ASSUME TopologyIInv, NEW e \in Used, PublishLeave(e)
  PROVE  TopologyIInv'
  <1> USE DEF TopologyIInv
  <1>1. /\ e \in Ends /\ Used \subseteq Ends /\ User(e) \in Threads
        /\ job[User(e)] = NoJob /\ NoJob.step = "none"
    BY ProcFacts, ThreadFacts, JobFacts DEF PublishLeave, Publish, Idle
  <1>2. /\ \A f \in Ends : epc'[f] = IF f = e THEN "gone" ELSE epc[f]
        /\ epc[e] = "leaving"
        /\ \A w \in Writers : /\ receivers'[w] = IF w = e THEN {} ELSE receivers[w]
                              /\ enabled'[w] = IF w = e THEN {} ELSE enabled[w]
        /\ UNCHANGED <<layout, found, roles, listeners, removing, job, transmitters,
                       slots, dead, dropped>>
    BY <1>1 DEF PublishLeave, Publish, EndGoto, TypeOK, crashVars
  <1>12. link' \in [Procs -> [Procs -> Seq(Changes)]] /\ LinkInv' /\ RemoteInv'
    <2>1. epc' = [epc EXCEPT ![e] = IF "LEAVE" = "JOIN" THEN "joined" ELSE "gone"]
      BY DEF PublishLeave, EndGoto
    <2> QED BY <1>2, <2>1, PublishLinks DEF PublishLeave
  <1>3. TypeOK'
    <2>1. epc' \in [Ends -> {"out", "listening", "enabling", "joining", "joined",
                             "leaving", "gone"}]
      BY <1>1 DEF PublishLeave, EndGoto, TypeOK
    <2>2. /\ receivers' \in [Writers -> SUBSET Procs]
          /\ enabled' \in [Writers -> SUBSET {"INTRA", "SHM", "RTPS"}]
      BY DEF PublishLeave, TypeOK
    <2> QED BY <1>2, <1>12, <2>1, <2>2 DEF TypeOK, Changes
  <1>4. /\ Used' = Used /\ \A f : Proc(f)' = Proc(f)
        /\ \A t : ProcOf(t)' = ProcOf(t)
        /\ \A w, q : Mode(w, q)' = Mode(w, q)
    BY <1>2, SameLayout
  <1>5. JobInv'
    <2>1. ASSUME NEW t \in Threads, job[t] # NoJob
          PROVE  /\ \A f \in job[t].todo : f \in Used /\ Opposite(f, job[t].who)
                 /\ \A f \in Ends : t = User(f) => epc'[f] = epc[f]
      BY <1>1, <1>2, <2>1 DEF JobInv
    <2>2. \A f \in Used : epc[f] \in {"leaving", "gone"} => epc'[f] \in {"leaving", "gone"}
      BY <1>1, <1>2
    <2> QED BY <1>2, <2>1, <2>2, JobsKept
  <1>7. TableInv'
    <2>1. \A f \in Ends : epc'[f] # "enabling" => found'[f] = {}
      BY <1>2 DEF TableInv
    <2>2. \A f \in Used : epc'[f] \in {"listening", "enabling", "joining", "joined"}
                            => f \in listeners'[Proc(f)]
      BY <1>1, <1>2 DEF TableInv
    <2> QED BY <1>2, <1>4, <2>1, <2>2 DEF TableInv
  <1>8. EndInv'
    BY <1>2, <1>4 DEF EndInv
  <1>9. LocalInv'
    BY <1>1, <1>2, <1>4 DEF LocalInv
  <1>11. PeerInv'
    <2>1. \A f \in Used : Steady(f)' => Steady(f)
      BY <1>1, <1>2, <1>4 DEF Steady
    <2>2. \A f, g \in Used : /\ f # e => (Linked(f, g)' <=> Linked(f, g))
                             /\ Called(f, g)' <=> Called(f, g)
      BY <1>2, <1>4 DEF Linked, Called
    <2> QED BY <1>1, <1>2, <1>4, <2>1, <2>2 DEF PeerInv
  <1> QED BY <1>3, <1>5, <1>12, <1>7, <1>8, <1>9, <1>11

-----------------------------------------------------------------------------
(* Applying a change *)

\* The roles change, but not for e.
LEMMA WordRoles ==
  ASSUME NEW l, NEW j, NEW R, NEW S, NEW e, NEW x, Word(l, j, R, e, x),
         e \in R <=> e \in S
  PROVE  Word(l, j, S, e, x)
  BY DEF Word

\* The change is stored.
LEMMA DisposeIInv ==
  ASSUME TopologyIInv, NEW t \in Threads, Dispose(t)
  PROVE  TopologyIInv'
  <1> USE DEF TopologyIInv
  <1> DEFINE q == ProcOf(t)
             j == job[t]
             n == [j EXCEPT !.step = "notify"]
             w == j.who
             R(p) == IF j.op = "JOIN" THEN roles[p] \cup {w} ELSE roles[p] \ {w}
  <1>12. /\ j # NoJob /\ j.step = "dispose"
    BY JobFacts DEF Dispose
  <1>13. /\ j \in Jobs /\ q \in Procs /\ w \in Used
         /\ Proc(w) = q => t = User(w)
         /\ Proc(w) # q /\ Proc(w) \notin dead => t = Discovery(q)
    BY <1>12, WhoApplies
  <1>1. Used \subseteq Ends /\ \A f \in Used : Proc(f) \in Procs /\ User(f) \in Threads
    BY ProcFacts, ThreadFacts
  <1>2. /\ \A p \in Procs : roles'[p] = IF p = q THEN R(p) ELSE roles[p]
        /\ \A s \in Threads : job'[s] = IF s = t THEN n ELSE job[s]
        /\ UNCHANGED <<layout, epc, found, listeners, removing, link, receivers,
                       enabled, transmitters, slots, dead, dropped>>
    BY <1>13 DEF Dispose, Stored, TypeOK, endVars, crashVars
  <1>14. /\ n \in Jobs /\ n.step = "notify" /\ n.op = j.op /\ n.who = w /\ n.todo = j.todo
         /\ n # NoJob /\ j.op \in {"JOIN", "LEAVE"}
    BY <1>13, JobFacts
  <1>15. \A s \in Threads \ {t} : job'[s] = job[s]
    BY <1>2
  <1>3. TypeOK'
    <2>1. job' \in [Threads -> {NoJob} \cup Jobs]
      BY <1>14 DEF Dispose, TypeOK, Jobs
    <2>2. R(q) \in SUBSET Ends
      BY <1>1, <1>13 DEF TypeOK
    <2>3. roles' \in [Procs -> SUBSET Ends]
      BY <1>13, <2>2 DEF Dispose, Stored, TypeOK
    <2> QED BY <1>2, <2>1, <2>3 DEF TypeOK, Jobs
  <1>4. /\ Used' = Used /\ \A f : Proc(f)' = Proc(f) /\ Present' = Present
        /\ \A s : ProcOf(s)' = ProcOf(s)
        /\ \A v, p : Mode(v, p)' = Mode(v, p)
    BY <1>2, SameLayout
  <1> HIDE DEF n, j, q
  <1>16. \A p \in Procs : \A f : f # w => (f \in roles'[p] <=> f \in roles[p])
    BY <1>2
  <1>5. JobInv'
    <2>1. ASSUME NEW s \in Threads, job[s] # NoJob
          PROVE  /\ job'[s].who = job[s].who /\ job'[s].op = job[s].op
                 /\ \A f \in job'[s].todo : f \in Used /\ Opposite(f, job[s].who)
      <3>1. \A f \in job[s].todo : f \in Used /\ Opposite(f, job[s].who)
        BY <2>1 DEF JobInv
      <3>2. job'[s].todo = job[s].todo /\ job'[s].who = job[s].who /\ job'[s].op = job[s].op
        BY <1>2, <1>14 DEF j
      <3> QED BY <3>1, <3>2
    <2>2. \A s \in Threads : job[s] = NoJob => job'[s] = NoJob
      BY <1>2, <1>12 DEF j
    <2> QED BY <1>2, <2>1, <2>2, JobsKept
  <1>6. LinkInv'
    BY <1>2, SameLinks
  <1>7. TableInv'
    <2>1. ASSUME NEW p \in Procs, NEW f \in roles'[p] PROVE f \in Used
      BY <1>13, <1>16, <2>1 DEF TableInv
    <2> QED BY <1>2, <1>4, <2>1 DEF TableInv
  <1>8. EndInv'
    BY <1>2, <1>4 DEF EndInv
  <1>9. LocalInv'
    <2> SUFFICES ASSUME NEW f \in Used
                 PROVE  f \in roles'[Proc(f)] <=>
                          \/ epc[f] = "joined"
                          \/ epc[f] = "joining" /\ job'[User(f)].step # "dispose"
                          \/ epc[f] = "leaving" /\ job'[User(f)].step = "dispose"
      BY <1>2, <1>4 DEF LocalInv
    <2>1. f \in roles[Proc(f)] <=>
            \/ epc[f] = "joined"
            \/ epc[f] = "joining" /\ job[User(f)].step # "dispose"
            \/ epc[f] = "leaving" /\ job[User(f)].step = "dispose"
      BY DEF LocalInv
    <2>2. t = User(f) => w = f /\ q = Proc(f)
              /\ epc[f] = IF j.op = "JOIN" THEN "joining" ELSE "leaving"
      BY <1>1, <1>12, ThreadFacts DEF JobInv, j, q
    <2>3. CASE t = User(f)
      <3>1. job'[User(f)].step = "notify" /\ roles'[Proc(f)] = R(Proc(f))
        BY <1>1, <1>2, <1>14, <2>2, <2>3
      <3> QED BY <1>14, <2>2, <2>3, <3>1
    <2>4. CASE t # User(f)
      <3>1. job'[User(f)] = job[User(f)]
        BY <1>1, <1>2, <2>4
      <3>2. f \in roles'[Proc(f)] <=> f \in roles[Proc(f)]
        BY <1>1, <1>2, <1>13, <1>16, <2>4
      <3> QED BY <2>1, <3>1, <3>2
    <2> QED BY <2>3, <2>4
  <1>10. RemoteInv'
    <2>1. ASSUME NEW p \in Present, NEW e \in Used, p # Proc(e), Proc(e) \notin dead
          PROVE  Word(link[Proc(e)][p], job'[Discovery(p)], roles'[p], e, epc[e])
      <3> DEFINE l == link[Proc(e)][p]
                 x == epc[e]
                 i == job'[Discovery(p)]
      <3>1. Word(l, job[Discovery(p)], roles[p], e, x) /\ p \in Procs
        BY <2>1, ProcFacts DEF RemoteInv, LastWord
      <3>2. CASE t = Discovery(p)
        <4>1. /\ p = q /\ i = n /\ job[Discovery(p)] = j
              /\ roles'[p] = IF j.op = "JOIN" THEN roles[p] \cup {j.who}
                             ELSE roles[p] \ {j.who}
          BY <1>2, <3>1, <3>2, ThreadFacts DEF q, j
        <4> HIDE DEF l, x, i
        <4>2. Word(l, i, IF j.op = "JOIN" THEN roles[p] \cup {j.who}
                         ELSE roles[p] \ {j.who}, e, x)
          BY <1>12, <1>13, <1>14, <3>1, <4>1, WordStored
        <4> QED BY <4>1, <4>2 DEF l, x, i
      <3>3. CASE t # Discovery(p)
        <4>1. i = job[Discovery(p)]
          BY <1>2, <3>1, <3>3, ThreadFacts
        <4>2. e \in roles[p] <=> e \in roles'[p]
          BY <1>2, <1>13, <1>16, <2>1, <3>1, <3>3
        <4> HIDE DEF l, x, i
        <4>3. Word(l, i, roles'[p], e, x)
          BY <3>1, <4>1, <4>2, WordRoles
        <4> QED BY <4>3 DEF l, x, i
      <3> QED BY <3>2, <3>3
    <2> QED BY <1>2, <1>4, <2>1 DEF RemoteInv, LastWord
  <1>11. PeerInv'
    <2>1. \A f \in Used : Steady(f)' => Steady(f)
      BY <1>2, <1>4 DEF Steady
    <2>2. \A f, g \in Used : Linked(f, g)' <=> Linked(f, g)
      BY <1>2, <1>4 DEF Linked
    <2>3. \A f, g \in Used : Called(f, g) => Called(f, g)'
      BY <1>4, <1>12, <1>15 DEF Called, j
    <2>4. ASSUME NEW f \in Used, NEW g \in Used, g = w, Proc(f) = q, j.op = "JOIN"
          PROVE  Called(f, g)'
      <3>1. /\ job'[t] # NoJob /\ job'[t].op = "JOIN" /\ job'[t].who = g
            /\ job'[t].step = "notify" /\ ProcOf(t)' = Proc(f)'
        BY <1>2, <1>4, <1>14, <2>4 DEF q
      <3> QED BY <3>1 DEF Called
    <2>5. ASSUME NEW f \in Used, NEW g \in Used, g \in roles'[Proc(f)]
          PROVE  g \in roles[Proc(f)] \/ (g = w /\ Proc(f) = q /\ j.op = "JOIN")
      BY <1>1, <1>2, <2>5
    <2>6. ASSUME NEW f \in Used, NEW g \in Used, Opposite(f, g), Steady(g),
                 epc[f] \in {"enabling", "joining", "joined"}, g \in roles'[Proc(f)]
          PROVE  Linked(f, g)' \/ g \in found[f] \/ Called(f, g)'
      <3>1. CASE g \in roles[Proc(f)]
        BY <2>2, <2>3, <2>6, <3>1 DEF PeerInv
      <3>2. CASE g = w /\ Proc(f) = q /\ j.op = "JOIN"
        BY <2>4, <3>2
      <3> QED BY <2>5, <2>6, <3>1, <3>2
    <2> QED BY <1>2, <1>4, <2>1, <2>6 DEF PeerInv
  <1> QED BY <1>3, <1>5, <1>6, <1>7, <1>8, <1>9, <1>10, <1>11

\* The listeners are copied; those of the other role will be called.
LEMMA NotifyIInv ==
  ASSUME TopologyIInv, NEW t \in Threads, Notify(t)
  PROVE  TopologyIInv'
  <1> USE DEF TopologyIInv
  <1> DEFINE q == ProcOf(t)
             j == job[t]
             w == j.who
             S == {e \in listeners[q] : Opposite(e, w)}
             n == Call(j, S)
  <1>12. j # NoJob /\ j.step = "notify"
    BY JobFacts DEF Notify
  <1>13. j \in Jobs /\ q \in Procs /\ w \in Used
    BY <1>12, WhoApplies
  <1>1. Used \subseteq Ends /\ \A f \in Used : User(f) \in Threads
    BY ProcFacts, ThreadFacts
  <1>2. /\ \A s \in Threads : job'[s] = IF s = t THEN n ELSE job[s]
        /\ UNCHANGED <<layout, epc, found, roles, listeners, removing, link, receivers,
                       enabled, transmitters, slots, dead, dropped>>
    BY DEF Notify, TypeOK, topoVars, endVars, crashVars
  <1>14. /\ S \in SUBSET Ends /\ \A f \in S : f \in Used /\ Opposite(f, w)
    BY <1>1, <1>13 DEF TableInv
  <1>15. /\ n = NoJob \/ n \in Jobs
         /\ n.step # "dispose"
         /\ n # NoJob => n.op = j.op /\ n.who = w /\ n.todo = S
         /\ S # {} => n # NoJob /\ n.step = "call"
    <2> HIDE DEF S
    <2> QED BY <1>13, <1>14, JobFacts
  <1>16. \A f \in Used : f \in listeners[q] /\ Opposite(f, w) => f \in S
    OBVIOUS
  <1>17. \A s \in Threads \ {t} : job'[s] = job[s]
    BY <1>2
  <1>3. TypeOK'
    <2>1. job' \in [Threads -> {NoJob} \cup Jobs]
      BY <1>15 DEF Notify, TypeOK, Jobs
    <2> QED BY <1>2, <2>1 DEF TypeOK, Jobs
  <1>4. /\ Used' = Used /\ \A f : Proc(f)' = Proc(f)
        /\ \A s : ProcOf(s)' = ProcOf(s)
        /\ \A v, p : Mode(v, p)' = Mode(v, p)
    BY <1>2, SameLayout
  <1> HIDE DEF n, S, j, q
  <1>5. JobInv'
    <2>1. ASSUME NEW s \in Threads, job'[s] # NoJob
          PROVE  /\ job[s] # NoJob /\ job'[s].who = job[s].who /\ job'[s].op = job[s].op
                 /\ \A f \in job'[s].todo : f \in Used /\ Opposite(f, job[s].who)
      <3>1. CASE s = t
        BY <1>2, <1>12, <1>14, <1>15, <2>1, <3>1 DEF j
      <3>2. CASE s # t
        BY <1>17, <2>1, <3>2 DEF JobInv
      <3> QED BY <3>1, <3>2
    <2> QED BY <1>2, <2>1, JobsKept
  <1>6. LinkInv'
    BY <1>2, SameLinks
  <1>7. TableInv'
    BY <1>2, <1>4 DEF TableInv
  <1>8. EndInv'
    BY <1>2, <1>4 DEF EndInv
  <1>18. \A s \in Threads : \/ job'[s] = job[s]
                            \/ job'[s].step # "dispose" /\ job[s].step # "dispose"
    BY <1>2, <1>12, <1>15 DEF j
  <1>9. LocalInv'
    <2>1. \A f \in Used : job'[User(f)].step = "dispose" <=> job[User(f)].step = "dispose"
      BY <1>1, <1>18
    <2> QED BY <1>2, <1>4, <2>1 DEF LocalInv
  <1>10. RemoteInv'
    <2>1. \A p \in Procs : \/ job'[Discovery(p)] = job[Discovery(p)]
                           \/ /\ job'[Discovery(p)].step # "dispose"
                              /\ job[Discovery(p)].step # "dispose"
      BY <1>18, ThreadFacts
    <2> QED BY <1>2, <2>1, SameWords
  <1>11. PeerInv'
    <2>1. \A f \in Used : Steady(f)' => Steady(f)
      BY <1>2, <1>4 DEF Steady
    <2>2. \A f, g \in Used : Linked(f, g)' <=> Linked(f, g)
      BY <1>2, <1>4 DEF Linked
    <2>3. ASSUME NEW f \in Used, NEW g \in Used, Opposite(f, g), Called(f, g),
                 epc[f] \in {"enabling", "joining", "joined"}
          PROVE  Called(f, g)'
      <3>1. PICK s \in Threads :
              /\ job[s] # NoJob /\ job[s].op = "JOIN" /\ job[s].who = g
              /\ ProcOf(s) = Proc(f)
              /\ job[s].step = "notify" \/ (job[s].step = "call" /\ f \in job[s].todo)
        BY <2>3 DEF Called
      <3>2. CASE s = t
        <4>1. f \in S /\ w = g /\ j.op = "JOIN"
          <5>1. q = Proc(f) /\ w = g /\ j.op = "JOIN"
            BY <3>1, <3>2 DEF q, j
          <5>2. f \in listeners[q]
            BY <2>3, <5>1 DEF TableInv
          <5> QED BY <1>16, <2>3, <5>1, <5>2
        <4>2. /\ job'[t] # NoJob /\ job'[t].op = "JOIN" /\ job'[t].who = g
              /\ job'[t].step = "call" /\ f \in job'[t].todo
          BY <1>2, <1>15, <4>1
        <4> QED BY <1>4, <3>1, <3>2, <4>2 DEF Called
      <3>3. CASE s # t
        <4>1. job'[s] = job[s]
          BY <1>17, <3>3
        <4> QED BY <1>4, <3>1, <4>1 DEF Called
      <3> QED BY <3>2, <3>3
    <2> QED BY <1>2, <1>4, <2>1, <2>2, <2>3 DEF PeerInv
  <1> QED BY <1>3, <1>5, <1>6, <1>7, <1>8, <1>9, <1>10, <1>11

\* One listener is called.
LEMMA OnChannelChangeIInv ==
  ASSUME TopologyIInv, NEW t \in Threads, OnChannelChange(t)
  PROVE  TopologyIInv'
  <1> USE DEF TopologyIInv
  <1> DEFINE q == ProcOf(t)
             j == job[t]
             w == j.who
  <1>12. j # NoJob /\ j.step = "call"
    BY JobFacts DEF OnChannelChange
  <1>13. j \in Jobs /\ q \in Procs /\ w \in Used /\ j.op \in {"JOIN", "LEAVE"}
    BY <1>12, WhoApplies, JobFacts
  <1>14. PICK e \in j.todo :
           /\ job' = [job EXCEPT ![t] = Call(@, @.todo \ {e})]
           /\ IF e \notin listeners[q] THEN UNCHANGED endVars
              ELSE IF j.op = "JOIN" THEN Enable(e, w) ELSE Disable(e, w)
    BY DEF OnChannelChange
  <1> DEFINE S == j.todo \ {e}
             n == Call(j, S)
  <1>1. Used \subseteq Ends /\ \A f \in Used : User(f) \in Threads
    BY ProcFacts, ThreadFacts
  <1>15. /\ e \in Used /\ Opposite(e, w)
         /\ \A f \in j.todo : f \in Used /\ Opposite(f, w)
         /\ j.op = "LEAVE" => Going(w)
    BY <1>12, <1>14 DEF JobInv
  <1>2. /\ \A s \in Threads : job'[s] = IF s = t THEN n ELSE job[s]
        /\ UNCHANGED <<layout, epc, found, roles, listeners, removing, link, dead,
                       dropped>>
    BY <1>14 DEF OnChannelChange, TypeOK, topoVars, crashVars
  <1>16. /\ n = NoJob \/ n \in Jobs
         /\ n.step # "dispose"
         /\ n # NoJob => n.op = j.op /\ n.who = w /\ n.todo = S
         /\ S # {} => n # NoJob /\ n.step = "call"
    <2>1. S \in SUBSET Ends
      BY <1>1, <1>15
    <2> HIDE DEF S
    <2> QED BY <1>13, <2>1, JobFacts
  <1>17. \A s \in Threads \ {t} : job'[s] = job[s]
    BY <1>2
  <1>4. /\ Used' = Used /\ \A f : Proc(f)' = Proc(f)
        /\ \A s : ProcOf(s)' = ProcOf(s)
        /\ \A v, p : Mode(v, p)' = Mode(v, p)
    BY <1>2, SameLayout
  <1>19. /\ receivers' \in [Writers -> SUBSET Procs]
         /\ enabled' \in [Writers -> SUBSET {"INTRA", "SHM", "RTPS"}]
         /\ transmitters' \in [Procs -> SUBSET Writers]
         /\ slots' \in [Procs -> [Writers -> Nat]]
         /\ EndInv'
         /\ \A f, g \in Used : Opposite(f, g) /\ Steady(g) /\ Linked(f, g)
              => Linked(f, g)'
         /\ \A g \in Used : e \in listeners[q] /\ j.op = "JOIN" /\ g = w
              => Linked(e, g)'
    <2>1. CASE e \notin listeners[q]
      BY <1>2, <1>4, <1>14, <2>1 DEF TypeOK, EndInv, Linked, endVars
    <2>2. CASE e \in listeners[q] /\ j.op = "JOIN"
      <3>1. Enable(e, w)
        BY <1>14, <2>2
      <3>2. ASSUME NEW g \in Used, g = w PROVE Enable(e, g) /\ Opposite(e, g)
        BY <1>15, <3>1, <3>2
      <3> HIDE DEF w
      <3>3. ASSUME NEW g \in Used, g = w
            PROVE  /\ receivers' \in [Writers -> SUBSET Procs]
                   /\ enabled' \in [Writers -> SUBSET {"INTRA", "SHM", "RTPS"}]
                   /\ transmitters' \in [Procs -> SUBSET Writers]
                   /\ slots' \in [Procs -> [Writers -> Nat]]
                   /\ EndInv' /\ Linked(e, g)'
                   /\ \A f, h \in Used : Opposite(f, h) /\ Linked(f, h) => Linked(f, h)'
        BY <1>2, <1>15, <3>2, <3>3, EnableEnds
      <3> QED BY <1>13, <3>3
    <2>3. CASE e \in listeners[q] /\ j.op = "LEAVE"
      <3>1. Disable(e, w)
        BY <1>14, <2>3
      <3>2. PICK g \in Used : g = w /\ Disable(e, g) /\ Opposite(e, g) /\ Going(g)
        BY <1>13, <1>15, <2>3, <3>1
      <3>3. /\ receivers' \in [Writers -> SUBSET Procs]
            /\ enabled' \in [Writers -> SUBSET {"INTRA", "SHM", "RTPS"}]
            /\ transmitters' \in [Procs -> SUBSET Writers]
            /\ slots' \in [Procs -> [Writers -> Nat]]
            /\ EndInv'
            /\ \A f, h \in Used : Opposite(f, h) /\ Linked(f, h) =>
                 \/ Linked(f, h)' \/ h = g
                 \/ Proc(h) = Proc(g) /\ h \notin Writers /\ g \notin Writers
        BY <1>2, <1>15, <3>2, DisableEnds
      <3>4. \A h \in Used : Steady(h) =>
              /\ h # g
              /\ ~ (Proc(h) = Proc(g) /\ h \notin Writers /\ g \notin Writers)
        BY <3>2 DEF Steady, Going
      <3> QED BY <2>3, <3>3, <3>4
    <2> QED BY <1>13, <2>1, <2>2, <2>3
  <1>3. TypeOK'
    <2>1. job' \in [Threads -> {NoJob} \cup Jobs]
      BY <1>14, <1>16 DEF TypeOK, Jobs
    <2> QED BY <1>2, <1>19, <2>1 DEF TypeOK, Jobs
  <1> HIDE DEF n, S, j, q
  <1>5. JobInv'
    <2>1. ASSUME NEW s \in Threads, job'[s] # NoJob
          PROVE  /\ job[s] # NoJob /\ job'[s].who = job[s].who /\ job'[s].op = job[s].op
                 /\ \A f \in job'[s].todo : f \in Used /\ Opposite(f, job[s].who)
      <3>1. CASE s = t
        BY <1>2, <1>12, <1>15, <1>16, <2>1, <3>1 DEF j, S
      <3>2. CASE s # t
        BY <1>17, <2>1, <3>2 DEF JobInv
      <3> QED BY <3>1, <3>2
    <2> QED BY <1>2, <2>1, JobsKept
  <1>6. LinkInv'
    BY <1>2, SameLinks
  <1>7. TableInv'
    BY <1>2, <1>4 DEF TableInv
  <1>18. \A s \in Threads : \/ job'[s] = job[s]
                            \/ job'[s].step # "dispose" /\ job[s].step # "dispose"
    BY <1>2, <1>12, <1>16 DEF j
  <1>9. LocalInv'
    <2>1. \A f \in Used : job'[User(f)].step = "dispose" <=> job[User(f)].step = "dispose"
      BY <1>1, <1>18
    <2> QED BY <1>2, <1>4, <2>1 DEF LocalInv
  <1>10. RemoteInv'
    <2>1. \A p \in Procs : \/ job'[Discovery(p)] = job[Discovery(p)]
                           \/ /\ job'[Discovery(p)].step # "dispose"
                              /\ job[Discovery(p)].step # "dispose"
      BY <1>18, ThreadFacts
    <2> QED BY <1>2, <2>1, SameWords
  <1>11. PeerInv'
    <2>1. \A f \in Used : Steady(f)' => Steady(f)
      BY <1>2, <1>4 DEF Steady
    <2>3. ASSUME NEW f \in Used, NEW g \in Used, Opposite(f, g), Called(f, g),
                 epc[f] \in {"enabling", "joining", "joined"}
          PROVE  Called(f, g)' \/ Linked(f, g)'
      <3>1. PICK s \in Threads :
              /\ job[s] # NoJob /\ job[s].op = "JOIN" /\ job[s].who = g
              /\ ProcOf(s) = Proc(f)
              /\ job[s].step = "notify" \/ (job[s].step = "call" /\ f \in job[s].todo)
        BY <2>3 DEF Called
      <3>2. CASE s = t /\ f # e
        <4>1. f \in S /\ w = g /\ j.op = "JOIN"
          BY <1>12, <3>1, <3>2 DEF S, j
        <4>2. /\ job'[t] # NoJob /\ job'[t].op = "JOIN" /\ job'[t].who = g
              /\ job'[t].step = "call" /\ f \in job'[t].todo
          BY <1>2, <1>16, <4>1
        <4> QED BY <1>4, <3>1, <3>2, <4>2 DEF Called
      <3>3. CASE s = t /\ f = e
        <4>1. q = Proc(e) /\ w = g /\ j.op = "JOIN"
          BY <3>1, <3>3 DEF q, j
        <4>2. e \in listeners[q]
          BY <2>3, <3>3, <4>1 DEF TableInv
        <4> QED BY <1>19, <3>3, <4>1, <4>2
      <3>4. CASE s # t
        <4>1. job'[s] = job[s]
          BY <1>17, <3>4
        <4> QED BY <1>4, <3>1, <4>1 DEF Called
      <3> QED BY <3>2, <3>3, <3>4
    <2>4. ASSUME NEW f \in Used, NEW g \in Used, Opposite(f, g), Steady(g),
                 epc[f] \in {"enabling", "joining", "joined"}, g \in roles[Proc(f)]
          PROVE  Linked(f, g)' \/ g \in found[f] \/ Called(f, g)'
      <3>1. Linked(f, g) \/ g \in found[f] \/ Called(f, g)
        BY <2>4 DEF PeerInv
      <3> QED BY <1>19, <2>3, <2>4, <3>1
    <2> QED BY <1>2, <1>4, <2>1, <2>4 DEF PeerInv
  <1> QED BY <1>3, <1>5, <1>6, <1>7, <1>19, <1>9, <1>10, <1>11

\* The next change of another process is taken.
LEMMA OnRemoteChangeIInv ==
  ASSUME TopologyIInv, NEW q \in Procs, NEW p \in Procs, OnRemoteChange(q, p)
  PROVE  TopologyIInv'
  <1> USE DEF TopologyIInv
  <1> DEFINE l == link[p][q]
             c == Head(l)
             n == Apply(c[1], c[2])
             t == Discovery(q)
  <1>1. /\ Used \subseteq Ends /\ t \in Threads /\ \A f \in Used : User(f) \in Threads
        /\ \A f \in Used : Proc(f) \in Procs
        /\ \A s \in Procs : Discovery(s) \in Threads
    BY ProcFacts, ThreadFacts
  <1>12. l \in Seq(Changes) /\ l # <<>>
    BY DEF OnRemoteChange, TypeOK, Changes
  <1>13. /\ c = l[1] /\ 1 \in 1 .. Len(l) /\ c \in Changes
         /\ Tail(l) \in Seq(Changes)
         /\ \A i \in 1 .. Len(Tail(l)) : i + 1 \in 1 .. Len(l) /\ Tail(l)[i] = l[i + 1]
    BY <1>12
  <1>14. /\ c[1] \in {"JOIN", "LEAVE"} /\ c[2] \in Used /\ Proc(c[2]) = p /\ p # q
         /\ c[1] = "LEAVE" => epc[c[2]] = "gone"
    BY <1>13 DEF LinkInv, Changes
  <1>2. /\ \A s \in Threads : job'[s] = IF s = t THEN n ELSE job[s]
        /\ \A r, s \in Procs : link'[r][s] = IF r = p /\ s = q THEN Tail(l) ELSE link[r][s]
        /\ job[t] = NoJob
        /\ UNCHANGED <<layout, epc, found, roles, listeners, removing, receivers,
                       enabled, transmitters, slots, dead, dropped>>
    BY <1>1 DEF OnRemoteChange, TypeOK, endVars, crashVars, Idle
  <1>15. /\ n \in Jobs /\ n.step = "dispose" /\ n.op = c[1] /\ n.who = c[2]
         /\ n.todo = {} /\ n # NoJob
    <2> HIDE DEF c
    <2> QED BY <1>1, <1>14, JobFacts
  <1>16. NoJob.step = "none" /\ \A s \in Threads \ {t} : job'[s] = job[s]
    BY <1>2, JobFacts
  <1>3. TypeOK'
    <2>1. job' \in [Threads -> {NoJob} \cup Jobs]
      BY <1>1, <1>15 DEF OnRemoteChange, TypeOK, Jobs
    <2>2. link' \in [Procs -> [Procs -> Seq(Changes)]]
      BY <1>13 DEF OnRemoteChange, TypeOK, Changes
    <2> QED BY <1>2, <2>1, <2>2 DEF TypeOK, Jobs, Changes
  <1>4. /\ Used' = Used /\ Present' = Present /\ \A f : Proc(f)' = Proc(f)
        /\ \A s : ProcOf(s)' = ProcOf(s)
        /\ \A v, s : Mode(v, s)' = Mode(v, s)
    BY <1>2, SameLayout
  <1> HIDE DEF n, c, t
  <1>5. JobInv'
    <2>1. Given(t, job[t])'
      BY <1>1, <1>2, <1>4, <1>14, <1>15 DEF Given, Going, t
    <2>2. ASSUME NEW s \in Threads, s # t, job[s] # NoJob
          PROVE  \A f \in job[s].todo : f \in Used /\ Opposite(f, job[s].who)
      BY <2>2 DEF JobInv
    <2>3. \A s \in Threads :
             \/ job'[s] = NoJob
             \/ /\ job[s] # NoJob /\ job'[s].who = job[s].who /\ job'[s].op = job[s].op
                /\ \A f \in job'[s].todo : f \in Used /\ Opposite(f, job[s].who)
                /\ \A f \in Ends : s = User(f) => epc'[f] = epc[f]
             \/ Given(s, job[s])'
      BY <1>2, <1>16, <2>1, <2>2
    <2> QED BY <1>2, <2>3, JobsKept
  <1>6. LinkInv'
    <2>1. ASSUME NEW r \in Procs, NEW s \in Procs, NEW i \in 1 .. Len(link'[r][s])
          PROVE  /\ link'[r][s][i][2] \in Used /\ Proc(link'[r][s][i][2]) = r /\ r # s
                 /\ link'[r][s][i][1] = "LEAVE" => epc'[link'[r][s][i][2]] = "gone"
      <3>1. PICK k \in 1 .. Len(link[r][s]) : link'[r][s][i] = link[r][s][k]
        <4>1. CASE r = p /\ s = q
          <5>1. link'[r][s] = Tail(l)
            BY <1>2, <4>1
          <5>2. i + 1 \in 1 .. Len(l) /\ link'[r][s][i] = l[i + 1]
            BY <1>13, <2>1, <5>1
          <5> QED BY <4>1, <5>2
        <4>2. CASE ~ (r = p /\ s = q)
          BY <1>2, <2>1, <4>2
        <4> QED BY <4>1, <4>2
      <3>2. /\ link[r][s][k][2] \in Used /\ Proc(link[r][s][k][2]) = r /\ r # s
            /\ link[r][s][k][1] = "LEAVE" => epc[link[r][s][k][2]] = "gone"
        BY DEF LinkInv
      <3> QED BY <1>2, <3>1, <3>2
    <2> QED BY <1>4, <2>1 DEF LinkInv
  <1>7. TableInv'
    BY <1>2, <1>4 DEF TableInv
  <1>8. EndInv'
    BY <1>2, <1>4 DEF EndInv
  <1>9. LocalInv'
    <2>1. \A f \in Used : job'[User(f)] = job[User(f)]
      BY <1>1, <1>2, ThreadFacts DEF t
    <2> QED BY <1>2, <1>4, <2>1 DEF LocalInv
  <1>10. RemoteInv'
    <2>1. ASSUME NEW s \in Present, NEW e \in Used, s # Proc(e), Proc(e) \notin dead
          PROVE  Word(link'[Proc(e)][s], job'[Discovery(s)], roles[s], e, epc[e])
      <3> DEFINE R == roles[s]
                 x == epc[e]
      <3>1. /\ Word(link[Proc(e)][s], job[Discovery(s)], R, e, x)
            /\ s \in Procs /\ Proc(e) \in Procs
        BY <2>1, ProcFacts DEF RemoteInv, LastWord
      <3>2. CASE s = q /\ Proc(e) = p
        <4>1. /\ link'[Proc(e)][s] = Tail(l) /\ job'[Discovery(s)] = n
              /\ link[Proc(e)][s] = l /\ job[Discovery(s)] = NoJob
          BY <1>1, <1>2, <3>1, <3>2 DEF t
        <4> HIDE DEF R, x, l
        <4>2. Word(Tail(l), n, R, e, x)
          BY <1>12, <1>15, <3>1, <4>1, WordTaken DEF c
        <4> QED BY <4>1, <4>2 DEF R, x
      <3>3. CASE s = q /\ Proc(e) # p
        <4>1. /\ link'[Proc(e)][s] = link[Proc(e)][s] /\ job'[Discovery(s)] = n
              /\ job[Discovery(s)] = NoJob /\ n.who # e
          BY <1>1, <1>2, <1>14, <1>15, <3>1, <3>3 DEF t
        <4> HIDE DEF R, x
        <4>2. Word(link[Proc(e)][s], n, R, e, x)
          BY <1>16, <3>1, <4>1, WordJob
        <4> QED BY <4>1, <4>2 DEF R, x
      <3>4. CASE s # q
        <4>1. link'[Proc(e)][s] = link[Proc(e)][s] /\ job'[Discovery(s)] = job[Discovery(s)]
          BY <1>1, <1>2, <3>1, <3>4, ThreadFacts DEF t
        <4> QED BY <3>1, <4>1
      <3> QED BY <3>2, <3>3, <3>4
    <2> QED BY <1>2, <1>4, <2>1 DEF RemoteInv, LastWord
  <1>11. PeerInv'
    <2>1. \A f \in Used : Steady(f)' => Steady(f)
      BY <1>2, <1>4 DEF Steady
    <2>2. \A f, g \in Used : Linked(f, g)' <=> Linked(f, g)
      BY <1>2, <1>4 DEF Linked
    <2>3. \A f, g \in Used : Called(f, g) => Called(f, g)'
      BY <1>2, <1>4, <1>16 DEF Called
    <2> QED BY <1>2, <1>4, <2>1, <2>2, <2>3 DEF PeerInv
  <1> QED BY <1>3, <1>5, <1>6, <1>7, <1>8, <1>9, <1>10, <1>11

-----------------------------------------------------------------------------
(* The invariant *)

\* A step that changes nothing.
LEMMA StutterIInv ==
  ASSUME TopologyIInv, UNCHANGED vars
  PROVE  TopologyIInv'
  <1> USE DEF TopologyIInv, vars, topoVars, endVars, crashVars
  <1>1. /\ Used' = Used /\ Present' = Present /\ \A f : Proc(f)' = Proc(f)
        /\ \A s : ProcOf(s)' = ProcOf(s)
        /\ \A v, s : Mode(v, s)' = Mode(v, s)
    BY SameLayout
  <1>2. TypeOK' /\ JobInv'
    BY <1>1 DEF TypeOK, JobInv, Going
  <1>3. LinkInv' /\ TableInv' /\ EndInv' /\ LocalInv'
    BY <1>1 DEF LinkInv, TableInv, EndInv, LocalInv
  <1>4. RemoteInv'
    BY <1>1 DEF RemoteInv, LastWord
  <1>5. PeerInv'
    BY <1>1 DEF PeerInv, Steady, Linked, Called
  <1> QED BY <1>2, <1>3, <1>4, <1>5

\* Every step of a thread that applies a change keeps the invariant.
LEMMA AppliesIInv ==
  ASSUME TopologyIInv, NEW t \in Threads, Applies(t)
  PROVE  TopologyIInv'
  BY DisposeIInv, NotifyIInv, OnChannelChangeIInv DEF Applies

\* Every step keeps the invariant.
LEMMA NextTopologyIInv == TopologyIInv /\ [Next]_vars => TopologyIInv'
  <1> SUFFICES ASSUME TopologyIInv, [Next]_vars PROVE TopologyIInv'
    OBVIOUS
  <1>1. /\ \A e \in Used : User(e) \in Threads
        /\ \A q \in Procs : Discovery(q) \in Threads /\ Participant(q) \in Threads
    BY ProcFacts, ThreadFacts DEF TopologyIInv
  <1>2. ASSUME NEW e \in Used, AddChangeListener(e) \/ RemoveChangeListener(e)
        PROVE  TopologyIInv'
    BY <1>2, AddChangeListenerIInv, RemoveChangeListenerIInv
  <1>3. ASSUME NEW e \in Used, UserGoesOn(e) PROVE TopologyIInv'
    BY <1>1, <1>3, GetPeersIInv, EnablePeerIInv, JoinIInv, PublishJoinIInv,
       PublishLeaveIInv, AppliesIInv DEF UserGoesOn
  <1>4. ASSUME NEW q \in Procs \ dead, ProcessGoesOn(q) PROVE TopologyIInv'
    <2>1. CASE Applies(Discovery(q)) \/ Applies(Participant(q))
      BY <1>1, <2>1, AppliesIInv
    <2>2. CASE RemoveRole(q)
      BY <2>2, RemoveRoleIInv
    <2>3. ASSUME NEW p \in Procs, OnRemoteChange(q, p) \/ OnTopoModuleLeave(q, p)
          PROVE  TopologyIInv'
      BY <2>3, OnRemoteChangeIInv, OnTopoModuleLeaveIInv
    <2> QED BY <1>4, <2>1, <2>2, <2>3 DEF ProcessGoesOn
  <1>5. ASSUME NEW p \in Procs, Die(p) PROVE TopologyIInv'
    BY <1>5, DieIInv
  <1>6. CASE UNCHANGED vars
    BY <1>6, StutterIInv
  <1> QED BY <1>2, <1>3, <1>4, <1>5, <1>6 DEF Next, System, Alive

\* The invariant holds in every reachable state.
LEMMA SpecTopologyIInv == Spec => []TopologyIInv
  BY InitTopologyIInv, NextTopologyIInv, PTL DEF Spec

-----------------------------------------------------------------------------
(* What it means *)

\* No thread of a quiet process applies a change.
LEMMA QuietThreads ==
  ASSUME TopologyIInv, NEW p \in Procs, NEW q \in Procs, Quiet(p, q),
         NEW t \in Threads, ProcOf(t) \in {p, q}
  PROVE  job[t] = NoJob
  <1> USE DEF TopologyIInv
  <1> SUFFICES ASSUME job[t] # NoJob PROVE FALSE
    OBVIOUS
  <1>1. ASSUME NEW e \in Ends, t = User(e) PROVE FALSE
    <2>1. /\ e \in Used /\ epc[e] \in {"joining", "leaving"}
      BY <1>1 DEF JobInv
    <2>2. Proc(e) \in {p, q}
      BY <1>1, ThreadFacts
    <2> QED BY <2>1, <2>2 DEF Quiet, Settled
  <1>2. ASSUME NEW s \in Procs, t = Discovery(s) \/ t = Participant(s) PROVE FALSE
    <2>1. s \in {p, q}
      BY <1>2, ThreadFacts
    <2> QED BY <1>2, <2>1 DEF Quiet, Idle
  <1> QED BY <1>1, <1>2, ThreadFacts

\* A quiet process knows an endpoint if and only if it is in.
LEMMA QuietRoles ==
  ASSUME TopologyIInv, NEW p \in Procs, NEW q \in Procs, Quiet(p, q), NEW e \in Used,
         Proc(e) = q
  PROVE  e \in roles[p] <=> epc[e] = "joined"
  <1> USE DEF TopologyIInv
  <1>1. p \in Present /\ q \notin dead /\ epc[e] \in {"out", "joined", "gone"}
    BY DEF Quiet, Settled
  <1>2. CASE p = q
    BY <1>1, <1>2 DEF LocalInv
  <1>3. CASE p # q
    <2>1. link[q][p] = <<>> /\ job[Discovery(p)] = NoJob
      BY DEF Quiet, Idle
    <2>2. Word(<<>>, NoJob, roles[p], e, epc[e])
      BY <1>1, <1>3, <2>1 DEF RemoteInv, LastWord
    <2>3. e \in roles[p] <=> Published(epc[e])
      BY <2>2, JobFacts DEF Word
    <2> QED BY <1>1, <2>3 DEF Published
  <1> QED BY <1>2, <1>3

\* The tables of every process are sound: a receiver has at most one listener for
\* a writer (EnableTransmitter asks first), and when nothing is under way between
\* two processes, each knows exactly the endpoints of the other that are in, for
\* every number of processes, writers and readers and every layout.
THEOREM TopologySound == Spec => []TopologyInv
  <1>1. TopologyIInv => TopologyInv
    <2> SUFFICES ASSUME TopologyIInv PROVE TopologyInv
      OBVIOUS
    <2>1. NoSecondCopy
      BY DEF TopologyIInv, EndInv, NoSecondCopy, Copies
    <2>2. QuietMeansKnown
      <3> SUFFICES ASSUME NEW p \in Procs, NEW q \in Procs, Quiet(p, q)
                   PROVE  {e \in roles[p] : Proc(e) = q} = {e \in Used : Proc(e) = q /\ In(e)}
        BY DEF QuietMeansKnown
      <3>1. \A e \in Used : Proc(e) = q => (e \in roles[p] <=> epc[e] = "joined")
        BY QuietRoles
      <3>2. roles[p] \subseteq Used
        BY DEF TopologyIInv, TableInv
      <3> QED BY <3>1, <3>2 DEF In
    <2> QED BY <2>1, <2>2 DEF TopologyIInv, TopologyInv
  <1> QED BY <1>1, SpecTopologyIInv, PTL

\* When nothing is under way, a writer that is in sends to the readers that are in
\* and they listen to it, however their joins crossed, except that the leave of one
\* reader takes the receiver that the readers of its process share.
THEOREM ConnectedSound == Spec => []QuietMeansConnected
  <1>1. TopologyIInv => QuietMeansConnected
    <2> SUFFICES ASSUME TopologyIInv, NEW w \in Writers \cap Used, NEW r \in Readers \cap Used,
                        Quiet(Proc(w), Proc(r)), In(w), In(r)
                 PROVE  \/ Copies(w, Proc(r)) = 1
                        \/ /\ w \in transmitters[Proc(r)]
                           /\ \E f \in Readers \cap Used : /\ Proc(f) = Proc(r)
                                                           /\ epc[f] = "gone"
      BY DEF QuietMeansConnected
    <2> USE DEF TopologyIInv
    <2> DEFINE p == Proc(w)
               q == Proc(r)
    <2>1. /\ p \in Procs /\ q \in Procs /\ p \notin dead /\ q \notin dead
          /\ Opposite(w, r) /\ Opposite(r, w) /\ r \notin Writers
          /\ epc[w] = "joined" /\ epc[r] = "joined"
      BY ProcFacts, EndsAssumption DEF Quiet, In, Opposite
    <2>2. Quiet(q, p)
      BY DEF Quiet
    <2>3. r \in roles[p] /\ w \in roles[q]
      BY <2>1, <2>2, QuietRoles
    <2>4. ASSUME NEW e \in Used, NEW f \in Used, Proc(e) \in {p, q} PROVE ~ Called(e, f)
      <3> SUFFICES ASSUME NEW t \in Threads, job[t] # NoJob, ProcOf(t) = Proc(e)
                   PROVE  FALSE
        BY DEF Called
      <3> QED BY <2>1, <2>4, QuietThreads
    <2>5. found[w] = {} /\ found[r] = {}
      BY <2>1, ProcFacts DEF TableInv
    <2>6. Steady(w)
      BY <2>1 DEF Steady
    <2>7. w \in transmitters[q]
      <3>1. Linked(r, w) \/ w \in found[r] \/ Called(r, w)
        BY <2>1, <2>3, <2>6 DEF PeerInv
      <3> QED BY <2>1, <2>4, <2>5, <3>1 DEF Linked
    <2>8. slots[q][w] = 1
      BY <2>1, <2>7 DEF EndInv
    <2>9. ASSUME \A f \in Readers \cap Used : Proc(f) = q => epc[f] # "gone"
          PROVE  Copies(w, q) = 1
      <3>1. ASSUME NEW g \in Used, Proc(g) = q, g \notin Writers
            PROVE  epc[g] \notin {"leaving", "gone"}
        <4>1. g \in Readers
          BY <3>1, ProcFacts DEF Ends
        <4>2. Settled(g)
          BY <3>1 DEF Quiet
        <4> QED BY <2>9, <3>1, <4>1, <4>2 DEF Settled
      <3>2. Steady(r)
        BY <2>1, <3>1 DEF Steady
      <3>3. Linked(w, r) \/ r \in found[w] \/ Called(w, r)
        BY <2>1, <2>3, <3>2 DEF PeerInv
      <3>4. q \in receivers[w]
        BY <2>1, <2>4, <2>5, <3>3 DEF Linked
      <3>5. Mode(w, q) \in enabled[w]
        BY <3>4 DEF EndInv
      <3> QED BY <2>8, <3>5 DEF Copies
    <2> QED BY <2>7, <2>9
  <1> QED BY <1>1, SpecTopologyIInv, PTL

=============================================================================
