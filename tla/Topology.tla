------------------------------ MODULE Topology ------------------------------
(***************************************************************************)
(* How the writers and readers of one channel find each other, and what    *)
(* that does to the transmitters and receivers of the hybrid transport.    *)
(*                                                                         *)
(* Every process keeps the roles it knows of.  A writer or reader joins in *)
(* the thread of its user, learns of others through a listener that is     *)
(* called by whichever thread applies a change, and publishes its own      *)
(* change to the other processes.  Changes of another process are applied  *)
(* by the subscriber's thread, in the order of that process; a process     *)
(* that has died is dropped by the participant's thread.                   *)
(*                                                                         *)
(* The readers of a channel in one process share one receiver and with it  *)
(* one id, so the process stands for the receiver.  A transmitter sends by *)
(* every mode that is enabled; a receiver listens to single writers.       *)
(***************************************************************************)
EXTENDS Integers, Sequences

CONSTANTS
    Writers, Readers, Procs,
    Layouts         \* where the endpoints are, who may leave and who may die

Ends == Writers \cup Readers

ASSUME EndsAssumption == Writers \cap Readers = {}

ASSUME LayoutsAssumption ==
    \A y \in Layouts :
        /\ DOMAIN y.proc \subseteq Ends
        /\ \A e \in DOMAIN y.proc : y.proc[e] \in Procs
        /\ DOMAIN y.host = Procs
        /\ y.leavers \subseteq Ends /\ y.mortal \subseteq Procs

VARIABLES
    layout,
    epc, found,     \* endpoint: step of JoinTheTopology, Leave; peers to enable
    roles,          \* process: channel_writers_ and channel_readers_
    listeners,      \* process: the slots of signal_
    job,            \* thread: the change it applies
    removing,       \* process: roles of dropped participants to be removed
    link,           \* changes published and not yet taken, by sender and taker
    receivers,      \* writer: the receivers its transmitter has been enabled for
    enabled,        \* writer: the modes it sends by
    transmitters,   \* process: the writers its receiver has been enabled for
    slots,          \* process: listeners connected for a writer
    dead, dropped   \* processes that died; those a process has noticed

topoVars == <<roles, listeners, removing, link>>
endVars == <<receivers, enabled, transmitters, slots>>
crashVars == <<dead, dropped>>
vars == <<layout, epc, found, topoVars, job, endVars, crashVars>>

Proc(e) == layout.proc[e]
Used == DOMAIN layout.proc
Present == {Proc(e) : e \in Used}
User(e) == <<"user", e>>
Discovery(q) == <<"discovery", q>>
Participant(q) == <<"participant", q>>
Threads == {User(e) : e \in Ends} \cup {Discovery(q) : q \in Procs}
                                  \cup {Participant(q) : q \in Procs}
ProcOf(t) == IF t[1] = "user" THEN Proc(t[2]) ELSE t[2]
Opposite(e, f) == (e \in Writers) # (f \in Writers)

\* The mode for a writer and a receiver, by GetRelation and the default table.
Mode(w, q) == IF Proc(w) = q THEN "INTRA"
              ELSE IF layout.host[Proc(w)] = layout.host[q] THEN "SHM" ELSE "RTPS"

\* A thread applies a change in the steps dispose, notify and call.
NoJob == [step |-> "none"]
Apply(op, e) == [step |-> "dispose", op |-> op, who |-> e, todo |-> {}]
Call(j, todo) == IF todo = {} THEN NoJob
                 ELSE [step |-> "call", op |-> j.op, who |-> j.who, todo |-> todo]
Idle(t) == job[t] = NoJob

Init ==
    /\ layout \in Layouts
    /\ epc = [e \in Ends |-> "out"]
    /\ found = [e \in Ends |-> {}]
    /\ roles = [q \in Procs |-> {}]
    /\ listeners = [q \in Procs |-> {}]
    /\ job = [t \in Threads |-> NoJob]
    /\ removing = [q \in Procs |-> {}]
    /\ link = [p \in Procs |-> [q \in Procs |-> <<>>]]
    /\ receivers = [w \in Writers |-> {}]
    /\ enabled = [w \in Writers |-> {}]
    /\ transmitters = [q \in Procs |-> {}]
    /\ slots = [q \in Procs |-> [w \in Writers |-> 0]]
    /\ dead = {} /\ dropped = [q \in Procs |-> {}]

-----------------------------------------------------------------------------
(* HybridTransmitter and HybridReceiver *)

\* Fault: the receiver is not erased.
NotErased(w, q) == receivers[w]
Erased(w, q) == receivers[w] \ {q}
\* Fault: the mode is disabled though another receiver uses it.
AlwaysUnused(w, q) == TRUE
\* No other receiver of this mode is left.
Unused(w, q) == \A p \in Erased(w, q) : Mode(w, p) # Mode(w, q)

EnableReceiver(w, q) ==
    /\ receivers' = [receivers EXCEPT ![w] = @ \cup {q}]
    /\ enabled' = [enabled EXCEPT ![w] = @ \cup {Mode(w, q)}]
    /\ UNCHANGED <<transmitters, slots>>

DisableReceiver(w, q) ==
    /\ receivers' = [receivers EXCEPT ![w] = Erased(w, q)]
    /\ enabled' = [enabled EXCEPT ![w] =
                     IF Unused(w, q) THEN @ \ {Mode(w, q)} ELSE @]
    /\ UNCHANGED <<transmitters, slots>>

\* Fault: a writer is connected again.
AlwaysNew(q, w) == TRUE
NewTo(q, w) == w \notin transmitters[q]
HeardBy(q, w) == w \in transmitters[q]

EnableTransmitter(q, w) ==
    /\ IF NewTo(q, w)
       THEN /\ transmitters' = [transmitters EXCEPT ![q] = @ \cup {w}]
            /\ slots' = [slots EXCEPT ![q][w] = @ + 1]
       ELSE UNCHANGED <<transmitters, slots>>
    /\ UNCHANGED <<receivers, enabled>>

DisableTransmitter(q, w) ==
    /\ IF HeardBy(q, w)
       THEN /\ transmitters' = [transmitters EXCEPT ![q] = @ \ {w}]
            /\ slots' = [slots EXCEPT ![q][w] = @ - 1]
       ELSE UNCHANGED <<transmitters, slots>>
    /\ UNCHANGED <<receivers, enabled>>

Enable(e, f) == IF e \in Writers THEN EnableReceiver(e, Proc(f))
                ELSE EnableTransmitter(Proc(e), f)
Disable(e, f) == IF e \in Writers THEN DisableReceiver(e, Proc(f))
                 ELSE DisableTransmitter(Proc(e), f)

-----------------------------------------------------------------------------
(* Applying a change: Dispose, and Notify when signal_ is called *)

Stored(q, op, e) == IF op = "JOIN" THEN roles[q] \cup {e} ELSE roles[q] \ {e}

Dispose(t) ==
    LET q == ProcOf(t) IN
    /\ job[t].step = "dispose"
    /\ roles' = [roles EXCEPT ![q] = Stored(q, job[t].op, job[t].who)]
    /\ job' = [job EXCEPT ![t].step = "notify"]
    /\ UNCHANGED <<layout, epc, found, listeners, removing, link, endVars, crashVars>>

\* The slots are copied; those of the same role ignore the change.
Notify(t) ==
    /\ job[t].step = "notify"
    /\ job' = [job EXCEPT ![t] = Call(@, {e \in listeners[ProcOf(t)] :
                                              Opposite(e, job[t].who)})]
    /\ UNCHANGED <<layout, epc, found, topoVars, endVars, crashVars>>

\* OnChannelChange of one listener, unless it has been disconnected since.
OnChannelChange(t) ==
    /\ job[t].step = "call"
    /\ \E e \in job[t].todo :
        /\ job' = [job EXCEPT ![t] = Call(@, @.todo \ {e})]
        /\ IF e \notin listeners[ProcOf(t)] THEN UNCHANGED endVars
           ELSE IF job[t].op = "JOIN" THEN Enable(e, job[t].who)
           ELSE Disable(e, job[t].who)
    /\ UNCHANGED <<layout, epc, found, topoVars, crashVars>>

-----------------------------------------------------------------------------
(* A writer or reader: JoinTheTopology, LeaveTheTopology *)

EndGoto(e, p) == epc' = [epc EXCEPT ![e] = p]

AddChangeListener(e) ==
    /\ epc[e] = "out" /\ EndGoto(e, "listening")
    /\ listeners' = [listeners EXCEPT ![Proc(e)] = @ \cup {e}]
    /\ UNCHANGED <<layout, found, roles, removing, link, job, endVars, crashVars>>

GetPeers(e) ==
    /\ epc[e] = "listening" /\ EndGoto(e, "enabling")
    /\ found' = [found EXCEPT ![e] = {f \in roles[Proc(e)] : Opposite(e, f)}]
    /\ UNCHANGED <<layout, topoVars, job, endVars, crashVars>>

EnablePeer(e) ==
    /\ epc[e] = "enabling"
    /\ \E f \in found[e] : found' = [found EXCEPT ![e] = @ \ {f}] /\ Enable(e, f)
    /\ UNCHANGED <<layout, epc, topoVars, job, crashVars>>

Join(e) ==
    /\ epc[e] = "enabling" /\ found[e] = {} /\ EndGoto(e, "joining")
    /\ job' = [job EXCEPT ![User(e)] = Apply("JOIN", e)]
    /\ UNCHANGED <<layout, found, topoVars, endVars, crashVars>>

RemoveChangeListener(e) ==
    /\ epc[e] = "joined" /\ e \in layout.leavers /\ EndGoto(e, "leaving")
    /\ listeners' = [listeners EXCEPT ![Proc(e)] = @ \ {e}]
    /\ job' = [job EXCEPT ![User(e)] = Apply("LEAVE", e)]
    /\ UNCHANGED <<layout, found, roles, removing, link, endVars, crashVars>>

\* Leave publishes always; Join does for message types that have a serializer,
\* and the ends of this model are of such a type.
NeedPublish(op) == TRUE

Publish(e, op) ==
    /\ Idle(User(e))
    /\ link' = [p \in Procs |-> [q \in Procs |->
                  IF p = Proc(e) /\ q \in Present \ {p} /\ NeedPublish(op)
                  THEN Append(link[p][q], <<op, e>>) ELSE link[p][q]]]
    /\ UNCHANGED <<layout, found, roles, listeners, removing, job, transmitters, slots,
                   crashVars>>

PublishJoin(e) ==
    /\ epc[e] = "joining" /\ Publish(e, "JOIN") /\ EndGoto(e, "joined")
    /\ UNCHANGED <<receivers, enabled>>

\* Shutdown ends with the release of the transmitter; the receiver stays.
PublishLeave(e) ==
    /\ epc[e] = "leaving" /\ Publish(e, "LEAVE") /\ EndGoto(e, "gone")
    /\ receivers' = [w \in Writers |-> IF w = e THEN {} ELSE receivers[w]]
    /\ enabled' = [w \in Writers |-> IF w = e THEN {} ELSE enabled[w]]

-----------------------------------------------------------------------------
(* Other processes *)

\* The subscriber's thread takes the next change of process p.
OnRemoteChange(q, p) ==
    /\ Idle(Discovery(q)) /\ link[p][q] # <<>>
    /\ job' = [job EXCEPT ![Discovery(q)] = Apply(Head(link[p][q])[1], Head(link[p][q])[2])]
    /\ link' = [link EXCEPT ![p][q] = Tail(@)]
    /\ UNCHANGED <<layout, epc, found, roles, listeners, removing, endVars, crashVars>>

Die(p) ==
    /\ p \in layout.mortal \ dead
    /\ dead' = dead \cup {p}
    /\ UNCHANGED <<layout, epc, found, topoVars, job, endVars, dropped>>

\* Fault: only the writers are looked up.
WritersOf(q, p) == {e \in roles[q] \cap Writers : Proc(e) = p}
RolesOf(q, p) == {e \in roles[q] : Proc(e) = p}

\* OnParticipantChange: the roles of p are looked up, then removed one by one.
OnTopoModuleLeave(q, p) ==
    /\ p \in dead \ dropped[q]
    /\ Idle(Participant(q)) /\ removing[q] = {}
    /\ removing' = [removing EXCEPT ![q] = RolesOf(q, p)]
    /\ dropped' = [dropped EXCEPT ![q] = @ \cup {p}]
    /\ UNCHANGED <<layout, epc, found, roles, listeners, link, job, endVars, dead>>

RemoveRole(q) ==
    /\ Idle(Participant(q))
    /\ \E e \in removing[q] :
         /\ removing' = [removing EXCEPT ![q] = @ \ {e}]
         /\ job' = [job EXCEPT ![Participant(q)] = Apply("LEAVE", e)]
    /\ UNCHANGED <<layout, epc, found, roles, listeners, link, endVars, crashVars>>

-----------------------------------------------------------------------------
Applies(t) == Dispose(t) \/ Notify(t) \/ OnChannelChange(t)
Alive == Procs \ dead

\* What a thread of a living process does once it has begun.
UserGoesOn(e) ==
    GetPeers(e) \/ EnablePeer(e) \/ Join(e) \/ PublishJoin(e) \/ PublishLeave(e)
        \/ Applies(User(e))
ProcessGoesOn(q) ==
    \/ Applies(Discovery(q)) \/ Applies(Participant(q)) \/ RemoveRole(q)
    \/ \E p \in Procs : OnRemoteChange(q, p) \/ OnTopoModuleLeave(q, p)

System ==
    \/ \E e \in Used : Proc(e) \in Alive /\ UserGoesOn(e)
    \/ \E q \in Alive : ProcessGoesOn(q)

Next ==
    \/ \E e \in Used : /\ Proc(e) \in Alive
                       /\ AddChangeListener(e) \/ RemoveChangeListener(e)
    \/ \E p \in Procs : Die(p)
    \/ System

Spec == Init /\ [][Next]_vars

\* Threads go on, published changes arrive and a death is noticed.  Nobody has
\* to join, leave or die.
FairSpec == Spec /\ WF_vars(System)

-----------------------------------------------------------------------------
TypeOK ==
    /\ layout \in Layouts
    /\ epc \in [Ends -> {"out", "listening", "enabling", "joining", "joined", "leaving",
                         "gone"}]
    /\ found \in [Ends -> SUBSET Ends]
    /\ roles \in [Procs -> SUBSET Ends]
    /\ listeners \in [Procs -> SUBSET Ends]
    /\ job \in [Threads -> {NoJob} \cup
                    [step : {"dispose", "notify", "call"}, op : {"JOIN", "LEAVE"},
                     who : Ends, todo : SUBSET Ends]]
    /\ removing \in [Procs -> SUBSET Ends]
    /\ link \in [Procs -> [Procs -> Seq({"JOIN", "LEAVE"} \X Ends)]]
    /\ receivers \in [Writers -> SUBSET Procs]
    /\ enabled \in [Writers -> SUBSET {"INTRA", "SHM", "RTPS"}]
    /\ transmitters \in [Procs -> SUBSET Writers]
    /\ slots \in [Procs -> [Writers -> Nat]]
    /\ dead \subseteq Procs /\ dropped \in [Procs -> SUBSET Procs]

\* How often a message of w is handed to the readers of process q: Transmit by
\* the mode of q, and Run of the listeners connected for w.
Copies(w, q) == IF Mode(w, q) \in enabled[w] THEN slots[q][w] ELSE 0

\* A message is never handed over twice, though several modes are enabled and
\* a writer may be both found and announced.
NoSecondCopy == \A w \in Writers \cap Used, q \in Procs : Copies(w, q) <= 1

Settled(e) == epc[e] \in {"out", "joined", "gone"}
In(e) == epc[e] = "joined"

\* Nothing is going on in the processes p and q, nor between them.
Quiet(p, q) ==
    /\ {p, q} \subseteq Present \ dead
    /\ \A e \in Used : Proc(e) \in {p, q} => Settled(e)
    /\ \A s \in {p, q} : /\ Idle(Discovery(s)) /\ Idle(Participant(s)) /\ removing[s] = {}
                         /\ \A r \in Procs : link[r][s] = <<>>

\* Once everything has settled, a process knows exactly the writers and readers
\* that are in: HasWriter and HasReader are right.
QuietMeansKnown ==
    \A p, q \in Procs : Quiet(p, q) =>
        {e \in roles[p] : Proc(e) = q} = {e \in Used : Proc(e) = q /\ In(e)}

\* The tables of the processes are sound.
TopologyInv == TypeOK /\ NoSecondCopy /\ QuietMeansKnown

\* Once everything has settled, a message of a writer that is in reaches the
\* readers that are in, whoever came first and however their steps mixed.
\* The exception: readers of one process share the id of their receiver, so
\* when one of them leaves, the writer no longer sends to the others.
QuietMeansConnected ==
    \A w \in Writers \cap Used, r \in Readers \cap Used :
        Quiet(Proc(w), Proc(r)) /\ In(w) /\ In(r) =>
            \/ Copies(w, Proc(r)) = 1
            \/ /\ w \in transmitters[Proc(r)]
               /\ \E f \in Readers \cap Used : Proc(f) = Proc(r) /\ epc[f] = "gone"

\* When the last reader of a process begins to leave, a writer that is in stops
\* sending to it.  (One that is still joining may enable it after its leave.)
StopsSending ==
    \A w \in Writers, r \in Readers :
        (In(w) /\ epc[r] = "leaving" /\ job[User(r)].step = "dispose"
           /\ \A f \in Readers \cap Used : Proc(f) = Proc(r) => f = r \/ epc[f] = "gone")
        ~> (In(w) /\ epc[r] # "out" =>
              Proc(r) \notin receivers[w] \/ {Proc(w), Proc(r)} \cap dead # {})

\* The reader r of a dead process is known to the process of w, which has not
\* noticed the death and is not working on a change of it.
LostReader(w, r) ==
    /\ In(w) /\ epc[r] # "out" /\ Proc(r) \in dead \ dropped[Proc(w)]
    /\ r \in roles[Proc(w)]
    /\ Idle(Discovery(Proc(w))) /\ link[Proc(r)][Proc(w)] = <<>>

\* A dead process is forgotten, with all its roles, and no longer sent to.  (A
\* change of it that is just being applied may bring a role back.)
DeadForgotten ==
    \A w \in Writers, r \in Readers :
        LostReader(w, r)
        ~> (In(w) /\ epc[r] # "out" =>
              \/ r \notin roles[Proc(w)] /\ Proc(r) \notin receivers[w]
              \/ Proc(w) \in dead)

=============================================================================
