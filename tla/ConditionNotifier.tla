------------------------- MODULE ConditionNotifier -------------------------
(***************************************************************************)
(* The notification ring in shared memory: writers of any process announce *)
(* a block that can be read, the dispatcher thread of every process        *)
(* listens.                                                                *)
(*                                                                         *)
(* There is no lock.  A writer takes a number from next_seq and then       *)
(* stores the info and the number in the slot, each of which is a step; a  *)
(* writer may die in between.  A listener polls the slot of the number it  *)
(* expects.  An info is represented by the number of its notification.     *)
(***************************************************************************)
EXTENDS Naturals, Sequences

CONSTANTS
    Writers, Listeners,
    BufLength,      \* kBufLength
    MaxSeq,         \* bound: notifications
    NoInfo,         \* a ReadableInfo nobody has stored
    Torn            \* an info copied while it was being stored

ASSUME BufLengthAssumption == BufLength \in Nat \ {0}
ASSUME MaxSeqAssumption == MaxSeq \in Nat
ASSUME InfoAssumption == NoInfo \notin Nat /\ Torn \notin Nat

VARIABLES
    next_seq, infos, seqs,  \* the Indicator
    wpc, wseq,              \* writer: step of Notify and its number
    lpc,                    \* listener: step of Listen
    lnext,                  \* listener: its next_seq_
    start,                  \* listener: the number it started at
    log,                    \* listener: the infos it has returned
    lapped,                 \* listeners that were a whole ring behind
    overrun                 \* a writer was a whole ring behind

ringVars == <<next_seq, infos, seqs>>
writerVars == <<wpc, wseq>>
listenerVars == <<lpc, lnext, start, log>>
vars == <<ringVars, writerVars, listenerVars, lapped, overrun>>

Index(seq) == seq % BufLength

Init ==
    /\ next_seq = 0
    /\ infos = [i \in 0 .. BufLength - 1 |-> NoInfo]
    /\ seqs = [i \in 0 .. BufLength - 1 |-> 0]
    /\ wpc = [w \in Writers |-> "idle"]
    /\ wseq = [w \in Writers |-> 0]
    /\ lpc = [l \in Listeners |-> "off"]
    /\ lnext = [l \in Listeners |-> 0]
    /\ start = [l \in Listeners |-> 0]
    /\ log = [l \in Listeners |-> <<>>]
    /\ lapped = {} /\ overrun = FALSE

WGoto(w, label) == wpc' = [wpc EXCEPT ![w] = label]
LGoto(l, label) == lpc' = [lpc EXCEPT ![l] = label]

-----------------------------------------------------------------------------
(* Notify *)

Busy(w) == wpc[w] \in {"info", "seq"}

\* next_seq.fetch_add(1).
TakeNumber(w) ==
    /\ wpc[w] = "idle" /\ next_seq < MaxSeq
    /\ wseq' = [wseq EXCEPT ![w] = next_seq]
    /\ next_seq' = next_seq + 1
    /\ WGoto(w, "info")
    /\ lapped' = lapped \cup
         {l \in Listeners : lpc[l] # "off" /\ next_seq >= lnext[l] + BufLength}
    /\ overrun' = (overrun \/ \E v \in Writers :
                      Busy(v) /\ Index(wseq[v]) = Index(next_seq))
    /\ UNCHANGED <<infos, seqs, listenerVars>>

StoreInfo(w) ==
    /\ wpc[w] = "info"
    /\ infos' = [infos EXCEPT ![Index(wseq[w])] = wseq[w]]
    /\ WGoto(w, "seq")
    /\ UNCHANGED <<next_seq, seqs, wseq, listenerVars, lapped, overrun>>

\* Fault: the counter is read again.
StoredSeqAgain(w) == next_seq
StoredSeq(w) == wseq[w]

StoreSeq(w) ==
    /\ wpc[w] = "seq"
    /\ seqs' = [seqs EXCEPT ![Index(wseq[w])] = StoredSeq(w)]
    /\ WGoto(w, "idle")
    /\ UNCHANGED <<next_seq, infos, wseq, listenerVars, lapped, overrun>>

\* The process of the writer dies between two of these steps.
Crash(w) ==
    /\ Busy(w)
    /\ WGoto(w, "dead")
    /\ UNCHANGED <<ringVars, wseq, listenerVars, lapped, overrun>>

-----------------------------------------------------------------------------
(* A listener *)

\* The constructor: what was announced before is not for this process.
Attach(l) ==
    /\ lpc[l] = "off"
    /\ lnext' = [lnext EXCEPT ![l] = next_seq]
    /\ start' = [start EXCEPT ![l] = next_seq]
    /\ LGoto(l, "poll")
    /\ UNCHANGED <<ringVars, writerVars, log, lapped, overrun>>

\* Fault: the slot is taken though its number is not there yet.
FilledAnyway(l) == TRUE
\* Fault: a later number is not accepted.
FilledExactly(l) == seqs[Index(lnext[l])] = lnext[l]
\* The slot holds the expected number, or the one of a later lap.
Filled(l) == seqs[Index(lnext[l])] >= lnext[l]

\* Listen finds something to read.  As long as it does not, it polls, returns
\* false after the time-out and is called again.
Poll(l) ==
    /\ lpc[l] = "poll"
    /\ next_seq # lnext[l] /\ Filled(l)
    /\ lnext' = [lnext EXCEPT ![l] = seqs[Index(@)]]
    /\ LGoto(l, "copy")
    /\ UNCHANGED <<ringVars, writerVars, start, log, lapped, overrun>>

\* A writer is storing the info of this slot.
Storing(i) == \E w \in Writers : wpc[w] = "info" /\ Index(wseq[w]) = i

\* The info is copied and Listen returns it.
Copy(l) ==
    /\ lpc[l] = "copy"
    /\ \E info \in {infos[Index(lnext[l])]}
                     \cup (IF Storing(Index(lnext[l])) THEN {Torn} ELSE {}) :
         log' = [log EXCEPT ![l] = Append(@, info)]
    /\ lnext' = [lnext EXCEPT ![l] = @ + 1]
    /\ LGoto(l, "poll")
    /\ UNCHANGED <<ringVars, writerVars, start, lapped, overrun>>

-----------------------------------------------------------------------------
WriterStep(w) == StoreInfo(w) \/ StoreSeq(w)
ListenerStep(l) == Poll(l) \/ Copy(l)

Next ==
    \/ \E w \in Writers : TakeNumber(w) \/ WriterStep(w) \/ Crash(w)
    \/ \E l \in Listeners : Attach(l) \/ ListenerStep(l)

Spec == Init /\ [][Next]_vars

\* A writer that lives completes its notification, and listeners poll; nobody
\* has to notify.
Fairness ==
    /\ \A w \in Writers : WF_vars(WriterStep(w))
    /\ \A l \in Listeners : WF_vars(ListenerStep(l))

FairSpec == Spec /\ Fairness

-----------------------------------------------------------------------------
Seqs == 0 .. MaxSeq

TypeOK ==
    /\ next_seq \in Seqs
    /\ infos \in [0 .. BufLength - 1 -> Seqs \cup {NoInfo}]
    /\ seqs \in [0 .. BufLength - 1 -> Seqs]
    /\ wpc \in [Writers -> {"idle", "info", "seq", "dead"}]
    /\ wseq \in [Writers -> Seqs]
    /\ lpc \in [Listeners -> {"off", "poll", "copy"}]
    /\ lnext \in [Listeners -> Seqs]
    /\ start \in [Listeners -> Seqs]
    /\ log \in [Listeners -> Seq(Seqs \cup {NoInfo, Torn})]
    /\ lapped \subseteq Listeners /\ overrun \in BOOLEAN

\* As long as neither the listener nor a writer falls a whole ring behind, a
\* listener gets every notification since its start, once, in order and with
\* its own info, though neither side locks the slot.  The one exception is
\* number 0: its slot looks filled before it is, so a listener that started
\* with the ring may get an info nobody has stored, or a torn one.
ExactlyOnce ==
    \A l \in Listeners \ lapped :
        ~overrun =>
            /\ lnext[l] = start[l] + Len(log[l])
            /\ \A i \in 1 .. Len(log[l]) :
                 log[l][i] # start[l] + i - 1 => start[l] = 0 /\ i = 1

\* The ring is sound, and a listener has read what it should have.
NotifierInv == TypeOK /\ ExactlyOnce

\* A notification is skipped only by a listener a whole ring behind; it
\* resumes with a later notification in the same slot.
SkipsOnlyWhenLapped ==
    [][\A l \in Listeners :
         lnext'[l] > lnext[l] + 1 => lpc[l] = "off" \/ l \in lapped]_lnext

\* The slot of number n holds it or a later one, or a live writer is about to
\* store such a number.
Served(n) ==
    \/ seqs[Index(n)] >= n
    \/ \E w \in Writers : Busy(w) /\ wseq[w] >= n /\ Index(wseq[w]) = Index(n)

Waits(l, n) == lpc[l] # "off" /\ lnext[l] = n /\ n < next_seq

\* A listener never stays at a number that is served.  So it waits only for
\* a writer that died half-way, or whose number was undone by a writer a
\* whole ring behind, and only until the slot is used again.
MovesOn ==
    \A l \in Listeners, n \in 0 .. MaxSeq - 1 :
        (Waits(l, n) /\ Served(n)) ~> (~Waits(l, n) \/ ~Served(n))

=============================================================================
