----------------------------- MODULE RingProofs ----------------------------
(***************************************************************************)
(* The two rings a message passes: the notification ring in shared memory, *)
(* which is written and read without a lock, and the ring of the visitor,  *)
(* which is filled under a mutex.  Both name a slot by a number modulo the *)
(* length of the ring, and both arguments are about numbers that share a   *)
(* slot: two of them are a whole ring apart (SameRemainder).               *)
(*                                                                         *)
(* Notification: a listener that is not lapped is less than a ring behind  *)
(* next_seq, so the slot it polls can hold no later number than the one it *)
(* expects; and while no writer is a ring behind, a slot has one writer,   *)
(* which stores the info before the number.                                *)
(*                                                                         *)
(* Visitor: the ring keeps the newest messages that were sent to it, each  *)
(* in the slot of its position (RingOf), and Fill overwrites the spare     *)
(* slot or the oldest message and no other.  The tuples of two channels    *)
(* are ordered because the thread inside the callback has the mutex and    *)
(* the last number, and what it has been given of the other channel is not *)
(* older than any tuple stored before.                                     *)
(***************************************************************************)
EXTENDS ConditionNotifier, ChannelData, SequenceTheorems, TLAPS

-----------------------------------------------------------------------------
(* Numbers modulo the length of a ring *)

\* Two numbers with the same remainder are a whole ring apart.
LEMMA SameRemainder ==
  ASSUME NEW c \in Nat \ {0}, NEW m \in Nat, NEW n \in Nat, m % c = n % c, m < n
  PROVE  m + c <= n
  <1> DEFINE p == m \div c
             q == n \div c
             i == m % c
  <1>1. p \in Nat /\ q \in Nat /\ i \in Nat /\ m = c * p + i /\ n = c * q + i
    OBVIOUS
  <1> HIDE DEF p, q, i
  <1>2. c * p < c * q
    BY <1>1
  <1>3. p < q
    BY <1>1, <1>2
  <1>4. c * p + c <= c * q
    BY <1>1, <1>3
  <1>5. QED
    BY <1>1, <1>4

\* A whole ring on is the same slot again.
LEMMA WrapRound ==
  ASSUME NEW c \in Nat \ {0}, NEW n \in Nat
  PROVE  (n + c) % c = n % c
  <1> DEFINE m == n + c
             p == n \div c
             q == m \div c
             i == n % c
             j == m % c
  <1>1. m \in Nat /\ m = n + c
    OBVIOUS
  <1> HIDE DEF m
  <1>2. /\ p \in Nat /\ q \in Nat /\ i \in 0 .. c - 1 /\ j \in 0 .. c - 1
        /\ n = c * p + i /\ m = c * q + j
    BY <1>1
  <1> HIDE DEF p, q, i, j
  <1>3. c * (p + 1) + i = c * q + j
    BY <1>1, <1>2
  <1>4. CASE q < p + 1
    <2>1. c * q + c <= c * (p + 1)
      BY <1>2, <1>4
    <2> QED BY <1>2, <1>3, <2>1
  <1>5. CASE q > p + 1
    <2>1. c * (p + 1) + c <= c * q
      BY <1>2, <1>5
    <2> QED BY <1>2, <1>3, <2>1
  <1>6. CASE q = p + 1
    BY <1>2, <1>3, <1>6 DEF i, j, m
  <1>7. QED
    BY <1>2, <1>4, <1>5, <1>6

\* Numbers less than a ring apart are different slots.
LEMMA DistinctSlots ==
  ASSUME NEW c \in Nat \ {0}, NEW m \in Nat, NEW n \in Nat, m < n, n < m + c
  PROVE  m % c # n % c
  <1> SUFFICES ASSUME m % c = n % c PROVE FALSE
    OBVIOUS
  <1>1. m + c <= n
    BY SameRemainder
  <1> QED BY <1>1

-----------------------------------------------------------------------------
(* The notification ring of ConditionNotifier *)

Slots == 0 .. BufLength - 1

\* What is in the ring has been issued and belongs to its slot, and no listener
\* is ahead of next_seq.
NumberInv ==
    /\ \A w \in Writers : Busy(w) => wseq[w] < next_seq
    /\ \A i \in Slots : seqs[i] # 0 => Index(seqs[i]) = i /\ seqs[i] < next_seq
    /\ \A i \in Slots : infos[i] # NoInfo => Index(infos[i]) = i /\ infos[i] < next_seq
    /\ \A l \in Listeners : /\ lnext[l] <= next_seq
                            /\ lpc[l] = "copy" => lnext[l] < next_seq

\* A listener that has started and is not lapped is at most a ring behind.
LapInv ==
    \A l \in Listeners :
        /\ lpc[l] = "off" => log[l] = <<>> /\ lnext[l] = start[l]
        /\ lpc[l] = "off" \/ l \in lapped \/ next_seq <= lnext[l] + BufLength

\* While no writer is a whole ring behind, a slot has one writer, and it stores
\* the info of a number before the number.
SlotInv ==
    ~overrun =>
        /\ \A v, w \in Writers :
             Busy(v) /\ Busy(w) /\ Index(wseq[v]) = Index(wseq[w]) => v = w
        /\ \A i \in Slots : seqs[i] # 0 => infos[i] # NoInfo /\ infos[i] >= seqs[i]
        /\ \A w \in Writers : wpc[w] = "info" =>
             seqs[Index(wseq[w])] = 0 \/ seqs[Index(wseq[w])] < wseq[w]
        /\ \A w \in Writers : wpc[w] = "seq" => infos[Index(wseq[w])] = wseq[w]

\* What a listener is about to copy is still announced.
CopyInv ==
    ~overrun => \A l \in Listeners \ lapped :
        lpc[l] = "copy" => seqs[Index(lnext[l])] = lnext[l]

IInv ==
    TypeOK /\ NumberInv /\ LapInv /\ SlotInv /\ CopyInv /\ ExactlyOnce

-----------------------------------------------------------------------------
\* A number modulo the ring is a slot.
LEMMA IndexRange == \A n \in Nat : Index(n) \in Slots
  BY BufLengthAssumption DEF Index, Slots

\* Two numbers of one slot are a whole ring apart.
LEMMA SameSlot ==
  ASSUME NEW m \in Nat, NEW n \in Nat, Index(m) = Index(n), m < n
  PROVE  m + BufLength <= n
  BY BufLengthAssumption, SameRemainder DEF Index

\* The initial state satisfies the invariant.
LEMMA InitIInv == Init => IInv
  <1> SUFFICES ASSUME Init PROVE IInv
    OBVIOUS
  <1> USE BufLengthAssumption, MaxSeqAssumption, InfoAssumption DEF Init
  <1>1. TypeOK
    <2>1. 0 \in Seqs /\ \A l \in Listeners : log[l] \in Seq(Seqs \cup {NoInfo, Torn})
      BY DEF Seqs
    <2>2. QED
      BY <2>1 DEF TypeOK
  <1>2. NumberInv /\ LapInv
    BY DEF NumberInv, LapInv, Slots, Busy
  <1>3. SlotInv /\ CopyInv
    BY DEF SlotInv, CopyInv, Slots, Busy
  <1>4. ExactlyOnce
    BY DEF ExactlyOnce
  <1>5. QED
    BY <1>1, <1>2, <1>3, <1>4 DEF IInv

-----------------------------------------------------------------------------
(* Notify *)

\* Notify takes a number.
LEMMA TakeNumberIInv ==
  ASSUME IInv, NEW w \in Writers, TakeNumber(w)
  PROVE  IInv'
  <1> USE BufLengthAssumption, MaxSeqAssumption, InfoAssumption
      DEF TakeNumber, WGoto, Seqs, Slots, listenerVars
  <1>1. TypeOK'
    <2>1. next_seq' \in Seqs /\ next_seq \in Seqs
      BY DEF IInv, TypeOK
    <2>2. overrun' \in BOOLEAN
      OBVIOUS
    <2>3. QED
      BY <2>1, <2>2 DEF IInv, TypeOK
  <1>2. NumberInv'
    BY DEF IInv, TypeOK, NumberInv, Busy
  <1>3. LapInv'
    BY DEF IInv, TypeOK, NumberInv, LapInv
  <1>4. SlotInv'
    <2> SUFFICES ASSUME ~overrun' PROVE SlotInv'
      BY DEF SlotInv
    <2>1. ~overrun /\ \A v \in Writers : Busy(v) => Index(wseq[v]) # Index(next_seq)
      OBVIOUS
    <2>2. \A v \in Writers : Busy(v)' => v = w \/ (Busy(v) /\ wseq'[v] = wseq[v])
      BY DEF IInv, TypeOK, Busy
    <2>3. wseq'[w] = next_seq /\ wpc'[w] = "info" /\ Index(next_seq) \in Slots
      BY IndexRange DEF IInv, TypeOK
    <2>4. seqs[Index(next_seq)] = 0 \/ seqs[Index(next_seq)] < next_seq
      BY <2>3 DEF IInv, TypeOK, NumberInv
    <2>5. \A v \in Writers \ {w} : wseq'[v] = wseq[v] /\ wpc'[v] = wpc[v]
      BY DEF IInv, TypeOK
    <2>6. QED
      BY <2>1, <2>2, <2>3, <2>4, <2>5 DEF IInv, SlotInv
  <1>5. CopyInv' /\ ExactlyOnce'
    BY DEF IInv, CopyInv, ExactlyOnce
  <1>6. QED
    BY <1>1, <1>2, <1>3, <1>4, <1>5 DEF IInv

\* Notify stores the info.
LEMMA StoreInfoIInv ==
  ASSUME IInv, NEW w \in Writers, StoreInfo(w)
  PROVE  IInv'
  <1> USE BufLengthAssumption, MaxSeqAssumption, InfoAssumption
      DEF StoreInfo, WGoto, Seqs, listenerVars
  <1>1. wseq[w] \in Nat /\ Index(wseq[w]) \in Slots
    BY IndexRange DEF IInv, TypeOK
  <1>2. TypeOK' /\ NumberInv'
    BY <1>1 DEF IInv, TypeOK, NumberInv, Slots, Busy
  <1>3. SlotInv'
    <2> SUFFICES ASSUME ~overrun PROVE SlotInv'
      BY DEF SlotInv
    <2> DEFINE i == Index(wseq[w])
    <2>1. wpc[w] = "info" /\ wpc'[w] = "seq" /\ infos'[i] = wseq[w]
      BY <1>1 DEF IInv, TypeOK, Slots
    <2>2. \A j \in Slots \ {i} : infos'[j] = infos[j]
      BY <1>1 DEF IInv, TypeOK, Slots
    <2>3. \A v \in Writers \ {w} : wpc'[v] = wpc[v]
      BY DEF IInv, TypeOK
    <2>4. \A v \in Writers \ {w} : Busy(v) => Index(wseq[v]) # i
      BY <2>1 DEF IInv, SlotInv, Busy
    <2>5. seqs[i] # 0 => wseq[w] >= seqs[i] /\ wseq[w] # NoInfo
      BY <1>1, <2>1 DEF IInv, TypeOK, SlotInv, Slots
    <2>6. \A v \in Writers : Index(wseq[v]) \in Slots
      BY IndexRange DEF IInv, TypeOK
    <2> HIDE DEF i
    <2>7. QED
      BY <2>1, <2>2, <2>3, <2>4, <2>5, <2>6 DEF IInv, SlotInv, Busy, i
  <1>4. LapInv' /\ CopyInv' /\ ExactlyOnce'
    BY DEF IInv, LapInv, CopyInv, ExactlyOnce
  <1>5. QED
    BY <1>2, <1>3, <1>4 DEF IInv

\* Notify stores the number.
LEMMA StoreSeqIInv ==
  ASSUME IInv, NEW w \in Writers, StoreSeq(w)
  PROVE  IInv'
  <1> USE BufLengthAssumption, MaxSeqAssumption, InfoAssumption
      DEF StoreSeq, StoredSeq, WGoto, Seqs, listenerVars
  <1> DEFINE i == Index(wseq[w])
  <1>1. wseq[w] \in Nat /\ i \in Slots
    BY IndexRange DEF IInv, TypeOK
  <1>2. TypeOK' /\ NumberInv'
    BY <1>1 DEF IInv, TypeOK, NumberInv, Slots, Busy
  <1>3. /\ wpc[w] = "seq" /\ wpc'[w] = "idle" /\ seqs'[i] = wseq[w]
        /\ \A j \in Slots \ {i} : seqs'[j] = seqs[j]
        /\ \A v \in Writers \ {w} : wpc'[v] = wpc[v]
    BY <1>1 DEF IInv, TypeOK, Slots
  <1>4. SlotInv'
    <2> SUFFICES ASSUME ~overrun PROVE SlotInv'
      BY DEF SlotInv
    <2>1. \A v \in Writers \ {w} : Busy(v) => Index(wseq[v]) # i
      BY <1>3 DEF IInv, SlotInv, Busy
    <2>2. \A v \in Writers : Index(wseq[v]) \in Slots
      BY IndexRange DEF IInv, TypeOK
    <2>3. infos[i] = wseq[w]
      BY <1>3 DEF IInv, SlotInv
    <2> HIDE DEF i
    <2>4. QED
      BY <1>1, <1>3, <2>1, <2>2, <2>3 DEF IInv, SlotInv, Busy
  <1>5. CopyInv'
    <2> SUFFICES ASSUME ~overrun, NEW l \in Listeners \ lapped, lpc[l] = "copy",
                        Index(lnext[l]) = i
                 PROVE  wseq[w] = lnext[l]
      BY <1>1, <1>3, IndexRange DEF IInv, TypeOK, CopyInv
    <2>1. lnext[l] \in Nat /\ seqs[i] = lnext[l] /\ next_seq <= lnext[l] + BufLength
      BY DEF IInv, TypeOK, CopyInv, LapInv
    <2>2. infos[i] = wseq[w] /\ wseq[w] < next_seq
      BY <1>3 DEF IInv, SlotInv, NumberInv, Busy
    <2>3. lnext[l] <= wseq[w]
      BY <1>1, <2>1, <2>2 DEF IInv, SlotInv
    <2>4. ~(lnext[l] < wseq[w])
      BY <1>1, <2>1, <2>2, SameSlot DEF IInv, TypeOK
    <2>5. QED
      BY <1>1, <2>1, <2>3, <2>4
  <1>6. LapInv' /\ ExactlyOnce'
    BY DEF IInv, LapInv, ExactlyOnce
  <1>7. QED
    BY <1>2, <1>4, <1>5, <1>6 DEF IInv

\* A notifier dies between its steps.
LEMMA CrashIInv ==
  ASSUME IInv, NEW w \in Writers, Crash(w)
  PROVE  IInv'
  <1> USE DEF Crash, WGoto, ringVars, listenerVars
  <1>1. \A v \in Writers : Busy(v)' => Busy(v)
    BY DEF IInv, TypeOK, Busy
  <1>2. TypeOK' /\ NumberInv' /\ LapInv'
    BY <1>1 DEF IInv, TypeOK, NumberInv, LapInv
  <1>3. SlotInv' /\ CopyInv' /\ ExactlyOnce'
    BY <1>1 DEF IInv, TypeOK, SlotInv, CopyInv, ExactlyOnce
  <1>4. QED
    BY <1>2, <1>3 DEF IInv

-----------------------------------------------------------------------------
(* A listener *)

\* A listener attaches.
LEMMA AttachIInv ==
  ASSUME IInv, NEW l \in Listeners, Attach(l)
  PROVE  IInv'
  <1> USE BufLengthAssumption, MaxSeqAssumption
      DEF Attach, LGoto, Seqs, ringVars, writerVars
  <1>1. /\ lnext'[l] = next_seq /\ start'[l] = next_seq /\ lpc'[l] = "poll"
        /\ log' = log /\ log[l] = <<>> /\ Len(log[l]) = 0
        /\ \A k \in Listeners \ {l} :
             lnext'[k] = lnext[k] /\ start'[k] = start[k] /\ lpc'[k] = lpc[k]
    BY DEF IInv, TypeOK, LapInv
  <1>2. TypeOK' /\ NumberInv'
    BY DEF IInv, TypeOK, NumberInv, Busy
  <1>3. LapInv'
    BY <1>1, SMTT(40) DEF IInv, TypeOK, LapInv
  <1>4. SlotInv' /\ CopyInv'
    BY <1>1 DEF IInv, SlotInv, CopyInv, Busy
  <1>5. ExactlyOnce'
    <2> SUFFICES ASSUME NEW k \in Listeners \ lapped, ~overrun
                 PROVE  /\ lnext'[k] = start'[k] + Len(log[k])
                        /\ \A j \in 1 .. Len(log[k]) :
                             log[k][j] # start'[k] + j - 1 => start'[k] = 0 /\ j = 1
      BY <1>1 DEF ExactlyOnce
    <2>1. CASE k # l
      BY <1>1, <2>1 DEF IInv, ExactlyOnce
    <2>2. CASE k = l
      BY <1>1, <2>2 DEF IInv, TypeOK
    <2>3. QED
      BY <2>1, <2>2
  <1>6. QED
    BY <1>2, <1>3, <1>4, <1>5 DEF IInv

\* What Poll finds in the slot is the number it expects, unless the listener was
\* lapped; in any case it has been issued.
LEMMA PollFinds ==
  ASSUME IInv, NEW l \in Listeners, Poll(l)
  PROVE  /\ seqs[Index(lnext[l])] \in Seqs /\ seqs[Index(lnext[l])] < next_seq
         /\ l \notin lapped => seqs[Index(lnext[l])] = lnext[l]
  <1> USE BufLengthAssumption DEF Poll, Filled, Seqs
  <1> DEFINE s == seqs[Index(lnext[l])]
  <1>1. lnext[l] \in Nat /\ Index(lnext[l]) \in Slots
    BY IndexRange DEF IInv, TypeOK
  <1>2. s \in Seqs /\ lnext[l] <= s
    BY <1>1 DEF IInv, TypeOK, Slots
  <1>3. s < next_seq
    BY <1>1, <1>2 DEF IInv, TypeOK, NumberInv
  <1>4. ASSUME l \notin lapped, lnext[l] < s PROVE FALSE
    <2>1. next_seq <= lnext[l] + BufLength
      BY <1>4 DEF IInv, LapInv
    <2>2. Index(s) = Index(lnext[l])
      BY <1>1, <1>2, <1>4 DEF IInv, NumberInv
    <2>3. lnext[l] + BufLength <= s
      BY <1>1, <1>2, <1>4, <2>2, SameSlot
    <2>4. QED
      BY <1>1, <1>2, <1>3, <2>1, <2>3 DEF IInv, TypeOK
  <1>5. QED
    BY <1>1, <1>2, <1>3, <1>4

\* A listener polls its slot.
LEMMA PollIInv ==
  ASSUME IInv, NEW l \in Listeners, Poll(l)
  PROVE  IInv'
  <1> DEFINE s == seqs[Index(lnext[l])]
  <1>1. s \in Seqs /\ s < next_seq /\ (l \notin lapped => s = lnext[l])
    BY PollFinds
  <1>2. /\ lpc[l] = "poll" /\ lnext'[l] = s /\ lpc'[l] = "copy"
        /\ \A k \in Listeners \ {l} : lnext'[k] = lnext[k] /\ lpc'[k] = lpc[k]
        /\ lnext' = [lnext EXCEPT ![l] = s] /\ lpc' = [lpc EXCEPT ![l] = "copy"]
        /\ UNCHANGED <<ringVars, writerVars, start, log, lapped, overrun>>
    BY DEF IInv, TypeOK, Poll, LGoto
  <1> USE <1>1, <1>2 DEF ringVars, writerVars
  <1>3. CopyInv'
    BY DEF IInv, CopyInv
  <1> HIDE DEF s
  <1>4. TypeOK' /\ NumberInv'
    BY MaxSeqAssumption DEF IInv, TypeOK, Seqs, NumberInv, Busy
  <1>5. LapInv' /\ SlotInv'
    BY DEF IInv, LapInv, SlotInv, Busy
  <1>6. ExactlyOnce'
    BY DEF IInv, ExactlyOnce
  <1>7. QED
    BY <1>3, <1>4, <1>5, <1>6 DEF IInv

\* A listener copies the info it found.
LEMMA CopyIInv ==
  ASSUME IInv, NEW l \in Listeners, Copy(l)
  PROVE  IInv'
  <1> USE BufLengthAssumption, MaxSeqAssumption, InfoAssumption
  <1> DEFINE i == Index(lnext[l])
  <1>1. PICK info \in {infos[i]} \cup (IF Storing(i) THEN {Torn} ELSE {}) :
          log' = [log EXCEPT ![l] = Append(@, info)]
    BY DEF Copy
  <1>2. /\ lpc[l] = "copy" /\ lnext' = [lnext EXCEPT ![l] = @ + 1]
        /\ lpc' = [lpc EXCEPT ![l] = "poll"]
        /\ UNCHANGED <<ringVars, writerVars, start, lapped, overrun>>
    BY DEF Copy, LGoto
  <1>3. lnext[l] \in Nat /\ i \in Slots /\ lnext[l] + 1 \in Seqs /\ lnext[l] < next_seq
    BY <1>2, IndexRange DEF IInv, TypeOK, NumberInv, Seqs
  <1>4. info \in Seqs \cup {NoInfo, Torn}
    BY <1>1, <1>3 DEF IInv, TypeOK, Slots
  <1> USE DEF ringVars, writerVars
  <1>5. TypeOK'
    <2>1. Append(log[l], info) \in Seq(Seqs \cup {NoInfo, Torn})
      BY <1>4 DEF IInv, TypeOK
    <2>2. log' \in [Listeners -> Seq(Seqs \cup {NoInfo, Torn})]
      BY <1>1, <2>1 DEF IInv, TypeOK
    <2>3. lnext' \in [Listeners -> Seqs]
      BY <1>2, <1>3 DEF IInv, TypeOK
    <2>4. QED
      BY <1>2, <2>2, <2>3 DEF IInv, TypeOK
  <1>6. /\ lnext'[l] = lnext[l] + 1 /\ lpc'[l] = "poll"
        /\ \A k \in Listeners \ {l} :
             lnext'[k] = lnext[k] /\ lpc'[k] = lpc[k] /\ log'[k] = log[k]
    BY <1>1, <1>2 DEF IInv, TypeOK
  <1>7. NumberInv' /\ SlotInv' /\ CopyInv'
    BY <1>2, <1>3, <1>6 DEF IInv, TypeOK, NumberInv, SlotInv, CopyInv, Busy, Seqs
  <1>8. LapInv'
    <2>1. \A k \in Listeners : lpc'[k] = "off" => log'[k] = <<>> /\ lnext'[k] = start[k]
      BY <1>6 DEF IInv, LapInv
    <2>2. l \in lapped \/ next_seq <= lnext[l] + BufLength
      BY <1>2 DEF IInv, LapInv
    <2>3. l \in lapped \/ next_seq <= lnext'[l] + BufLength
      BY <1>3, <1>6, <2>2 DEF IInv, TypeOK, Seqs
    <2>4. QED
      BY <1>2, <1>6, <2>1, <2>3 DEF IInv, LapInv
  <1>9. ASSUME l \notin lapped, ~overrun, lnext[l] # 0 PROVE info = lnext[l]
    <2>1. seqs[i] = lnext[l] /\ next_seq <= lnext[l] + BufLength
      BY <1>2, <1>9 DEF IInv, CopyInv, LapInv
    <2>2. /\ infos[i] # NoInfo /\ infos[i] >= lnext[l] /\ infos[i] < next_seq
          /\ Index(infos[i]) = i /\ infos[i] \in Nat /\ next_seq \in Nat
      BY <1>3, <1>9, <2>1 DEF IInv, TypeOK, SlotInv, NumberInv, Slots, Seqs
    <2>3. infos[i] = lnext[l]
      BY <1>3, <2>1, <2>2, SameSlot
    <2>4. ~Storing(i)
      <3> SUFFICES ASSUME NEW w \in Writers, wpc[w] = "info", Index(wseq[w]) = i
                   PROVE  FALSE
        BY DEF Storing
      <3>1. wseq[w] \in Nat /\ wseq[w] < next_seq /\ lnext[l] < wseq[w]
        BY <1>9, <2>1 DEF IInv, TypeOK, Seqs, NumberInv, SlotInv, Busy
      <3>2. QED
        BY <1>3, <2>1, <2>2, <3>1, SameSlot
    <2>5. QED
      BY <1>1, <2>3, <2>4
  <1>10. ExactlyOnce'
    <2> SUFFICES ASSUME NEW k \in Listeners \ lapped, ~overrun
                 PROVE  /\ lnext'[k] = start[k] + Len(log'[k])
                        /\ \A j \in 1 .. Len(log'[k]) :
                             log'[k][j] # start[k] + j - 1 => start[k] = 0 /\ j = 1
      BY <1>2 DEF ExactlyOnce
    <2>1. CASE k # l
      BY <1>6, <2>1 DEF IInv, ExactlyOnce
    <2>2. CASE k = l
      <3>1. /\ lnext[l] = start[l] + Len(log[l]) /\ start[l] \in Nat
            /\ \A j \in 1 .. Len(log[l]) :
                 log[l][j] # start[l] + j - 1 => start[l] = 0 /\ j = 1
            /\ log[l] \in Seq(Seqs \cup {NoInfo, Torn})
        BY <2>2 DEF IInv, TypeOK, ExactlyOnce, Seqs
      <3>2. /\ log'[l] = Append(log[l], info) /\ Len(log'[l]) = Len(log[l]) + 1
            /\ log'[l][Len(log[l]) + 1] = info
            /\ \A j \in 1 .. Len(log[l]) : log'[l][j] = log[l][j]
        BY <1>1, <1>4, <3>1 DEF IInv, TypeOK
      <3>3. info # lnext[l] => start[l] = 0 /\ Len(log[l]) = 0
        BY <1>9, <2>2, <3>1
      <3>4. QED
        BY <1>6, <2>2, <3>1, <3>2, <3>3
    <2>3. QED
      BY <2>1, <2>2
  <1>11. QED
    BY <1>5, <1>7, <1>8, <1>10 DEF IInv

-----------------------------------------------------------------------------
\* The invariant is inductive: one case per action.
LEMMA NextIInv == IInv /\ [Next]_vars => IInv'
  <1> SUFFICES ASSUME IInv, [Next]_vars PROVE IInv'
    OBVIOUS
  <1>1. CASE UNCHANGED vars
    BY <1>1 DEF vars, ringVars, writerVars, listenerVars, IInv, TypeOK, NumberInv,
                LapInv, SlotInv, CopyInv, ExactlyOnce, Busy
  <1>2. ASSUME NEW w \in Writers, TakeNumber(w) \/ WriterStep(w) \/ Crash(w)
        PROVE  IInv'
    BY <1>2, TakeNumberIInv, StoreInfoIInv, StoreSeqIInv, CrashIInv DEF WriterStep
  <1>3. ASSUME NEW l \in Listeners, Attach(l) \/ ListenerStep(l) PROVE IInv'
    BY <1>3, AttachIInv, PollIInv, CopyIInv DEF ListenerStep
  <1>4. QED
    BY <1>1, <1>2, <1>3 DEF Next

\* Every reachable state satisfies the inductive invariant.
LEMMA SpecIInv == Spec => []IInv
  BY InitIInv, NextIInv, PTL DEF Spec

-----------------------------------------------------------------------------
\* A listener that keeps up gets every notification since its start, once, in
\* order and with its own info, as long as no writer is a whole ring behind;
\* only number 0 may come with an info that nobody has stored.
THEOREM NotifierSound == Spec => []NotifierInv
  <1>1. IInv => NotifierInv
    BY DEF IInv, NotifierInv
  <1>2. QED
    BY <1>1, SpecIInv, PTL

\* Listen never passes over a notification unless the listener was a whole ring
\* behind, whatever the writers do, those that die or are overtaken included.
THEOREM SkipsSound == Spec => SkipsOnlyWhenLapped
  <1> DEFINE Skips == \A l \in Listeners :
               lnext'[l] > lnext[l] + 1 => lpc[l] = "off" \/ l \in lapped
  <1>1. ASSUME IInv, [Next]_vars PROVE [Skips]_lnext
    <2> SUFFICES ASSUME Next, NEW l \in Listeners, lpc[l] # "off", l \notin lapped
                 PROVE  ~(lnext'[l] > lnext[l] + 1)
      BY <1>1 DEF vars, listenerVars
    <2>1. lnext[l] \in Nat
      BY <1>1 DEF IInv, TypeOK, Seqs
    <2>2. CASE \E w \in Writers : TakeNumber(w) \/ WriterStep(w) \/ Crash(w)
      BY <2>1, <2>2 DEF WriterStep, TakeNumber, StoreInfo, StoreSeq, Crash, listenerVars
    <2>3. ASSUME NEW k \in Listeners, Attach(k) \/ Copy(k)
          PROVE  lnext'[l] \in {lnext[l], lnext[l] + 1}
      BY <1>1, <2>3 DEF Attach, Copy, IInv, TypeOK
    <2>4. ASSUME NEW k \in Listeners, Poll(k) PROVE lnext'[l] = lnext[l]
      <3>1. CASE k = l
        BY <1>1, <2>4, <3>1, PollFinds DEF Poll, IInv, TypeOK
      <3>2. CASE k # l
        BY <1>1, <2>4, <3>2 DEF Poll, IInv, TypeOK
      <3>3. QED
        BY <3>1, <3>2
    <2>5. QED
      BY <2>1, <2>2, <2>3, <2>4 DEF Next, ListenerStep
  <1>2. QED
    BY <1>1, SpecIInv, PTL DEF Spec, SkipsOnlyWhenLapped

-----------------------------------------------------------------------------
(* The ring of the visitor, ChannelData *)

\* A ring of n values and a spare slot keeps the newest values of s; the newest
\* one can be read even if n is 0.
RingOf(b, n, s) ==
    /\ b.head <= b.tail /\ b.tail - b.head <= n
    /\ b.head = 0 \/ b.tail - b.head = n
    /\ b.tail = Len(s)
    /\ \A pos \in b.head + 1 .. b.tail : At(b, pos) = s[pos]
    /\ b.tail # 0 => At(b, b.tail) = s[b.tail]

Rings(n, values) ==
    [head : Nat, tail : Nat, capacity : {n + 1},
     slot : [0 .. n -> values \cup {Empty}]]

Tuples == Numbers \X Numbers
First(n) == [i \in 1 .. n |-> <<i>>]

\* The buffers are rings of one size.
RingTypes ==
    /\ QueueSize \in QueueSizes
    /\ m0 \in Rings(QueueSize, Plain) /\ m1 \in Rings(QueueSize, Plain)
    /\ fusion \in Rings(QueueSize, Tuples)

\* The visitor's buffer keeps what was sent to it, the other channel's buffer
\* the messages of that channel.
RingInv ==
    /\ sent \in Seq(IF fused THEN Tuples ELSE Plain)
    /\ RingOf(ReadBuffer, QueueSize, sent)
    /\ RingOf(m1, QueueSize, First(count1))

\* The thread inside the callback has the mutex, and the last message.
CallbackInv ==
    /\ fusion_callback => fused
    /\ \A d \in Dispatchers : pc[d] # "idle" =>
         /\ mutex = d /\ fusion_callback
         /\ count0 \in Numbers /\ msg[d] = <<count0>>
         /\ pc[d] = "store" => partner[d] \in Plain

\* What has been fused is older than what is being fused.
OrderInv ==
    fused =>
      /\ \A i \in 1 .. Len(sent) : sent[i][1] <= count0 /\ sent[i][2] <= count1
      /\ \A d \in Dispatchers : pc[d] # "idle" =>
           \A i \in 1 .. Len(sent) : sent[i][1] < count0
      /\ \A d \in Dispatchers : pc[d] = "store" =>
           /\ partner[d][1] <= count1
           /\ \A i \in 1 .. Len(sent) : sent[i][2] <= partner[d][1]

CursorInv == next_msg_index <= Len(sent) + 1

DataIInv ==
    /\ DataTypeOK /\ RingTypes /\ RingInv
    /\ CallbackInv /\ OrderInv /\ FusedInOrder /\ CursorInv

-----------------------------------------------------------------------------
\* Fill keeps a ring of the newest values: it overwrites the spare slot or the
\* oldest value, and no other.
LEMMA FillRing ==
  ASSUME NEW n \in Nat, NEW V, NEW b \in Rings(n, V), NEW s \in Seq(V),
         RingOf(b, n, s), NEW v \in V
  PROVE  /\ Fill(b, v) \in Rings(n, V)
         /\ RingOf(Fill(b, v), n, Append(s, v))
  <1> DEFINE f == Fill(b, v)
             c == n + 1
             h == b.head
             t == b.tail
             k == (t + 1) % c
             u == Append(s, v)
  <1>1. /\ h \in Nat /\ t \in Nat /\ c \in Nat \ {0} /\ b.capacity = c
        /\ b.slot \in [0 .. n -> V \cup {Empty}] /\ k \in 0 .. n
        /\ c = n + 1 /\ k = (t + 1) % c
    BY DEF Rings
  <1>2. h <= t /\ t - h <= n /\ (h = 0 \/ t - h = n) /\ t = Len(s)
    BY DEF RingOf
  <1>3. Full(b) <=> t - h = n
    BY <1>1 DEF Full
  <1>4. t - h = n => h % c = k
    <2> SUFFICES ASSUME t - h = n PROVE h % c = k
      OBVIOUS
    <2> HIDE DEF h, t, c, k
    <2>1. t + 1 = h + c
      BY <1>1
    <2>2. (h + c) % c = h % c
      BY <1>1, WrapRound
    <2> QED BY <2>1, <2>2, <1>1
  <1>5. /\ f.head = (IF t - h = n THEN h + 1 ELSE h) /\ f.tail = t + 1
        /\ f.capacity = c /\ f.slot = [b.slot EXCEPT ![k] = v]
        /\ f = [head |-> f.head, tail |-> f.tail, capacity |-> f.capacity,
                slot |-> f.slot]
    <2>1. CASE t - h = n
      <3>1. f = [b EXCEPT !.slot[GetIndex(b, b.head)] = v,
                          !.head = @ + 1, !.tail = @ + 1]
        BY <1>3, <2>1 DEF Fill
      <3>2. GetIndex(b, b.head) = k
        BY <1>1, <1>4, <2>1 DEF GetIndex
      <3> HIDE DEF f, k
      <3> QED BY <3>1, <3>2, <2>1, <1>1 DEF Rings
    <2>2. CASE t - h # n
      <3>1. f = [b EXCEPT !.slot[GetIndex(b, b.tail + 1)] = v, !.tail = @ + 1]
        BY <1>3, <2>2 DEF Fill
      <3>2. GetIndex(b, b.tail + 1) = k
        BY <1>1 DEF GetIndex
      <3> HIDE DEF f, k
      <3> QED BY <3>1, <3>2, <2>2, <1>1 DEF Rings
    <2> QED BY <2>1, <2>2
  <1> HIDE DEF f, h, t, k, c
  <1>6. f \in Rings(n, V)
    <2>1. f.head \in Nat /\ f.tail \in Nat /\ f.capacity = n + 1
      BY <1>1, <1>5
    <2>2. f.slot \in [0 .. n -> V \cup {Empty}]
      BY <1>1, <1>5
    <2> QED BY <2>1, <2>2, <1>5 DEF Rings
  <1>7. u \in Seq(V) /\ Len(u) = t + 1 /\ u[t + 1] = v /\ \A i \in 1 .. t : u[i] = s[i]
    BY <1>1, <1>2
  <1> HIDE DEF u
  <1>8. At(f, t + 1) = v
    BY <1>1, <1>5 DEF At, GetIndex
  <1>9. ASSUME NEW pos \in f.head + 1 .. t PROVE At(f, pos) = u[pos]
    <2>1. pos \in Nat /\ pos \in h + 1 .. t /\ pos < t + 1 /\ t + 1 < pos + c
      <3>1. f.head \in Nat /\ f.head >= h /\ (t - h = n => f.head = h + 1)
        BY <1>1, <1>5, SMTT(40)
      <3>2. pos \in Nat /\ pos > f.head /\ pos <= t
        BY <3>1, <1>1
      <3>3. h \in Nat /\ t \in Nat /\ c = n + 1 /\ t - h <= n
        BY <1>1, <1>2
      <3> HIDE DEF f
      <3> QED BY <3>1, <3>2, <3>3
    <2>2. pos % c # k /\ pos % c \in 0 .. n
      <3>1. t + 1 \in Nat
        BY <1>1
      <3>2. pos % c # (t + 1) % c
        BY <2>1, <3>1, <1>1, DistinctSlots
      <3> QED BY <2>1, <3>2, <1>1
    <2>3. At(f, pos) = At(b, pos)
      BY <1>1, <1>5, <2>1, <2>2 DEF At, GetIndex
    <2>4. At(b, pos) = s[pos]
      BY <2>1 DEF RingOf, h, t
    <2>5. pos \in 1 .. t
      BY <2>1, <1>1
    <2> QED BY <2>3, <2>4, <2>5, <1>7
  <1>10. RingOf(f, n, u)
    <2>1. \A pos \in f.head + 1 .. t + 1 : At(f, pos) = u[pos]
      <3> TAKE pos \in f.head + 1 .. t + 1
      <3>1. pos = t + 1 \/ pos \in f.head + 1 .. t
        BY <1>1, <1>5
      <3> QED BY <3>1, <1>7, <1>8, <1>9
    <2> QED BY <1>1, <1>2, <1>5, <1>7, <1>8, <2>1 DEF RingOf
  <1> QED BY <1>6, <1>10 DEF f, u

\* Whatever it holds, a filled ring is a ring.
LEMMA FillType ==
  ASSUME NEW n \in Nat, NEW V, NEW b \in Rings(n, V), NEW v \in V
  PROVE  Fill(b, v) \in Rings(n, V)
  <1>1. b.head % (n + 1) \in 0 .. n /\ (b.tail + 1) % (n + 1) \in 0 .. n
    BY DEF Rings
  <1>2. b.head + 1 \in Nat /\ b.tail + 1 \in Nat /\ b.capacity = n + 1
    BY DEF Rings
  <1>3. /\ GetIndex(b, b.head) \in 0 .. n
        /\ GetIndex(b, b.tail + 1) \in 0 .. n
    BY <1>1, <1>2 DEF GetIndex
  <1> QED BY <1>2, <1>3 DEF Fill, Rings

\* A new ring is empty.
LEMMA NewRing ==
  ASSUME NEW n \in Nat, NEW V
  PROVE  /\ NewCacheBuffer(n) \in Rings(n, V)
         /\ RingOf(NewCacheBuffer(n), n, <<>>)
  BY DEF NewCacheBuffer, Rings, RingOf

\* The messages of a channel are their numbers.
LEMMA FirstSeq ==
  ASSUME NEW n \in 0 .. MaxMessages
  PROVE  /\ First(n) \in Seq(Plain) /\ Len(First(n)) = n
         /\ \A i \in 1 .. n : First(n)[i] = <<i>>
         /\ n < MaxMessages => First(n + 1) = Append(First(n), <<n + 1>>)
  <1>1. \A k \in 0 .. MaxMessages : First(k) \in [1 .. k -> Plain]
    BY MaxMessagesAssumption DEF First, Plain, Numbers
  <1>2. \A k \in 0 .. MaxMessages : First(k) \in Seq(Plain) /\ Len(First(k)) = k
    BY <1>1, MaxMessagesAssumption
  <1>3. \A k \in 0 .. MaxMessages : \A i \in 1 .. k : First(k)[i] = <<i>>
    BY DEF First
  <1>4. ASSUME n < MaxMessages PROVE First(n + 1) = Append(First(n), <<n + 1>>)
    <2>1. n \in Nat /\ n + 1 \in 0 .. MaxMessages /\ <<n + 1>> \in Plain
      BY <1>4, MaxMessagesAssumption DEF Plain, Numbers
    <2> DEFINE a == Append(First(n), <<n + 1>>)
    <2>2. a \in Seq(Plain) /\ Len(a) = n + 1 /\ a[n + 1] = <<n + 1>>
      BY <1>2, <2>1
    <2>3. \A i \in 1 .. n : a[i] = <<i>>
      BY <1>2, <1>3, <2>1
    <2>4. \A i \in 1 .. n + 1 : First(n + 1)[i] = a[i]
      BY <1>3, <2>1, <2>2, <2>3, SMTT(40)
    <2> HIDE DEF a
    <2>5. First(n + 1) = a
      BY <1>2, <2>1, <2>2, <2>4
    <2> QED BY <2>5 DEF a
  <1> QED BY <1>2, <1>3, <1>4

\* The newest value can always be read.
LEMMA LatestOfRing ==
  ASSUME NEW n \in Nat, NEW V, NEW b \in Rings(n, V), NEW s \in Seq(V),
         RingOf(b, n, s)
  PROVE  /\ Latest(b).ok <=> s # <<>>
         /\ s # <<>> => Latest(b).m = s[Len(s)]
  <1>1. b.tail \in Nat /\ b.tail = Len(s) /\ (b.tail # 0 => At(b, b.tail) = s[b.tail])
    BY DEF RingOf, Rings
  <1>2. s # <<>> <=> Len(s) # 0
    OBVIOUS
  <1>3. Latest(b).ok = (b.tail # 0) /\ Latest(b).m = At(b, b.tail)
    BY DEF Latest, IsEmpty
  <1> QED BY <1>1, <1>2, <1>3

\* A message and its partner make a tuple.
LEMMA PairOfMessages ==
  ASSUME NEW a \in Nat, NEW b \in Nat
  PROVE  <<a>> \o <<b>> = <<a, b>>
  <1> DEFINE s == <<a>>
             t == <<b>>
             u == <<a, b>>
             w == s \o t
  <1>1. /\ s \in Seq(Nat) /\ Len(s) = 1 /\ s[1] = a
        /\ t \in Seq(Nat) /\ Len(t) = 1 /\ t[1] = b
    OBVIOUS
  <1>2. u \in Seq(Nat) /\ Len(u) = 2 /\ u[1] = a /\ u[2] = b
    OBVIOUS
  <1> HIDE DEF s, t, u
  <1>3. /\ w \in Seq(Nat) /\ Len(w) = Len(s) + Len(t)
        /\ \A i \in 1 .. Len(s) + Len(t) :
             w[i] = IF i <= Len(s) THEN s[i] ELSE t[i - Len(s)]
    BY <1>1, ConcatProperties
  <1> HIDE DEF w
  <1>4. w \in Seq(Nat) /\ Len(w) = 2 /\ w[1] = a /\ w[2] = b
    BY <1>1, <1>3
  <1>5. w = u
    BY <1>2, <1>4, SMTT(40)
  <1> QED BY <1>5 DEF s, t, u, w

\* What DataTypeOK says of the buffers.
LEMMA RingsAreBuffers ==
  /\ RingTypes => IsBuffer(m0, Plain) /\ IsBuffer(m1, Plain)
  /\ RingTypes' => IsBuffer(m0, Plain)' /\ IsBuffer(m1, Plain)'
  <1>1. RingTypes => IsBuffer(m0, Plain) /\ IsBuffer(m1, Plain)
    BY QueueSizesAssumption DEF RingTypes, Rings, IsBuffer
  <1>2. ASSUME RingTypes' PROVE IsBuffer(m0, Plain)' /\ IsBuffer(m1, Plain)'
    <2> DEFINE n == QueueSize'
    <2>1. n \in QueueSizes /\ n \in Nat
      BY <1>2, QueueSizesAssumption DEF RingTypes
    <2>2. m0' \in Rings(n, Plain) /\ m1' \in Rings(n, Plain)
      BY <1>2 DEF RingTypes
    <2> HIDE DEF n
    <2>3. ASSUME NEW b \in Rings(n, Plain)
          PROVE  /\ b.capacity - 1 \in QueueSizes /\ b.head \in Nat /\ b.tail \in Nat
                 /\ b.slot \in [0 .. n -> Plain \cup {Empty}]
      BY <2>1 DEF Rings
    <2> QED BY <2>2, <2>3 DEF IsBuffer, n
  <1> QED BY <1>1, <1>2

-----------------------------------------------------------------------------
\* The initial state satisfies the invariant.
LEMMA InitDataIInv == DataInit => DataIInv
  <1> SUFFICES ASSUME DataInit PROVE DataIInv
    OBVIOUS
  <1>1. PICK n \in QueueSizes : /\ m0 = NewCacheBuffer(n) /\ m1 = NewCacheBuffer(n)
                               /\ fusion = NewCacheBuffer(m0.capacity - 1)
    BY DEF DataInit
  <1>2. n \in Nat /\ m0.capacity = n + 1 /\ QueueSize = n /\ fusion = NewCacheBuffer(n)
    BY <1>1, QueueSizesAssumption DEF NewCacheBuffer, QueueSize
  <1>3. RingTypes
    BY <1>1, <1>2, NewRing DEF RingTypes
  <1>4. RingInv
    <2>1. First(0) = <<>>
      BY FirstSeq, MaxMessagesAssumption
    <2>2. /\ RingOf(m0, n, <<>>) /\ RingOf(m1, n, <<>>) /\ RingOf(fusion, n, <<>>)
      BY <1>1, <1>2, NewRing
    <2> QED BY <1>2, <2>1, <2>2 DEF DataInit, RingInv, ReadBuffer
  <1>5. DataTypeOK
    <2>1. fused \in BOOLEAN /\ fusion_callback \in BOOLEAN
      BY FusedAssumption DEF DataInit
    <2>2. IsBuffer(m0, Plain) /\ IsBuffer(m1, Plain)
      BY <1>3, RingsAreBuffers
    <2>3. 0 \in 0 .. MaxMessages /\ 0 \in Nat /\ <<>> \in Seq(Messages)
      BY MaxMessagesAssumption
    <2> QED BY <2>1, <2>2, <2>3 DEF DataTypeOK, DataInit
  <1>6. CallbackInv /\ OrderInv /\ FusedInOrder /\ CursorInv
    BY DEF DataInit, CallbackInv, OrderInv, FusedInOrder, CursorInv
  <1> QED BY <1>3, <1>4, <1>5, <1>6 DEF DataIInv

-----------------------------------------------------------------------------
(* One lemma per action *)

\* Fill of channel 0 without a callback.
LEMMA FillPlainIInv ==
  ASSUME DataIInv, NEW d \in Dispatchers, FillPlain(d)
  PROVE  DataIInv'
  <1> DEFINE v == <<count0 + 1>>
             n == QueueSize
  <1>1. /\ count0 \in Nat /\ count0 + 1 \in Numbers /\ v \in Plain /\ n \in Nat
        /\ count0' = count0 + 1 /\ count0' \in 0 .. MaxMessages
    BY QueueSizesAssumption, MaxMessagesAssumption
       DEF DataIInv, DataTypeOK, RingTypes, FillPlain, Plain, Numbers
  <1>2. m0' \in Rings(n, Plain)
    BY <1>1, FillType DEF DataIInv, RingTypes, FillPlain
  <1>3. QueueSize' = n
    <2>1. m0'.capacity = n + 1
      BY <1>2 DEF Rings
    <2> HIDE DEF n
    <2> QED BY <2>1, <1>1 DEF QueueSize
  <1>4. RingTypes'
    BY <1>2, <1>3 DEF DataIInv, RingTypes, FillPlain
  <1>5. \A e \in Dispatchers : pc[e] = "idle" /\ pc'[e] = "idle"
    BY DEF DataIInv, CallbackInv, FillPlain, dispatchVars
  <1>6. RingInv'
    <2>1. CASE fused
      BY <1>3, <2>1 DEF DataIInv, RingInv, FillPlain, ReadBuffer
    <2>2. CASE ~fused
      <3>1. /\ sent \in Seq(Plain) /\ RingOf(m0, n, sent) /\ m0 \in Rings(n, Plain)
            /\ m0' = Fill(m0, v) /\ sent' = Append(sent, v)
        BY <2>2 DEF DataIInv, RingInv, RingTypes, ReadBuffer, FillPlain
      <3>2. sent' \in Seq(Plain) /\ RingOf(m0', n, sent')
        BY <3>1, <1>1, FillRing
      <3> QED BY <2>2, <3>2, <1>3 DEF DataIInv, RingInv, FillPlain, ReadBuffer
    <2> QED BY <2>1, <2>2
  <1>7. CallbackInv' /\ OrderInv'
    <2>1. ASSUME fused, NEW i \in 1 .. Len(sent)
          PROVE  sent[i][1] <= count0 /\ sent[i][2] <= count1 /\ sent[i][1] \in Nat
      BY <2>1 DEF DataIInv, OrderInv, RingInv, Tuples, Numbers
    <2>2. OrderInv'
      BY <1>1, <1>5, <2>1 DEF OrderInv, FillPlain
    <2> QED BY <1>5, <2>2 DEF DataIInv, CallbackInv, FillPlain
  <1>8. FusedInOrder' /\ CursorInv'
    <2>1. Len(sent') >= Len(sent) /\ (fused => sent' = sent) /\ Len(sent) \in Nat
      BY <1>1 DEF DataIInv, RingInv, FillPlain
    <2> QED BY <2>1 DEF DataIInv, DataTypeOK, FusedInOrder, CursorInv, FillPlain
  <1>9. DataTypeOK'
    <2>1. sent' \in Seq(Messages)
      BY <1>1 DEF DataIInv, DataTypeOK, FillPlain, Messages
    <2>2. IsBuffer(m0, Plain)' /\ IsBuffer(m1, Plain)'
      BY <1>4, RingsAreBuffers
    <2> QED BY <1>1, <2>1, <2>2 DEF DataIInv, DataTypeOK, FillPlain, dispatchVars
  <1> QED BY <1>4, <1>6, <1>7, <1>8, <1>9 DEF DataIInv

\* Fill of channel 0 up to the callback.
LEMMA EnterCallbackIInv ==
  ASSUME DataIInv, NEW d \in Dispatchers, EnterCallback(d)
  PROVE  DataIInv'
  <1>1. /\ count0 \in Nat /\ count0 + 1 \in Numbers /\ <<count0 + 1>> \in Plain
        /\ count0' = count0 + 1 /\ count0' \in 0 .. MaxMessages
    BY MaxMessagesAssumption DEF DataIInv, DataTypeOK, EnterCallback, Plain, Numbers
  <1>2. \A e \in Dispatchers : pc[e] = "idle"
    BY NoneAssumption DEF DataIInv, CallbackInv, EnterCallback
  <1>3. \A e \in Dispatchers : pc'[e] # "idle" => e = d /\ pc'[e] = "latest"
    BY <1>2 DEF EnterCallback, Goto, DataIInv, DataTypeOK
  <1>4. RingTypes' /\ RingInv' /\ FusedInOrder' /\ CursorInv'
    BY DEF DataIInv, RingTypes, RingInv, FusedInOrder, CursorInv, EnterCallback,
           QueueSize, ReadBuffer
  <1>5. CallbackInv'
    BY <1>1, <1>3 DEF DataIInv, CallbackInv, EnterCallback, DataTypeOK
  <1>6. OrderInv'
    <2>1. ASSUME fused, NEW i \in 1 .. Len(sent)
          PROVE  sent[i][1] <= count0 /\ sent[i][2] <= count1 /\ sent[i][1] \in Nat
      BY <2>1 DEF DataIInv, OrderInv, RingInv, Tuples, Numbers
    <2> QED BY <1>1, <1>3, <2>1 DEF OrderInv, EnterCallback
  <1>7. DataTypeOK'
    <2>1. IsBuffer(m0, Plain)' /\ IsBuffer(m1, Plain)'
      BY <1>4, RingsAreBuffers
    <2>2. /\ mutex' \in Dispatchers \cup {None}
          /\ pc' \in [Dispatchers -> {"idle", "latest", "store"}]
          /\ msg' \in [Dispatchers -> Plain \cup {Empty}]
      BY <1>1 DEF DataIInv, DataTypeOK, EnterCallback, Goto
    <2> QED BY <1>1, <2>1, <2>2 DEF DataIInv, DataTypeOK, EnterCallback
  <1> QED BY <1>4, <1>5, <1>6, <1>7 DEF DataIInv

\* The callback returns without a tuple.
LEMMA DropUnpairedIInv ==
  ASSUME DataIInv, NEW d \in Dispatchers, DropUnpaired(d)
  PROVE  DataIInv'
  <1>1. \A e \in Dispatchers : pc'[e] # "idle" => e # d /\ pc[e] = pc'[e]
    BY DEF DropUnpaired, LeaveCallback, Goto, DataIInv, DataTypeOK
  <1>2. \A e \in Dispatchers : pc'[e] = "idle"
    BY <1>1 DEF DropUnpaired, DataIInv, CallbackInv
  <1>3. RingTypes' /\ RingInv' /\ FusedInOrder' /\ CursorInv'
    BY DEF DataIInv, RingTypes, RingInv, FusedInOrder, CursorInv, DropUnpaired,
           QueueSize, ReadBuffer
  <1>4. CallbackInv' /\ OrderInv'
    BY <1>2 DEF DataIInv, CallbackInv, OrderInv, DropUnpaired
  <1>5. DataTypeOK'
    <2>1. IsBuffer(m0, Plain)' /\ IsBuffer(m1, Plain)'
      BY <1>3, RingsAreBuffers
    <2>2. /\ mutex' \in Dispatchers \cup {None}
          /\ pc' \in [Dispatchers -> {"idle", "latest", "store"}]
          /\ msg' \in [Dispatchers -> Plain \cup {Empty}]
          /\ partner' \in [Dispatchers -> Plain \cup {Empty}]
      BY DEF DataIInv, DataTypeOK, DropUnpaired, LeaveCallback, Goto
    <2> QED BY <2>1, <2>2 DEF DataIInv, DataTypeOK, DropUnpaired
  <1> QED BY <1>3, <1>4, <1>5 DEF DataIInv

\* The callback finds the newest message of the other channel.
LEMMA PairIInv ==
  ASSUME DataIInv, NEW d \in Dispatchers, Pair(d)
  PROVE  DataIInv'
  <1> DEFINE n == QueueSize
             q == First(count1)
  <1>1. /\ n \in Nat /\ count1 \in 0 .. MaxMessages /\ count1 \in Nat
        /\ m1 \in Rings(n, Plain) /\ RingOf(m1, n, q)
    BY QueueSizesAssumption, MaxMessagesAssumption
       DEF DataIInv, DataTypeOK, RingTypes, RingInv
  <1>2. q \in Seq(Plain) /\ Len(q) = count1 /\ \A i \in 1 .. count1 : q[i] = <<i>>
    BY <1>1, FirstSeq
  <1> HIDE DEF n, q
  <1>3. q # <<>> /\ Latest(m1).m = q[Len(q)]
    BY <1>1, <1>2, LatestOfRing DEF Pair
  <1>4. count1 # 0 /\ Latest(m1).m = <<count1>> /\ <<count1>> \in Plain
    <2>1. count1 # 0
      BY <1>2, <1>3
    <2>2. count1 \in 1 .. count1 /\ count1 \in Numbers
      BY <1>1, <2>1, MaxMessagesAssumption DEF Numbers
    <2> QED BY <1>2, <1>3, <2>1, <2>2 DEF Plain
  <1>5. partner' = [partner EXCEPT ![d] = <<count1>>]
    BY <1>4 DEF Pair
  <1>6. \A e \in Dispatchers : pc'[e] # "idle" =>
           /\ e = d /\ pc[e] # "idle" /\ partner'[e] = <<count1>>
    <2> TAKE e \in Dispatchers
    <2>1. pc[d] # "idle" /\ mutex = d
      BY DEF Pair, DataIInv, CallbackInv
    <2>2. e # d => pc'[e] = pc[e]
      BY DEF Pair, Goto, DataIInv, DataTypeOK
    <2>3. e # d => pc[e] = "idle"
      BY <2>1 DEF DataIInv, CallbackInv
    <2>4. partner'[d] = <<count1>>
      BY <1>5 DEF DataIInv, DataTypeOK
    <2> QED BY <2>1, <2>2, <2>3, <2>4
  <1>7. RingTypes' /\ RingInv' /\ FusedInOrder' /\ CursorInv'
    BY DEF DataIInv, RingTypes, RingInv, FusedInOrder, CursorInv, Pair, QueueSize,
           ReadBuffer
  <1>8. CallbackInv'
    BY <1>4, <1>6 DEF DataIInv, CallbackInv, Pair
  <1>9. OrderInv'
    <2>1. ASSUME fused, NEW i \in 1 .. Len(sent)
          PROVE  sent[i][1] <= count0 /\ sent[i][2] <= count1
      BY <2>1 DEF DataIInv, OrderInv
    <2>2. ASSUME fused, NEW e \in Dispatchers, pc'[e] # "idle"
          PROVE  /\ \A i \in 1 .. Len(sent) : sent[i][1] < count0
                 /\ partner'[e][1] = count1 /\ count1 <= count1
      BY <1>1, <1>6, <2>2 DEF DataIInv, OrderInv
    <2> QED BY <2>1, <2>2 DEF OrderInv, Pair
  <1>10. DataTypeOK'
    <2>1. IsBuffer(m0, Plain)' /\ IsBuffer(m1, Plain)'
      BY <1>7, RingsAreBuffers
    <2>2. /\ pc' \in [Dispatchers -> {"idle", "latest", "store"}]
          /\ partner' \in [Dispatchers -> Plain \cup {Empty}]
      BY <1>4, <1>5 DEF DataIInv, DataTypeOK, Pair, Goto
    <2> QED BY <2>1, <2>2 DEF DataIInv, DataTypeOK, Pair
  <1> QED BY <1>7, <1>8, <1>9, <1>10 DEF DataIInv

\* The callback stores a tuple.
LEMMA StoreTupleIInv ==
  ASSUME DataIInv, NEW d \in Dispatchers, StoreTuple(d)
  PROVE  DataIInv'
  <1> DEFINE n == QueueSize
             t == msg[d] \o partner[d]
             L == Len(sent)
  <1>1. /\ n \in Nat /\ fused /\ mutex = d /\ count0 \in Numbers /\ count0 \in Nat
        /\ count1 \in Nat /\ msg[d] = <<count0>> /\ partner[d] \in Plain
    BY QueueSizesAssumption, MaxMessagesAssumption
       DEF DataIInv, DataTypeOK, RingTypes, CallbackInv, StoreTuple, Numbers
  <1>2. PICK k \in Numbers : partner[d] = <<k>>
    BY <1>1 DEF Plain
  <1>3. t = <<count0, k>> /\ t \in Tuples /\ k \in Nat
    <2>1. k \in Nat
      BY <1>2 DEF Numbers
    <2>2. t = <<count0, k>>
      BY <1>1, <1>2, <2>1, PairOfMessages
    <2> QED BY <2>1, <2>2, <1>1, <1>2 DEF Tuples
  <1>4. /\ sent \in Seq(Tuples) /\ fusion \in Rings(n, Tuples)
        /\ RingOf(fusion, n, sent)
    BY <1>1 DEF DataIInv, RingInv, RingTypes, ReadBuffer
  <1>5. fusion' = Fill(fusion, t) /\ sent' = Append(sent, t)
    BY DEF StoreTuple
  <1> HIDE DEF n, t
  <1>6. fusion' \in Rings(n, Tuples) /\ RingOf(fusion', n, sent')
    BY <1>1, <1>3, <1>4, <1>5, FillRing
  <1>7. /\ sent' \in Seq(Tuples) /\ Len(sent') = L + 1 /\ L \in Nat
        /\ sent'[L + 1] = <<count0, k>>
        /\ \A i \in 1 .. L : sent'[i] = sent[i]
    BY <1>3, <1>4, <1>5
  <1>8. \A e \in Dispatchers : pc'[e] = "idle"
    <2>1. \A e \in Dispatchers : e # d => pc[e] = "idle"
      BY <1>1 DEF DataIInv, CallbackInv
    <2> QED BY <2>1 DEF StoreTuple, LeaveCallback, Goto, DataIInv, DataTypeOK
  <1>9. RingTypes' /\ RingInv'
    BY <1>1, <1>6, <1>7 DEF DataIInv, RingTypes, RingInv, StoreTuple, QueueSize,
                            ReadBuffer, n
  <1>10. CallbackInv'
    BY <1>8 DEF DataIInv, CallbackInv, StoreTuple
  <1>11. \A i \in 1 .. L : /\ sent[i][1] < count0 /\ sent[i][2] <= k
                          /\ sent[i][1] \in Nat /\ sent[i][2] \in Nat
    <2> TAKE i \in 1 .. L
    <2>1. sent[i] \in Tuples
      BY <1>4
    <2>2. sent[i][1] < count0 /\ sent[i][2] <= partner[d][1]
      BY <1>1 DEF DataIInv, OrderInv, StoreTuple
    <2> QED BY <1>2, <2>1, <2>2 DEF Tuples, Numbers
  <1>12. k <= count1
    BY <1>1, <1>2 DEF DataIInv, OrderInv, StoreTuple
  <1> HIDE DEF L
  <1>13. OrderInv'
    <2>1. ASSUME NEW i \in 1 .. L + 1
          PROVE  sent'[i][1] <= count0 /\ sent'[i][2] <= count1
      <3>1. CASE i = L + 1
        BY <1>1, <1>7, <1>12, <3>1
      <3>2. CASE i \in 1 .. L
        BY <1>1, <1>3, <1>7, <1>11, <1>12, <3>2, SMTT(40)
      <3> QED BY <1>7, <3>1, <3>2
    <2> QED BY <1>7, <1>8, <2>1 DEF OrderInv, StoreTuple
  <1>14. FusedInOrder'
    <2>1. ASSUME NEW i \in 1 .. L + 1, NEW j \in 1 .. L + 1, i < j
          PROVE  sent'[i][1] < sent'[j][1] /\ sent'[i][2] <= sent'[j][2]
      <3>1. i \in 1 .. L /\ sent'[i] = sent[i]
        BY <1>7, <2>1
      <3>2. CASE j = L + 1
        BY <1>7, <1>11, <3>1, <3>2
      <3>3. CASE j \in 1 .. L
        <4>1. sent[i][1] < sent[j][1] /\ sent[i][2] <= sent[j][2]
          BY <1>1, <2>1, <3>1, <3>3 DEF DataIInv, FusedInOrder, L
        <4> QED BY <1>7, <3>1, <3>3, <4>1
      <3> QED BY <1>7, <3>2, <3>3
    <2> QED BY <1>7, <2>1 DEF FusedInOrder
  <1>15. CursorInv'
    BY <1>7 DEF DataIInv, DataTypeOK, CursorInv, StoreTuple, L
  <1>16. DataTypeOK'
    <2>1. IsBuffer(m0, Plain)' /\ IsBuffer(m1, Plain)'
      BY <1>9, RingsAreBuffers
    <2>2. /\ mutex' \in Dispatchers \cup {None}
          /\ pc' \in [Dispatchers -> {"idle", "latest", "store"}]
          /\ msg' \in [Dispatchers -> Plain \cup {Empty}]
          /\ partner' \in [Dispatchers -> Plain \cup {Empty}]
      BY DEF DataIInv, DataTypeOK, StoreTuple, LeaveCallback, Goto
    <2>3. sent' \in Seq(Messages)
      BY <1>3, <1>5 DEF DataIInv, DataTypeOK, Messages, Tuples
    <2> QED BY <2>1, <2>2, <2>3 DEF DataIInv, DataTypeOK, StoreTuple
  <1> QED BY <1>9, <1>10, <1>13, <1>14, <1>15, <1>16 DEF DataIInv

\* A message on the other channel.
LEMMA FillOtherIInv ==
  ASSUME DataIInv, FillOther
  PROVE  DataIInv'
  <1> DEFINE n == QueueSize
             v == <<count1 + 1>>
  <1>1. /\ n \in Nat /\ count1 \in Nat /\ count1 \in 0 .. MaxMessages
        /\ count1 < MaxMessages /\ count1' = count1 + 1
        /\ count1' \in 0 .. MaxMessages /\ v \in Plain
    BY QueueSizesAssumption, MaxMessagesAssumption
       DEF DataIInv, DataTypeOK, RingTypes, FillOther, Plain, Numbers
  <1>2. m1 \in Rings(n, Plain) /\ RingOf(m1, n, First(count1)) /\ m1' = Fill(m1, v)
    BY DEF DataIInv, RingTypes, RingInv, FillOther
  <1>3. First(count1) \in Seq(Plain) /\ First(count1') = Append(First(count1), v)
    BY <1>1, FirstSeq
  <1> HIDE DEF n, v
  <1>4. m1' \in Rings(n, Plain) /\ RingOf(m1', n, First(count1'))
    BY <1>1, <1>2, <1>3, FillRing
  <1>5. RingTypes' /\ RingInv'
    BY <1>4 DEF DataIInv, RingTypes, RingInv, FillOther, QueueSize, ReadBuffer, n
  <1>6. CallbackInv' /\ FusedInOrder' /\ CursorInv'
    BY DEF DataIInv, CallbackInv, FusedInOrder, CursorInv, FillOther, dispatchVars
  <1>7. OrderInv'
    <2>1. ASSUME fused, NEW i \in 1 .. Len(sent)
          PROVE  sent[i][1] <= count0 /\ sent[i][2] <= count1 + 1
      <3>1. sent[i][2] \in Nat /\ sent[i][1] <= count0 /\ sent[i][2] <= count1
        BY <2>1 DEF DataIInv, OrderInv, RingInv, Tuples, Numbers
      <3> QED BY <1>1, <3>1
    <2>2. ASSUME fused, NEW e \in Dispatchers, pc[e] = "store"
          PROVE  partner[e][1] <= count1 + 1
      <3>1. partner[e] \in Plain /\ partner[e][1] <= count1
        BY <2>2 DEF DataIInv, CallbackInv, OrderInv
      <3>2. partner[e][1] \in Nat
        BY <3>1 DEF Plain, Numbers
      <3> QED BY <1>1, <3>1, <3>2
    <2> QED BY <1>1, <2>1, <2>2 DEF DataIInv, OrderInv, FillOther, dispatchVars
  <1>8. DataTypeOK'
    <2>1. IsBuffer(m0, Plain)' /\ IsBuffer(m1, Plain)'
      BY <1>5, RingsAreBuffers
    <2> QED BY <1>1, <2>1 DEF DataIInv, DataTypeOK, FillOther, dispatchVars
  <1> QED BY <1>5, <1>6, <1>7, <1>8 DEF DataIInv

\* The callback is installed.
LEMMA SetFusionCallbackIInv ==
  ASSUME DataIInv, SetFusionCallback
  PROVE  DataIInv'
  <1>1. RingTypes' /\ RingInv' /\ FusedInOrder' /\ CursorInv'
    BY DEF DataIInv, RingTypes, RingInv, FusedInOrder, CursorInv, SetFusionCallback,
           QueueSize, ReadBuffer
  <1>2. CallbackInv' /\ OrderInv'
    BY DEF DataIInv, CallbackInv, OrderInv, SetFusionCallback, dispatchVars
  <1>3. DataTypeOK'
    <2>1. IsBuffer(m0, Plain)' /\ IsBuffer(m1, Plain)'
      BY <1>1, RingsAreBuffers
    <2> QED BY <2>1 DEF DataIInv, DataTypeOK, SetFusionCallback, dispatchVars
  <1> QED BY <1>1, <1>2, <1>3 DEF DataIInv

\* What TryFetch finds: the message at the cursor, or the newest one when there
\* is no cursor or its message has been overwritten.
LEMMA FetchedMessage ==
  ASSUME DataIInv, TryFetch
  PROVE  \E i \in 1 .. Len(sent) :
           /\ next_msg_index' = i + 1 /\ got' = sent[i] /\ sent' = sent
           /\ next_msg_index <= i
           /\ i = next_msg_index \/ next_msg_index = 0
                \/ Len(sent) - next_msg_index >= QueueSize
  <1> DEFINE b == ReadBuffer
             x == next_msg_index
             i == FetchIndex(b, x)
             h == b.head
             t == b.tail
             n == QueueSize
             L == Len(sent)
  <1>1. /\ h \in Nat /\ t \in Nat /\ x \in Nat /\ L \in Nat /\ n \in Nat
        /\ h <= t /\ t - h <= n /\ (h = 0 \/ t - h = n) /\ t = L
        /\ x <= L + 1
    BY QueueSizesAssumption
       DEF DataIInv, RingTypes, RingInv, RingOf, Rings, ReadBuffer, DataTypeOK, CursorInv
  <1>2. /\ \A pos \in h + 1 .. t : At(b, pos) = sent[pos]
        /\ t # 0 => At(b, t) = sent[t]
    BY DEF DataIInv, RingInv, RingOf
  <1>3. t # 0 /\ ~(x # 0 /\ x = t + 1) /\ x' = i + 1 /\ got' = At(b, i) /\ sent' = sent
    BY DEF TryFetch, Fetch, IsEmpty
  <1>4. i = (IF x = 0 \/ x < h + 1 THEN t ELSE x)
    BY DEF FetchIndex, HeadPos
  <1> HIDE DEF b, x, i, h, t, n, L
  <1>5. i \in 1 .. L /\ x <= i /\ (i = x \/ x = 0 \/ L - x >= n)
    BY <1>1, <1>3, <1>4
  <1>6. got' = sent[i]
    <2>1. CASE i = t
      BY <1>2, <1>3, <2>1
    <2>2. CASE i # t
      <3>1. i \in h + 1 .. t
        BY <1>1, <1>3, <1>4, <2>2
      <3> QED BY <1>2, <1>3, <3>1
    <2> QED BY <2>1, <2>2
  <1> QED BY <1>3, <1>5, <1>6 DEF x, n, L

\* TryFetch moves the cursor behind what it has found.
LEMMA TryFetchIInv ==
  ASSUME DataIInv, TryFetch
  PROVE  DataIInv'
  <1>1. PICK i \in 1 .. Len(sent) : next_msg_index' = i + 1
    BY FetchedMessage
  <1>2. RingTypes' /\ RingInv' /\ FusedInOrder' /\ CallbackInv' /\ OrderInv'
    BY DEF DataIInv, RingTypes, RingInv, FusedInOrder, CallbackInv, OrderInv, TryFetch,
           QueueSize, ReadBuffer, dispatchVars
  <1>3. CursorInv' /\ next_msg_index' \in Nat
    <2>1. Len(sent) \in Nat /\ sent' = sent
      BY DEF DataIInv, RingInv, TryFetch
    <2> QED BY <1>1, <2>1 DEF CursorInv
  <1>4. DataTypeOK'
    <2>1. IsBuffer(m0, Plain)' /\ IsBuffer(m1, Plain)'
      BY <1>2, RingsAreBuffers
    <2> QED BY <1>3, <2>1 DEF DataIInv, DataTypeOK, TryFetch, dispatchVars
  <1> QED BY <1>2, <1>3, <1>4 DEF DataIInv

\* Every step keeps the invariant.
LEMMA NextDataIInv == DataIInv /\ [DataNext]_dataVars => DataIInv'
  <1> SUFFICES ASSUME DataIInv, [DataNext]_dataVars PROVE DataIInv'
    OBVIOUS
  <1>1. ASSUME NEW d \in Dispatchers, FillPlain(d) PROVE DataIInv'
    BY <1>1, FillPlainIInv
  <1>2. ASSUME NEW d \in Dispatchers, EnterCallback(d) PROVE DataIInv'
    BY <1>2, EnterCallbackIInv
  <1>3. ASSUME NEW d \in Dispatchers, DropUnpaired(d) PROVE DataIInv'
    BY <1>3, DropUnpairedIInv
  <1>4. ASSUME NEW d \in Dispatchers, Pair(d) PROVE DataIInv'
    BY <1>4, PairIInv
  <1>5. ASSUME NEW d \in Dispatchers, StoreTuple(d) PROVE DataIInv'
    BY <1>5, StoreTupleIInv
  <1>6. CASE FillOther
    BY <1>6, FillOtherIInv
  <1>7. CASE SetFusionCallback
    BY <1>7, SetFusionCallbackIInv
  <1>8. CASE TryFetch
    BY <1>8, TryFetchIInv
  <1>9. CASE UNCHANGED dataVars
    BY <1>9 DEF dataVars, dispatchVars, DataIInv, DataTypeOK, IsBuffer, RingTypes,
                RingInv, CallbackInv, OrderInv, FusedInOrder, CursorInv, QueueSize,
                ReadBuffer
  <1> QED BY <1>1, <1>2, <1>3, <1>4, <1>5, <1>6, <1>7, <1>8, <1>9 DEF DataNext

\* The invariant holds in every reachable state.
LEMMA SpecDataIInv == DataSpec => []DataIInv
  BY InitDataIInv, NextDataIInv, PTL DEF DataSpec

-----------------------------------------------------------------------------
(* What the invariant says of the readers *)

\* FetchMulti returns the newest values, as many as were asked for, the ring keeps
\* and there are.
LEMMA FetchMultiOfRing ==
  ASSUME NEW q \in Nat, NEW V, NEW b \in Rings(q, V), NEW s \in Seq(V),
         RingOf(b, q, s), NEW n \in Nat
  PROVE  LET k == CHOOSE j \in {n, q, Len(s)} : j <= n /\ j <= q /\ j <= Len(s)
         IN  FetchMulti(b, n).vec = SubSeq(s, Len(s) - k + 1, Len(s))
  <1> DEFINE L == Len(s)
             P(j) == j <= n /\ j <= q /\ j <= L
             k == CHOOSE j \in {n, q, L} : P(j)
             num == IF Size(b) < n THEN Size(b) ELSE n
             vec == [i \in 1 .. num |-> At(b, b.tail - num + i)]
             sub == SubSeq(s, L - k + 1, L)
  <1>1. /\ L \in Nat /\ b.head \in Nat /\ b.tail = L /\ b.head <= L
        /\ (b.head = 0 \/ L - b.head = q) /\ L - b.head <= q
        /\ \A pos \in b.head + 1 .. L : At(b, pos) = s[pos]
    BY DEF RingOf, Rings
  <1>2. k \in {n, q, L} /\ k <= n /\ k <= q /\ k <= L
    <2> HIDE DEF L
    <2>1. \E j \in {n, q, L} : P(j)
      BY <1>1
    <2> HIDE DEF P
    <2>2. k \in {n, q, L} /\ P(k)
      BY <2>1
    <2> QED BY <2>2 DEF P
  <1>3. Size(b) = L - b.head
    BY <1>1 DEF Size
  <1>4. num = IF L - b.head < n THEN L - b.head ELSE n
    BY <1>3
  <1> HIDE DEF k, num, L
  <1>5. k = num /\ k \in Nat /\ k <= L - b.head
    BY <1>1, <1>2, <1>4
  <1>6. L - k + 1 \in 1 .. L + 1 /\ L - (L - k + 1) + 1 = k
    BY <1>1, <1>2, <1>5
  <1>7. /\ sub \in Seq(V) /\ Len(sub) = k
        /\ \A i \in 1 .. k : sub[i] = s[L - k + i]
    <2> DEFINE m == L - k + 1
    <2>1. m \in 1 .. Len(s) + 1 /\ L \in m - 1 .. Len(s) /\ L - m + 1 = k
      BY <1>1, <1>2, <1>5, <1>6 DEF L
    <2>2. \A i \in 1 .. k : m + i - 1 = L - k + i
      BY <1>1, <1>5
    <2> HIDE DEF m
    <2>3. /\ SubSeq(s, m, L) \in Seq(V)
          /\ Len(SubSeq(s, m, L)) = k
          /\ \A i \in 1 .. k : SubSeq(s, m, L)[i] = s[m + i - 1]
      BY <2>1, <1>1, SubSeqProperties
    <2> QED BY <2>2, <2>3 DEF m
  <1>8. \A i \in 1 .. k : At(b, b.tail - num + i) = s[L - k + i] /\ s[L - k + i] \in V
    <2> TAKE i \in 1 .. k
    <2>1. L - k + i \in b.head + 1 .. L /\ L - k + i \in 1 .. L
      BY <1>1, <1>2, <1>5
    <2>2. b.tail - num + i = L - k + i
      BY <1>1, <1>5
    <2> QED BY <1>1, <2>1, <2>2 DEF L
  <1>9. vec \in Seq(V) /\ Len(vec) = k /\ \A i \in 1 .. k : vec[i] = s[L - k + i]
    <2>1. vec \in [1 .. k -> V]
      BY <1>5, <1>8
    <2>2. \A i \in 1 .. k : vec[i] = s[L - k + i]
      BY <1>5, <1>8
    <2> HIDE DEF vec
    <2> QED BY <1>5, <2>1, <2>2
  <1> HIDE DEF vec, sub
  <1>10. \A i \in 1 .. k : vec[i] = sub[i]
    BY <1>7, <1>9
  <1>11. vec = sub
    BY <1>7, <1>9, <1>10, <1>5, SeqEqual
  <1>12. FetchMulti(b, n).vec = vec
    BY DEF FetchMulti, vec, num
  <1> QED BY <1>11, <1>12 DEF sub, k, L

\* The ring of the visitor holds the newest messages, each in its slot, and
\* Latest and FetchMulti return the newest part of what has been stored: BufferInv
\* of channel_buffer.h and cache_buffer.h, for every queue size.
THEOREM BufferSound == DataSpec => []BufferInv
  <1>1. DataIInv => BufferInv
    <2> SUFFICES ASSUME DataIInv PROVE BufferInv
      OBVIOUS
    <2> DEFINE V == IF fused THEN Tuples ELSE Plain
               b == ReadBuffer
               q == QueueSize
    <2>1. /\ q \in Nat /\ b \in Rings(q, V) /\ sent \in Seq(V) /\ RingOf(b, q, sent)
      BY QueueSizesAssumption DEF DataIInv, RingTypes, RingInv, ReadBuffer
    <2>2. SlotsHoldNewest
      BY <2>1 DEF SlotsHoldNewest, RingOf
    <2>3. ASSUME sent # <<>>
          PROVE  /\ Latest(b) = [ok |-> TRUE, m |-> sent[Len(sent)]]
                 /\ ~IsEmpty(b)
      <3> HIDE DEF V, b, q
      <3>1. Latest(b).ok /\ Latest(b).m = sent[Len(sent)]
        BY <2>1, <2>3, LatestOfRing
      <3>2. Latest(b).ok <=> ~IsEmpty(b)
        BY DEF Latest
      <3>3. Latest(b).m = At(b, b.tail)
        BY DEF Latest
      <3>4. ~IsEmpty(b) /\ At(b, b.tail) = sent[Len(sent)]
        BY <3>1, <3>2, <3>3
      <3>5. (~IsEmpty(b)) = TRUE
        BY <3>4
      <3> QED BY <3>4, <3>5 DEF Latest
    <2>4. ASSUME sent # <<>>, NEW n \in 0 .. q + 1
          PROVE  LET k == CHOOSE j \in {n, q, Len(sent)} :
                            j <= n /\ j <= q /\ j <= Len(sent)
                 IN  FetchMulti(b, n) =
                       [ok |-> TRUE,
                        vec |-> SubSeq(sent, Len(sent) - k + 1, Len(sent))]
      <3> HIDE DEF V, b, q
      <3>1. n \in Nat
        BY <2>1
      <3> DEFINE k == CHOOSE j \in {n, q, Len(sent)} :
                        j <= n /\ j <= q /\ j <= Len(sent)
                 sub == SubSeq(sent, Len(sent) - k + 1, Len(sent))
      <3>2. FetchMulti(b, n).vec = sub
        BY <2>1, <3>1, FetchMultiOfRing
      <3> HIDE DEF sub
      <3>3. (~IsEmpty(b)) = TRUE
        BY <2>3, <2>4
      <3>4. FetchMulti(b, n) = [ok |-> TRUE, vec |-> FetchMulti(b, n).vec]
        BY <3>3 DEF FetchMulti
      <3> QED BY <3>2, <3>4 DEF sub
    <2>5. ObserversSeeNewest
      BY <2>3, <2>4 DEF ObserversSeeNewest
    <2> QED BY <2>2, <2>5 DEF BufferInv, DataIInv
  <1> QED BY <1>1, SpecDataIInv, PTL

\* The tuples that AllLatest stores are ordered in both channels, for every number
\* of dispatching threads: the mutex of the first channel's buffer is held
\* from the call of the callback until the tuple is stored.
THEOREM FusionSound == DataSpec => []FusedInOrder
  <1>1. DataIInv => FusedInOrder
    BY DEF DataIInv
  <1> QED BY <1>1, SpecDataIInv, PTL

\* TryFetch passes over messages only when the reader was at least a queue
\* behind; it then jumps to the newest message, also over messages that the
\* ring still holds.
THEOREM OverrunSound == DataSpec => SkipsOnlyWhenOverrun
  <1> DEFINE A == next_msg_index' > next_msg_index + 1 /\ next_msg_index # 0
                    => Len(sent) - next_msg_index >= QueueSize
  <1>1. DataIInv /\ [DataNext]_dataVars => [A]_dataVars
    <2> SUFFICES ASSUME DataIInv, DataNext PROVE A
      OBVIOUS
    <2>1. next_msg_index \in Nat
      BY DEF DataIInv, DataTypeOK
    <2>2. CASE TryFetch
      <3>1. PICK i \in 1 .. Len(sent) :
               /\ next_msg_index' = i + 1
               /\ i = next_msg_index \/ next_msg_index = 0
                    \/ Len(sent) - next_msg_index >= QueueSize
        BY <2>2, FetchedMessage
      <3> QED BY <2>1, <3>1
    <2>3. CASE next_msg_index' = next_msg_index
      BY <2>1, <2>3
    <2>4. TryFetch \/ next_msg_index' = next_msg_index
      BY DEF DataNext, FillPlain, EnterCallback, DropUnpaired, Pair, StoreTuple,
             FillOther, SetFusionCallback
    <2> QED BY <2>2, <2>3, <2>4
  <1> QED BY <1>1, SpecDataIInv, PTL DEF DataSpec, SkipsOnlyWhenOverrun

\* The visitor implements the lossy channel: what TryFetch returns was dispatched,
\* in this order, and nothing is returned twice.
THEOREM ChannelRefinesLossy == DataSpec => ImplementsLossyChannel
  <1>1. DataInit => Channel!Init
    BY DEF DataInit, Channel!Init
  <1>2. DataIInv /\ [DataNext]_dataVars => [Channel!Next]_(Channel!vars)
    <2> SUFFICES ASSUME DataIInv, [DataNext]_dataVars
                 PROVE  [Channel!Next]_(Channel!vars)
      OBVIOUS
    <2>1. ASSUME UNCHANGED <<sent, next_msg_index, got>>
          PROVE  UNCHANGED Channel!vars
      BY <2>1 DEF Channel!vars
    <2>2. ASSUME NEW v \in Messages, sent' = Append(sent, v),
                 UNCHANGED <<next_msg_index, got>>
          PROVE  Channel!Next
      BY <2>2 DEF Channel!Next, Channel!Send
    <2>3. ASSUME NEW d \in Dispatchers, FillPlain(d)
          PROVE  [Channel!Next]_(Channel!vars)
      <3>1. <<count0 + 1>> \in Messages
        BY <2>3, MaxMessagesAssumption
           DEF FillPlain, Messages, Plain, Numbers, DataIInv, DataTypeOK
      <3>2. CASE fused
        BY <2>1, <2>3, <3>2 DEF FillPlain
      <3>3. CASE ~fused
        BY <2>2, <2>3, <3>1, <3>3 DEF FillPlain
      <3> QED BY <3>2, <3>3
    <2>4. ASSUME NEW d \in Dispatchers, StoreTuple(d)
          PROVE  [Channel!Next]_(Channel!vars)
      <3>1. /\ count0 \in Numbers /\ msg[d] = <<count0>> /\ partner[d] \in Plain
        BY <2>4 DEF StoreTuple, DataIInv, CallbackInv
      <3>2. PICK k \in Numbers : partner[d] = <<k>>
        BY <3>1 DEF Plain
      <3>3. msg[d] \o partner[d] = <<count0, k>>
        BY <3>1, <3>2, PairOfMessages DEF Numbers
      <3>4. msg[d] \o partner[d] \in Messages
        BY <3>1, <3>2, <3>3 DEF Messages
      <3> QED BY <2>2, <2>4, <3>4 DEF StoreTuple
    <2>5. CASE TryFetch
      <3>1. PICK i \in 1 .. Len(sent) :
               /\ next_msg_index' = i + 1 /\ got' = sent[i] /\ sent' = sent
               /\ next_msg_index <= i
        BY <2>5, FetchedMessage
      <3>2. next_msg_index \in Nat /\ Len(sent) \in Nat
        BY DEF DataIInv, DataTypeOK
      <3>3. (IF next_msg_index' = 0 THEN 0 ELSE next_msg_index' - 1) = i
        BY <3>1, <3>2
      <3>4. i \in (IF next_msg_index = 0 THEN 0 ELSE next_msg_index - 1) + 1 .. Len(sent)
        BY <3>1, <3>2
      <3>5. Channel!Receive
        BY <3>1, <3>3, <3>4 DEF Channel!Receive
      <3> QED BY <3>5 DEF Channel!Next
    <2>6. \/ UNCHANGED <<sent, next_msg_index, got>>
          \/ \E d \in Dispatchers : FillPlain(d) \/ StoreTuple(d)
          \/ TryFetch
      BY DEF DataNext, EnterCallback, DropUnpaired, Pair, FillOther,
             SetFusionCallback, dataVars
    <2> QED BY <2>1, <2>3, <2>4, <2>5, <2>6
  <1> QED BY <1>1, <1>2, SpecDataIInv, PTL
          DEF DataSpec, ImplementsLossyChannel, Channel!Spec

=============================================================================
