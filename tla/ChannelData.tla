---------------------------- MODULE ChannelData ----------------------------
(***************************************************************************)
(* The data of one visitor: threads dispatch messages into its buffers     *)
(* and one routine takes them out with TryFetch (cyber/data).              *)
(*                                                                         *)
(* With one channel the visitor reads the channel's own buffer.  With more *)
(* channels AllLatest installs a callback on the first one: a message of   *)
(* channel 0 is paired with the newest message of the others and the tuple *)
(* goes into a third buffer, which the visitor reads.  One other channel   *)
(* stands for the others.  A message is the one-element sequence of its    *)
(* dispatch number, a tuple the sequence of both numbers.                  *)
(***************************************************************************)
EXTENDS CacheBuffer, FiniteSets

CONSTANTS
    Dispatchers,    \* threads that dispatch on channel 0
    FusedChoices,   \* whether the visitor has a second channel
    QueueSizes,     \* values of queue_size; both channels have the same
    MaxMessages,    \* bound: messages per channel
    None

ASSUME FusedAssumption == FusedChoices \subseteq BOOLEAN
ASSUME QueueSizesAssumption == QueueSizes \subseteq Nat
ASSUME MaxMessagesAssumption == MaxMessages \in Nat
ASSUME NoneAssumption == None \notin Dispatchers

VARIABLES
    m0, m1,             \* the buffers of the channels
    fusion,             \* buffer_fusion_
    fused,              \* the visitor has a second channel
    fusion_callback,    \* SetFusionCallback has been called on m0
    next_msg_index,     \* the visitor's cursor
    mutex,              \* holder of m0's mutex, or None
    pc, msg, partner,   \* per dispatcher: its step, its message, the pairing
    count0, count1,     \* messages dispatched on each channel
    sent,               \* history: what was put where the visitor reads
    got                 \* the message of the last successful TryFetch

dispatchVars == <<mutex, pc, msg, partner>>
dataVars == <<m0, m1, fusion, fused, fusion_callback, next_msg_index, dispatchVars,
          count0, count1, sent, got>>

DataInit ==
    /\ \E size \in QueueSizes :
         /\ m0 = NewCacheBuffer(size)
         /\ m1 = NewCacheBuffer(size)
         /\ fusion = NewCacheBuffer(m0.capacity - 1)
    /\ fused \in FusedChoices
    /\ fusion_callback = FALSE
    /\ next_msg_index = 0
    /\ mutex = None
    /\ pc = [d \in Dispatchers |-> "idle"]
    /\ msg = [d \in Dispatchers |-> Empty]
    /\ partner = [d \in Dispatchers |-> Empty]
    /\ count0 = 0 /\ count1 = 0
    /\ sent = <<>>
    /\ got = Empty

QueueSize == m0.capacity - 1

\* The buffer that TryFetch looks into.
ReadBuffer == IF fused THEN fusion ELSE m0

Goto(d, label) == pc' = [pc EXCEPT ![d] = label]

-----------------------------------------------------------------------------
(* Dispatch on channel 0, under the mutex of its buffer *)

\* Fill without a callback: the message stays in the channel's buffer.
FillPlain(d) ==
    /\ pc[d] = "idle" /\ mutex = None /\ count0 < MaxMessages
    /\ ~fusion_callback
    /\ m0' = Fill(m0, <<count0 + 1>>)
    /\ count0' = count0 + 1
    /\ sent' = IF fused THEN sent ELSE Append(sent, <<count0 + 1>>)
    /\ UNCHANGED <<fused, m1, fusion, fusion_callback, next_msg_index,
                   dispatchVars, count1, got>>

\* Fault: the buffer's mutex is not taken.
EnterCallbackUnlocked(d) ==
    /\ pc[d] = "idle" /\ count0 < MaxMessages
    /\ fusion_callback
    /\ msg' = [msg EXCEPT ![d] = <<count0 + 1>>]
    /\ count0' = count0 + 1
    /\ Goto(d, "latest")
    /\ UNCHANGED <<fused, m0, m1, fusion, fusion_callback, next_msg_index,
                   mutex, partner, count1, sent, got>>

\* Fill with a callback: the mutex stays locked while the callback runs.
EnterCallback(d) ==
    /\ pc[d] = "idle" /\ mutex = None /\ count0 < MaxMessages
    /\ fusion_callback
    /\ mutex' = d
    /\ msg' = [msg EXCEPT ![d] = <<count0 + 1>>]
    /\ count0' = count0 + 1
    /\ Goto(d, "latest")
    /\ UNCHANGED <<fused, m0, m1, fusion, fusion_callback, next_msg_index,
                   partner, count1, sent, got>>

\* The callback has no use for the message or has stored it: back in Fill,
\* the locals are gone and the mutex is unlocked.
LeaveCallback(d) ==
    /\ mutex' = None
    /\ msg' = [msg EXCEPT ![d] = Empty]
    /\ partner' = [partner EXCEPT ![d] = Empty]
    /\ Goto(d, "idle")

\* Nothing has arrived on the other channel yet: the message is dropped.
DropUnpaired(d) ==
    /\ pc[d] = "latest"
    /\ ~Latest(m1).ok
    /\ LeaveCallback(d)
    /\ UNCHANGED <<fused, m0, m1, fusion, fusion_callback, next_msg_index,
                   count0, count1, sent, got>>

\* Latest of the other channel, under that buffer's mutex only.
Pair(d) ==
    /\ pc[d] = "latest"
    /\ Latest(m1).ok
    /\ partner' = [partner EXCEPT ![d] = Latest(m1).m]
    /\ Goto(d, "store")
    /\ UNCHANGED <<fused, m0, m1, fusion, fusion_callback, next_msg_index,
                   mutex, msg, count0, count1, sent, got>>

\* Fill of the fusion buffer under its own mutex.
StoreTuple(d) ==
    /\ pc[d] = "store"
    /\ fusion' = Fill(fusion, msg[d] \o partner[d])
    /\ sent' = Append(sent, msg[d] \o partner[d])
    /\ LeaveCallback(d)
    /\ UNCHANGED <<fused, m0, m1, fusion_callback, next_msg_index, count0,
                   count1, got>>

\* Dispatch on the other channel.
FillOther ==
    /\ fused /\ count1 < MaxMessages
    /\ m1' = Fill(m1, <<count1 + 1>>)
    /\ count1' = count1 + 1
    /\ UNCHANGED <<fused, m0, fusion, fusion_callback, next_msg_index,
                   dispatchVars, count0, sent, got>>

\* The constructor of AllLatest, after AddBuffer has made m0 known.
SetFusionCallback ==
    /\ fused /\ ~fusion_callback
    /\ fusion_callback' = TRUE
    /\ UNCHANGED <<fused, m0, m1, fusion, next_msg_index, dispatchVars, count0,
                   count1, sent, got>>

-----------------------------------------------------------------------------
\* Fault: the cursor stays on the message that was fetched.
TryFetchAgain ==
    LET f == Fetch(ReadBuffer, next_msg_index) IN
    /\ f.ok
    /\ next_msg_index' = f.index
    /\ got' = f.m
    /\ UNCHANGED <<fused, m0, m1, fusion, fusion_callback, dispatchVars,
                   count0, count1, sent>>

\* TryFetch finds a message and moves the cursor behind it.
TryFetch ==
    LET f == Fetch(ReadBuffer, next_msg_index) IN
    /\ f.ok
    /\ next_msg_index' = f.index + 1
    /\ got' = f.m
    /\ UNCHANGED <<fused, m0, m1, fusion, fusion_callback, dispatchVars,
                   count0, count1, sent>>

DataNext ==
    \/ \E d \in Dispatchers :
         \/ FillPlain(d) \/ EnterCallback(d)
         \/ DropUnpaired(d) \/ Pair(d) \/ StoreTuple(d)
    \/ FillOther \/ SetFusionCallback \/ TryFetch

DataSpec == DataInit /\ [][DataNext]_dataVars

-----------------------------------------------------------------------------
Numbers == 1 .. MaxMessages
Plain == {<<n>> : n \in Numbers}
Messages == (Numbers \X Numbers) \cup Plain

IsBuffer(b, values) ==
    /\ b.capacity - 1 \in QueueSizes
    /\ b.head \in Nat /\ b.tail \in Nat
    /\ b.slot \in [0 .. QueueSize -> values \cup {Empty}]

DataTypeOK ==
    /\ IsBuffer(m0, Plain) /\ IsBuffer(m1, Plain)
    /\ fused \in BOOLEAN /\ fusion_callback \in BOOLEAN
    /\ next_msg_index \in Nat
    /\ mutex \in Dispatchers \cup {None}
    /\ pc \in [Dispatchers -> {"idle", "latest", "store"}]
    /\ msg \in [Dispatchers -> Plain \cup {Empty}]
    /\ partner \in [Dispatchers -> Plain \cup {Empty}]
    /\ count0 \in 0 .. MaxMessages /\ count1 \in 0 .. MaxMessages
    /\ sent \in Seq(Messages)

\* The ring holds the newest QueueSize messages, each in the slot its
\* position names: wrapping round never mixes up two positions.
SlotsHoldNewest ==
    LET b == ReadBuffer IN
    /\ b.tail = Len(sent)
    /\ \A pos \in b.head + 1 .. b.tail : At(b, pos) = sent[pos]

\* Latest and FetchMulti return the newest messages in order, as many as
\* were asked for, the queue keeps and there are.
ObserversSeeNewest ==
    sent # <<>> =>
      /\ Latest(ReadBuffer) = [ok |-> TRUE, m |-> sent[Len(sent)]]
      /\ \A n \in 0 .. QueueSize + 1 :
           LET k == CHOOSE j \in {n, QueueSize, Len(sent)} :
                      j <= n /\ j <= QueueSize /\ j <= Len(sent)
           IN FetchMulti(ReadBuffer, n) =
                [ok |-> TRUE,
                 vec |-> SubSeq(sent, Len(sent) - k + 1, Len(sent))]

\* The ring is sound, and what is read from it is the newest part of what has
\* been stored.
BufferInv == DataTypeOK /\ SlotsHoldNewest /\ ObserversSeeNewest

\* Tuples never go back in time: the fused stream is ordered in both
\* channels, though messages of the other channel arrive at any moment.
FusedInOrder ==
    fused => \A i, j \in 1 .. Len(sent) :
               i < j => sent[i][1] < sent[j][1] /\ sent[i][2] <= sent[j][2]

\* A reader that keeps up misses nothing: TryFetch passes over messages only
\* if, since the previous fetch, more than QueueSize newer ones came.  (It
\* then goes on at the newest, also over messages that the ring still holds.)
SkipsOnlyWhenOverrun ==
    [][next_msg_index' > next_msg_index + 1 /\ next_msg_index # 0
         => Len(sent) - next_msg_index >= QueueSize]_dataVars

\* The visitor is a lossy, ordered, duplicate-free channel.
Channel == INSTANCE LossyChannel WITH
             last <- IF next_msg_index = 0 THEN 0 ELSE next_msg_index - 1
ImplementsLossyChannel == Channel!Spec

=============================================================================
