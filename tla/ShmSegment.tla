----------------------------- MODULE ShmSegment -----------------------------
(***************************************************************************)
(* The shared-memory segment of one channel: writers in several processes  *)
(* put messages into its blocks, readers take them out after a             *)
(* notification (cyber/transport/shm with ShmTransmitter and               *)
(* ShmDispatcher).                                                         *)
(*                                                                         *)
(* A segment cannot grow.  A writer with a message that is too large marks *)
(* the segment (need_remap_), removes its key and creates a larger one;    *)
(* the segments ever created are numbered.  Sizes are the size classes of  *)
(* ShmConf, as numbers; larger classes have fewer blocks.  The memory of a *)
(* new segment is zero until its creator has constructed the State and the *)
(* Blocks in it.  The buffers of the blocks follow one another, after all  *)
(* lock words: a message that is larger than its block runs into the next  *)
(* ones and, past the end of the segment, may end the process.             *)
(* Notifications reach a reader in order.                                  *)
(***************************************************************************)
EXTENDS Integers, Sequences, FiniteSets

CONSTANTS
    Writers,            \* processes that transmit, one Segment object each
    Readers,            \* processes that dispatch, one Segment object each
    Sizes,              \* size classes of segments
    Messages,           \* sizes of messages
    BlockNum,           \* blocks of a segment of each size class
    kMaxTryLockTimes,   \* attempts of a reader to lock a block
    MaxSegments,        \* bound: segments created
    MaxWrites           \* bound: messages transmitted

ASSUME ProcessesAssumption ==
    IsFiniteSet(Writers) /\ IsFiniteSet(Readers) /\ Writers \cap Readers = {}
ASSUME SizesAssumption ==
    /\ Sizes \subseteq Nat \ {0}
    /\ \E s \in Sizes : \A t \in Sizes : t <= s
ASSUME MessagesAssumption == Messages \subseteq Nat
\* A larger size class never has more blocks.
ASSUME BlockNumAssumption ==
    /\ BlockNum \in [Sizes -> Nat \ {0}]
    /\ \A s, t \in Sizes : s <= t => BlockNum[t] <= BlockNum[s]
ASSUME TriesAssumption == kMaxTryLockTimes \in Nat \ {0}
ASSUME BoundsAssumption == MaxSegments \in Nat /\ MaxWrites \in Nat

Processes == Writers \cup Readers
Smallest == CHOOSE s \in Sizes : \A t \in Sizes : s <= t
MaxBlocks == CHOOSE n \in {BlockNum[s] : s \in Sizes} :
               \A s \in Sizes : BlockNum[s] <= n
Blocks == 0 .. MaxBlocks - 1

kRWLockFree     == 0
kWriteExclusive == -1
Torn == -1          \* content of a block that is being written
None == 0           \* no segment

VARIABLES
    linked,         \* the segment that the channel's key names, or None
    created,        \* number of segments created so far
    raw,            \* segments whose State and Blocks are not constructed
    ceiling,        \* ceiling_msg_size_ of each segment, 0 in zeroed memory
    need_remap,     \* need_remap_ of each segment
    seq,            \* seq_ of each segment, modulo MaxBlocks
    lock_num,       \* lock_num_ of each block of each segment
    content,        \* number of the message in each block, 0 or Torn
    mapped,         \* the segment a process has mapped (init_), or None
    conf,           \* size class of a process's conf_
    pc,
    index,          \* block index a process works with
    size,           \* size class of a writer's message
    number,         \* number of the message a writer has written
    former,         \* what was in the block that a writer has locked
    seen, tries,    \* locals of TryLockForRead
    notices,        \* notifications, in the order they were sent
    taken,          \* how many of them a reader has taken
    written,        \* number of messages serialised so far, in vain or not
    killed,         \* writers that ended in the middle of a block
    early,          \* history: segments opened while they were raw
    overrun,        \* history: segments with a message larger than their blocks
    growers         \* history: writers that have replaced a segment

segVars == <<linked, created, raw, ceiling, need_remap, seq, lock_num, content>>
procVars == <<mapped, conf, pc, index>>
writeVars == <<size, number, former, written, killed>>
readVars == <<seen, tries, taken>>
historyVars == <<early, overrun, growers>>
vars == <<segVars, procVars, writeVars, readVars, notices, historyVars>>

Segments == 1 .. MaxSegments
Announcements == [index : Blocks, segment : Segments, number : 1 .. MaxWrites]
WriterPcs == {"idle", "open", "construct", "check", "size", "remove", "reopen",
              "reconstruct", "acquire", "write", "notify", "dead"}
ReaderPcs == {"idle", "index", "check", "lock", "cas", "read"}

Init ==
    /\ linked = None /\ created = 0 /\ raw = {}
    /\ ceiling = [g \in Segments |-> 0]
    /\ need_remap = [g \in Segments |-> FALSE]
    /\ seq = [g \in Segments |-> 0]
    /\ lock_num = [g \in Segments |-> [b \in Blocks |-> kRWLockFree]]
    /\ content = [g \in Segments |-> [b \in Blocks |-> 0]]
    /\ mapped = [p \in Processes |-> None]
    /\ conf = [p \in Processes |-> Smallest]
    /\ pc = [p \in Processes |-> "idle"]
    /\ index = [p \in Processes |-> 0]
    /\ size = [w \in Writers |-> 0]
    /\ number = [w \in Writers |-> 0] /\ former = [w \in Writers |-> 0]
    /\ seen = [r \in Readers |-> 0]
    /\ tries = [r \in Readers |-> 0]
    /\ notices = <<>>
    /\ taken = [r \in Readers |-> 0]
    /\ written = 0 /\ killed = {}
    /\ early = {} /\ overrun = {} /\ growers = {}

Goto(p, label) == pc' = [pc EXCEPT ![p] = label]

-----------------------------------------------------------------------------
(* Opening the segment *)

\* The smallest class that holds n, or the largest there is.
GetCeilingMessageSize(n) ==
    IF \E s \in Sizes : n <= s
    THEN CHOOSE s \in Sizes : n <= s /\ \A t \in Sizes : n <= t => s <= t
    ELSE CHOOSE s \in Sizes : \A t \in Sizes : t <= s

\* conf_.Update with the ceiling found in the State.
ConfOf(g) == GetCeilingMessageSize(ceiling[g])

\* OpenOnly succeeds.
Attach(p) ==
    /\ linked # None
    /\ mapped' = [mapped EXCEPT ![p] = linked]
    /\ conf' = [conf EXCEPT ![p] = ConfOf(linked)]
    /\ early' = IF linked \in raw THEN early \cup {linked} ELSE early

\* OpenOrCreate finds the key in use: OpenOnly.
OpenExisting(w, from, next) ==
    /\ pc[w] = from
    /\ Attach(w)
    /\ Goto(w, next)
    /\ UNCHANGED <<segVars, index, writeVars, readVars, notices, overrun,
                   growers>>

\* OpenOrCreate creates the segment.
Create(w, from, next) ==
    /\ pc[w] = from
    /\ linked = None /\ created < MaxSegments
    /\ created' = created + 1
    /\ linked' = created'
    /\ raw' = raw \cup {created'}
    /\ mapped' = [mapped EXCEPT ![w] = created']
    /\ Goto(w, next)
    /\ UNCHANGED <<ceiling, need_remap, seq, lock_num, content, conf, index,
                   writeVars, readVars, notices, historyVars>>

\* The State and the Blocks are constructed in the memory of the segment.
Construct(w, from, next) ==
    LET g == mapped[w] IN
    /\ pc[w] = from
    /\ raw' = raw \ {g}
    /\ ceiling' = [ceiling EXCEPT ![g] = conf[w]]
    /\ need_remap' = [need_remap EXCEPT ![g] = FALSE]
    /\ seq' = [seq EXCEPT ![g] = 0]
    /\ lock_num' = [lock_num EXCEPT ![g] = [b \in Blocks |-> kRWLockFree]]
    /\ content' = [content EXCEPT ![g] = [b \in Blocks |-> 0]]
    /\ Goto(w, next)
    /\ UNCHANGED <<linked, created, mapped, conf, index, writeVars, readVars,
                   notices, historyVars>>

-----------------------------------------------------------------------------
(* Transmit: AcquireBlockToWrite, serialise, ReleaseWrittenBlock, Notify *)

\* Writers that have begun a Transmit and not written yet.
Unwritten == {w \in Writers : pc[w] \notin {"idle", "notify", "dead"}}

Transmit(w) ==
    /\ pc[w] = "idle" /\ written + Cardinality(Unwritten) < MaxWrites
    /\ \E n \in Messages : size' = [size EXCEPT ![w] = n]
    /\ Goto(w, IF mapped[w] = None THEN "open" ELSE "check")
    /\ UNCHANGED <<segVars, mapped, conf, index, number, former, written,
                   killed, readVars, notices, historyVars>>

\* need_remap() is false.
Current(p, next) ==
    /\ pc[p] = "check"
    /\ ~need_remap[mapped[p]]
    /\ Goto(p, next)
    /\ UNCHANGED <<segVars, mapped, conf, index, writeVars, readVars, notices,
                   historyVars>>

\* need_remap() is true: Remap opens what the key names now.
Remap(p, next) ==
    /\ pc[p] = "check"
    /\ need_remap[mapped[p]]
    /\ Attach(p)
    /\ Goto(p, next)
    /\ UNCHANGED <<segVars, index, writeVars, readVars, notices, overrun,
                   growers>>

\* need_remap() is true, and the key names nothing: OpenOnly fails.
RemapFails(p, next) ==
    /\ pc[p] = "check"
    /\ need_remap[mapped[p]]
    /\ linked = None
    /\ mapped' = [mapped EXCEPT ![p] = None]
    /\ Goto(p, next)
    /\ UNCHANGED <<segVars, conf, index, writeVars, readVars, notices,
                   historyVars>>

\* The message fits; "segment update failed" if Remap did.
Fits(w) ==
    /\ pc[w] = "size"
    /\ size[w] <= conf[w]
    /\ Goto(w, IF mapped[w] = None THEN "idle" ELSE "acquire")
    /\ UNCHANGED <<segVars, mapped, conf, index, writeVars, readVars, notices,
                   historyVars>>

\* Fault: the segment is replaced without being marked.
MarkForgotten(w) ==
    /\ pc[w] = "size"
    /\ size[w] > conf[w] /\ mapped[w] # None
    /\ mapped' = [mapped EXCEPT ![w] = None]
    /\ growers' = growers \cup {w}
    /\ Goto(w, "remove")
    /\ UNCHANGED <<segVars, conf, index, writeVars, readVars, notices, early,
                   overrun>>

\* Recreate: mark the segment and let go of it.
Mark(w) ==
    /\ pc[w] = "size"
    /\ size[w] > conf[w] /\ mapped[w] # None
    /\ need_remap' = [need_remap EXCEPT ![mapped[w]] = TRUE]
    /\ mapped' = [mapped EXCEPT ![w] = None]
    /\ growers' = growers \cup {w}
    /\ Goto(w, "remove")
    /\ UNCHANGED <<linked, created, raw, ceiling, seq, lock_num, content, conf,
                   index, writeVars, readVars, notices, early,
                   overrun>>

\* Recreate after a failed Remap: state_ is null, and the process dies.
MarkCrashes(w) ==
    /\ pc[w] = "size"
    /\ size[w] > conf[w] /\ mapped[w] = None
    /\ Goto(w, "dead")
    /\ UNCHANGED <<segVars, mapped, conf, index, writeVars, readVars, notices,
                   historyVars>>

\* Recreate: free the key, whatever it names now, and choose the new size.
Remove(w) ==
    /\ pc[w] = "remove"
    /\ linked' = None
    /\ conf' = [conf EXCEPT ![w] = GetCeilingMessageSize(size[w])]
    /\ Goto(w, "reopen")
    /\ UNCHANGED <<created, raw, ceiling, need_remap, seq, lock_num, content,
                   mapped, index, writeVars, readVars, notices, historyVars>>

NextSeq(g) == seq' = [seq EXCEPT ![g] = (@ + 1) % MaxBlocks]

\* GetNextWritableBlockIndex: fetch_add on seq_ and TryLockForWrite.  The
\* fetch_add commutes with every step of the others before the exchange.
TryLockForWrite(w) ==
    LET g == mapped[w]
        b == seq[g] % BlockNum[conf[w]]
    IN
    /\ pc[w] = "acquire"
    /\ lock_num[g][b] = kRWLockFree
    /\ NextSeq(g)
    /\ lock_num' = [lock_num EXCEPT ![g][b] = kWriteExclusive]
    /\ content' = [content EXCEPT ![g][b] = Torn]
    /\ former' = [former EXCEPT ![w] = content[g][b]]
    /\ index' = [index EXCEPT ![w] = b]
    /\ Goto(w, "write")
    /\ UNCHANGED <<linked, created, raw, ceiling, need_remap, mapped, conf,
                   size, number, written, killed, readVars, notices,
                   historyVars>>

\* The block is in use: try the next one.
TryNextBlock(w) ==
    LET g == mapped[w] IN
    /\ pc[w] = "acquire"
    /\ lock_num[g][seq[g] % BlockNum[conf[w]]] # kRWLockFree
    /\ NextSeq(g)
    /\ UNCHANGED <<linked, created, raw, ceiling, need_remap, lock_num, content,
                   procVars, writeVars, readVars, notices, historyVars>>

\* The segment is smaller than the message: after Recreate another one was
\* opened (OpenOnly), or there is no class for the message.
TooLarge(w) == size[w] > conf[w]

\* The last block that the message may reach into: it is the outcome of the
\* memory that lies behind the block and of how much too large the message is.
Reach(w) == IF TooLarge(w) THEN index[w] .. MaxBlocks - 1 ELSE {index[w]}

\* Writer w puts m into its block and tears the ones behind it up to last.
Fill(w, m, last) ==
    content' = [content EXCEPT ![mapped[w]] = [b \in Blocks |->
      IF b = index[w] THEN m ELSE IF b \in index[w] .. last THEN Torn ELSE @[b]]]

Overrun(w) == overrun' = IF TooLarge(w) THEN overrun \cup {mapped[w]} ELSE overrun

ReleaseWrittenBlock(w) ==
    lock_num' = [lock_num EXCEPT ![mapped[w]][index[w]] = @ + 1]

\* The message and its MessageInfo are in the block; ReleaseWrittenBlock.
Write(w) ==
    /\ pc[w] = "write" /\ w \notin killed
    /\ written' = written + 1
    /\ number' = [number EXCEPT ![w] = written']
    /\ \E last \in Reach(w) : Fill(w, written', last)
    /\ former' = [former EXCEPT ![w] = 0]
    /\ Overrun(w)
    /\ ReleaseWrittenBlock(w)
    /\ Goto(w, "notify")
    /\ UNCHANGED <<linked, created, raw, ceiling, need_remap, seq, mapped, conf,
                   index, size, killed, readVars, notices, early, growers>>

\* SerializeToArray fails, before it has written a byte: the block is
\* released with what was in it, and nobody is notified.
SerializeFails(w) ==
    /\ pc[w] = "write" /\ w \notin killed
    /\ written' = written + 1
    /\ Fill(w, former[w], index[w])
    /\ former' = [former EXCEPT ![w] = 0]
    /\ ReleaseWrittenBlock(w)
    /\ Goto(w, "idle")
    /\ UNCHANGED <<linked, created, raw, ceiling, need_remap, seq, mapped, conf,
                   index, size, number, killed, readVars, notices, historyVars>>

\* The message runs past the end of the segment, and the process ends with
\* the block locked.
WriteCrashes(w) ==
    /\ pc[w] = "write" /\ w \notin killed
    /\ TooLarge(w)
    /\ Fill(w, Torn, MaxBlocks - 1)
    /\ Overrun(w)
    /\ killed' = killed \cup {w}
    /\ UNCHANGED <<linked, created, raw, ceiling, need_remap, seq, lock_num,
                   procVars, size, number, former, written, readVars, notices,
                   early, growers>>

\* The notification names the block; the rest is history.
Notify(w) ==
    /\ pc[w] = "notify"
    /\ notices' = Append(notices, [index |-> index[w], segment |-> mapped[w],
                                   number |-> number[w]])
    /\ Goto(w, "idle")
    /\ UNCHANGED <<segVars, mapped, conf, index, writeVars, readVars,
                   historyVars>>

-----------------------------------------------------------------------------
(* ReadMessage: AcquireBlockToRead, OnMessage, ReleaseReadBlock *)

\* The next notification; the segment is opened if it is not.
Listen(r) ==
    /\ pc[r] = "idle" /\ taken[r] < Len(notices)
    /\ taken' = [taken EXCEPT ![r] = @ + 1]
    /\ index' = [index EXCEPT ![r] = notices[taken'[r]].index]
    /\ tries' = [tries EXCEPT ![r] = 0]
    /\ \/ /\ mapped[r] # None
          /\ UNCHANGED <<mapped, conf, early>>
          /\ Goto(r, "index")
       \/ /\ mapped[r] = None
          /\ Attach(r)
          /\ Goto(r, "index")
       \/ /\ mapped[r] = None /\ linked = None
          /\ UNCHANGED <<mapped, conf, early>>
          /\ Goto(r, "idle")
    /\ UNCHANGED <<segVars, writeVars, seen, notices, overrun, growers>>

\* "invalid block_index" with the conf_ known so far.
CheckIndex(r) ==
    /\ pc[r] = "index"
    /\ Goto(r, IF index[r] < BlockNum[conf[r]] THEN "check" ELSE "idle")
    /\ UNCHANGED <<segVars, mapped, conf, index, writeVars, readVars, notices,
                   historyVars>>

\* Fault: a block that is being written is not skipped.
LoadLockUnchecked(r) ==
    /\ pc[r] = "lock"
    /\ seen' = [seen EXCEPT ![r] = lock_num[mapped[r]][index[r]]]
    /\ Goto(r, "cas")
    /\ UNCHANGED <<segVars, mapped, conf, index, writeVars, tries, taken,
                   notices, historyVars>>

\* TryLockForRead loads lock_num_; a block that is being written is skipped.
LoadLock(r) ==
    LET n == lock_num[mapped[r]][index[r]] IN
    /\ pc[r] = "lock"
    /\ seen' = [seen EXCEPT ![r] = n]
    /\ Goto(r, IF n < kRWLockFree THEN "idle" ELSE "cas")
    /\ UNCHANGED <<segVars, mapped, conf, index, writeVars, tries, taken,
                   notices, historyVars>>

\* Fault: a store in place of the exchange.
CasStore(r) ==
    /\ pc[r] = "cas"
    /\ lock_num' = [lock_num EXCEPT ![mapped[r]][index[r]] = seen[r] + 1]
    /\ Goto(r, "read")
    /\ UNCHANGED <<linked, created, raw, ceiling, need_remap, seq, content,
                   mapped, conf, index, writeVars, readVars, notices,
                   historyVars>>

\* The exchange succeeds: the block has one more reader.
CasOk(r) ==
    /\ pc[r] = "cas"
    /\ lock_num[mapped[r]][index[r]] = seen[r]
    /\ lock_num' = [lock_num EXCEPT ![mapped[r]][index[r]] = @ + 1]
    /\ Goto(r, "read")
    /\ UNCHANGED <<linked, created, raw, ceiling, need_remap, seq, content,
                   mapped, conf, index, writeVars, readVars, notices,
                   historyVars>>

\* The exchange fails: load again, or give up after kMaxTryLockTimes.
CasFail(r) ==
    /\ pc[r] = "cas"
    /\ lock_num[mapped[r]][index[r]] # seen[r]
    /\ tries' = [tries EXCEPT ![r] = @ + 1]
    /\ Goto(r, IF tries'[r] = kMaxTryLockTimes THEN "idle" ELSE "lock")
    /\ UNCHANGED <<segVars, mapped, conf, index, writeVars, seen, taken,
                   notices, historyVars>>

\* Fault: the block is not released.
ReleaseForgotten(r) ==
    /\ pc[r] = "read"
    /\ Goto(r, "idle")
    /\ UNCHANGED <<segVars, mapped, conf, index, writeVars, readVars, notices,
                   historyVars>>

\* OnMessage has parsed the message; ReleaseReadBlock, which does nothing
\* for an index that conf_ does not allow.
ReleaseReadBlock(r) ==
    /\ pc[r] = "read"
    /\ lock_num' = IF index[r] < BlockNum[conf[r]]
                   THEN [lock_num EXCEPT ![mapped[r]][index[r]] = @ - 1]
                   ELSE lock_num
    /\ Goto(r, "idle")
    /\ UNCHANGED <<linked, created, raw, ceiling, need_remap, seq, content,
                   mapped, conf, index, writeVars, readVars, notices,
                   historyVars>>

WriterStep(w) ==
    \/ Transmit(w)
    \/ OpenExisting(w, "open", "check")
    \/ Create(w, "open", "construct")
    \/ Construct(w, "construct", "check")
    \/ Current(w, "size") \/ Remap(w, "size") \/ RemapFails(w, "size")
    \/ Fits(w) \/ Mark(w) \/ MarkCrashes(w) \/ Remove(w)
    \/ OpenExisting(w, "reopen", "acquire")
    \/ Create(w, "reopen", "reconstruct")
    \/ Construct(w, "reconstruct", "acquire")
    \/ TryLockForWrite(w) \/ TryNextBlock(w)
    \/ Write(w) \/ SerializeFails(w) \/ WriteCrashes(w) \/ Notify(w)

ReaderStep(r) ==
    \/ Listen(r) \/ CheckIndex(r)
    \/ Current(r, "lock") \/ Remap(r, "lock") \/ RemapFails(r, "idle")
    \/ LoadLock(r) \/ CasOk(r) \/ CasFail(r) \/ ReleaseReadBlock(r)

Next == (\E w \in Writers : WriterStep(w)) \/ (\E r \in Readers : ReaderStep(r))

Spec == Init /\ [][Next]_vars

\* Every process keeps being scheduled.
FairSpec ==
    /\ Spec
    /\ \A w \in Writers : WF_vars(WriterStep(w))
    /\ \A r \in Readers : WF_vars(ReaderStep(r))

-----------------------------------------------------------------------------
SegmentTypes ==
    /\ linked \in Segments \cup {None}
    /\ created \in 0 .. MaxSegments /\ raw \subseteq Segments
    /\ ceiling \in [Segments -> Sizes \cup {0}]
    /\ need_remap \in [Segments -> BOOLEAN]
    /\ early \subseteq Segments /\ overrun \subseteq Segments
    /\ growers \subseteq Writers

BlockTypes ==
    /\ seq \in [Segments -> Blocks]
    /\ lock_num \in [Segments -> [Blocks -> Int]]
    /\ content \in [Segments -> [Blocks -> Torn .. MaxWrites]]
    /\ written \in 0 .. MaxWrites

ProcessTypes ==
    /\ mapped \in [Processes -> Segments \cup {None}]
    /\ conf \in [Processes -> Sizes]
    /\ pc \in [Processes -> WriterPcs \cup ReaderPcs]
    /\ \A w \in Writers : pc[w] \in WriterPcs
    /\ \A r \in Readers : pc[r] \in ReaderPcs
    /\ index \in [Processes -> Blocks]

MessageTypes ==
    /\ size \in [Writers -> Messages \cup {0}] /\ killed \subseteq Writers
    /\ number \in [Writers -> 0 .. MaxWrites]
    /\ former \in [Writers -> Torn .. MaxWrites]
    /\ seen \in [Readers -> Int]
    /\ tries \in [Readers -> 0 .. kMaxTryLockTimes]
    /\ notices \in Seq(Announcements)
    /\ taken \in [Readers -> Nat]
    /\ \A r \in Readers : taken[r] <= Len(notices)

TypeOK == SegmentTypes /\ BlockTypes /\ ProcessTypes /\ MessageTypes

Holders(g, b, label) ==
    {p \in Processes : pc[p] = label /\ mapped[p] = g /\ index[p] = b}

\* A block that its segment really has.
RealBlock(g, b) == ceiling[g] # 0 /\ b < BlockNum[ceiling[g]]

\* lock_num_ says exactly who is at work on a block: one writer alone, or so
\* many readers; in every segment that nobody opened too early.
LockWordExact ==
    \A g \in Segments \ early : \A b \in Blocks : RealBlock(g, b) =>
      LET w == Cardinality(Holders(g, b, "write"))
          r == Cardinality(Holders(g, b, "read"))
      IN lock_num[g][b] = r - w /\ w <= 1 /\ (w = 1 => r = 0)

\* The shared memory is sound: the words of its blocks say who uses them.
SegmentInv == TypeOK /\ LockWordExact

\* What a reader parses is a complete message, and in the segment of its
\* notification it is the one announced or a later one of the same block: in
\* every segment that nobody opened too early and that had no message larger
\* than its blocks.
ReadsCompleteMessages ==
    \A r \in Readers :
      LET g == mapped[r]
          m == content[g][index[r]]
          n == notices[taken[r]]
      IN /\ pc[r] = "read" /\ g \notin early \cup overrun
            /\ RealBlock(g, index[r])
         => m # Torn /\ (n.segment = g => m >= n.number)

\* Growth leaves nobody behind: as long as only one writer replaces
\* segments, every process is on the segment that the key names or will see
\* need_remap_ at its next message; unless somebody opened its segment
\* before the constructor of State had cleared need_remap_.
NobodyLeftBehind ==
    Cardinality(growers) <= 1 =>
      \A p \in Processes :
        mapped[p] \notin {None, linked} \cup early => need_remap[mapped[p]]

\* A reader only touches blocks that the segment has.
IndexInRange ==
    \A r \in Readers :
      pc[r] \in {"lock", "cas", "read"} /\ mapped[r] \notin early
        => RealBlock(mapped[r], index[r])

\* A message that is larger than the segment makes its writer create one with
\* larger blocks, so that it is never written into blocks that are too small;
\* in every segment that nobody opened too early.
MessageFits ==
    \A w \in Writers : pc[w] = "write" /\ mapped[w] \notin early => ~TooLarge(w)

\* A writer that looks for a block finds one, in every segment that nobody
\* opened too early and in which no writer ran past the end.
WriterFindsBlock ==
    \A w \in Writers :
      (pc[w] = "acquire" /\ mapped[w] \notin early \cup overrun)
        ~> (pc[w] # "acquire" \/ mapped[w] \in early \cup overrun)

=============================================================================
