-------------------------- MODULE ShmSegmentProofs --------------------------
(***************************************************************************)
(* For any writers, readers, size classes and numbers of blocks: the words *)
(* of the blocks say who uses them, a reader parses complete messages that *)
(* are no older than their notification, and growth by one writer leaves   *)
(* nobody behind.                                                          *)
(*                                                                         *)
(* The argument follows a segment through its life.  Until its creator has *)
(* constructed the State, only the creator has it mapped, or else somebody *)
(* opened it too early.  From then on its ceiling is fixed, every process  *)
(* that has it mapped reckons with as many blocks as it has, and the words *)
(* of its blocks are only changed by the lock protocol.                    *)
(***************************************************************************)
EXTENDS ShmSegment, FiniteSetTheorems, WellFoundedInduction, TLAPS

Constructing == {"construct", "reconstruct"}

\* The messages begun and not yet written are within the bound.
BudgetInv == written + Cardinality(Unwritten) <= MaxWrites

\* Where a process has a segment.
MapInv ==
    /\ \A w \in Writers :
         /\ pc[w] \in {"check", "acquire", "write", "notify"} \cup Constructing
              => mapped[w] # None
         /\ pc[w] \in {"open", "remove", "reopen"} => mapped[w] = None
    /\ \A r \in Readers : pc[r] # "idle" => mapped[r] # None

\* Segments come into being one by one; the key names the last one created,
\* or none.
LinkInv ==
    /\ linked \in {None, created}
    /\ \A g \in raw \cup early : g <= created
    /\ \A p \in Processes : mapped[p] <= created
    /\ \A g \in Segments : g > created => ceiling[g] = 0 /\ ~need_remap[g]

\* A raw segment has one creator.  Nobody else has it mapped, or it was
\* opened too early.
RawInv ==
    /\ \A p \in Processes : pc[p] \in Constructing => mapped[p] \in raw
    /\ \A p, q \in Processes :
         pc[p] \in Constructing /\ pc[q] \in Constructing /\ mapped[p] = mapped[q]
           => p = q
    /\ \A g \in Segments : g <= created => (g \in raw <=> ceiling[g] = 0)
    /\ \A g \in raw \ early :
         /\ ~need_remap[g]
         /\ \A p \in Processes : mapped[p] = g => pc[p] \in Constructing

\* A process reckons with as many blocks as its segment has.
ConfInv ==
    \A p \in Processes :
        mapped[p] \notin {None} \cup early /\ pc[p] \notin Constructing =>
          ceiling[mapped[p]] = conf[p]

\* As long as one writer alone replaces segments, it is always on the segment
\* that the key names, and that segment is marked when it removes the key.
GrowInv ==
    /\ \A p \in Processes : pc[p] = "remove" => p \in growers
    /\ \A w \in Writers : growers \subseteq {w} =>
         /\ mapped[w] \in {None, linked}
         /\ pc[w] = "remove" =>
              linked # None /\ (need_remap[linked] \/ linked \in early)

\* The inductive form of NobodyLeftBehind.
BehindInv ==
    (\A v, w \in growers : v = w) =>
      \A p \in Processes :
        mapped[p] \notin {None, linked} \cup early =>
          need_remap[mapped[p]] /\ pc[p] \notin Constructing

LifeInv == LinkInv /\ RawInv /\ ConfInv /\ GrowInv /\ BehindInv

\* A writer works on a block that its conf_ allows.
BlockInv ==
    \A w \in Writers :
        pc[w] \in {"write", "notify"} => index[w] < BlockNum[conf[w]]

\* A reader looks for the block of the notification it took last, has tries
\* left, and at the exchange expects a word that is no writer's.
ReaderInv ==
    \A r \in Readers :
        /\ pc[r] # "idle" =>
             /\ taken[r] > 0 /\ index[r] = notices[taken[r]].index
             /\ tries[r] < kMaxTryLockTimes
        /\ pc[r] = "cas" => seen[r] >= kRWLockFree

\* Messages are numbered as they are written.
NumberInv ==
    /\ \A w \in Writers : pc[w] = "notify" => number[w] \in 1 .. written
    /\ \A k \in 1 .. Len(notices) : notices[k].number <= written

\* Writer w is at work on block b of segment g.
Writes(w, g, b) == pc[w] = "write" /\ mapped[w] = g /\ index[w] = b

\* Block b of segment g is being written.
Writing(g, b) == \E w \in Writers : Writes(w, g, b)

\* Message n was put into block b of segment g, and still is there unless it
\* is being overwritten or was by a newer one; a writer that fails puts back
\* what it found.
Holds(g, b, n) ==
    /\ content[g][b] >= n \/ Writing(g, b)
    /\ \A w \in Writers : Writes(w, g, b) => former[w] >= n

\* A block is torn only while a writer is at work on it, and otherwise holds
\* what was announced for it or something newer.
ContentOK(g, b) ==
    /\ content[g][b] <= written
    /\ content[g][b] = Torn => Writing(g, b)
    /\ \A w \in Writers :
         Writes(w, g, b) => former[w] # Torn /\ former[w] <= written
    /\ \A w \in Writers :
         pc[w] = "notify" /\ mapped[w] = g /\ index[w] = b =>
           Holds(g, b, number[w])
    /\ \A k \in 1 .. Len(notices) :
         notices[k].segment = g /\ notices[k].index = b =>
           g <= created /\ g \notin raw /\ Holds(g, b, notices[k].number)

ContentInv ==
    \A g \in Segments \ (early \cup overrun) : \A b \in Blocks : ContentOK(g, b)

IInv ==
    /\ TypeOK /\ BudgetInv /\ MapInv /\ LifeInv
    /\ BlockInv /\ ReaderInv /\ NumberInv
    /\ LockWordExact /\ ContentInv

-----------------------------------------------------------------------------
\* There is a smallest size class.
LEMMA SmallestExists ==
    /\ Smallest \in Sizes
    /\ \A s \in Sizes : Smallest <= s
<1>1. PICK s \in Sizes : \A t \in Sizes : ~(<<t, s>> \in OpToRel(<, Nat))
  BY SizesAssumption, NatLessThanWellFounded, WFMin
<1>2. \A t \in Sizes : s <= t
  <2>1. OpToRel(<, Nat) = {x \in Nat \X Nat : x[1] < x[2]} BY DEF OpToRel
  <2> TAKE t \in Sizes
  <2>2. t \in Nat /\ s \in Nat BY SizesAssumption
  <2>3. ~(<<t, s>> \in {x \in Nat \X Nat : x[1] < x[2]}) BY <1>1, <2>1
  <2>4. ~(t < s) BY <2>2, <2>3
  <2> QED BY <2>2, <2>4
<1> QED BY <1>2 DEF Smallest

\* Every message is given a size class, and a size class is its own ceiling.
LEMMA CeilingMessageSize ==
    ASSUME NEW n \in Nat
    PROVE  /\ GetCeilingMessageSize(n) \in Sizes
           /\ n \in Sizes => GetCeilingMessageSize(n) = n
<1>1. CASE \E s \in Sizes : n <= s
  <2> DEFINE S == {s \in Sizes : n <= s}
  <2>1. PICK s \in S : \A t \in S : ~(<<t, s>> \in OpToRel(<, Nat))
    <3>1. S # {} /\ S \subseteq Nat BY <1>1, SizesAssumption
    <3> HIDE DEF S
    <3> QED BY <3>1, NatLessThanWellFounded, WFMin
  <2>2. \A t \in Sizes : n <= t => s <= t
    <3>1. OpToRel(<, Nat) = {x \in Nat \X Nat : x[1] < x[2]} BY DEF OpToRel
    <3> SUFFICES ASSUME NEW t \in S PROVE s <= t OBVIOUS
    <3>2. t \in Nat /\ s \in Nat BY SizesAssumption
    <3>3. ~(<<t, s>> \in {x \in Nat \X Nat : x[1] < x[2]}) BY <2>1, <3>1
    <3>4. ~(t < s) BY <3>2, <3>3
    <3> QED BY <3>2, <3>4
  <2>3. s \in Sizes /\ n <= s OBVIOUS
  <2> DEFINE c == GetCeilingMessageSize(n)
  <2>4. c = CHOOSE x \in Sizes : n <= x /\ \A t \in Sizes : n <= t => x <= t
    BY <1>1 DEF GetCeilingMessageSize
  <2>5. c \in Sizes /\ n <= c /\ \A t \in Sizes : n <= t => c <= t
    BY <2>2, <2>3, <2>4
  <2> HIDE DEF c
  <2>6. c \in Nat BY <2>5, SizesAssumption
  <2>7. n \in Sizes => c = n BY <2>5, <2>6
  <2> QED BY <2>5, <2>7 DEF c
<1>2. CASE ~(\E s \in Sizes : n <= s)
  <2>1. GetCeilingMessageSize(n) = CHOOSE s \in Sizes : \A t \in Sizes : t <= s
    BY <1>2 DEF GetCeilingMessageSize
  <2> QED BY <1>2, <2>1, SizesAssumption
<1> QED BY <1>1, <1>2

\* No size class has more blocks than MaxBlocks.
LEMMA BlocksFit ==
    /\ MaxBlocks \in Nat \ {0}
    /\ \A s \in Sizes : BlockNum[s] \in Nat \ {0} /\ BlockNum[s] <= MaxBlocks
<1>1. /\ BlockNum[Smallest] \in {BlockNum[s] : s \in Sizes}
      /\ \A s \in Sizes : BlockNum[s] <= BlockNum[Smallest]
  BY SmallestExists, BlockNumAssumption
<1>2. /\ MaxBlocks \in {BlockNum[s] : s \in Sizes}
      /\ \A s \in Sizes : BlockNum[s] <= MaxBlocks
  BY <1>1 DEF MaxBlocks
<1> QED BY <1>2, BlockNumAssumption

-----------------------------------------------------------------------------
(* What a step does to the life of the segments *)

lifeVars == <<linked, created, raw, ceiling, need_remap, mapped, conf, early,
              growers>>

Replacing == Constructing \cup {"remove"}
Pcs == WriterPcs \cup ReaderPcs

\* p goes on, and is neither at work on a new segment nor on the key.
Passes(p) == pc[p] \notin Replacing /\ \E l \in Pcs \ Replacing : Goto(p, l)

Stays(p) == Passes(p) /\ UNCHANGED lifeVars

Attaches(p) ==
    /\ Passes(p) /\ Attach(p)
    /\ UNCHANGED <<linked, created, raw, ceiling, need_remap, growers>>

Loses(p) ==
    /\ Passes(p) /\ linked = None
    /\ mapped' = [mapped EXCEPT ![p] = None]
    /\ UNCHANGED <<linked, created, raw, ceiling, need_remap, conf, early, growers>>

Creates(w) ==
    /\ pc[w] \notin Replacing /\ \E l \in Constructing : Goto(w, l)
    /\ linked = None /\ created < MaxSegments
    /\ created' = created + 1 /\ linked' = created'
    /\ raw' = raw \cup {created'}
    /\ mapped' = [mapped EXCEPT ![w] = created']
    /\ UNCHANGED <<ceiling, need_remap, conf, early, growers>>

Constructs(w) ==
    /\ pc[w] \in Constructing /\ \E l \in Pcs \ Replacing : Goto(w, l)
    /\ raw' = raw \ {mapped[w]}
    /\ ceiling' = [ceiling EXCEPT ![mapped[w]] = conf[w]]
    /\ need_remap' = [need_remap EXCEPT ![mapped[w]] = FALSE]
    /\ UNCHANGED <<linked, created, mapped, conf, early, growers>>

\* Every step is of one of these kinds.
LEMMA LifeKinds ==
    ASSUME ProcessTypes, Next
    PROVE  \/ \E p \in Processes : Stays(p) \/ Attaches(p) \/ Loses(p)
           \/ \E w \in Writers :
                Creates(w) \/ Constructs(w) \/ Mark(w) \/ Remove(w)
<1> USE DEF ProcessTypes, Processes, Passes, Stays, Replacing, Constructing,
        WriterPcs, ReaderPcs, Pcs, Goto, lifeVars, segVars, procVars, historyVars
<1>1. ASSUME NEW w \in Writers, WriterStep(w)
      PROVE  \/ Stays(w) \/ Attaches(w) \/ Loses(w)
             \/ Creates(w) \/ Constructs(w) \/ Mark(w) \/ Remove(w)
  <2>1. CASE Transmit(w) BY <2>1 DEF Transmit
  <2>2. CASE OpenExisting(w, "open", "check") \/ OpenExisting(w, "reopen", "acquire")
    BY <2>2 DEF OpenExisting, Attaches
  <2>3. CASE Current(w, "size") BY <2>3 DEF Current
  <2>4. CASE Remap(w, "size") BY <2>4 DEF Remap, Attaches
  <2>5. CASE RemapFails(w, "size") BY <2>5 DEF RemapFails, Loses
  <2>6. CASE Fits(w) BY <2>6 DEF Fits
  <2>7. CASE MarkCrashes(w) BY <2>7 DEF MarkCrashes
  <2>8. CASE TryLockForWrite(w) BY <2>8 DEF TryLockForWrite
  <2>9. CASE TryNextBlock(w) BY <2>9 DEF TryNextBlock
  <2>10. CASE Write(w) BY <2>10 DEF Write
  <2>11. CASE Notify(w) \/ SerializeFails(w) \/ WriteCrashes(w)
    BY <2>11 DEF Notify, SerializeFails, WriteCrashes
  <2>12. CASE Create(w, "open", "construct") \/ Create(w, "reopen", "reconstruct")
    BY <2>12 DEF Create, Creates
  <2>13. CASE \/ Construct(w, "construct", "check")
              \/ Construct(w, "reconstruct", "acquire")
    BY <2>13 DEF Construct, Constructs
  <2> QED
    BY <1>1, <2>1, <2>2, <2>3, <2>4, <2>5, <2>6, <2>7, <2>8, <2>9, <2>10, <2>11,
       <2>12, <2>13
    DEF WriterStep
<1>2. ASSUME NEW r \in Readers, ReaderStep(r)
      PROVE  Stays(r) \/ Attaches(r) \/ Loses(r)
  <2>1. CASE Listen(r) BY <2>1 DEF Listen, Attaches
  <2>2. CASE CheckIndex(r) BY <2>2 DEF CheckIndex
  <2>3. CASE Current(r, "lock") BY <2>3 DEF Current
  <2>4. CASE Remap(r, "lock") BY <2>4 DEF Remap, Attaches
  <2>5. CASE RemapFails(r, "idle") BY <2>5 DEF RemapFails, Loses
  <2>6. CASE LoadLock(r) BY <2>6 DEF LoadLock
  <2>7. CASE CasOk(r) BY <2>7 DEF CasOk
  <2>8. CASE CasFail(r) BY <2>8 DEF CasFail
  <2>9. CASE ReleaseReadBlock(r) BY <2>9 DEF ReleaseReadBlock
  <2> QED
    BY <1>2, <2>1, <2>2, <2>3, <2>4, <2>5, <2>6, <2>7, <2>8, <2>9
    DEF ReaderStep
<1> QED BY <1>1, <1>2 DEF Next, Processes

\* What the arguments about the life of the segments need of the types.
LifeTypes ==
    /\ SegmentTypes
    /\ mapped \in [Processes -> Segments \cup {None}]
    /\ conf \in [Processes -> Sizes] /\ size \in [Writers -> Nat]
    /\ pc \in [Processes -> Pcs]

\* A process that opens a segment learns its size, if there is one yet.
LEMMA ConfType ==
    ASSUME SegmentTypes, NEW g \in Segments
    PROVE  /\ ConfOf(g) \in Sizes
           /\ ceiling[g] # 0 => ConfOf(g) = ceiling[g]
<1>1. ceiling[g] \in Sizes \cup {0} BY DEF SegmentTypes
<1>2. Sizes \cup {0} \subseteq Nat BY SizesAssumption
<1>3. ceiling[g] \in Nat BY <1>1, <1>2
<1> QED BY <1>1, <1>3, CeilingMessageSize DEF ConfOf

\* The types are kept.
LEMMA LifeTypesStep ==
    ASSUME ProcessTypes, LifeTypes, MapInv, size' \in [Writers -> Nat],
           overrun' \subseteq Segments, Next
    PROVE  LifeTypes'
<1>0. Sizes \subseteq Nat \ {0} BY SizesAssumption
<1> USE <1>0, BoundsAssumption
    DEF LifeTypes, SegmentTypes, MapInv, Segments, None, Pcs,
        WriterPcs, ReaderPcs, Goto, Processes, Constructing, Replacing, segVars
<1>1. ASSUME NEW p \in Processes, Stays(p) PROVE LifeTypes'
  BY <1>1 DEF Stays, Passes, lifeVars
<1>2. ASSUME NEW p \in Processes, Attaches(p) PROVE LifeTypes'
  <2>1. linked \in Segments BY <1>2 DEF Attaches, Attach
  <2>2. ConfOf(linked) \in Sizes BY <2>1, ConfType
  <2> QED BY <1>2, <2>1, <2>2 DEF Attaches, Passes, Attach
<1>3. ASSUME NEW p \in Processes, Loses(p) PROVE LifeTypes'
  BY <1>3 DEF Loses, Passes
<1>4. ASSUME NEW w \in Writers, Creates(w) PROVE LifeTypes'
  BY <1>4 DEF Creates
<1>5. ASSUME NEW w \in Writers, Constructs(w) PROVE LifeTypes'
  <2>1. mapped[w] \in Segments BY <1>5 DEF Constructs
  <2>2. ceiling' \in [Segments -> Sizes \cup {0}]
    BY <1>5, <2>1 DEF Constructs
  <2>3. need_remap' \in [Segments -> BOOLEAN] /\ raw' \subseteq Segments
    BY <1>5, <2>1 DEF Constructs
  <2>4. pc' \in [Processes -> Pcs] BY <1>5 DEF Constructs
  <2> QED BY <1>5, <2>2, <2>3, <2>4 DEF Constructs
<1>6. ASSUME NEW w \in Writers, Mark(w) PROVE LifeTypes'
  BY <1>6 DEF Mark
<1>7. ASSUME NEW w \in Writers, Remove(w) PROVE LifeTypes'
  <2>1. GetCeilingMessageSize(size[w]) \in Sizes BY CeilingMessageSize
  <2> QED BY <1>7, <2>1 DEF Remove, historyVars
<1> QED BY <1>1, <1>2, <1>3, <1>4, <1>5, <1>6, <1>7, LifeKinds

\* The key names the newest segment, or none.
LEMMA LinkStep ==
    ASSUME ProcessTypes, LifeTypes, MapInv, LinkInv, Next
    PROVE  LinkInv'
<1> USE BoundsAssumption
    DEF LifeTypes, SegmentTypes, MapInv, LinkInv, Segments, None, Pcs,
        WriterPcs, ReaderPcs, Goto, Processes, Constructing, Replacing, segVars
<1>1. ASSUME NEW p \in Processes, Stays(p) PROVE LinkInv'
  BY <1>1 DEF Stays, Passes, lifeVars
<1>2. ASSUME NEW p \in Processes, Attaches(p) PROVE LinkInv'
  BY <1>2 DEF Attaches, Passes, Attach
<1>3. ASSUME NEW p \in Processes, Loses(p) PROVE LinkInv'
  BY <1>3 DEF Loses, Passes
<1>4. ASSUME NEW w \in Writers, Creates(w) PROVE LinkInv'
  <2>1. created \in Nat /\ created' = created + 1 /\ linked' = created'
    BY <1>4 DEF Creates
  <2>2. \A g \in raw' \cup early' : g <= created'
    BY <1>4, <2>1 DEF Creates
  <2>3. \A p \in Processes : mapped'[p] <= created'
    BY <1>4, <2>1 DEF Creates
  <2>4. \A g \in Segments : g > created' => ceiling'[g] = 0 /\ ~need_remap'[g]
    BY <1>4, <2>1 DEF Creates
  <2> QED BY <2>1, <2>2, <2>3, <2>4
<1>5. ASSUME NEW w \in Writers, Constructs(w) PROVE LinkInv'
  BY <1>5 DEF Constructs
<1>6. ASSUME NEW w \in Writers, Mark(w) PROVE LinkInv'
  BY <1>6 DEF Mark
<1>7. ASSUME NEW w \in Writers, Remove(w) PROVE LinkInv'
  BY <1>7 DEF Remove, historyVars
<1> QED BY <1>1, <1>2, <1>3, <1>4, <1>5, <1>6, <1>7, LifeKinds

\* Whoever opens a raw segment makes it an early one.
LEMMA RawStep ==
    ASSUME ProcessTypes, LifeTypes, LifeTypes', MapInv, LinkInv, RawInv, Next
    PROVE  RawInv'
<1>0. Sizes \subseteq Nat \ {0} BY SizesAssumption
<1> USE <1>0, BoundsAssumption
    DEF LifeTypes, SegmentTypes, MapInv, LinkInv, RawInv, Segments, None, Pcs,
        WriterPcs, ReaderPcs, Goto, Processes, Constructing, Replacing, segVars
<1>1. ASSUME NEW p \in Processes, Stays(p) PROVE RawInv'
  BY <1>1 DEF Stays, Passes, lifeVars
<1>2. ASSUME NEW p \in Processes, Attaches(p) PROVE RawInv'
  BY <1>2 DEF Attaches, Passes, Attach
<1>3. ASSUME NEW p \in Processes, Loses(p) PROVE RawInv'
  BY <1>3 DEF Loses, Passes
<1>4. ASSUME NEW w \in Writers, Creates(w) PROVE RawInv'
  <2>1. created' \in Segments /\ created' \notin raw \cup early
    BY <1>4 DEF Creates
  <2>2. \A p \in Processes : mapped[p] # created'
    BY <1>4 DEF Creates
  <2>3. \A p \in Processes : pc'[p] \in Constructing => mapped'[p] \in raw'
    BY <1>4, <2>1 DEF Creates
  <2>4. \A p, q \in Processes :
          pc'[p] \in Constructing /\ pc'[q] \in Constructing /\ mapped'[p] = mapped'[q]
            => p = q
    BY <1>4, <2>2 DEF Creates
  <2>5. ASSUME NEW g \in Segments, g <= created'
        PROVE  g \in raw' <=> ceiling'[g] = 0
    BY <1>4, <2>1, <2>5 DEF Creates
  <2>6. ASSUME NEW g \in raw' \ early'
        PROVE  /\ ~need_remap'[g]
               /\ \A p \in Processes : mapped'[p] = g => pc'[p] \in Constructing
    BY <1>4, <2>1, <2>2 DEF Creates
  <2> QED BY <2>3, <2>4, <2>5, <2>6
<1>5. ASSUME NEW w \in Writers, Constructs(w) PROVE RawInv'
  BY <1>5 DEF Constructs
<1>6. ASSUME NEW w \in Writers, Mark(w) PROVE RawInv'
  <2>1. /\ UNCHANGED <<created, raw, ceiling, early>> /\ pc[w] = "size"
        /\ mapped' = [mapped EXCEPT ![w] = None]
        /\ pc' = [pc EXCEPT ![w] = "remove"]
        /\ need_remap' = [need_remap EXCEPT ![mapped[w]] = TRUE]
    BY <1>6 DEF Mark
  <2>2. \A p \in Processes : pc'[p] \in Constructing =>
          p # w /\ pc[p] \in Constructing /\ mapped'[p] = mapped[p]
    BY <2>1
  <2>3. mapped[w] \notin raw \ early BY <2>1
  <2>4. ASSUME NEW g \in raw \ early PROVE ~need_remap'[g]
    <3>1. g \in DOMAIN need_remap /\ g # mapped[w] /\ ~need_remap[g] BY <2>3
    <3>2. need_remap'[g] = need_remap[g] BY ONLY <2>1, <3>1
    <3> QED BY <3>1, <3>2
  <2>5. \A g \in raw \ early : \A p \in Processes :
          mapped'[p] = g => p # w /\ mapped[p] = g /\ pc'[p] = pc[p]
    BY <2>1
  <2> QED BY <2>1, <2>2, <2>4, <2>5
<1>7. ASSUME NEW w \in Writers, Remove(w) PROVE RawInv'
  BY <1>7 DEF Remove, historyVars
<1> QED BY <1>1, <1>2, <1>3, <1>4, <1>5, <1>6, <1>7, LifeKinds

\* A process that opens a constructed segment learns its size.
LEMMA ConfStep ==
    ASSUME ProcessTypes, LifeTypes, LifeTypes', MapInv, LinkInv, RawInv, ConfInv, Next
    PROVE  ConfInv'
<1>0. Sizes \subseteq Nat \ {0} BY SizesAssumption
<1> USE <1>0, BoundsAssumption
    DEF LifeTypes, SegmentTypes, MapInv, LinkInv, RawInv, ConfInv, Segments, None, Pcs,
        WriterPcs, ReaderPcs, Goto, Processes, Constructing, Replacing, segVars
<1>1. ASSUME NEW p \in Processes, Stays(p) PROVE ConfInv'
  BY <1>1 DEF Stays, Passes, lifeVars
<1>2. ASSUME NEW p \in Processes, Attaches(p) PROVE ConfInv'
  <2>1. linked \in Segments BY <1>2 DEF Attaches, Attach
  <2>2. ceiling[linked] # 0 => ConfOf(linked) = ceiling[linked]
    BY <2>1, ConfType
  <2> QED BY <1>2, <2>1, <2>2 DEF Attaches, Passes, Attach
<1>3. ASSUME NEW p \in Processes, Loses(p) PROVE ConfInv'
  BY <1>3 DEF Loses, Passes
<1>4. ASSUME NEW w \in Writers, Creates(w) PROVE ConfInv'
  BY <1>4 DEF Creates
<1>5. ASSUME NEW w \in Writers, Constructs(w) PROVE ConfInv'
  BY <1>5 DEF Constructs
<1>6. ASSUME NEW w \in Writers, Mark(w) PROVE ConfInv'
  BY <1>6 DEF Mark
<1>7. ASSUME NEW w \in Writers, Remove(w) PROVE ConfInv'
  BY <1>7 DEF Remove, historyVars
<1> QED BY <1>1, <1>2, <1>3, <1>4, <1>5, <1>6, <1>7, LifeKinds

\* A writer that alone replaces segments stays with the key.
LEMMA GrowStep ==
    ASSUME ProcessTypes, LifeTypes, LifeTypes', MapInv, LinkInv, RawInv, GrowInv, Next
    PROVE  GrowInv'
<1> USE BoundsAssumption
    DEF LifeTypes, SegmentTypes, MapInv, LinkInv, RawInv, GrowInv, Segments, None, Pcs,
        WriterPcs, ReaderPcs, Goto, Processes, Constructing, Replacing, segVars
<1>1. ASSUME NEW p \in Processes, Stays(p) PROVE GrowInv'
  BY <1>1 DEF Stays, Passes, lifeVars
<1>2. ASSUME NEW p \in Processes, Attaches(p) PROVE GrowInv'
  BY <1>2 DEF Attaches, Passes, Attach
<1>3. ASSUME NEW p \in Processes, Loses(p) PROVE GrowInv'
  BY <1>3 DEF Loses, Passes
<1>4. ASSUME NEW w \in Writers, Creates(w) PROVE GrowInv'
  BY <1>4 DEF Creates
<1>5. ASSUME NEW w \in Writers, Constructs(w) PROVE GrowInv'
  BY <1>5 DEF Constructs
<1>6. ASSUME NEW w \in Writers, Mark(w) PROVE GrowInv'
  BY <1>6 DEF Mark
<1>7. ASSUME NEW w \in Writers, Remove(w) PROVE GrowInv'
  BY <1>7 DEF Remove, historyVars
<1> QED BY <1>1, <1>2, <1>3, <1>4, <1>5, <1>6, <1>7, LifeKinds

\* Whoever is not on the segment of the key will see the mark.
LEMMA BehindStep ==
    ASSUME ProcessTypes, LifeTypes, LifeTypes', MapInv,
           LinkInv, RawInv, GrowInv, BehindInv, Next
    PROVE  BehindInv'
<1> USE BoundsAssumption
    DEF LifeTypes, SegmentTypes, MapInv, LinkInv, RawInv, GrowInv,
        BehindInv, Segments, None, Pcs,
        WriterPcs, ReaderPcs, Goto, Processes, Constructing, Replacing, segVars
<1>1. ASSUME NEW p \in Processes, Stays(p) PROVE BehindInv'
  BY <1>1 DEF Stays, Passes, lifeVars
<1>2. ASSUME NEW p \in Processes, Attaches(p) PROVE BehindInv'
  BY <1>2 DEF Attaches, Passes, Attach
<1>3. ASSUME NEW p \in Processes, Loses(p) PROVE BehindInv'
  BY <1>3 DEF Loses, Passes
<1>4. ASSUME NEW w \in Writers, Creates(w) PROVE BehindInv'
  BY <1>4 DEF Creates
<1>5. ASSUME NEW w \in Writers, Constructs(w) PROVE BehindInv'
  BY <1>5 DEF Constructs
<1>6. ASSUME NEW w \in Writers, Mark(w) PROVE BehindInv'
  BY <1>6 DEF Mark
<1>7. ASSUME NEW w \in Writers, Remove(w) PROVE BehindInv'
  BY <1>7 DEF Remove, historyVars
<1> QED BY <1>1, <1>2, <1>3, <1>4, <1>5, <1>6, <1>7, LifeKinds

-----------------------------------------------------------------------------
(* Types *)

\* Storing v at block b of segment g.
LEMMA StoreAt ==
    ASSUME NEW T, NEW f \in [Segments -> [Blocks -> T]],
           NEW g \in Segments, NEW b \in Blocks, NEW v \in T
    PROVE  LET f2 == [f EXCEPT ![g][b] = v] IN
           /\ f2 \in [Segments -> [Blocks -> T]]
           /\ f2[g][b] = v
           /\ \A h \in Segments, c \in Blocks :
                h # g \/ c # b => f2[h][c] = f[h][c]
OBVIOUS

\* A sequence number taken modulo the blocks of a size class is the index of
\* a block.
LEMMA IndexFits ==
    ASSUME NEW n \in Blocks, NEW s \in Sizes
    PROVE  /\ n % BlockNum[s] \in Blocks /\ n % BlockNum[s] < BlockNum[s]
           /\ (n + 1) % MaxBlocks \in Blocks
<1>1. n \in Nat /\ MaxBlocks \in Nat \ {0} BY BlocksFit DEF Blocks
<1>2. BlockNum[s] \in Nat \ {0} /\ BlockNum[s] <= MaxBlocks BY BlocksFit
<1>3. n % BlockNum[s] \in 0 .. BlockNum[s] - 1 BY <1>1, <1>2
<1>4. (n + 1) % MaxBlocks \in 0 .. MaxBlocks - 1 BY <1>1
<1> QED BY <1>1, <1>2, <1>3, <1>4 DEF Blocks

\* A step of a writer moves the writer only.
LEMMA WriterFrame ==
    ASSUME ProcessTypes, NEW w \in Writers, WriterStep(w)
    PROVE  /\ \E l \in WriterPcs : pc' = [pc EXCEPT ![w] = l]
           /\ \A r \in Readers : index'[r] = index[r]
           /\ UNCHANGED readVars
           /\ notices' = notices \/ Notify(w)
BY ProcessesAssumption
DEF ProcessTypes, WriterStep, Transmit, OpenExisting, Create, Construct, Current,
    Remap, RemapFails, Fits, Mark, MarkCrashes, Remove, TryLockForWrite,
    TryNextBlock, Write, SerializeFails, WriteCrashes, Notify, Goto, Processes,
    WriterPcs, procVars

\* A step of a reader moves the reader only.
LEMMA ReaderFrame ==
    ASSUME ProcessTypes, NEW r \in Readers, ReaderStep(r)
    PROVE  /\ \E l \in ReaderPcs : pc' = [pc EXCEPT ![r] = l]
           /\ \A w \in Writers : index'[w] = index[w]
           /\ UNCHANGED <<writeVars, seq, content, notices>>
BY ProcessesAssumption
DEF ProcessTypes, ReaderStep, Listen, CheckIndex, Current, Remap, RemapFails,
    LoadLock, CasOk, CasFail, ReleaseReadBlock, Goto, Processes, ReaderPcs, segVars

\* Adding an element to a finite set, or removing one, moves its cardinality
\* by one.
LEMMA CardinalityStep ==
    ASSUME NEW S, IsFiniteSet(S), NEW x
    PROVE  /\ Cardinality(S) \in Nat
           /\ x \notin S => Cardinality(S \cup {x}) = Cardinality(S) + 1
           /\ x \in S => Cardinality(S \ {x}) = Cardinality(S) - 1
           /\ (Cardinality(S) = 0) <=> (S = {})
BY FS_AddElement, FS_RemoveElement, FS_CardinalityType, FS_EmptySet

\* The messages under way can be counted.
LEMMA UnwrittenFinite == IsFiniteSet(Unwritten) /\ IsFiniteSet(Unwritten)'
<1>1. Unwritten \subseteq Writers /\ Unwritten' \subseteq Writers
  BY DEF Unwritten
<1> QED BY <1>1, ProcessesAssumption, FS_Subset

\* A message that is about to be written is within the bound.
LEMMA RoomToWrite ==
    ASSUME TypeOK, BudgetInv, NEW w \in Writers, pc[w] = "write"
    PROVE  written + 1 <= MaxWrites
<1>1. w \in Unwritten BY DEF Unwritten
<1>2. Cardinality(Unwritten) \in Nat /\ Cardinality(Unwritten) # 0
  BY <1>1, UnwrittenFinite, CardinalityStep
<1>3. written \in Nat /\ MaxWrites \in Nat
  BY BoundsAssumption DEF TypeOK, BlockTypes
<1> QED BY <1>2, <1>3 DEF BudgetInv

\* What a writer does to the memory of its segment.
Fills(w) == Write(w) \/ SerializeFails(w) \/ WriteCrashes(w)

\* A message stays in its block, or the segment counts as overrun.
LEMMA FillStep ==
    ASSUME TypeOK, BudgetInv, MapInv, NEW w \in Writers, Fills(w)
    PROVE  LET g == mapped[w] IN
           /\ g \in Segments /\ index[w] \in Blocks /\ pc[w] = "write"
           /\ content' \in [Segments -> [Blocks -> Torn .. MaxWrites]]
           /\ \A h \in Segments \ {g} : content'[h] = content[h]
           /\ overrun \subseteq overrun' /\ overrun' \subseteq overrun \cup {g}
           /\ g \notin overrun' =>
                /\ ~WriteCrashes(w)
                /\ \A c \in Blocks \ {index[w]} : content'[g][c] = content[g][c]
                /\ Write(w) => content'[g][index[w]] = written + 1
                /\ SerializeFails(w) => content'[g][index[w]] = former[w]
<1> DEFINE g == mapped[w]
           i == index[w]
           T == Torn .. MaxWrites
<1>1. g \in Segments /\ i \in Blocks /\ pc[w] = "write"
  BY DEF Fills, Write, SerializeFails, WriteCrashes, TypeOK, ProcessTypes,
         MapInv, Processes
<1>2. written + 1 \in T /\ former[w] \in T /\ Torn \in T
  BY <1>1, RoomToWrite, BoundsAssumption
  DEF TypeOK, BlockTypes, MessageTypes, Torn
<1>3. content \in [Segments -> [Blocks -> T]] BY DEF TypeOK, BlockTypes
<1>4. ASSUME NEW m \in T, NEW last, Fill(w, m, last)
      PROVE  /\ content' \in [Segments -> [Blocks -> T]]
             /\ \A h \in Segments \ {g} : content'[h] = content[h]
             /\ content'[g][i] = m
             /\ last = i => \A c \in Blocks \ {i} : content'[g][c] = content[g][c]
  <2> DEFINE f == [b \in Blocks |->
               IF b = i THEN m ELSE IF b \in i .. last THEN Torn ELSE content[g][b]]
  <2>1. content' = [content EXCEPT ![g] = f] BY <1>4 DEF Fill
  <2>2. f \in [Blocks -> T] /\ f[i] = m BY <1>1, <1>2, <1>3
  <2>3. last = i => \A c \in Blocks \ {i} : f[c] = content[g][c]
    <3>1. Blocks \subseteq Int BY DEF Blocks
    <3>2. \A c \in Blocks \ {i} : c \notin i .. i BY <1>1, <3>1
    <3> QED BY <3>2
  <2> HIDE DEF f, g, i, T
  <2> QED BY <1>1, <1>3, <2>1, <2>2, <2>3
<1>5. /\ overrun \subseteq overrun' /\ overrun' \subseteq overrun \cup {g}
      /\ g \notin overrun' /\ ~SerializeFails(w) => ~TooLarge(w)
  BY DEF Fills, Write, SerializeFails, WriteCrashes, Overrun, historyVars
<1>6. CASE Write(w)
  <2>1. PICK last \in Reach(w) : Fill(w, written + 1, last)
    BY <1>6 DEF Write, Fill
  <2>2. ~TooLarge(w) => last = i BY <2>1 DEF Reach
  <2>3. /\ content' \in [Segments -> [Blocks -> T]]
        /\ \A h \in Segments \ {g} : content'[h] = content[h]
        /\ content'[g][i] = written + 1
        /\ last = i => \A c \in Blocks \ {i} : content'[g][c] = content[g][c]
    BY <1>2, <1>4, <2>1
  <2>4. ~SerializeFails(w) /\ ~WriteCrashes(w)
    <3>1. pc'[w] = "notify"
      BY <1>6 DEF Write, Goto, TypeOK, ProcessTypes, Processes
    <3> QED
      BY <1>1, <3>1
      DEF SerializeFails, WriteCrashes, Goto, TypeOK, ProcessTypes, Processes,
          procVars
  <2> QED BY <1>1, <1>5, <2>2, <2>3, <2>4
<1>7. CASE SerializeFails(w)
  <2>1. Fill(w, former[w], i) BY <1>7 DEF SerializeFails
  <2>2. /\ content' \in [Segments -> [Blocks -> T]]
        /\ \A h \in Segments \ {g} : content'[h] = content[h]
        /\ content'[g][i] = former[w]
        /\ \A c \in Blocks \ {i} : content'[g][c] = content[g][c]
    BY <1>2, <1>4, <2>1
  <2>3. ~Write(w) /\ ~WriteCrashes(w)
    <3>1. pc'[w] = "idle"
      BY <1>7 DEF SerializeFails, Goto, TypeOK, ProcessTypes, Processes
    <3> QED
      BY <1>1, <3>1
      DEF Write, WriteCrashes, Goto, TypeOK, ProcessTypes, Processes, procVars
  <2> QED BY <1>1, <1>5, <2>2, <2>3
<1>8. CASE WriteCrashes(w)
  <2>1. Fill(w, Torn, MaxBlocks - 1) /\ g \in overrun'
    BY <1>8 DEF WriteCrashes, Overrun
  <2>2. /\ content' \in [Segments -> [Blocks -> T]]
        /\ \A h \in Segments \ {g} : content'[h] = content[h]
    BY <1>2, <1>4, <2>1
  <2> QED BY <1>1, <1>5, <2>1, <2>2
<1> QED BY <1>6, <1>7, <1>8 DEF Fills

\* What a writer knows of its message keeps its type.
LEMMA SizeStep ==
    ASSUME TypeOK, BudgetInv, MapInv, Next
    PROVE  /\ size' \in [Writers -> Messages \cup {0}]
           /\ size' \in [Writers -> Nat]
           /\ overrun' \subseteq Segments /\ killed' \subseteq Writers
           /\ former' \in [Writers -> Torn .. MaxWrites]
<1>0. /\ size \in [Writers -> Messages \cup {0}] /\ killed \subseteq Writers
      /\ former \in [Writers -> Torn .. MaxWrites] /\ overrun \subseteq Segments
      /\ 0 \in Torn .. MaxWrites
  BY BoundsAssumption DEF TypeOK, SegmentTypes, MessageTypes, Torn
<1> DEFINE Kept == /\ size' \in [Writers -> Messages \cup {0}]
                   /\ overrun' \subseteq Segments /\ killed' \subseteq Writers
                   /\ former' \in [Writers -> Torn .. MaxWrites]
<1>1. ASSUME NEW w \in Writers, Transmit(w) PROVE Kept
  BY <1>0, <1>1 DEF Transmit, historyVars
<1>2. ASSUME UNCHANGED <<size, overrun, killed, former>> PROVE Kept
  BY <1>0, <1>2
<1>3. ASSUME NEW w \in Writers, TryLockForWrite(w) PROVE Kept
  <2> DEFINE g == mapped[w]
             b == seq[g] % BlockNum[conf[w]]
  <2>1. g \in Segments /\ conf[w] \in Sizes
    BY <1>3 DEF TryLockForWrite, MapInv, TypeOK, ProcessTypes, Processes
  <2>2. b \in Blocks BY <2>1, IndexFits DEF TypeOK, BlockTypes
  <2>3. content[g][b] \in Torn .. MaxWrites
    BY <2>1, <2>2 DEF TypeOK, BlockTypes
  <2>4. /\ former' = [former EXCEPT ![w] = content[g][b]]
        /\ UNCHANGED <<size, overrun, killed>>
    BY <1>3 DEF TryLockForWrite, historyVars
  <2> HIDE DEF g, b
  <2> QED BY <1>0, <2>3, <2>4
<1>4. ASSUME NEW w \in Writers, Fills(w) PROVE Kept
  <2>1. overrun' \subseteq Segments BY <1>0, <1>4, FillStep
  <2> QED BY <1>0, <1>4, <2>1 DEF Fills, Write, SerializeFails, WriteCrashes
<1>5. ASSUME NEW w \in Writers, WriterStep(w) PROVE Kept
  BY <1>1, <1>2, <1>3, <1>4, <1>5
  DEF WriterStep, Fills, OpenExisting, Create, Construct, Current, Remap,
      RemapFails, Fits, Mark, MarkCrashes, Remove, TryNextBlock, Notify,
      writeVars, historyVars
<1>6. ASSUME NEW r \in Readers, ReaderStep(r) PROVE Kept
  BY <1>2, <1>6
  DEF ReaderStep, Listen, CheckIndex, Current, Remap, RemapFails, LoadLock,
      CasOk, CasFail, ReleaseReadBlock, writeVars, historyVars
<1>7. Kept BY <1>5, <1>6 DEF Next
<1>8. Messages \cup {0} \subseteq Nat BY MessagesAssumption
<1> QED BY <1>7, <1>8

\* The program counters and the block indexes keep their types.
LEMMA PlaceTypesStep ==
    ASSUME TypeOK, MapInv, Next
    PROVE  /\ pc' \in [Processes -> Pcs]
           /\ \A w \in Writers : pc'[w] \in WriterPcs
           /\ \A r \in Readers : pc'[r] \in ReaderPcs
           /\ index' \in [Processes -> Blocks]
<1>1. ASSUME NEW w \in Writers, WriterStep(w)
      PROVE  /\ pc' \in [Processes -> Pcs]
             /\ \A v \in Writers : pc'[v] \in WriterPcs
             /\ \A r \in Readers : pc'[r] \in ReaderPcs
  BY <1>1, WriterFrame, ProcessesAssumption
  DEF TypeOK, ProcessTypes, Processes, Pcs
<1>2. ASSUME NEW r \in Readers, ReaderStep(r)
      PROVE  /\ pc' \in [Processes -> Pcs]
             /\ \A w \in Writers : pc'[w] \in WriterPcs
             /\ \A q \in Readers : pc'[q] \in ReaderPcs
  BY <1>2, ReaderFrame, ProcessesAssumption
  DEF TypeOK, ProcessTypes, Processes, Pcs
<1>3. ASSUME NEW w \in Writers, WriterStep(w)
      PROVE  index' \in [Processes -> Blocks]
  <2>1. CASE TryLockForWrite(w)
    <3> DEFINE b == seq[mapped[w]] % BlockNum[conf[w]]
    <3>1. index' = [index EXCEPT ![w] = b] BY <2>1 DEF TryLockForWrite
    <3>2. conf[w] \in Sizes BY DEF TypeOK, ProcessTypes, Processes
    <3>3. seq[mapped[w]] \in Blocks
      BY <2>1
      DEF TryLockForWrite, MapInv, TypeOK, ProcessTypes, BlockTypes, Processes
    <3>4. b \in Blocks BY <3>2, <3>3, IndexFits
    <3> QED BY <3>1, <3>4 DEF TypeOK, ProcessTypes
  <2>2. CASE ~TryLockForWrite(w)
    <3>1. index' = index
      BY <1>3, <2>2
      DEF WriterStep, Transmit, OpenExisting, Create, Construct, Current, Remap,
          RemapFails, Fits, Mark, MarkCrashes, Remove, TryNextBlock, Write,
          SerializeFails, WriteCrashes, Notify, procVars
    <3> QED BY <3>1 DEF TypeOK, ProcessTypes
  <2> QED BY <2>1, <2>2
<1>4. ASSUME NEW r \in Readers, ReaderStep(r)
      PROVE  index' \in [Processes -> Blocks]
  <2>1. CASE Listen(r)
    <3>1. taken[r] + 1 \in 1 .. Len(notices) /\ taken'[r] = taken[r] + 1
      BY <2>1 DEF Listen, TypeOK, MessageTypes
    <3>2. notices[taken'[r]] \in Announcements
      BY <3>1 DEF TypeOK, MessageTypes
    <3>3. notices[taken'[r]].index \in Blocks BY <3>2 DEF Announcements
    <3> QED BY <2>1, <3>3 DEF Listen, TypeOK, ProcessTypes
  <2>2. CASE ~Listen(r)
    <3>1. index' = index
      BY <1>4, <2>2
      DEF ReaderStep, CheckIndex, Current, Remap, RemapFails, LoadLock, CasOk,
          CasFail, ReleaseReadBlock
    <3> QED BY <3>1 DEF TypeOK, ProcessTypes
  <2> QED BY <2>1, <2>2
<1> QED BY <1>1, <1>2, <1>3, <1>4 DEF Next

\* The words and the contents of the blocks keep their types.
LEMMA BlockTypesStep ==
    ASSUME TypeOK, BudgetInv, MapInv, Next
    PROVE  BlockTypes'
<1>0. /\ \A w \in Writers :
           pc[w] \in {"acquire", "write"} \cup Constructing => mapped[w] \in Segments
      /\ \A r \in Readers : pc[r] # "idle" => mapped[r] \in Segments
      /\ \A p \in Processes : index[p] \in Blocks /\ conf[p] \in Sizes
  BY DEF TypeOK, ProcessTypes, MapInv, Processes
<1>a. Torn \in Torn .. MaxWrites /\ 0 \in Torn .. MaxWrites
  BY BoundsAssumption DEF Torn
<1>b. \A g \in Segments, b \in Blocks : lock_num[g][b] \in Int
  BY DEF TypeOK, BlockTypes
<1>c. ASSUME NEW g, NextSeq(g) PROVE seq' \in [Segments -> Blocks]
  BY <1>c, SmallestExists, IndexFits DEF NextSeq, TypeOK, BlockTypes
<1>1. ASSUME NEW w \in Writers, WriterStep(w) PROVE BlockTypes'
  <2>1. CASE TryLockForWrite(w)
    <3> DEFINE g == mapped[w]
               b == seq[g] % BlockNum[conf[w]]
    <3>1. g \in Segments BY <1>0, <2>1 DEF TryLockForWrite
    <3>2. b \in Blocks
      BY <1>0, <3>1, IndexFits DEF TypeOK, BlockTypes, Processes
    <3>3. seq' \in [Segments -> Blocks]
      BY <1>c, <2>1 DEF TryLockForWrite
    <3>4. /\ lock_num' = [lock_num EXCEPT ![g][b] = kWriteExclusive]
          /\ content' = [content EXCEPT ![g][b] = Torn]
          /\ written' = written
      BY <2>1 DEF TryLockForWrite, writeVars
    <3>5. kWriteExclusive \in Int BY DEF kWriteExclusive
    <3> HIDE DEF g, b
    <3> QED BY <1>a, <3>1, <3>2, <3>3, <3>4, <3>5, StoreAt DEF TypeOK, BlockTypes
  <2>2. CASE TryNextBlock(w)
    <3>1. seq' \in [Segments -> Blocks]
      BY <1>c, <2>2 DEF TryNextBlock
    <3> QED BY <2>2, <3>1 DEF TryNextBlock, TypeOK, BlockTypes, writeVars
  <2>3. CASE Fills(w)
    <3>1. /\ mapped[w] \in Segments /\ index[w] \in Blocks /\ pc[w] = "write"
          /\ content' \in [Segments -> [Blocks -> Torn .. MaxWrites]]
      BY <2>3, FillStep
    <3>2. written' \in {written, written + 1} /\ seq' = seq
      BY <2>3 DEF Fills, Write, SerializeFails, WriteCrashes
    <3>3. written' \in 0 .. MaxWrites
      BY <3>1, <3>2, RoomToWrite DEF TypeOK, BlockTypes
    <3>4. \/ lock_num' = lock_num
          \/ lock_num' = [lock_num EXCEPT ![mapped[w]][index[w]] =
                                            lock_num[mapped[w]][index[w]] + 1]
      BY <2>3
      DEF Fills, Write, SerializeFails, WriteCrashes, ReleaseWrittenBlock
    <3>5. lock_num[mapped[w]][index[w]] + 1 \in Int BY <1>b, <3>1
    <3>6. lock_num' \in [Segments -> [Blocks -> Int]]
      <4>1. CASE lock_num' = lock_num BY <4>1 DEF TypeOK, BlockTypes
      <4>2. CASE lock_num' # lock_num
        <5>1. lock_num' = [lock_num EXCEPT ![mapped[w]][index[w]] =
                                            lock_num[mapped[w]][index[w]] + 1]
          BY <3>4, <4>2
        <5>2. mapped[w] \in Segments /\ index[w] \in Blocks BY <3>1
        <5>3. lock_num \in [Segments -> [Blocks -> Int]] BY DEF TypeOK, BlockTypes
        <5> QED BY <3>5, <5>1, <5>2, <5>3, StoreAt
      <4> QED BY <4>1, <4>2
    <3> QED BY <3>1, <3>2, <3>3, <3>6 DEF TypeOK, BlockTypes
  <2>4. CASE \/ Construct(w, "construct", "check")
             \/ Construct(w, "reconstruct", "acquire")
    <3>1. 0 \in Blocks BY BlocksFit DEF Blocks
    <3>2. [b \in Blocks |-> 0] \in [Blocks -> Torn .. MaxWrites] BY <1>a
    <3>3. [b \in Blocks |-> kRWLockFree] \in [Blocks -> Int]
      BY DEF kRWLockFree
    <3> DEFINE g == mapped[w]
    <3>4. /\ seq' = [seq EXCEPT ![g] = 0]
          /\ lock_num' = [lock_num EXCEPT ![g] = [b \in Blocks |-> kRWLockFree]]
          /\ content' = [content EXCEPT ![g] = [b \in Blocks |-> 0]]
          /\ written' = written
      BY <2>4 DEF Construct, writeVars
    <3> HIDE DEF g
    <3>5. seq' \in [Segments -> Blocks]
      BY <3>1, <3>4 DEF TypeOK, BlockTypes
    <3>6. lock_num' \in [Segments -> [Blocks -> Int]]
      BY <3>3, <3>4 DEF TypeOK, BlockTypes
    <3>7. content' \in [Segments -> [Blocks -> Torn .. MaxWrites]]
      BY <3>2, <3>4 DEF TypeOK, BlockTypes
    <3> QED BY <3>4, <3>5, <3>6, <3>7 DEF TypeOK, BlockTypes
  <2>5. CASE UNCHANGED <<seq, lock_num, content, written>>
    BY <2>5 DEF TypeOK, BlockTypes
  <2> QED
    BY <1>1, <2>1, <2>2, <2>3, <2>4, <2>5
    DEF WriterStep, Fills, Transmit, OpenExisting, Create, Current, Remap,
        RemapFails, Fits, Mark, MarkCrashes, Remove, Notify, segVars, writeVars
<1>2. ASSUME NEW r \in Readers, ReaderStep(r) PROVE BlockTypes'
  <2>1. lock_num' \in [Segments -> [Blocks -> Int]]
    <3>1. CASE CasOk(r) \/ ReleaseReadBlock(r)
      <4>1. mapped[r] \in Segments /\ index[r] \in Blocks
        BY <1>0, <3>1 DEF CasOk, ReleaseReadBlock, Processes
      <4> DEFINE n == lock_num[mapped[r]][index[r]]
      <4>2. n + 1 \in Int /\ n - 1 \in Int BY <1>b, <4>1
      <4>3. \/ lock_num' = lock_num
            \/ \E v \in {n + 1, n - 1} :
                 lock_num' = [lock_num EXCEPT ![mapped[r]][index[r]] = v]
        BY <3>1 DEF CasOk, ReleaseReadBlock
      <4> HIDE DEF n
      <4>4. ASSUME NEW v \in Int,
                   lock_num' = [lock_num EXCEPT ![mapped[r]][index[r]] = v]
            PROVE  lock_num' \in [Segments -> [Blocks -> Int]]
        BY <4>1, <4>4, StoreAt DEF TypeOK, BlockTypes
      <4> QED BY <4>2, <4>3, <4>4 DEF TypeOK, BlockTypes
    <3>2. CASE lock_num' = lock_num BY <3>2 DEF TypeOK, BlockTypes
    <3> QED
      BY <1>2, <3>1, <3>2
      DEF ReaderStep, Listen, CheckIndex, Current, Remap, RemapFails, LoadLock,
          CasFail, segVars
  <2> QED BY <1>2, <2>1, ReaderFrame DEF TypeOK, BlockTypes, writeVars
<1> QED BY <1>1, <1>2 DEF Next

\* What a message carries keeps its type.
LEMMA MessageTypesStep ==
    ASSUME TypeOK, BudgetInv, MapInv, NumberInv, ReaderInv, Next
    PROVE  MessageTypes'
<1>1. ASSUME NEW w \in Writers, WriterStep(w) PROVE MessageTypes'
  <2>1. UNCHANGED readVars BY <1>1, WriterFrame DEF TypeOK
  <2>2. CASE Notify(w)
    <3> DEFINE n == [index |-> index[w], segment |-> mapped[w],
                     number |-> number[w]]
    <3>1. n \in Announcements
      <4>1. mapped[w] \in Segments /\ index[w] \in Blocks
        BY <2>2 DEF Notify, TypeOK, ProcessTypes, MapInv, Processes
      <4>2. written \in 0 .. MaxWrites BY DEF TypeOK, BlockTypes
      <4>3. number[w] \in 1 .. MaxWrites
        BY <2>2, <4>2, BoundsAssumption DEF Notify, NumberInv
      <4> QED BY <4>1, <4>3 DEF Announcements
    <3>2. notices' = Append(notices, n) /\ UNCHANGED writeVars
      BY <2>2 DEF Notify
    <3> HIDE DEF n
    <3> QED BY <2>1, <3>1, <3>2 DEF TypeOK, MessageTypes, readVars, writeVars
  <2>3. CASE ~Notify(w)
    <3>1. notices' = notices BY <1>1, <2>3, WriterFrame DEF TypeOK
    <3>2. number' \in [Writers -> 0 .. MaxWrites]
      <4>1. CASE Write(w)
        <5>1. written' \in 0 .. MaxWrites
          BY BlockTypesStep, <1>1 DEF Next, BlockTypes
        <5> QED BY <4>1, <5>1 DEF Write, TypeOK, MessageTypes
      <4>2. CASE number' = number BY <4>2 DEF TypeOK, MessageTypes
      <4> QED
        BY <1>1, <4>1, <4>2
        DEF WriterStep, Transmit, OpenExisting, Create, Construct, Current,
            Remap, RemapFails, Fits, Mark, MarkCrashes, Remove,
            TryLockForWrite, TryNextBlock, SerializeFails, WriteCrashes, Notify,
            writeVars
    <3>3. /\ size' \in [Writers -> Messages \cup {0}] /\ killed' \subseteq Writers
          /\ former' \in [Writers -> Torn .. MaxWrites]
      BY <1>1, SizeStep DEF Next
    <3> QED BY <2>1, <3>1, <3>2, <3>3 DEF TypeOK, MessageTypes, readVars
  <2> QED BY <2>2, <2>3
<1>2. ASSUME NEW r \in Readers, ReaderStep(r) PROVE MessageTypes'
  <2>1. UNCHANGED writeVars /\ notices' = notices
    BY <1>2, ReaderFrame DEF TypeOK
  <2>2. CASE Listen(r)
    BY <2>1, <2>2, TriesAssumption DEF Listen, TypeOK, MessageTypes, writeVars
  <2>3. CASE LoadLock(r)
    <3>1. lock_num[mapped[r]][index[r]] \in Int
      BY <2>3 DEF LoadLock, TypeOK, BlockTypes, ProcessTypes, MapInv, Processes
    <3> QED BY <2>1, <2>3, <3>1 DEF LoadLock, TypeOK, MessageTypes, writeVars
  <2>4. CASE CasFail(r)
    <3>1. tries'[r] \in 0 .. kMaxTryLockTimes
      <4>1. tries[r] \in Nat /\ tries[r] < kMaxTryLockTimes
        BY <2>4 DEF CasFail, ReaderInv, TypeOK, MessageTypes
      <4>2. tries'[r] = tries[r] + 1 BY <2>4 DEF CasFail, TypeOK, MessageTypes
      <4> QED BY <4>1, <4>2, TriesAssumption
    <3> QED BY <2>1, <2>4, <3>1 DEF CasFail, TypeOK, MessageTypes, writeVars
  <2>5. CASE UNCHANGED readVars
    BY <2>1, <2>5 DEF TypeOK, MessageTypes, readVars, writeVars
  <2> QED
    BY <1>2, <2>2, <2>3, <2>4, <2>5
    DEF ReaderStep, CheckIndex, Current, Remap, RemapFails, CasOk,
        ReleaseReadBlock
<1> QED BY <1>1, <1>2 DEF Next

-----------------------------------------------------------------------------
(* Where the processes are *)

\* A process has a segment where it needs one.
LEMMA MapStep ==
    ASSUME TypeOK, MapInv, Next
    PROVE  MapInv'
<1> USE ProcessesAssumption
    DEF TypeOK, ProcessTypes, MapInv, Processes, Constructing, Goto, None
<1>1. ASSUME NEW w \in Writers, WriterStep(w) PROVE MapInv'
  <2>1. CASE Transmit(w) BY <2>1 DEF Transmit
  <2>2. CASE OpenExisting(w, "open", "check") \/ OpenExisting(w, "reopen", "acquire")
    BY <2>2 DEF OpenExisting, Attach
  <2>3. CASE Create(w, "open", "construct") \/ Create(w, "reopen", "reconstruct")
    <3>1. created' # None BY <2>3 DEF Create, SegmentTypes
    <3> QED BY <2>3, <3>1 DEF Create
  <2>4. CASE \/ Construct(w, "construct", "check")
             \/ Construct(w, "reconstruct", "acquire")
    BY <2>4 DEF Construct
  <2>5. CASE Current(w, "size") BY <2>5 DEF Current
  <2>6. CASE Remap(w, "size") BY <2>6 DEF Remap, Attach
  <2>7. CASE RemapFails(w, "size") BY <2>7 DEF RemapFails
  <2>8. CASE Fits(w) \/ MarkCrashes(w) BY <2>8 DEF Fits, MarkCrashes
  <2>9. CASE Mark(w) \/ Remove(w) BY <2>9 DEF Mark, Remove
  <2>10. CASE TryLockForWrite(w) \/ TryNextBlock(w)
    BY <2>10 DEF TryLockForWrite, TryNextBlock, procVars
  <2>11. CASE Write(w) \/ SerializeFails(w) \/ WriteCrashes(w) \/ Notify(w)
    BY <2>11 DEF Write, SerializeFails, WriteCrashes, Notify, procVars
  <2> QED
    BY <1>1, <2>1, <2>2, <2>3, <2>4, <2>5, <2>6, <2>7, <2>8, <2>9, <2>10, <2>11
    DEF WriterStep
<1>2. ASSUME NEW r \in Readers, ReaderStep(r) PROVE MapInv'
  <2>1. CASE Listen(r) BY <2>1 DEF Listen, Attach
  <2>2. CASE CheckIndex(r) \/ Current(r, "lock") BY <2>2 DEF CheckIndex, Current
  <2>3. CASE Remap(r, "lock") BY <2>3 DEF Remap, Attach
  <2>4. CASE RemapFails(r, "idle") BY <2>4 DEF RemapFails
  <2>5. CASE LoadLock(r) \/ CasOk(r) \/ CasFail(r)
    BY <2>5 DEF LoadLock, CasOk, CasFail
  <2>6. CASE ReleaseReadBlock(r) BY <2>6 DEF ReleaseReadBlock
  <2> QED BY <1>2, <2>1, <2>2, <2>3, <2>4, <2>5, <2>6 DEF ReaderStep
<1> QED BY <1>1, <1>2 DEF Next

\* A reader keeps to its notification.
LEMMA ReaderInvStep ==
    ASSUME TypeOK, MapInv, ReaderInv, Next
    PROVE  ReaderInv'
<1>1. ASSUME NEW w \in Writers, WriterStep(w) PROVE ReaderInv'
  <2>1. /\ \A r \in Readers : pc'[r] = pc[r] /\ index'[r] = index[r]
        /\ UNCHANGED readVars
        /\ notices' = notices \/ Notify(w)
    BY <1>1, WriterFrame, ProcessesAssumption DEF TypeOK, ProcessTypes, Processes
  <2>2. \A r \in Readers : taken[r] \in 0 .. Len(notices)
    BY DEF TypeOK, MessageTypes
  <2>3. \A k \in 1 .. Len(notices) : notices'[k] = notices[k]
    <3>1. notices \in Seq(Announcements) BY DEF TypeOK, MessageTypes
    <3>2. CASE Notify(w)
      <4> DEFINE n == [index |-> index[w], segment |-> mapped[w],
                       number |-> number[w]]
      <4>1. notices' = Append(notices, n) BY <3>2 DEF Notify
      <4> HIDE DEF n
      <4> QED BY <3>1, <4>1
    <3> QED BY <2>1, <3>2
  <2> QED BY <2>1, <2>2, <2>3 DEF ReaderInv, readVars
<1>2. ASSUME NEW r \in Readers, ReaderStep(r) PROVE ReaderInv'
  <2> USE DEF TypeOK, ProcessTypes, MessageTypes, ReaderInv, Processes, Goto,
              readVars, segVars
  <2>1. notices' = notices BY <1>2, ReaderFrame
  <2>2. CASE Listen(r) BY <2>1, <2>2, TriesAssumption DEF Listen
  <2>3. CASE \/ CheckIndex(r) \/ Current(r, "lock") \/ Remap(r, "lock")
             \/ RemapFails(r, "idle") \/ CasOk(r) \/ ReleaseReadBlock(r)
    BY <2>1, <2>3
    DEF CheckIndex, Current, Remap, RemapFails, CasOk, ReleaseReadBlock
  <2>4. CASE LoadLock(r)
    <3> DEFINE n == lock_num[mapped[r]][index[r]]
    <3>1. /\ seen' = [seen EXCEPT ![r] = n]
          /\ pc' = [pc EXCEPT ![r] = IF n < kRWLockFree THEN "idle" ELSE "cas"]
          /\ UNCHANGED <<index, taken, tries>> /\ pc[r] = "lock"
      BY <2>4 DEF LoadLock
    <3>2. mapped[r] \in Segments /\ index[r] \in Blocks
      BY <2>4 DEF LoadLock, MapInv
    <3>3. n \in Int BY <3>2 DEF BlockTypes
    <3> HIDE DEF n
    <3> QED BY <2>1, <3>1, <3>3 DEF kRWLockFree
  <2>5. CASE CasFail(r)
    <3>1. tries[r] \in Nat /\ tries[r] < kMaxTryLockTimes /\ pc[r] = "cas"
      BY <2>5 DEF CasFail
    <3>2. /\ tries' = [tries EXCEPT ![r] = tries[r] + 1]
          /\ pc' = [pc EXCEPT ![r] = IF tries[r] + 1 = kMaxTryLockTimes
                                     THEN "idle" ELSE "lock"]
          /\ UNCHANGED <<index, seen, taken>>
      BY <2>5 DEF CasFail
    <3>3. pc'[r] # "idle" => tries'[r] < kMaxTryLockTimes
      BY <3>1, <3>2, TriesAssumption
    <3> QED BY <2>1, <3>1, <3>2, <3>3
  <2> QED BY <1>2, <2>2, <2>3, <2>4, <2>5 DEF ReaderStep
<1> QED BY <1>1, <1>2 DEF Next

AtBlock == {"write", "read", "notify"}

\* p is not at work on a block, and leaves blocks and messages alone.
Aside(p) ==
    /\ UNCHANGED <<lock_num, content, ceiling, written, number, former, notices,
                   overrun>>
    /\ early \subseteq early'
    /\ created <= created' /\ \A g \in raw' \ raw : g > created
    /\ \A q \in Processes \ {p} :
         /\ pc'[q] = pc[q] /\ mapped'[q] = mapped[q]
         /\ index'[q] = index[q] /\ conf'[q] = conf[q]
    /\ pc[p] \notin AtBlock /\ pc'[p] \notin AtBlock

\* The steps that do something to a block or a message.
BlockStep(w) ==
    \/ Construct(w, "construct", "check") \/ Construct(w, "reconstruct", "acquire")
    \/ TryLockForWrite(w) \/ Fills(w) \/ Notify(w)

\* Every step leaves the blocks alone or is one of these.
LEMMA BlockKinds ==
    ASSUME TypeOK, Next
    PROVE  \/ \E p \in Processes : Aside(p)
           \/ \E w \in Writers : BlockStep(w)
           \/ \E r \in Readers : CasOk(r) \/ ReleaseReadBlock(r)
<1> USE BoundsAssumption
    DEF TypeOK, SegmentTypes, ProcessTypes, Processes, Aside, AtBlock,
        WriterPcs, ReaderPcs, Goto, segVars, procVars, writeVars, historyVars
<1>1. ASSUME NEW w \in Writers, WriterStep(w) PROVE Aside(w) \/ BlockStep(w)
  <2>1. CASE Transmit(w) BY <2>1 DEF Transmit
  <2>2. CASE OpenExisting(w, "open", "check") \/ OpenExisting(w, "reopen", "acquire")
    BY <2>2 DEF OpenExisting, Attach
  <2>3. CASE Create(w, "open", "construct") \/ Create(w, "reopen", "reconstruct")
    BY <2>3 DEF Create
  <2>4. CASE Current(w, "size") BY <2>4 DEF Current
  <2>5. CASE Remap(w, "size") BY <2>5 DEF Remap, Attach
  <2>6. CASE RemapFails(w, "size") BY <2>6 DEF RemapFails
  <2>7. CASE Fits(w) \/ MarkCrashes(w) BY <2>7 DEF Fits, MarkCrashes
  <2>8. CASE Mark(w) \/ Remove(w) BY <2>8 DEF Mark, Remove
  <2>9. CASE TryNextBlock(w) BY <2>9 DEF TryNextBlock
  <2> QED
    BY <1>1, <2>1, <2>2, <2>3, <2>4, <2>5, <2>6, <2>7, <2>8, <2>9
    DEF WriterStep, BlockStep, Fills
<1>2. ASSUME NEW r \in Readers, ReaderStep(r)
      PROVE  Aside(r) \/ CasOk(r) \/ ReleaseReadBlock(r)
  <2>1. CASE Listen(r) BY <2>1 DEF Listen, Attach
  <2>2. CASE CheckIndex(r) \/ Current(r, "lock") BY <2>2 DEF CheckIndex, Current
  <2>3. CASE Remap(r, "lock") BY <2>3 DEF Remap, Attach
  <2>4. CASE RemapFails(r, "idle") BY <2>4 DEF RemapFails
  <2>5. CASE LoadLock(r) \/ CasFail(r) BY <2>5 DEF LoadLock, CasFail
  <2> QED BY <1>2, <2>1, <2>2, <2>3, <2>4, <2>5 DEF ReaderStep
<1> QED BY <1>1, <1>2 DEF Next, Processes

\* A writer keeps to its block, and numbers what it writes.
LEMMA WriterInvStep ==
    ASSUME TypeOK, MapInv, BlockInv, NumberInv, TypeOK', Next
    PROVE  BlockInv' /\ NumberInv'
<1> USE ProcessesAssumption
    DEF TypeOK, ProcessTypes, BlockInv, NumberInv, Processes, Goto, Constructing
<1>0. written \in Nat /\ Len(notices) \in Nat /\ number \in [Writers -> Nat]
  BY BoundsAssumption DEF BlockTypes, MessageTypes
<1>1. ASSUME NEW p \in Processes, Aside(p) PROVE BlockInv' /\ NumberInv'
  BY <1>1 DEF Aside, AtBlock
<1>2. ASSUME NEW w \in Writers, BlockStep(w) PROVE BlockInv' /\ NumberInv'
  <2>1. CASE \/ Construct(w, "construct", "check")
             \/ Construct(w, "reconstruct", "acquire")
    BY <2>1 DEF Construct, writeVars
  <2>2. CASE TryLockForWrite(w)
    <3>1. mapped[w] \in Segments /\ conf[w] \in Sizes
      BY <2>2 DEF TryLockForWrite, MapInv
    <3>2. seq[mapped[w]] % BlockNum[conf[w]] < BlockNum[conf[w]]
      BY <3>1, IndexFits DEF BlockTypes
    <3> QED BY <2>2, <3>2 DEF TryLockForWrite, writeVars
  <2>3. CASE Write(w)
    <3>1. BlockInv' BY <2>3 DEF Write
    <3>2. written' = written + 1 /\ number' = [number EXCEPT ![w] = written + 1]
      BY <2>3 DEF Write
    <3>3. \A v \in Writers : pc'[v] = "notify" => number'[v] \in 1 .. written'
      BY <1>0, <2>3, <3>2 DEF Write
    <3>4. \A k \in 1 .. Len(notices) : notices'[k].number <= written'
      <4> SUFFICES ASSUME NEW k \in 1 .. Len(notices)
                   PROVE  notices[k].number <= written'
        BY <2>3 DEF Write
      <4>1. notices[k] \in Announcements BY DEF MessageTypes
      <4>2. notices[k].number \in Nat
        BY <4>1, BoundsAssumption DEF Announcements
      <4> QED BY <1>0, <3>2, <4>2
    <3> QED BY <2>3, <3>1, <3>3, <3>4 DEF Write
  <2>5. CASE SerializeFails(w) \/ WriteCrashes(w)
    <3>1. BlockInv' BY <2>5 DEF SerializeFails, WriteCrashes, procVars
    <3>2. /\ written' \in {written, written + 1} /\ UNCHANGED <<number, notices>>
          /\ \A v \in Writers : pc'[v] = "notify" => pc[v] = "notify"
      BY <2>5 DEF SerializeFails, WriteCrashes, procVars
    <3>3. \A v \in Writers : pc'[v] = "notify" => number'[v] \in 1 .. written'
      BY <1>0, <3>2
    <3>4. \A k \in 1 .. Len(notices) : notices'[k].number <= written'
      <4> SUFFICES ASSUME NEW k \in 1 .. Len(notices)
                   PROVE  notices[k].number <= written'
        BY <3>2
      <4>1. notices[k] \in Announcements BY DEF MessageTypes
      <4>2. notices[k].number \in Nat
        BY <4>1, BoundsAssumption DEF Announcements
      <4> QED BY <1>0, <3>2, <4>2
    <3> QED BY <3>1, <3>2, <3>3, <3>4
  <2>4. CASE Notify(w)
    <3> DEFINE n == [index |-> index[w], segment |-> mapped[w],
                     number |-> number[w]]
    <3>1. notices' = Append(notices, n) /\ number[w] <= written /\ written' = written
      BY <1>0, <2>4 DEF Notify, writeVars
    <3>2. n.number = number[w] OBVIOUS
    <3>3. BlockInv' BY <2>4 DEF Notify
    <3>4. \A v \in Writers : pc'[v] = "notify" => number'[v] \in 1 .. written'
      BY <2>4 DEF Notify, writeVars
    <3> HIDE DEF n
    <3>5. \A k \in 1 .. Len(notices') : notices'[k].number <= written'
      <4> SUFFICES ASSUME NEW k \in 1 .. Len(notices')
                   PROVE  notices'[k].number <= written
        BY <3>1
      <4>1. notices \in Seq(Announcements) BY DEF MessageTypes
      <4>2. CASE k \in 1 .. Len(notices) BY <3>1, <4>1, <4>2
      <4>3. CASE k = Len(notices) + 1 BY <3>1, <3>2, <4>1, <4>3
      <4>4. Len(notices') = Len(notices) + 1 BY <3>1, <4>1
      <4> QED BY <1>0, <4>2, <4>3, <4>4
    <3> QED BY <3>3, <3>4, <3>5
  <2> QED BY <1>2, <2>1, <2>2, <2>3, <2>4, <2>5 DEF BlockStep, Fills
<1>3. ASSUME NEW r \in Readers, CasOk(r) \/ ReleaseReadBlock(r)
      PROVE  BlockInv' /\ NumberInv'
  BY <1>3 DEF CasOk, ReleaseReadBlock, writeVars
<1> QED BY <1>1, <1>2, <1>3, BlockKinds

-----------------------------------------------------------------------------
(* The bound on the messages *)

\* Transmit stops at the bound, so the writes do.
LEMMA BudgetStep ==
    ASSUME TypeOK, BudgetInv, Next
    PROVE  BudgetInv'
<1>0. written \in Nat /\ MaxWrites \in Nat
  BY BoundsAssumption DEF TypeOK, BlockTypes
<1> USE DEF TypeOK, ProcessTypes, Processes, Goto
<1>1. ASSUME NEW w \in Writers, WriterStep(w) PROVE BudgetInv'
  <2>1. CASE Transmit(w)
    <3>1. w \notin Unwritten /\ Unwritten' = Unwritten \cup {w} /\ written' = written
      BY <2>1 DEF Transmit, Unwritten
    <3>2. Cardinality(Unwritten') = Cardinality(Unwritten) + 1
      BY <3>1, UnwrittenFinite, CardinalityStep
    <3>3. written + Cardinality(Unwritten) < MaxWrites BY <2>1 DEF Transmit
    <3>4. Cardinality(Unwritten) \in Nat BY UnwrittenFinite, CardinalityStep
    <3> QED BY <1>0, <3>1, <3>2, <3>3, <3>4 DEF BudgetInv
  <2>2. CASE Write(w) \/ SerializeFails(w)
    <3>1. w \in Unwritten /\ Unwritten' = Unwritten \ {w} /\ written' = written + 1
      BY <2>2 DEF Write, SerializeFails, Unwritten
    <3>2. Cardinality(Unwritten') = Cardinality(Unwritten) - 1
      BY <3>1, UnwrittenFinite, CardinalityStep
    <3>3. Cardinality(Unwritten) \in Nat BY UnwrittenFinite, CardinalityStep
    <3> QED BY <1>0, <3>1, <3>2, <3>3 DEF BudgetInv
  <2>3. CASE Fits(w) \/ MarkCrashes(w)
    <3>1. /\ w \in Unwritten /\ written' = written
          /\ Unwritten' = Unwritten \/ Unwritten' = Unwritten \ {w}
      BY <2>3 DEF Fits, MarkCrashes, Unwritten, writeVars
    <3>2. Cardinality(Unwritten \ {w}) = Cardinality(Unwritten) - 1
      BY <3>1, UnwrittenFinite, CardinalityStep
    <3>3. Cardinality(Unwritten) \in Nat BY UnwrittenFinite, CardinalityStep
    <3> QED BY <1>0, <3>1, <3>2, <3>3 DEF BudgetInv
  <2>4. CASE UNCHANGED <<Unwritten, written>> BY <2>4 DEF BudgetInv
  <2>5. \/ Transmit(w) \/ Write(w) \/ SerializeFails(w)
        \/ Fits(w) \/ MarkCrashes(w)
        \/ written' = written
           /\ \E l \in WriterPcs \ {"idle", "notify", "dead"} :
                pc' = [pc EXCEPT ![w] = l]
           /\ pc[w] \notin {"idle", "notify", "dead"}
        \/ Notify(w)
    BY <1>1
    DEF WriterStep, OpenExisting, Create, Construct, Current, Remap, RemapFails,
        Mark, Remove, TryLockForWrite, TryNextBlock, WriteCrashes, writeVars,
        procVars, WriterPcs
  <2>6. Notify(w) => UNCHANGED <<Unwritten, written>>
    BY DEF Notify, Unwritten, writeVars
  <2> QED BY <2>1, <2>2, <2>3, <2>4, <2>5, <2>6 DEF Unwritten
<1>2. ASSUME NEW r \in Readers, ReaderStep(r) PROVE BudgetInv'
  <2>1. UNCHANGED <<Unwritten, written>>
    BY <1>2, ReaderFrame, ProcessesAssumption DEF Unwritten, writeVars
  <2> QED BY <2>1 DEF BudgetInv
<1> QED BY <1>1, <1>2 DEF Next

-----------------------------------------------------------------------------
(* The words of the blocks *)

\* The users of a block can be counted.
LEMMA HoldersFinite ==
    ASSUME NEW g, NEW b, NEW label
    PROVE  /\ IsFiniteSet(Holders(g, b, label))
           /\ Cardinality(Holders(g, b, label)) \in Nat
<1>1. IsFiniteSet(Processes) BY ProcessesAssumption, FS_Union DEF Processes
<1>2. Holders(g, b, label) \subseteq Processes BY DEF Holders
<1> QED BY <1>1, <1>2, FS_Subset, FS_CardinalityType

\* The word of a block, with its writers and its readers as numbers.
WordOK(g, b) ==
    LET w == Cardinality(Holders(g, b, "write"))
        r == Cardinality(Holders(g, b, "read"))
    IN lock_num[g][b] = r - w /\ w <= 1 /\ (w = 1 => r = 0)

\* The word of a block keeps count of its users.
LEMMA LockStep ==
    ASSUME TypeOK, TypeOK', MapInv, LifeInv, BlockInv, ReaderInv,
           LockWordExact, Next
    PROVE  LockWordExact'
<1> SUFFICES ASSUME NEW g \in Segments, g \notin early', NEW b \in Blocks,
                    RealBlock(g, b)'
             PROVE  WordOK(g, b)'
  BY DEF LockWordExact, WordOK
<1>0. /\ lock_num \in [Segments -> [Blocks -> Int]]
      /\ mapped \in [Processes -> Segments \cup {None}]
      /\ conf \in [Processes -> Sizes]
      /\ index \in [Processes -> Blocks]
      /\ Writers \subseteq Processes /\ Readers \subseteq Processes
  BY DEF TypeOK, ProcessTypes, BlockTypes, Processes
<1>1. ASSUME g \notin early, RealBlock(g, b) PROVE WordOK(g, b)
  BY <1>1 DEF LockWordExact, WordOK
<1>2. ASSUME g \notin early, RealBlock(g, b),
             lock_num'[g][b] = lock_num[g][b],
             \A l \in {"write", "read"} : Holders(g, b, l)' = Holders(g, b, l)
      PROVE  WordOK(g, b)'
  <2>1. WordOK(g, b) BY <1>1, <1>2
  <2> QED BY <1>2, <2>1 DEF WordOK
<1>3. ASSUME NEW p \in Processes, Aside(p) PROVE WordOK(g, b)'
  <2>1. g \notin early /\ RealBlock(g, b) /\ lock_num'[g][b] = lock_num[g][b]
    BY <1>3 DEF Aside, RealBlock
  <2>2. \A l \in {"write", "read"} : Holders(g, b, l)' = Holders(g, b, l)
    BY <1>3 DEF Aside, AtBlock, Holders
  <2> QED BY <1>2, <2>1, <2>2
<1>4. ASSUME NEW w \in Writers, \/ Construct(w, "construct", "check")
                                \/ Construct(w, "reconstruct", "acquire")
      PROVE  WordOK(g, b)'
  <2>1. /\ UNCHANGED <<early, mapped, index>> /\ pc[w] \in Constructing
        /\ \E l \in {"check", "acquire"} : pc' = [pc EXCEPT ![w] = l]
        /\ lock_num' = [lock_num EXCEPT ![mapped[w]] = [c \in Blocks |-> kRWLockFree]]
        /\ ceiling' = [ceiling EXCEPT ![mapped[w]] = conf[w]]
    BY <1>4 DEF Construct, Goto, Constructing, historyVars
  <2>2. CASE g # mapped[w]
    <3>1. RealBlock(g, b) /\ lock_num'[g][b] = lock_num[g][b]
      BY <2>1, <2>2 DEF RealBlock, TypeOK, SegmentTypes, BlockTypes
    <3>2. \A l \in {"write", "read"} : Holders(g, b, l)' = Holders(g, b, l)
      BY <1>0, <2>1 DEF Constructing, Holders, TypeOK, ProcessTypes
    <3> QED BY <1>2, <2>1, <3>1, <3>2
  <2>3. CASE g = mapped[w]
    <3>1. lock_num'[g][b] = 0
      BY <2>1, <2>3 DEF TypeOK, BlockTypes, kRWLockFree
    <3>2. g \in raw \ early
      BY <1>0, <2>1, <2>3 DEF LifeInv, RawInv
    <3>3. \A p \in Processes : mapped[p] = g => pc[p] \in Constructing
      BY <3>2 DEF LifeInv, RawInv
    <3>4. Holders(g, b, "write")' = {} /\ Holders(g, b, "read")' = {}
      BY <1>0, <2>1, <3>3 DEF Holders, Constructing, TypeOK, ProcessTypes
    <3> QED BY <3>1, <3>4, FS_EmptySet DEF WordOK
  <2> QED BY <2>2, <2>3
<1>5. ASSUME NEW w \in Writers, TryLockForWrite(w) PROVE WordOK(g, b)'
  <2> DEFINE h == mapped[w]
             c == seq[h] % BlockNum[conf[w]]
  <2>1. /\ UNCHANGED <<early, mapped, ceiling>> /\ pc[w] = "acquire"
        /\ pc' = [pc EXCEPT ![w] = "write"]
        /\ index' = [index EXCEPT ![w] = c]
        /\ lock_num[h][c] = 0
        /\ lock_num' = [lock_num EXCEPT ![h][c] = -1]
    BY <1>5 DEF TryLockForWrite, Goto, historyVars, kRWLockFree, kWriteExclusive
  <2>2. h \in Segments BY <1>0, <2>1 DEF MapInv
  <2>3. c \in Blocks
    BY <1>0, <2>2, IndexFits DEF TypeOK, BlockTypes
  <2> HIDE DEF h, c
  <2>4. g \notin early /\ RealBlock(g, b) BY <2>1 DEF RealBlock
  <2>5. CASE g # h \/ b # c
    <3>1. lock_num'[g][b] = lock_num[g][b] BY <1>0, <2>1, <2>2, <2>3, <2>5, StoreAt
    <3>2. \A l \in {"write", "read"} : Holders(g, b, l)' = Holders(g, b, l)
      BY <1>0, <2>1, <2>5 DEF h, Holders, TypeOK, ProcessTypes
    <3> QED BY <1>2, <2>4, <3>1, <3>2
  <2>6. CASE g = h /\ b = c
    <3>1. lock_num'[g][b] = -1 BY <1>0, <2>1, <2>2, <2>3, <2>6, StoreAt
    <3>2. WordOK(g, b) /\ lock_num[g][b] = 0 BY <1>1, <2>1, <2>4, <2>6
    <3>3. /\ Cardinality(Holders(g, b, "write")) = 0
          /\ Cardinality(Holders(g, b, "read")) = 0
      BY <3>2, HoldersFinite DEF WordOK
    <3>4. Holders(g, b, "write") = {} /\ Holders(g, b, "read") = {}
      BY <3>3, HoldersFinite, FS_EmptySet
    <3>5. Holders(g, b, "write")' = {w} /\ Holders(g, b, "read")' = {}
      BY <1>0, <2>1, <2>6, <3>4 DEF Holders, h, TypeOK, ProcessTypes
    <3>6. Cardinality({w}) = 1 /\ Cardinality({}) = 0 BY FS_Singleton, FS_EmptySet
    <3> QED BY <3>1, <3>5, <3>6 DEF WordOK
  <2> QED BY <2>5, <2>6
<1>6. ASSUME NEW w \in Writers, Write(w) \/ SerializeFails(w)
      PROVE  WordOK(g, b)'
  <2>1. /\ UNCHANGED <<early, mapped, ceiling, index>> /\ pc[w] = "write"
        /\ \E l \in {"notify", "idle"} : pc' = [pc EXCEPT ![w] = l]
        /\ lock_num' = [lock_num EXCEPT ![mapped[w]][index[w]] =
                                          lock_num[mapped[w]][index[w]] + 1]
    BY <1>6 DEF Write, SerializeFails, ReleaseWrittenBlock, Goto, historyVars
  <2>2. mapped[w] \in Segments /\ index[w] \in Blocks BY <1>0, <2>1 DEF MapInv
  <2>3. g \notin early /\ RealBlock(g, b) BY <2>1 DEF RealBlock
  <2>4. lock_num[mapped[w]][index[w]] + 1 \in Int BY <1>0, <2>2
  <2>5. CASE g # mapped[w] \/ b # index[w]
    <3>1. lock_num'[g][b] = lock_num[g][b] BY <1>0, <2>1, <2>2, <2>4, <2>5, StoreAt
    <3>2. \A l \in {"write", "read"} : Holders(g, b, l)' = Holders(g, b, l)
      BY <1>0, <2>1, <2>5 DEF Holders, TypeOK, ProcessTypes
    <3> QED BY <1>2, <2>3, <3>1, <3>2
  <2>6. CASE g = mapped[w] /\ b = index[w]
    <3>1. lock_num'[g][b] = lock_num[g][b] + 1
      BY <1>0, <2>1, <2>2, <2>4, <2>6, StoreAt
    <3>2. WordOK(g, b) BY <1>1, <2>3
    <3>3. w \in Holders(g, b, "write") BY <1>0, <2>1, <2>6 DEF Holders
    <3>4. /\ Cardinality(Holders(g, b, "write")) = 1
          /\ Cardinality(Holders(g, b, "read")) = 0
          /\ lock_num[g][b] = -1
      <4>1. Cardinality(Holders(g, b, "write")) # 0
        BY <3>3, HoldersFinite, CardinalityStep
      <4> QED BY <3>2, <4>1, HoldersFinite DEF WordOK
    <3>5. /\ Holders(g, b, "write")' = Holders(g, b, "write") \ {w}
          /\ Holders(g, b, "read")' = Holders(g, b, "read")
      BY <1>0, <2>1 DEF Holders, TypeOK, ProcessTypes
    <3>6. Cardinality(Holders(g, b, "write") \ {w}) = 0
      BY <3>3, <3>4, HoldersFinite, CardinalityStep
    <3> QED BY <3>1, <3>4, <3>5, <3>6 DEF WordOK
  <2> QED BY <2>5, <2>6
<1>7. ASSUME NEW w \in Writers, Notify(w) \/ WriteCrashes(w)
      PROVE  WordOK(g, b)'
  <2>1. /\ g \notin early /\ RealBlock(g, b) /\ lock_num'[g][b] = lock_num[g][b]
    BY <1>7 DEF Notify, WriteCrashes, RealBlock, segVars, historyVars
  <2>2. \A l \in {"write", "read"} : Holders(g, b, l)' = Holders(g, b, l)
    BY <1>0, <1>7
    DEF Notify, WriteCrashes, Goto, Holders, TypeOK, ProcessTypes, procVars
  <2> QED BY <1>2, <2>1, <2>2
<1>8. ASSUME NEW r \in Readers, CasOk(r) PROVE WordOK(g, b)'
  <2>1. /\ UNCHANGED <<early, mapped, ceiling, index>> /\ pc[r] = "cas"
        /\ pc' = [pc EXCEPT ![r] = "read"]
        /\ lock_num[mapped[r]][index[r]] = seen[r]
        /\ lock_num' = [lock_num EXCEPT ![mapped[r]][index[r]] =
                                          lock_num[mapped[r]][index[r]] + 1]
    BY <1>8 DEF CasOk, Goto, historyVars
  <2>2. mapped[r] \in Segments /\ index[r] \in Blocks BY <1>0, <2>1 DEF MapInv
  <2>3. g \notin early /\ RealBlock(g, b) BY <2>1 DEF RealBlock
  <2>4. lock_num[mapped[r]][index[r]] + 1 \in Int BY <1>0, <2>2
  <2>5. CASE g # mapped[r] \/ b # index[r]
    <3>1. lock_num'[g][b] = lock_num[g][b] BY <1>0, <2>1, <2>2, <2>4, <2>5, StoreAt
    <3>2. \A l \in {"write", "read"} : Holders(g, b, l)' = Holders(g, b, l)
      BY <1>0, <2>1, <2>5 DEF Holders, TypeOK, ProcessTypes
    <3> QED BY <1>2, <2>3, <3>1, <3>2
  <2>6. CASE g = mapped[r] /\ b = index[r]
    <3>1. lock_num'[g][b] = lock_num[g][b] + 1 /\ lock_num[g][b] >= 0
      BY <1>0, <2>1, <2>2, <2>4, <2>6, StoreAt DEF ReaderInv, kRWLockFree
    <3>2. WordOK(g, b) BY <1>1, <2>3
    <3>3. Cardinality(Holders(g, b, "write")) = 0
      BY <3>1, <3>2, HoldersFinite DEF WordOK
    <3>4. r \notin Holders(g, b, "read") BY <2>1 DEF Holders
    <3>5. /\ Holders(g, b, "read")' = Holders(g, b, "read") \cup {r}
          /\ Holders(g, b, "write")' = Holders(g, b, "write")
      BY <1>0, <2>1, <2>6 DEF Holders, TypeOK, ProcessTypes
    <3>6. Cardinality(Holders(g, b, "read") \cup {r}) =
            Cardinality(Holders(g, b, "read")) + 1
      BY <3>4, HoldersFinite, CardinalityStep
    <3>7. Cardinality(Holders(g, b, "read")) \in Nat BY HoldersFinite
    <3>8. lock_num[g][b] = Cardinality(Holders(g, b, "read"))
      BY <3>2, <3>3, <3>7 DEF WordOK
    <3>9. /\ Cardinality(Holders(g, b, "read"))' =
               Cardinality(Holders(g, b, "read")) + 1
          /\ Cardinality(Holders(g, b, "write"))' = 0
      BY <3>3, <3>5, <3>6
    <3> QED BY <3>1, <3>7, <3>8, <3>9 DEF WordOK
  <2> QED BY <2>5, <2>6
<1>9. ASSUME NEW r \in Readers, ReleaseReadBlock(r) PROVE WordOK(g, b)'
  <2>1. /\ UNCHANGED <<early, mapped, ceiling, index>> /\ pc[r] = "read"
        /\ pc' = [pc EXCEPT ![r] = "idle"]
        /\ IF index[r] < BlockNum[conf[r]]
           THEN lock_num' = [lock_num EXCEPT ![mapped[r]][index[r]] =
                                               lock_num[mapped[r]][index[r]] - 1]
           ELSE lock_num' = lock_num
    BY <1>9 DEF ReleaseReadBlock, Goto, historyVars
  <2>2. mapped[r] \in Segments /\ index[r] \in Blocks BY <1>0, <2>1 DEF MapInv
  <2>3. g \notin early /\ RealBlock(g, b) BY <2>1 DEF RealBlock
  <2>4. lock_num[mapped[r]][index[r]] - 1 \in Int BY <1>0, <2>2
  <2>5. CASE g # mapped[r] \/ b # index[r]
    <3>1. lock_num'[g][b] = lock_num[g][b] BY <1>0, <2>1, <2>2, <2>4, <2>5, StoreAt
    <3>2. \A l \in {"write", "read"} : Holders(g, b, l)' = Holders(g, b, l)
      BY <1>0, <2>1, <2>5 DEF Holders, TypeOK, ProcessTypes
    <3> QED BY <1>2, <2>3, <3>1, <3>2
  <2>6. CASE g = mapped[r] /\ b = index[r]
    <3>0. g \notin {None} BY DEF Segments, None
    <3>1. ceiling[g] = conf[r]
      BY <1>0, <2>1, <2>3, <2>6, <3>0 DEF LifeInv, ConfInv, Constructing
    <3>2. lock_num'[g][b] = lock_num[g][b] - 1
      BY <1>0, <2>1, <2>2, <2>3, <2>4, <2>6, <3>1, StoreAt DEF RealBlock
    <3>3. WordOK(g, b) BY <1>1, <2>3
    <3>4. r \in Holders(g, b, "read") BY <1>0, <2>1, <2>6 DEF Holders
    <3>5. /\ Holders(g, b, "read")' = Holders(g, b, "read") \ {r}
          /\ Holders(g, b, "write")' = Holders(g, b, "write")
      BY <1>0, <2>1 DEF Holders, TypeOK, ProcessTypes
    <3>6. /\ Cardinality(Holders(g, b, "read") \ {r}) =
               Cardinality(Holders(g, b, "read")) - 1
          /\ Cardinality(Holders(g, b, "read")) # 0
      BY <3>4, HoldersFinite, CardinalityStep
    <3>7. /\ Cardinality(Holders(g, b, "read")) \in Nat
          /\ Cardinality(Holders(g, b, "write")) \in Nat
      BY HoldersFinite
    <3>8. /\ lock_num[g][b] = Cardinality(Holders(g, b, "read"))
          /\ Cardinality(Holders(g, b, "write")) = 0
      BY <3>3, <3>6, <3>7 DEF WordOK
    <3>9. /\ Cardinality(Holders(g, b, "read"))' =
               Cardinality(Holders(g, b, "read")) - 1
          /\ Cardinality(Holders(g, b, "write"))' = 0
      BY <3>5, <3>6, <3>8
    <3> QED BY <3>2, <3>7, <3>8, <3>9 DEF WordOK
  <2> QED BY <2>5, <2>6
<1> QED
  BY <1>3, <1>4, <1>5, <1>6, <1>7, <1>8, <1>9, BlockKinds DEF BlockStep, Fills

-----------------------------------------------------------------------------
(* The contents of the blocks *)

\* Nobody writes into a block whose word is free, and never do two.
LEMMA OneWriter ==
    ASSUME TypeOK, LifeInv, LockWordExact, NEW p \in Processes, NEW g \in Segments,
           g = mapped[p], g \notin early, pc[p] \notin Constructing,
           NEW b \in Blocks, b < BlockNum[conf[p]]
    PROVE  /\ lock_num[g][b] = kRWLockFree => \A v \in Writers : ~Writes(v, g, b)
           /\ \A v, w \in Writers : Writes(v, g, b) /\ Writes(w, g, b) => v = w
<1>1. g # None BY DEF Segments, None
<1>2. ceiling[g] = conf[p] /\ conf[p] \in Sizes
  BY <1>1 DEF LifeInv, ConfInv, TypeOK, ProcessTypes
<1>3. RealBlock(g, b) BY <1>2, SizesAssumption DEF RealBlock
<1>4. WordOK(g, b) BY <1>3 DEF LockWordExact, WordOK
<1> DEFINE W == Holders(g, b, "write")
           n == Cardinality(W)
           m == Cardinality(Holders(g, b, "read"))
<1>5. /\ lock_num[g][b] = m - n /\ n <= 1 /\ (n = 1 => m = 0)
      /\ n \in Nat /\ m \in Nat /\ IsFiniteSet(W)
  BY <1>4, HoldersFinite DEF WordOK
<1>6. \A v \in Writers : Writes(v, g, b) => v \in W
  BY DEF Writes, Holders, Processes
<1>7. ASSUME lock_num[g][b] = kRWLockFree, NEW v \in Writers, Writes(v, g, b)
      PROVE  FALSE
  <2>1. v \in W BY <1>6, <1>7
  <2>2. n # 0 BY <1>5, <2>1, CardinalityStep
  <2> HIDE DEF n, m
  <2> QED BY <1>5, <1>7, <2>2 DEF kRWLockFree
<1>8. ASSUME NEW v \in Writers, NEW w \in Writers, Writes(v, g, b),
             Writes(w, g, b), v # w
      PROVE  FALSE
  <2>1. v \in W /\ w \in W \ {v} BY <1>6, <1>8
  <2>2. Cardinality(W \ {v}) = n - 1 BY <1>5, <2>1, CardinalityStep
  <2>3. IsFiniteSet(W \ {v}) BY <1>5, FS_Subset
  <2>4. Cardinality(W \ {v}) # 0 /\ Cardinality(W \ {v}) \in Nat
    BY <2>1, <2>3, CardinalityStep
  <2> HIDE DEF n, m, W
  <2> QED BY <1>5, <2>2, <2>4
<1> QED BY <1>7, <1>8

\* A block is torn under its writer only, and never goes back to a message
\* older than one announced.
LEMMA ContentStep ==
    ASSUME TypeOK, TypeOK', BudgetInv, MapInv, LifeInv, BlockInv, NumberInv,
           LockWordExact, ContentInv, Next
    PROVE  ContentInv'
<1> SUFFICES ASSUME NEW g \in Segments, g \notin early', g \notin overrun',
                    NEW b \in Blocks
             PROVE  ContentOK(g, b)'
  BY DEF ContentInv
<1>0. /\ content \in [Segments -> [Blocks -> Torn .. MaxWrites]]
      /\ mapped \in [Processes -> Segments \cup {None}]
      /\ pc \in [Processes -> Pcs]
      /\ conf \in [Processes -> Sizes]
      /\ index \in [Processes -> Blocks]
      /\ Writers \subseteq Processes /\ Readers \subseteq Processes
      /\ Readers \cap Writers = {}
      /\ number \in [Writers -> 0 .. MaxWrites]
      /\ former \in [Writers -> Torn .. MaxWrites]
      /\ notices \in Seq(Announcements)
      /\ created \in Nat /\ g \in Nat
  <2>1. created \in Nat /\ g \in Nat
    BY BoundsAssumption DEF TypeOK, SegmentTypes, Segments
  <2> QED
    BY <2>1, ProcessesAssumption
    DEF TypeOK, ProcessTypes, BlockTypes, MessageTypes, Processes, Pcs
<1>a. written \in Nat /\ written \in Torn .. MaxWrites /\ content[g][b] \in Int
  BY <1>0, BoundsAssumption DEF TypeOK, BlockTypes, Torn
<1>b. g \notin early \cup overrun => ContentOK(g, b) BY DEF ContentInv
\* A step that leaves the block, its writers and the messages alone; messages
\* may be counted that were not announced.
<1>c. ASSUME g \notin early \cup overrun, content'[g][b] = content[g][b],
             \A v \in Writers : Writes(v, g, b)' <=> Writes(v, g, b),
             \A v \in Writers : Writes(v, g, b) => former'[v] = former[v],
             written' \in {written, written + 1}, notices' = notices,
             g <= created /\ g \notin raw => g <= created' /\ g \notin raw',
             \A v \in Writers :
               pc'[v] = "notify" /\ mapped'[v] = g /\ index'[v] = b =>
               /\ pc[v] = "notify" /\ mapped[v] = g /\ index[v] = b
               /\ number'[v] = number[v]
      PROVE  ContentOK(g, b)'
  <2>0. ContentOK(g, b) BY <1>b, <1>c
  <2>1. Writing(g, b)' <=> Writing(g, b) BY <1>c DEF Writing
  <2>2. content'[g][b] <= written'
    BY <1>a, <1>c, <2>0 DEF ContentOK
  <2>3. \A v \in Writers :
          Writes(v, g, b)' => former'[v] # Torn /\ former'[v] <= written'
    <3> SUFFICES ASSUME NEW v \in Writers, Writes(v, g, b)'
                 PROVE  former'[v] # Torn /\ former'[v] <= written'
      OBVIOUS
    <3>1. former'[v] = former[v] /\ Writes(v, g, b) BY <1>c
    <3>2. former[v] # Torn /\ former[v] <= written BY <2>0, <3>1 DEF ContentOK
    <3>3. former[v] \in Int BY <1>0 DEF Torn
    <3> QED BY <1>a, <1>c, <3>1, <3>2, <3>3
  <2>4. \A n : Holds(g, b, n) => Holds(g, b, n)'
    BY <1>c, <2>1 DEF Holds
  <2> QED BY <1>c, <2>0, <2>1, <2>2, <2>3, <2>4 DEF ContentOK
<1>1. ASSUME NEW p \in Processes, Aside(p) PROVE ContentOK(g, b)'
  <2>1. /\ g \notin early \cup overrun
        /\ \A v \in Writers : Writes(v, g, b)' <=> Writes(v, g, b)
    BY <1>0, <1>1 DEF Aside, AtBlock, Writes
  <2>2. \A w \in Writers :
          pc'[w] = "notify" => /\ pc[w] = "notify" /\ mapped[w] = mapped'[w]
                               /\ index[w] = index'[w]
    BY <1>0, <1>1 DEF Aside, AtBlock
  <2>3. g <= created /\ g \notin raw => g <= created' /\ g \notin raw'
    <3>1. created' \in Nat
      BY BoundsAssumption DEF TypeOK, SegmentTypes
    <3> QED BY <1>0, <1>1, <3>1 DEF Aside
  <2>4. UNCHANGED <<content, written, number, former, notices>>
    BY <1>1 DEF Aside
  <2> QED BY <1>c, <2>1, <2>2, <2>3, <2>4
<1>2. ASSUME NEW w \in Writers, \/ Construct(w, "construct", "check")
                                \/ Construct(w, "reconstruct", "acquire")
      PROVE  ContentOK(g, b)'
  <2>1. /\ UNCHANGED <<early, overrun, mapped, index, created, written, number,
                       former, notices>>
        /\ pc[w] \in Constructing
        /\ \E l \in {"check", "acquire"} : pc' = [pc EXCEPT ![w] = l]
        /\ content' = [content EXCEPT ![mapped[w]] = [c \in Blocks |-> 0]]
        /\ raw' = raw \ {mapped[w]}
    BY <1>2 DEF Construct, Goto, Constructing, historyVars, writeVars
  <2>2. CASE g # mapped[w]
    <3>1. content'[g][b] = content[g][b] BY <1>0, <2>1, <2>2
    <3>2. \A v \in Writers : Writes(v, g, b)' <=> Writes(v, g, b)
      BY <1>0, <2>1 DEF Writes, Constructing
    <3> QED BY <1>0, <1>c, <2>1, <3>1, <3>2
  <2>3. CASE g = mapped[w]
    <3>1. content'[g][b] = 0 BY <1>0, <2>1, <2>3
    <3>2. g \in raw \ early BY <1>0, <2>1, <2>3 DEF LifeInv, RawInv
    <3>3. \A p \in Processes : mapped[p] = g => pc[p] \in Constructing
      BY <3>2 DEF LifeInv, RawInv
    <3>4. \A v \in Writers :
            ~(pc'[v] = "notify" /\ mapped'[v] = g) /\ ~Writes(v, g, b)'
      BY <1>0, <2>1, <3>3 DEF Constructing, Writes
    <3>5. \A k \in 1 .. Len(notices) :
            ~(notices[k].segment = g /\ notices[k].index = b)
      BY <1>b, <2>1, <3>2 DEF ContentOK
    <3> QED BY <1>a, <2>1, <3>1, <3>4, <3>5 DEF ContentOK, Torn
  <2> QED BY <2>2, <2>3
<1>3. ASSUME NEW w \in Writers, TryLockForWrite(w) PROVE ContentOK(g, b)'
  <2> DEFINE h == mapped[w]
             c == seq[h] % BlockNum[conf[w]]
  <2>1. /\ UNCHANGED <<early, overrun, mapped, created, raw, written, number,
                       notices>>
        /\ pc[w] = "acquire" /\ pc' = [pc EXCEPT ![w] = "write"]
        /\ index' = [index EXCEPT ![w] = c]
        /\ content' = [content EXCEPT ![h][c] = Torn]
        /\ former' = [former EXCEPT ![w] = content[h][c]]
        /\ lock_num[h][c] = kRWLockFree
    BY <1>3 DEF TryLockForWrite, Goto, historyVars
  <2>2. h \in Segments BY <1>0, <2>1 DEF MapInv
  <2>3. c \in Blocks /\ c < BlockNum[conf[w]]
    BY <1>0, <2>2, IndexFits DEF TypeOK, BlockTypes
  <2>4. Torn \in Torn .. MaxWrites BY BoundsAssumption DEF Torn
  <2>h. h = mapped[w] OBVIOUS
  <2> HIDE DEF h, c
  <2>5. \A v \in Writers : pc'[v] = "notify" =>
          pc[v] = "notify" /\ index'[v] = index[v]
    BY <1>0, <2>1
  <2>6. CASE g # h \/ b # c
    <3>1. content'[g][b] = content[g][b] BY <1>0, <2>1, <2>2, <2>3, <2>4, <2>6, StoreAt
    <3>2. \A v \in Writers : Writes(v, g, b)' <=> Writes(v, g, b)
      BY <1>0, <2>1, <2>6, <2>h DEF Writes
    <3>3. \A v \in Writers : Writes(v, g, b) => former'[v] = former[v]
      BY <1>0, <2>1 DEF Writes
    <3> QED BY <1>c, <2>1, <2>5, <3>1, <3>2, <3>3
  <2>7. CASE g = h /\ b = c
    <3>1. content'[g][b] = Torn BY <1>0, <2>1, <2>2, <2>3, <2>4, <2>7, StoreAt
    <3>2. Writes(w, g, b)' /\ former'[w] = content[g][b]
      BY <1>0, <2>1, <2>7, <2>h DEF Writes
    <3>3. \A v \in Writers : ~Writes(v, g, b)
      <4>1. g = mapped[w] /\ g \notin early /\ lock_num[g][b] = kRWLockFree
        BY <2>1, <2>7, <2>h
      <4>2. b < BlockNum[conf[w]] /\ pc[w] \notin Constructing /\ w \in Processes
        BY <1>0, <2>1, <2>3, <2>7 DEF Constructing
      <4> QED BY <4>1, <4>2, OneWriter
    <3>4. \A v \in Writers \ {w} : ~Writes(v, g, b)'
      BY <1>0, <2>1, <3>3 DEF Writes
    <3>5. ContentOK(g, b) BY <1>b, <2>1
    <3>6. content[g][b] # Torn BY <3>3, <3>5 DEF ContentOK, Writing
    <3>7. \A n : Holds(g, b, n) => Holds(g, b, n)'
      <4> SUFFICES ASSUME NEW n, Holds(g, b, n) PROVE Holds(g, b, n)'
        OBVIOUS
      <4>1. content[g][b] >= n BY <3>3 DEF Holds, Writing
      <4>2. \A v \in Writers : Writes(v, g, b)' => former'[v] >= n
        BY <3>2, <3>4, <4>1
      <4> QED BY <3>2, <4>2 DEF Holds, Writing
    <3>8. content'[g][b] <= written' /\ Writing(g, b)'
      BY <1>a, <2>1, <3>1, <3>2 DEF Torn, Writing
    <3>9. \A v \in Writers :
            Writes(v, g, b)' => former'[v] # Torn /\ former'[v] <= written'
      BY <2>1, <3>2, <3>4, <3>5, <3>6 DEF ContentOK
    <3> QED BY <2>1, <2>5, <3>5, <3>7, <3>8, <3>9 DEF ContentOK
  <2> QED BY <2>6, <2>7
<1>4. ASSUME NEW w \in Writers, Fills(w) PROVE ContentOK(g, b)'
  <2> DEFINE h == mapped[w]
             i == index[w]
  <2>1. /\ h \in Segments /\ i \in Blocks /\ pc[w] = "write"
        /\ \A f \in Segments \ {h} : content'[f] = content[f]
        /\ h \notin overrun' =>
             /\ ~WriteCrashes(w)
             /\ \A c \in Blocks \ {i} : content'[h][c] = content[h][c]
             /\ Write(w) => content'[h][i] = written + 1
             /\ SerializeFails(w) => content'[h][i] = former[w]
        /\ overrun \subseteq overrun'
    BY <1>4, FillStep
  <2>2. /\ UNCHANGED <<early, mapped, created, raw, index, notices>>
        /\ written' \in {written, written + 1}
        /\ \A v \in Writers \ {w} : /\ pc'[v] = pc[v] /\ number'[v] = number[v]
                                    /\ former'[v] = former[v]
    BY <1>0, <1>4
    DEF Fills, Write, SerializeFails, WriteCrashes, Goto, historyVars, procVars
  <2>3. g \notin early \cup overrun /\ ContentOK(g, b) BY <1>b, <2>1, <2>2
  <2>4. w \in Processes /\ h = mapped[w] /\ i = index[w] BY <1>0
  <2> HIDE DEF h, i
  <2>5. CASE g # h \/ b # i
    <3>1. content'[g][b] = content[g][b] BY <2>1, <2>5
    <3>2. ~Writes(w, g, b) /\ ~(mapped[w] = g /\ index[w] = b)
      BY <2>4, <2>5 DEF Writes
    <3>3. \A v \in Writers : Writes(v, g, b)' <=> Writes(v, g, b)
      BY <2>2, <3>2 DEF Writes
    <3>4. \A v \in Writers : Writes(v, g, b) => former'[v] = former[v]
      BY <2>2, <3>2
    <3>5. \A v \in Writers :
            pc'[v] = "notify" /\ mapped'[v] = g /\ index'[v] = b =>
            /\ pc[v] = "notify" /\ mapped[v] = g /\ index[v] = b
            /\ number'[v] = number[v]
      BY <2>2, <3>2
    <3> QED BY <1>c, <2>2, <2>3, <3>1, <3>3, <3>4, <3>5
  <2>6. CASE g = h /\ b = i
    <3>1. Writes(w, g, b) BY <2>1, <2>4, <2>6 DEF Writes
    <3>2. \A v \in Writers \ {w} : ~Writes(v, g, b)
      <4>1. g = mapped[w] /\ g \notin early /\ pc[w] \notin Constructing
        BY <2>1, <2>3, <2>4, <2>6 DEF Constructing
      <4>2. b < BlockNum[conf[w]] BY <2>1, <2>4, <2>6 DEF BlockInv
      <4> QED BY <2>4, <3>1, <4>1, <4>2, OneWriter
    <3>3. pc'[w] \in {"idle", "notify"} /\ (pc'[w] = "notify" => Write(w))
      BY <1>0, <1>4, <2>1, <2>6 DEF Fills, Write, SerializeFails, Goto
    <3>4. \A v \in Writers : ~Writes(v, g, b)'
      BY <2>2, <3>2, <3>3 DEF Writes
    <3>5. CASE Write(w)
      <4>1. content'[g][b] = written + 1 /\ written' = written + 1
        BY <2>1, <2>6, <3>5 DEF Write
      <4>2. number'[w] = written' BY <1>0, <3>5 DEF Write
      <4>3. \A v \in Writers : pc'[v] = "notify" => content'[g][b] >= number'[v]
        <5> SUFFICES ASSUME NEW v \in Writers, pc'[v] = "notify"
                     PROVE  content'[g][b] >= number'[v]
          OBVIOUS
        <5>1. CASE v = w BY <1>a, <4>1, <4>2, <5>1
        <5>2. CASE v # w
          <6>1. number'[v] = number[v] /\ number[v] \in 1 .. written
            BY <2>2, <5>2 DEF NumberInv
          <6> QED BY <1>a, <4>1, <6>1
        <5> QED BY <5>1, <5>2
      <4>4. \A k \in 1 .. Len(notices) : content'[g][b] >= notices[k].number
        <5> TAKE k \in 1 .. Len(notices)
        <5>1. notices[k] \in Announcements BY <1>0
        <5>2. notices[k].number \in Nat
          BY <5>1, BoundsAssumption DEF Announcements
        <5>3. notices[k].number <= written BY DEF NumberInv
        <5> QED BY <1>a, <4>1, <5>2, <5>3
      <4>5. content'[g][b] <= written' /\ content'[g][b] # Torn
        BY <1>a, <4>1 DEF Torn
      <4> QED BY <2>2, <2>3, <3>4, <4>3, <4>4, <4>5 DEF ContentOK, Holds
    <3>6. CASE SerializeFails(w)
      <4>1. content'[g][b] = former[w] BY <2>1, <2>6, <3>6
      <4>2. former[w] # Torn /\ former[w] <= written
        BY <2>3, <3>1 DEF ContentOK
      <4>3. \A n : Holds(g, b, n) => Holds(g, b, n)'
        BY <3>1, <3>4, <4>1 DEF Holds
      <4>4. written' = written + 1 /\ pc'[w] = "idle"
        BY <1>0, <3>6 DEF SerializeFails, Goto
      <4>5. content'[g][b] <= written' /\ content'[g][b] # Torn
        <5>1. former[w] \in Int BY <1>0 DEF Torn
        <5> QED BY <1>a, <4>1, <4>2, <4>4, <5>1
      <4>6. \A v \in Writers : pc'[v] = "notify" =>
              pc[v] = "notify" /\ number'[v] = number[v]
        BY <2>2, <4>4
      <4> QED BY <2>2, <2>3, <3>4, <4>3, <4>5, <4>6 DEF ContentOK
    <3> QED BY <1>4, <2>1, <2>6, <3>5, <3>6 DEF Fills
  <2> QED BY <2>5, <2>6
<1>5. ASSUME NEW w \in Writers, Notify(w) PROVE ContentOK(g, b)'
  <2> DEFINE n == [index |-> index[w], segment |-> mapped[w],
                   number |-> number[w]]
  <2>1. /\ UNCHANGED <<early, overrun, mapped, created, raw, index, content,
                       written, number, former>>
        /\ pc[w] = "notify" /\ pc' = [pc EXCEPT ![w] = "idle"]
        /\ notices' = Append(notices, n)
    BY <1>5 DEF Notify, Goto, segVars, historyVars, writeVars
  <2>2. n.index = index[w] /\ n.segment = mapped[w] /\ n.number = number[w]
    OBVIOUS
  <2> HIDE DEF n
  <2>3. \A v \in Writers : Writes(v, g, b)' <=> Writes(v, g, b)
    BY <1>0, <2>1 DEF Writes
  <2>4. \A v \in Writers : pc'[v] = "notify" => pc[v] = "notify"
    BY <1>0, <2>1
  <2>5. \A m : Holds(g, b, m)' <=> Holds(g, b, m)
    BY <2>1, <2>3 DEF Holds, Writing
  <2>6. ASSUME NEW k \in 1 .. Len(notices'),
               notices'[k].segment = g, notices'[k].index = b
        PROVE  g <= created /\ g \notin raw /\ Holds(g, b, notices'[k].number)
    <3>1. CASE k \in 1 .. Len(notices)
      <4>1. notices'[k] = notices[k] BY <1>0, <2>1, <3>1
      <4> QED BY <1>b, <2>1, <2>6, <3>1, <4>1 DEF ContentOK
    <3>2. CASE k = Len(notices) + 1
      <4>1. notices'[k] = n BY <1>0, <2>1, <3>2
      <4>2. mapped[w] = g /\ index[w] = b BY <2>2, <2>6, <4>1
      <4>3. g <= created BY <1>0, <4>2 DEF LifeInv, LinkInv
      <4>4. g \notin raw
        BY <1>0, <2>1, <4>2 DEF LifeInv, RawInv, Constructing
      <4> QED BY <1>b, <2>1, <2>2, <4>1, <4>2, <4>3, <4>4 DEF ContentOK
    <3>3. Len(notices') = Len(notices) + 1 /\ Len(notices) \in Nat
      BY <1>0, <2>1
    <3> QED BY <3>1, <3>2, <3>3
  <2> QED BY <1>b, <2>1, <2>3, <2>4, <2>5, <2>6 DEF ContentOK, Writing
<1>6. ASSUME NEW r \in Readers, CasOk(r) \/ ReleaseReadBlock(r)
      PROVE  ContentOK(g, b)'
  <2>1. /\ UNCHANGED <<early, overrun, mapped, created, raw, index, content,
                       written, number, former, notices>>
        /\ \A w \in Writers : pc'[w] = pc[w]
    BY <1>0, <1>6 DEF CasOk, ReleaseReadBlock, Goto, historyVars, writeVars
  <2>2. \A v \in Writers : Writes(v, g, b)' <=> Writes(v, g, b)
    BY <2>1 DEF Writes
  <2> QED BY <1>c, <2>1, <2>2
<1> QED BY <1>1, <1>2, <1>3, <1>4, <1>5, <1>6, BlockKinds DEF BlockStep

-----------------------------------------------------------------------------
\* The initial state satisfies the invariant.
LEMMA InitIInv == Init => IInv
<1> SUFFICES ASSUME Init PROVE IInv OBVIOUS
<1>1. TypeOK
  <2>1. SegmentTypes
    BY BoundsAssumption DEF Init, SegmentTypes, Segments, None
  <2>2. 0 \in Blocks BY BlocksFit DEF Blocks
  <2>3. 0 \in Torn .. MaxWrites BY BoundsAssumption DEF Torn
  <2>4. BlockTypes
    BY <2>2, <2>3, BoundsAssumption DEF Init, BlockTypes, kRWLockFree
  <2>5. ProcessTypes
    BY <2>2, SmallestExists
    DEF Init, ProcessTypes, Processes, WriterPcs, ReaderPcs, None
  <2>6. MessageTypes
    BY <2>3, SmallestExists, TriesAssumption, BoundsAssumption
    DEF Init, MessageTypes
  <2> QED BY <2>1, <2>4, <2>5, <2>6 DEF TypeOK
<1>2. BudgetInv
  <2>1. Unwritten = {} BY DEF Init, Unwritten, Processes
  <2> QED BY <2>1, FS_EmptySet, BoundsAssumption DEF Init, BudgetInv
<1>3. MapInv BY DEF Init, MapInv, Constructing, Processes
<1>4. LifeInv
  BY DEF Init, LifeInv, LinkInv, RawInv, ConfInv, GrowInv, BehindInv, Segments,
         Constructing, None, Processes
<1>5. BlockInv /\ ReaderInv /\ NumberInv
  BY DEF Init, BlockInv, ReaderInv, NumberInv, Processes
<1>6. LockWordExact BY DEF Init, LockWordExact, RealBlock
<1>7. ContentInv
  BY DEF Init, ContentInv, ContentOK, Writes, Torn, Processes
<1> QED BY <1>1, <1>2, <1>3, <1>4, <1>5, <1>6, <1>7 DEF IInv

\* The invariant is inductive.
LEMMA IInvStep == IInv /\ [Next]_vars => IInv'
<1> SUFFICES ASSUME IInv, [Next]_vars PROVE IInv' OBVIOUS
<1>1. CASE Next
  <2> USE <1>1 DEF IInv
  <2>0. size \in [Writers -> Nat]
    <3>1. Messages \cup {0} \subseteq Nat BY MessagesAssumption
    <3>2. size \in [Writers -> Messages \cup {0}] BY DEF TypeOK, MessageTypes
    <3> QED BY <3>1, <3>2
  <2>1. LifeTypes BY <2>0 DEF LifeTypes, TypeOK, ProcessTypes, Pcs
  <2>2. LifeTypes' BY <2>1, LifeTypesStep, SizeStep DEF TypeOK
  <2>3. TypeOK'
    BY <2>2, PlaceTypesStep, BlockTypesStep, MessageTypesStep
    DEF TypeOK, LifeTypes, ProcessTypes, Pcs
  <2>4. LifeInv'
    BY <2>1, <2>2, LinkStep, RawStep, ConfStep, GrowStep, BehindStep
    DEF LifeInv, TypeOK
  <2>5. BudgetInv' /\ MapInv' /\ ReaderInv' BY BudgetStep, MapStep, ReaderInvStep
  <2>6. BlockInv' /\ NumberInv' BY <2>3, WriterInvStep
  <2>7. LockWordExact' BY <2>3, LockStep
  <2>8. ContentInv' BY <2>3, ContentStep
  <2> QED BY <2>3, <2>4, <2>5, <2>6, <2>7, <2>8
<1>2. CASE UNCHANGED vars
  <2> USE <1>2 DEF IInv, vars, segVars, procVars, writeVars, readVars, historyVars
  <2>1. TypeOK'
    BY DEF TypeOK, SegmentTypes, BlockTypes, ProcessTypes, MessageTypes
  <2>2. BudgetInv' /\ MapInv' BY DEF BudgetInv, Unwritten, MapInv
  <2>3. LifeInv'
    BY DEF LifeInv, LinkInv, RawInv, ConfInv, GrowInv, BehindInv
  <2>4. BlockInv' /\ ReaderInv' /\ NumberInv'
    BY DEF BlockInv, ReaderInv, NumberInv
  <2>5. LockWordExact' BY DEF LockWordExact, RealBlock, Holders
  <2>6. ContentInv' BY DEF ContentInv, ContentOK, Holds, Writing, Writes
  <2> QED BY <2>1, <2>2, <2>3, <2>4, <2>5, <2>6
<1> QED BY <1>1, <1>2

\* Every reachable state satisfies the inductive invariant.
THEOREM Invariance == Spec => []IInv
BY InitIInv, IInvStep, PTL DEF Spec

\* The lock words in the shared memory are sound: each says exactly how many
\* readers or that one writer is at work on its block, for any number of
\* processes, in every segment that nobody opened before it was constructed.
THEOREM SegmentSound == Spec => []SegmentInv
<1>1. IInv => SegmentInv BY DEF IInv, SegmentInv
<1> QED BY Invariance, <1>1, PTL

\* What OnMessage parses is never a block that is being written, nor older
\* than the message its notification announced, also after a writer failed
\* to serialise; in segments whose messages all fitted into their blocks.
THEOREM ReadsSound == Spec => []ReadsCompleteMessages
<1>1. IInv => ReadsCompleteMessages
  <2> SUFFICES ASSUME IInv, NEW r \in Readers, pc[r] = "read",
                      mapped[r] \notin early \cup overrun,
                      RealBlock(mapped[r], index[r])
               PROVE  LET m == content[mapped[r]][index[r]]
                          n == notices[taken[r]]
                      IN m # Torn /\ (n.segment = mapped[r] => m >= n.number)
    BY DEF ReadsCompleteMessages
  <2> DEFINE g == mapped[r]
             b == index[r]
             k == taken[r]
  <2>1. g \in Segments /\ b \in Blocks
    BY DEF IInv, TypeOK, ProcessTypes, MapInv, Processes
  <2>2. ~Writing(g, b)
    <3> SUFFICES ASSUME NEW w \in Writers, pc[w] = "write", mapped[w] = g,
                        index[w] = b
                 PROVE  FALSE
      BY DEF Writing, Writes
    <3>1. w \in Holders(g, b, "write") /\ r \in Holders(g, b, "read")
      BY DEF Holders, Processes
    <3>2. /\ Cardinality(Holders(g, b, "write")) # 0
          /\ Cardinality(Holders(g, b, "read")) # 0
      BY <3>1, HoldersFinite, CardinalityStep
    <3>3. WordOK(g, b) BY <2>1 DEF IInv, LockWordExact, WordOK
    <3> QED BY <3>2, <3>3, HoldersFinite DEF WordOK
  <2>3. ContentOK(g, b) BY <2>1 DEF IInv, ContentInv
  <2>4. k \in 1 .. Len(notices) /\ notices[k].index = b
    BY DEF IInv, ReaderInv, TypeOK, MessageTypes
  <2> QED BY <2>2, <2>3, <2>4 DEF ContentOK, Holds
<1> QED BY Invariance, <1>1, PTL

\* The mark in the old segment, set before the key is removed, reaches
\* everybody who has it mapped, as long as one writer alone makes it grow.
THEOREM GrowthSound == Spec => []NobodyLeftBehind
<1>1. IInv => NobodyLeftBehind
  <2> SUFFICES ASSUME IInv, Cardinality(growers) <= 1
               PROVE  \A v, w \in growers : v = w
    BY DEF NobodyLeftBehind, IInv, LifeInv, BehindInv
  <2> SUFFICES ASSUME NEW v \in growers, NEW w \in growers, v # w PROVE FALSE
    OBVIOUS
  <2>1. IsFiniteSet(growers)
    BY ProcessesAssumption, FS_Subset DEF IInv, TypeOK, SegmentTypes
  <2>2. Cardinality(growers \ {v}) = Cardinality(growers) - 1
    BY <2>1, CardinalityStep
  <2>3. IsFiniteSet(growers \ {v}) BY <2>1, FS_Subset
  <2>4. Cardinality(growers \ {v}) \in Nat /\ Cardinality(growers \ {v}) # 0
    BY <2>3, CardinalityStep
  <2>5. Cardinality(growers) \in Nat BY <2>1, CardinalityStep
  <2> QED BY <2>2, <2>4, <2>5
<1> QED BY Invariance, <1>1, PTL

=============================================================================
