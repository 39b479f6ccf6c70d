---------------------------- MODULE CacheBuffer ----------------------------
(***************************************************************************)
(* The ring of cyber/data/cache_buffer.h and the three ways of reading it  *)
(* in cyber/data/channel_buffer.h, as operators on a record.  Positions    *)
(* count the values ever filled, from 1; the ring keeps the values at      *)
(* positions head + 1 .. tail, each in slot position % capacity.           *)
(***************************************************************************)
EXTENDS Naturals, Sequences

Empty == <<>>    \* the null pointer a slot starts with

NewCacheBuffer(size) ==
    [head |-> 0, tail |-> 0, capacity |-> size + 1,
     slot |-> [i \in 0 .. size |-> Empty]]

GetIndex(b, pos) == pos % b.capacity

At(b, pos)  == b.slot[GetIndex(b, pos)]
HeadPos(b)  == b.head + 1
Size(b)     == b.tail - b.head
IsEmpty(b)  == b.tail = 0

\* Fault: the spare slot is counted as room.
FullAtCapacity(b) == b.capacity = b.tail - b.head

Full(b)     == b.capacity - 1 = b.tail - b.head

\* The part of Fill that stores: a full ring gives up its oldest value.
Fill(b, value) ==
    IF Full(b)
    THEN [b EXCEPT !.slot[GetIndex(b, b.head)] = value,
                   !.head = @ + 1, !.tail = @ + 1]
    ELSE [b EXCEPT !.slot[GetIndex(b, b.tail + 1)] = value,
                   !.tail = @ + 1]

-----------------------------------------------------------------------------
(* ChannelBuffer.  A result has the return value and what was written to    *)
(* the out parameters.                                                      *)

\* Fault: the oldest value that is still there counts as lost.
FetchIndexTooEager(b, index) ==
    IF index = 0 \/ index <= HeadPos(b) THEN b.tail ELSE index

\* Where Fetch continues: at the newest value on the first call and after
\* the reader has been overtaken, else where it was.
FetchIndex(b, index) ==
    IF index = 0 \/ index < HeadPos(b) THEN b.tail ELSE index

Fetch(b, index) ==
    IF IsEmpty(b) \/ (index # 0 /\ index = b.tail + 1)
    THEN [ok |-> FALSE, index |-> index, m |-> Empty]
    ELSE LET i == FetchIndex(b, index) IN
         [ok |-> TRUE, index |-> i, m |-> At(b, i)]

Latest(b) == [ok |-> ~IsEmpty(b), m |-> At(b, b.tail)]

FetchMulti(b, fetch_size) ==
    LET num == IF Size(b) < fetch_size THEN Size(b) ELSE fetch_size IN
    [ok |-> ~IsEmpty(b), vec |-> [k \in 1 .. num |-> At(b, b.tail - num + k)]]

=============================================================================
