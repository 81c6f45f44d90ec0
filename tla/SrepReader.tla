----------------------------- MODULE SrepReader -----------------------------
(***************************************************************************)
(* The SREP reader (stream/srep): blocks are read one after the other and  *)
(* decoded by a kernel that lives for the whole stream.  The kernel keeps  *)
(* the copies that are still to come in a heap ordered by destination,     *)
(* their bytes in chained chunks of a memory of its own, and, when that    *)
(* memory is short, spills copies into blocks on a "disk", each of which   *)
(* leaves a mark in the heap, at the destination of the last copy spilled. *)
(*                                                                         *)
(* A memory is a record: first, the head of the free list; link, the next  *)
(* chunk of each; data, the bytes in each; used, the number of chunks      *)
(* taken.  Chunk 0 is never used: 0 ends a chain.  The treap is the set of *)
(* its nodes; two copies never have the same destination.                  *)
(***************************************************************************)
EXTENDS FutureStream

CONSTANTS
  Useful,     \* bytes the memory is meant to hold
  Room,       \* bytes in a chunk (srepUseful)
  Grown,      \* chunks the memory grows by (srepK)
  DiskBlock,  \* bytes in a block on the disk (blockSize)
  RecordHead, RecordTail,  \* bytes before each record in such a block, and behind the last
  Far         \* a destination behind every other

ASSUME SrepAssumption ==
  /\ Useful \in Nat /\ DiskBlock \in Nat /\ RecordHead \in Nat /\ RecordTail \in Nat /\ Far \in Nat
  /\ Room \in Nat \ {0} /\ Grown \in Nat \ {0, 1}
  \* next rejects blocks larger than those on the disk (maxBlock); one of
  \* those fits into the memory
  /\ \A s \in Streams : \A k \in DOMAIN s.blocks :
       /\ End(s, k) < Far /\ \A c \in ToSet(Decoded(s, k)) : c.dest < Far
       /\ s.blocks[k].size <= DiskBlock
  /\ DiskBlock <= Useful

ASSUME DistinctAssumption == \A s \in Streams : Distinct(s)

VARIABLES
  stream,  \* the stream (constant)
  done,    \* number of blocks read so far
  out,     \* the bytes of those blocks
  status,  \* "going", or how reading ended (err, eof)
  pc,      \* where it is: "next", "decode", "stats", "copy", "save"
  cur,     \* the bytes of the block so far (out[:outPos])
  lits,    \* number of its literals used so far (inPos)
  todo,    \* the numbers of its copies into later blocks still to be saved
  heap,    \* the copies to come
  mm,      \* the memory
  disk,    \* the blocks on the disk: a sequence of records each, or NoBlock
  vacant,  \* numbers of blocks to use again, as a stack (virtMem.free)
  astray,  \* history: a mark was put behind the destination of a copy in its block
  held,    \* the buffer each slot has, or 0
  pool     \* buffers to use again

kernelVars == <<heap, mm, disk, vacant, astray>>
blockVars  == <<pc, cur, lits, todo>>
vars == <<stream, done, out, status, blockVars, kernelVars, held, pool>>

\* The last record of a block on the disk leaves room for its tail.
TooLong(len) == RecordHead + len + RecordTail > DiskBlock

\* A copy of s may find no place on the disk.
Short(s) ==
  \E k \in DOMAIN s.blocks : \E c \in ToSet(Decoded(s, k)) : TooLong(c.len)

Promise == INSTANCE FutureLZ WITH lost <- astray

-----------------------------------------------------------------------------
(* The memory.                                                             *)

EmptyMemory == [first |-> 0, link |-> <<>>, data |-> <<>>, used |-> 0]

\* allocBlock: a new run of chunks, each linked to the next.  Chunk 0 is left
\* out: sequences start at 1.
Grow(m) ==
  LET old  == Len(m.link)
      new  == IF old = 0 THEN Grown - 1 ELSE Grown
  IN [first |-> old + 1,
      link  |-> m.link \o [i \in 1..new |-> IF i < new THEN old + i + 1 ELSE m.first],
      data  |-> m.data \o [i \in 1..new |-> <<>>],
      used  |-> m.used]

\* One chunk from the head of the free list.
Ready(m) == IF m.first = 0 THEN Grow(m) ELSE m

Chunks(len) == (len + Room - 1) \div Room

\* One chunk more for the bytes p, the i-th: linked to the last one so far.
Take(sofar, p, i) ==
  LET m == Ready(sofar.mem)
      c == m.first
  IN [mem   |-> [first |-> m.link[c],
                 link  |-> IF sofar.last = 0 THEN m.link ELSE [m.link EXCEPT ![sofar.last] = c],
                 data  |-> [m.data EXCEPT ![c] = SubSeq(p, (i - 1) * Room + 1, Min({i * Room, Len(p)}))],
                 used  |-> m.used + 1],
      index |-> IF sofar.last = 0 THEN c ELSE sofar.index,
      last  |-> c]

\* memMgr.save: the bytes p in a chain of chunks.
Save(m, p) ==
  LET taken[i \in 0..Chunks(Len(p))] ==
        IF i = 0 THEN [mem |-> m, index |-> 0, last |-> 0] ELSE Take(taken[i - 1], p, i)
      saved == taken[Chunks(Len(p))]
  IN [mem   |-> IF saved.last = 0 THEN saved.mem ELSE [saved.mem EXCEPT !.link = [@ EXCEPT ![saved.last] = 0]],
      index |-> saved.index]

\* The chunks from index to the end of its chain.
Chain(m, index) ==
  LET at[i \in 0..Len(m.link)] ==
        IF i = 0 THEN index ELSE IF at[i - 1] = 0 THEN 0 ELSE m.link[at[i - 1]]
  IN [i \in 1..Cardinality({n \in 0..Len(m.link) : at[n] # 0}) |-> at[i - 1]]

\* memMgr.restore.
Stored(m, index, len) ==
  LET chain == Chain(m, index)
  IN [i \in 1..len |-> m.data[chain[(i - 1) \div Room + 1]][((i - 1) % Room) + 1]]

\* memMgr.markFree: chunk c becomes the head of the free list.
FreeOne(m, c) ==
  [first |-> c, link |-> [m.link EXCEPT ![c] = m.first], data |-> m.data, used |-> m.used - 1]

\* Mutant: only the first chunk of a chain is freed.
FreeFirst(m, index) == IF index = 0 THEN m ELSE FreeOne(m, index)

\* memMgr.free: the chunks of a chain, one by one.
Free(m, index) ==
  LET chain == Chain(m, index)
      freed[i \in 0..Len(chain)] == IF i = 0 THEN m ELSE FreeOne(freed[i - 1], chain[i])
  IN freed[Len(chain)]

Available(m) == IF Useful > m.used * Room THEN Useful - m.used * Room ELSE 0

-----------------------------------------------------------------------------
(* The heap and the disk.                                                  *)

NoBlock == <<>>

Barrier == [src |-> Far, dest |-> Far, len |-> Far, index |-> 0]

IsMark(n) == n.len = 0

First(h) == CHOOSE n \in h : \A o \in h : n.dest <= o.dest

Below(h, dest) == {n \in h : n.dest < dest}

Largest(h) == CHOOSE n \in h : \A o \in h : o.dest <= n.dest

\* A round of the loop of virtMem.save, whose iterator (base) is at dest, or at
\* the end (Far + 1): one step down to base, one more to n, which is passed over
\* if it has no bytes in memory, and is taken out if it fits into the block.
\* Below the first node is the end, and below the end the last node: behind a
\* first node that has been taken the loop starts again from the top.
Round(h, walk) ==
  LET rest  == h \ ToSet(walk.nodes)
      above == Below(rest, walk.dest)
      base  == IF above = {} THEN Far + 1 ELSE Largest(above).dest
      n     == Largest(Below(rest, base))
      size  == walk.size + RecordHead + n.len
  IN IF walk.over THEN walk
     ELSE IF Below(rest, base) = {} THEN [walk EXCEPT !.over = TRUE]
     ELSE IF n.index = 0 THEN [walk EXCEPT !.dest = base]
     ELSE IF size + RecordTail > DiskBlock THEN [walk EXCEPT !.over = TRUE]
     ELSE [dest |-> base, size |-> size, nodes |-> Append(walk.nodes, n), over |-> FALSE]

\* More rounds than a loop that ends can take.
Rounds(h) == (Cardinality(h) + 1) * (Cardinality(h) + 1)

\* The loop after so many rounds.
Walk(h) ==
  LET walk[i \in 0..Rounds(h)] ==
        IF i = 0 THEN [dest |-> Far + 1, size |-> 0, nodes |-> <<>>, over |-> FALSE]
        ELSE Round(h, walk[i - 1])
  IN walk[Rounds(h)]

\* The copies that virtMem.save takes, in that order.
Spilled(h) == Walk(h).nodes

\* Whether its loop ends: no step follows one that does not.
WalkEnds(h) == Walk(h).over

SpillFails(h) == Spilled(h) = <<>>

\* The last copy taken is not the one due first.
Misplaced(nodes) == \E i \in DOMAIN nodes : nodes[i].dest < Last(nodes).dest

\* Mutants of MarkAt: the destination of the first copy spilled; the number of
\* the block as destination.
MarkAtFirst(nodes, b) == [src |-> b, dest |-> nodes[1].dest, len |-> 0, index |-> 0]
MarkAtNumber(nodes, b) == [src |-> b, dest |-> b, len |-> 0, index |-> 0]

\* The mark of a block has the destination of the last copy spilled into it.
MarkAt(nodes, b) ==
  [src |-> b, dest |-> Last(nodes).dest, len |-> 0, index |-> 0]

\* virtMem.save, when something can be spilled.
Spill ==
  LET nodes == Spilled(heap)
      b     == IF vacant = <<>> THEN Len(disk) + 1 ELSE Last(vacant)
      block == [i \in DOMAIN nodes |->
                  [src |-> nodes[i].src, dest |-> nodes[i].dest, len |-> nodes[i].len,
                   data |-> Stored(mm, nodes[i].index, nodes[i].len)]]
      freed[i \in 0..Len(nodes)] == IF i = 0 THEN mm ELSE Free(freed[i - 1], nodes[i].index)
  IN /\ nodes # <<>>
     /\ heap' = (heap \ ToSet(nodes)) \cup {MarkAt(nodes, b)}
     /\ mm' = freed[Len(nodes)]
     /\ disk' = IF vacant = <<>> THEN Append(disk, block) ELSE [disk EXCEPT ![b] = block]
     /\ vacant' = IF vacant = <<>> THEN vacant ELSE Front(vacant)
     /\ astray' = (astray \/ Misplaced(nodes))

Load(sofar, r) ==
  LET s == Save(sofar.mem, r.data)
  IN [mem   |-> s.mem,
      nodes |-> sofar.nodes \cup
        {[src |-> r.src, dest |-> r.dest, len |-> r.len, index |-> s.index]}]

\* The copies of a block in memory again, in the order they were spilled.
Loaded(block) ==
  LET load[i \in 0..Len(block)] ==
        IF i = 0 THEN [mem |-> mm, nodes |-> {}] ELSE Load(load[i - 1], block[i])
  IN load[Len(block)]

\* Mutant: the mark stays, and the number of its block is not given back.
UnspillKeepsMark(mark) ==
  LET loaded == Loaded(disk[mark.src])
  IN /\ heap' = heap \cup loaded.nodes
     /\ mm' = loaded.mem
     /\ disk' = [disk EXCEPT ![mark.src] = NoBlock]
     /\ UNCHANGED <<vacant, astray>>

\* virtMem.restore, when there is room: the block's copies come back, then the
\* mark goes.
Unspill(mark) ==
  LET loaded == Loaded(disk[mark.src])
  IN /\ heap' = (heap \ {mark}) \cup loaded.nodes
     /\ mm' = loaded.mem
     /\ disk' = [disk EXCEPT ![mark.src] = NoBlock]
     /\ vacant' = Append(vacant, mark.src)
     /\ UNCHANGED astray

-----------------------------------------------------------------------------
(* The buffers.  A slot without bytes has none (0).                        *)

Slots == {"stat", "lits", "out", "buf"}

\* A buffer that is in nobody's hands: one from the pool or a new one.
Fresh(p, taken) == IF p # <<>> THEN Last(p) ELSE CHOOSE i \in 1..5 : i \notin taken

Rest(p) == IF p # <<>> THEN Front(p) ELSE p

Put(p, b) == IF b = 0 THEN p ELSE Append(p, b)

Owned == {held[s] : s \in Slots} \cup ToSet(pool)

\* next takes a header's buffer and gives it back, then takes one for the
\* statistics and one for the literals, where there are any.
TakeBuffers ==
  LET header == Fresh(pool, Owned)
      p      == Put(Rest(pool), header)
      stats  == stream.blocks[done + 1].stats # <<>>
      p2     == IF stats THEN Rest(p) ELSE p
      lit    == stream.blocks[done + 1].lits > 0
  IN /\ held' = [held EXCEPT !["stat"] = IF stats THEN Last(p) ELSE 0,
                             !["lits"] = IF lit THEN Fresh(p2, Owned \cup {header}) ELSE 0]
     /\ pool' = IF lit THEN Rest(p2) ELSE p2

TakeOut ==
  /\ held' = [held EXCEPT !["out"] = Fresh(pool, Owned)]
  /\ pool' = Rest(pool)

DropBuffers ==
  /\ held' = [held EXCEPT !["stat"] = 0, !["lits"] = 0, !["out"] = 0]
  /\ pool' = Put(Put(Put(pool, held["out"]), held["stat"]), held["lits"])

-----------------------------------------------------------------------------
Init ==
  /\ stream \in Streams
  /\ done = 0 /\ out = <<>> /\ status = "going"
  /\ pc = "next" /\ cur = <<>> /\ lits = 0 /\ todo = {}
  /\ heap = {Barrier} /\ mm = EmptyMemory /\ disk = <<>> /\ vacant = <<>> /\ astray = FALSE
  /\ held = [s \in Slots |-> 0] /\ pool = <<>>

Going(where) == status = "going" /\ pc = where

Position == Start(stream, done + 1) + Len(cur)
Literals == stream.blocks[done + 1].lits
Limit    == End(stream, done + 1)

\* A block that breaks gives its buffers back; the error stays.
Broken ==
  /\ status' = "broken"
  /\ DropBuffers
  /\ UNCHANGED <<stream, done, out, blockVars, kernelVars>>

\* Reading ends without a buffer in hand: no header, or none that announces
\* a block.  After a first block a header with impossible sizes is the end.
EndOfInput ==
  /\ Going("next")
  /\ done = Len(stream.blocks)
  /\ status' = IF stream.end = "cut" \/ (stream.end = "trailer" /\ done = 0)
               THEN "failed" ELSE "end"
  /\ UNCHANGED <<stream, done, out, blockVars, kernelVars, held, pool>>

\* next: a header, its statistics and its literals.
ReadBlock ==
  /\ Going("next")
  /\ done < Len(stream.blocks)
  /\ TakeBuffers
  /\ pc' = "decode"
  /\ UNCHANGED <<stream, done, out, status, cur, lits, todo, kernelVars>>

\* decode: the context is looked at once, when the block has been read.
Cancel ==
  /\ Going("decode")
  /\ status' = "canceled"
  /\ DropBuffers
  /\ UNCHANGED <<stream, done, out, blockVars, kernelVars>>

Decode ==
  /\ Going("decode")
  /\ TakeOut
  /\ pc' = "stats"
  /\ UNCHANGED <<stream, done, out, status, cur, lits, todo, kernelVars>>

\* block, up to its loop: copies inside the block go on the heap without
\* bytes, the others wait until it is complete.
StartBlock ==
  /\ Going("stats")
  /\ IF ~GoodStats(stream, done + 1)
     THEN Broken
     ELSE LET copies  == Decoded(stream, done + 1)
              node(c) == [src |-> c.src, dest |-> c.dest, len |-> c.len, index |-> 0]
          IN /\ heap' = heap \cup {node(c) : c \in {c \in ToSet(copies) : c.dest < Limit}}
             /\ todo' = {j \in DOMAIN copies : copies[j].dest >= Limit}
             /\ pc' = "copy" /\ cur' = <<>> /\ lits' = 0
             /\ UNCHANGED <<stream, done, out, status, mm, disk, vacant, astray, held, pool>>

\* The literals up to the next copy.
Upto(n) == [i \in 1..n |-> <<done + 1, lits + i>>]

\* A copy inside the block, byte by byte: it may read what it has written.
CopyInside(o, n) ==
  LET from == n.src - Start(stream, done + 1)
      copied[i \in 0..n.len] == IF i = 0 THEN o ELSE Append(copied[i - 1], copied[i - 1][from + i])
  IN copied[n.len]

\* The loop's body for a copy that is in memory.
Copy ==
  LET n   == First(heap)
      gap == n.dest - Position
      o   == cur \o Upto(gap)
  IN /\ Going("copy")
     /\ n.dest < Limit
     /\ ~IsMark(n)
     /\ IF n.dest < Position \/ gap > Literals - lits \/ n.dest + n.len > Limit
        THEN Broken
        ELSE /\ cur' = IF n.index = 0 THEN CopyInside(o, n) ELSE o \o Stored(mm, n.index, n.len)
             /\ lits' = lits + gap
             /\ mm' = Free(mm, n.index)
             /\ heap' = heap \ {n}
             /\ UNCHANGED <<stream, done, out, status, pc, todo, disk, vacant, astray, held, pool>>

\* The loop's body for a mark: first room for a whole block, then the block.
NoRoomForMark ==
  /\ Going("copy")
  /\ First(heap).dest < Limit
  /\ IsMark(First(heap))
  /\ Available(mm) < DiskBlock

MakeRoom ==
  /\ NoRoomForMark
  /\ WalkEnds(heap)
  /\ IF SpillFails(heap)
     THEN Broken
     ELSE Spill /\ UNCHANGED <<stream, done, out, status, blockVars, held, pool>>

\* Mutant: nothing is spilled to make room.
BringBackAtOnce ==
  /\ Going("copy")
  /\ First(heap).dest < Limit
  /\ IsMark(First(heap))
  /\ Unspill(First(heap))
  /\ UNCHANGED <<stream, done, out, status, blockVars, held, pool>>

BringBack ==
  /\ Going("copy")
  /\ First(heap).dest < Limit
  /\ IsMark(First(heap))
  /\ Available(mm) >= DiskBlock
  /\ Unspill(First(heap))
  /\ UNCHANGED <<stream, done, out, status, blockVars, held, pool>>

\* No copy is left for this block: the rest is literals.
LastLiterals ==
  /\ Going("copy")
  /\ First(heap).dest >= Limit
  /\ IF Literals - lits # Limit - Position
     THEN Broken
     ELSE /\ cur' = cur \o Upto(Literals - lits)
          /\ lits' = Literals
          /\ pc' = "save"
          /\ UNCHANGED <<stream, done, out, status, todo, kernelVars, held, pool>>

\* The next copy to save.
ToSave == Decoded(stream, done + 1)[Min(todo)]

\* The bytes of a later copy are kept, once there is room for them.
NoRoomForCopy ==
  /\ Going("save")
  /\ todo # {}
  /\ ToSave.len > Available(mm)

SpillForCopy ==
  /\ NoRoomForCopy
  /\ WalkEnds(heap)
  /\ IF SpillFails(heap)
     THEN Broken
     ELSE Spill /\ UNCHANGED <<stream, done, out, status, blockVars, held, pool>>

KeepCopy ==
  /\ Going("save")
  /\ todo # {}
  /\ ToSave.len <= Available(mm)
  /\ LET c == ToSave
         from == c.src - Start(stream, done + 1)
         s == Save(mm, [i \in 1..c.len |-> cur[from + i]])
     IN /\ mm' = s.mem
        /\ heap' = heap \cup {[src |-> c.src, dest |-> c.dest, len |-> c.len, index |-> s.index]}
  /\ todo' = todo \ {Min(todo)}
  /\ UNCHANGED <<stream, done, out, status, pc, cur, lits, disk, vacant, astray, held, pool>>

\* The block is complete; the one before it goes back to the pool.
Deliver ==
  /\ Going("save")
  /\ todo = {}
  /\ done' = done + 1
  /\ out' = out \o cur
  /\ pc' = "next"
  /\ held' = [stat |-> 0, lits |-> 0, out |-> 0, buf |-> held["out"]]
  /\ pool' = Put(Put(Put(pool, held["stat"]), held["lits"]), held["buf"])
  /\ UNCHANGED <<stream, status, cur, lits, todo, kernelVars>>

\* Mutant: the reader keeps the buffer that it puts back.
CloseKeepsBuffer ==
  /\ pc = "next" \/ status # "going"
  /\ status # "closed"
  /\ status' = "closed"
  /\ pool' = Put(pool, held["buf"])
  /\ UNCHANGED <<stream, done, out, blockVars, kernelVars, held>>

\* Close, between two reads.
Close ==
  /\ pc = "next" \/ status # "going"
  /\ status # "closed"
  /\ status' = "closed"
  /\ held' = [held EXCEPT !["buf"] = 0]
  /\ pool' = Put(pool, held["buf"])
  /\ UNCHANGED <<stream, done, out, blockVars, kernelVars>>

\* A second Close does nothing.
CloseAgain == status = "closed" /\ UNCHANGED vars

Read ==
  \/ EndOfInput \/ ReadBlock \/ Decode \/ StartBlock \/ Copy \/ MakeRoom \/ BringBack
  \/ LastLiterals \/ SpillForCopy \/ KeepCopy \/ Deliver

Next == Read \/ Cancel \/ Close \/ CloseAgain

\* Nothing but a loop of virtMem.save that does not end stops a reader.
CanRead == status = "going" /\ (NoRoomForMark \/ NoRoomForCopy => WalkEnds(heap))

\* The caller reads on until an error or the end: weak fairness of Read, with
\* CanRead for ENABLED <<Read>>_vars, which it is the same as.
ReadsOn == []<>~CanRead \/ []<><<Read>>_vars

Spec == Init /\ [][Next]_vars /\ ReadsOn

-----------------------------------------------------------------------------
InMemory == {n \in heap : n.index # 0}

FreeChunks == IF mm.first = 0 THEN <<>> ELSE Chain(mm, mm.first)

\* The memory's chunks are each on the free list or in the chain of one copy,
\* and used counts the latter.  A chain of a wrong length, or one that runs
\* into another, hands bytes of one copy to another long after.
ChunksConserved ==
  LET chains == {ToSet(Chain(mm, n.index)) : n \in InMemory} \cup {ToSet(FreeChunks)}
  IN /\ UNION chains = DOMAIN mm.link
     /\ \A m, n \in InMemory : m # n => ToSet(Chain(mm, m.index)) \cap ToSet(Chain(mm, n.index)) = {}
     /\ \A n \in InMemory : /\ Len(Chain(mm, n.index)) = Chunks(n.len)
                             /\ ToSet(Chain(mm, n.index)) \cap ToSet(FreeChunks) = {}
     /\ mm.used = Len(mm.link) - Len(FreeChunks)

\* Each block on the disk has one mark, at the destination of a copy in it: of
\* the one due first, so that none is due while it is spilled, unless a loop of
\* virtMem.save that started over has led astray.  The loop passes over nodes,
\* marks of other blocks among them, and numbers of blocks are used again.
OneMarkPerBlock ==
  \A b \in DOMAIN disk :
    LET marks == {n \in heap : IsMark(n) /\ n.src = b}
        dests == {disk[b][i].dest : i \in DOMAIN disk[b]}
    IN IF disk[b] = NoBlock
       THEN marks = {} /\ b \in ToSet(vacant)
       ELSE /\ b \notin ToSet(vacant) /\ Cardinality(marks) = 1
            /\ \A n \in marks : n.dest \in dests /\ (astray \/ n.dest = Min(dests))

\* Memory stays at its limit, but for the last chunk of one copy and for the
\* chunks that copies take over and above their place on the disk: BringBack
\* does not look at the limit again while it loads a block.
MemoryBounded ==
  LET extra == IF Room - 1 > RecordHead THEN Room - 1 - RecordHead ELSE 0
  IN mm.used * Room <= Useful + Room - 1 + (DiskBlock \div (RecordHead + 1)) * extra

\* No buffer is in two hands, or in one and in the pool, or twice in the pool,
\* which all readers share.
BuffersOwnedOnce ==
  /\ IsInjective(pool)
  /\ \A s \in Slots : held[s] # 0 =>
       held[s] \notin ToSet(pool) /\ \A t \in Slots \ {s} : held[t] # held[s]

\* Every reader that is read on comes to an end: the loop of virtMem.save ends
\* although it may start over, and a mark whose block cannot be brought back
\* breaks the stream and is not tried for ever.
Ends == <>(status # "going")

\* The reader does what a reader of the stream promises, whatever is spilled.
\* Astray it may break a well-formed stream, but never delivers bytes that are
\* not the stream's.
KeepsPromise == Promise!Spec

\* A well-formed stream whose copies all fit on the disk is read without an
\* error, whatever memory the reader has: what is spilled makes no difference
\* (TestFutureSpillAgrees).
SpillAgrees == status = "broken" => ~Valid(stream, done + 1) \/ Short(stream)

=============================================================================
