-------------------------- MODULE SrepReaderProofs --------------------------
(***************************************************************************)
(* Proofs about the SREP reader, for any stream, memory and disk.          *)
(*                                                                         *)
(* The buffers.  A slot is filled without a look at what it holds, so a    *)
(* buffer is lost or handed out twice unless the slots of a block are      *)
(* empty when the next one begins, whichever way the last one ended        *)
(* (Empty, BuffersSafe).                                                   *)
(*                                                                         *)
(* The kernel.  Its memory is a set of chains and a free list that share   *)
(* no chunk (Sound): memMgr.save makes one chain more of chunks off the    *)
(* free list, memMgr.free one less.  Then the walk over the heap, which    *)
(* spills copies of descending destinations that fit into a block, the     *)
(* loading of such a block, and the disk with its marks.  KernelInv joins  *)
(* them; ChunksSafe, MemoryLimited and MarksSafe follow from it.           *)
(*                                                                         *)
(* The bytes.  Items are the copies kept with their bytes, in memory or on *)
(* a block: spilling and bringing back leave them the same (SpillKeeps,    *)
(* BringBackKeeps), and spilling never fails (SpillsAlways).               *)
(*                                                                         *)
(* The stream.  Original is the function it is meant to be (OriginalIs),   *)
(* the bytes of a copy are those at its source, and the others are the     *)
(* literals in order.  In a block in the making, a ledger says which of    *)
(* the announced copies are still to come, and that nothing before the     *)
(* reader's position is missing (Made).  It decides, at the place where    *)
(* the reader breaks, that the block is malformed (CopyBreaks,             *)
(* RestDecides), and that the bytes made so far are the stream's.          *)
(*                                                                         *)
(* The account.  The copies kept, with those still to be saved, are those  *)
(* to come, and hold the stream's bytes (AccountInv).  ReaderInv joins all *)
(* of it; with it every step of the reader is one of the promise, or none  *)
(* (PromiseKept).                                                          *)
(***************************************************************************)
EXTENDS SrepReader, WellFoundedInduction, FiniteSetTheorems, SequenceTheorems, TLAPS

-----------------------------------------------------------------------------
(* Induction over the natural numbers: a property of numbers is given as   *)
(* the set of those that have it, so that the lemma can be cited for any   *)
(* property without an operator as its parameter.                          *)

\* A set with 0 and the successor of each of its numbers has all of them: the
\* least one that it does not have would be the successor of one that it has.
LEMMA SetInduction ==
  ASSUME NEW S, 0 \in S, \A n \in Nat : n \in S => n + 1 \in S
  PROVE  Nat \subseteq S
<1> DEFINE R == {ss \in Nat \X Nat : ss[1] < ss[2]}
           T == Nat \ S
<1>1. IsWellFoundedOn(R, Nat)
  BY NatLessThanWellFounded DEF OpToRel
<1>2. \A y, x \in Nat : y < x => <<y, x>> \in R
  OBVIOUS
<1>3. T \subseteq Nat
  OBVIOUS
<1> SUFFICES ASSUME T # {} PROVE FALSE
  OBVIOUS
<1> HIDE DEF R
<1>4. PICK x \in T : \A y \in T : ~(<<y, x>> \in R)
  <2> HIDE DEF T
  <2> QED
    BY <1>1, <1>3, WFMin
<1>5. x \in Nat /\ x # 0 /\ x - 1 \in Nat /\ x - 1 < x /\ (x - 1) + 1 = x
  BY <1>4
<1>6. x - 1 \in T
  BY <1>4, <1>5
<1> QED
  BY <1>2, <1>4, <1>5, <1>6

-----------------------------------------------------------------------------
(* The buffers.                                                            *)

Buffers == 1..5

BufferTypes ==
  /\ held \in [Slots -> 0..5]
  /\ pool \in Seq(Buffers)
  /\ status = "going" => pc \in {"next", "decode", "stats", "copy", "save"}

\* The slots without a buffer.
Empty ==
  /\ status # "going" \/ pc = "next" => held["stat"] = 0 /\ held["lits"] = 0 /\ held["out"] = 0
  /\ pc = "decode" => held["out"] = 0

BufferInv == BufferTypes /\ Empty /\ BuffersOwnedOnce

-----------------------------------------------------------------------------
(* The pool, a stack.                                                      *)

LEMMA TopFacts ==
  ASSUME NEW S, NEW p \in Seq(S), IsInjective(p), p # <<>>
  PROVE  /\ Front(p) \in Seq(S) /\ IsInjective(Front(p))
         /\ Last(p) \in S /\ Last(p) \in ToSet(p)
         /\ ToSet(Front(p)) = ToSet(p) \ {Last(p)}
<1> DEFINE n == Len(p)
<1>1. n \in Nat /\ n > 0 /\ DOMAIN p = 1..n /\ \A i \in 1..n : p[i] \in S
  OBVIOUS
<1>2. /\ Front(p) \in Seq(S) /\ DOMAIN Front(p) = 1..n - 1
      /\ \A i \in 1..n - 1 : Front(p)[i] = p[i]
  <2>1. Front(p) = SubSeq(p, 1, n - 1)
    BY DEF Front
  <2> QED
    BY <1>1, <2>1
<1>3. Last(p) = p[n] /\ n \in DOMAIN p
  BY <1>1 DEF Last
<1>4. /\ \A i \in 1..n - 1 : i \in DOMAIN p /\ i # n
      /\ \A i \in 1..n : i \in 1..n - 1 \/ i = n
  <2>1. n \in Nat /\ DOMAIN p = 1..n
    BY <1>1
  <2> HIDE DEF n
  <2> QED
    BY <2>1
<1>5. IsInjective(Front(p))
  BY <1>2, <1>4, SMTT(20) DEF IsInjective
<1>6. ToSet(Front(p)) = ToSet(p) \ {Last(p)}
  <2>1. \A i \in 1..n - 1 : p[i] # p[n]
    BY <1>3, <1>4 DEF IsInjective
  <2> QED
    BY <1>1, <1>2, <1>3, <1>4, <2>1, ZenonT(40) DEF ToSet
<1> QED
  BY <1>1, <1>2, <1>3, <1>5, <1>6 DEF ToSet

LEMMA PutFacts ==
  ASSUME NEW p \in Seq(Buffers), IsInjective(p), NEW b \in 0..5, b # 0 => b \notin ToSet(p)
  PROVE  /\ Put(p, b) \in Seq(Buffers) /\ IsInjective(Put(p, b))
         /\ ToSet(Put(p, b)) = ToSet(p) \cup ({b} \ {0})
<1>1. CASE b = 0
  BY <1>1 DEF Put
<1>2. CASE b # 0
  <2>1. /\ Put(p, b) = Append(p, b) /\ b \in Buffers
        /\ Len(p) \in Nat /\ DOMAIN p = 1..Len(p) /\ b \notin ToSet(p)
    BY <1>2 DEF Put, Buffers
  <2>2. /\ Append(p, b) \in Seq(Buffers) /\ DOMAIN Append(p, b) = 1..Len(p) + 1
        /\ Append(p, b)[Len(p) + 1] = b /\ \A i \in 1..Len(p) : Append(p, b)[i] = p[i]
    BY <2>1
  <2>3. \A i \in 1..Len(p) + 1 : i \in 1..Len(p) \/ i = Len(p) + 1
    BY <2>1
  <2>4. \A i \in 1..Len(p) : p[i] # b
    BY <2>1 DEF ToSet
  <2>5. IsInjective(Append(p, b))
    BY <2>1, <2>2, <2>3, <2>4 DEF IsInjective
  <2>6. ToSet(Append(p, b)) = ToSet(p) \cup {b}
    BY <2>1, <2>2, <2>3 DEF ToSet
  <2> QED
    BY <1>2, <2>1, <2>2, <2>5, <2>6
<1> QED
  BY <1>1, <1>2

\* A fresh buffer comes from the pool; if that is empty there is one that no
\* slot has, as five are one more than the slots.
LEMMA FreshFacts ==
  ASSUME NEW p \in Seq(Buffers), IsInjective(p), NEW taken,
         NEW w, NEW x, NEW y, NEW z, p = <<>> => taken \subseteq {0, w, x, y, z}
  PROVE  /\ Fresh(p, taken) \in Buffers
         /\ p # <<>> => Fresh(p, taken) \in ToSet(p) /\ ToSet(Rest(p)) = ToSet(p) \ {Fresh(p, taken)}
         /\ p = <<>> => Fresh(p, taken) \notin taken /\ ToSet(Rest(p)) = {}
         /\ Rest(p) \in Seq(Buffers) /\ IsInjective(Rest(p))
<1>1. CASE p # <<>>
  BY <1>1, TopFacts DEF Fresh, Rest
<1>2. CASE p = <<>>
  <2>1. \E i \in 1..5 : i \notin {0, w, x, y, z}
    <3>1. 1 \in 1..5 /\ 2 \in 1..5 /\ 3 \in 1..5 /\ 4 \in 1..5 /\ 5 \in 1..5
      OBVIOUS
    <3> QED
      BY <3>1
  <2>2. \E i \in 1..5 : i \notin taken
    BY <1>2, <2>1
  <2>3. Fresh(p, taken) = CHOOSE i \in 1..5 : i \notin taken
    BY <1>2 DEF Fresh
  <2>4. Fresh(p, taken) \in 1..5 /\ Fresh(p, taken) \notin taken
    BY <2>2, <2>3
  <2>5. Rest(p) = p /\ ToSet(p) = {}
    BY <1>2 DEF Rest, ToSet
  <2> QED
    BY <1>2, <2>4, <2>5 DEF Buffers
<1> QED
  BY <1>1, <1>2

-----------------------------------------------------------------------------
\* Steps that move no buffer.
LEMMA SameBuffers ==
  ASSUME BufferInv, UNCHANGED <<held, pool>>,
         status' = "going" => pc' \in {"next", "decode", "stats", "copy", "save"},
         status' # "going" \/ pc' = "next" => status # "going" \/ pc = "next",
         pc' = "decode" => pc = "decode"
  PROVE  BufferInv'
<1>1. BufferTypes'
  BY DEF BufferInv, BufferTypes
<1>2. Empty'
  BY DEF BufferInv, Empty
<1>3. BuffersOwnedOnce'
  BY DEF BufferInv, BuffersOwnedOnce
<1> QED
  BY <1>1, <1>2, <1>3 DEF BufferInv

LEMMA HeldFacts ==
  ASSUME BufferInv
  PROVE  /\ pool \in Seq(Buffers) /\ IsInjective(pool)
         /\ \A s \in {"stat", "lits", "out", "buf"} :
              /\ held[s] \in 0..5
              /\ held[s] # 0 =>
                   /\ held[s] \notin ToSet(pool)
                   /\ \A t \in {"stat", "lits", "out", "buf"} : t # s => held[t] # held[s]
  BY DEF BufferInv, BufferTypes, BuffersOwnedOnce, Slots

\* The three buffers of a block go back to the pool.
LEMMA DropStep ==
  ASSUME BufferInv, DropBuffers, status' # "going", pc' = pc
  PROVE  BufferInv'
<1> DEFINE p1 == Put(pool, held["out"])
           p2 == Put(p1, held["stat"])
           p3 == Put(p2, held["lits"])
<1>0. held \in [Slots -> 0..5]
  BY DEF BufferInv, BufferTypes
<1>1. /\ p1 \in Seq(Buffers) /\ IsInjective(p1)
      /\ ToSet(p1) = ToSet(pool) \cup ({held["out"]} \ {0})
  BY HeldFacts, PutFacts
<1> HIDE DEF p1
<1>2. p2 \in Seq(Buffers) /\ IsInjective(p2) /\ ToSet(p2) = ToSet(p1) \cup ({held["stat"]} \ {0})
  <2>1. held["stat"] \in 0..5 /\ (held["stat"] # 0 => held["stat"] \notin ToSet(p1))
    BY <1>1, HeldFacts
  <2> QED
    BY <1>1, <2>1, PutFacts
<1> HIDE DEF p2
<1>3. p3 \in Seq(Buffers) /\ IsInjective(p3) /\ ToSet(p3) = ToSet(p2) \cup ({held["lits"]} \ {0})
  <2>1. held["lits"] \in 0..5 /\ (held["lits"] # 0 => held["lits"] \notin ToSet(p2))
    BY <1>1, <1>2, HeldFacts
  <2> QED
    BY <1>2, <2>1, PutFacts
<1> HIDE DEF p3
<1>4. pool' = p3 /\ held' = [held EXCEPT !["stat"] = 0, !["lits"] = 0, !["out"] = 0]
  BY DEF DropBuffers, p1, p2, p3
<1>5. /\ held' \in [Slots -> 0..5] /\ held'["stat"] = 0 /\ held'["lits"] = 0 /\ held'["out"] = 0
      /\ held'["buf"] = held["buf"]
  BY <1>0, <1>4 DEF Slots
<1>6. held["buf"] # 0 => held["buf"] \notin ToSet(p3)
  BY <1>1, <1>2, <1>3, HeldFacts
<1>7. BufferTypes'
  BY <1>3, <1>4, <1>5 DEF BufferTypes
<1>8. Empty'
  BY <1>5 DEF Empty
<1>9. BuffersOwnedOnce'
  BY <1>3, <1>4, <1>5, <1>6 DEF BuffersOwnedOnce, Slots
<1> QED
  BY <1>7, <1>8, <1>9 DEF BufferInv

LEMMA ReadBlockStep ==
  ASSUME BufferInv, ReadBlock
  PROVE  BufferInv'
<1> DEFINE header == Fresh(pool, Owned)
           p      == Put(Rest(pool), header)
           stats  == stream.blocks[done + 1].stats # <<>>
           p2     == IF stats THEN Rest(p) ELSE p
           lit    == stream.blocks[done + 1].lits > 0
           fresh  == Fresh(p2, Owned \cup {header})
<1>0. /\ held \in [Slots -> 0..5] /\ held["stat"] = 0 /\ held["lits"] = 0 /\ held["out"] = 0
      /\ pool \in Seq(Buffers) /\ IsInjective(pool)
      /\ held["buf"] \in 0..5 /\ (held["buf"] # 0 => held["buf"] \notin ToSet(pool))
  BY HeldFacts DEF BufferInv, BufferTypes, Empty, ReadBlock, Going
<1>1. Owned = {0, held["buf"]} \cup ToSet(pool)
  BY <1>0 DEF Owned, Slots
<1>2. /\ held' = [held EXCEPT !["stat"] = IF stats THEN Last(p) ELSE 0, !["lits"] = IF lit THEN fresh ELSE 0]
      /\ pool' = IF lit THEN Rest(p2) ELSE p2
      /\ status' = "going" /\ pc' = "decode"
  BY DEF ReadBlock, TakeBuffers, Going
<1>3. /\ header \in Buffers /\ Rest(pool) \in Seq(Buffers) /\ IsInjective(Rest(pool))
      /\ pool # <<>> => header \in ToSet(pool) /\ ToSet(Rest(pool)) = ToSet(pool) \ {header}
      /\ pool = <<>> => header \notin Owned /\ ToSet(Rest(pool)) = {}
  <2>1. pool = <<>> => ToSet(pool) = {}
    BY DEF ToSet
  <2>2. pool = <<>> => Owned \subseteq {0, held["buf"], held["buf"], held["buf"], held["buf"]}
    BY <1>1, <2>1
  <2> QED
    BY <1>0, <2>2, FreshFacts, ZenonT(40)
<1>4. header # 0 /\ header \notin ToSet(Rest(pool)) /\ header # held["buf"]
      /\ ToSet(pool) \subseteq ToSet(Rest(pool)) \cup {header}
  <2>1. header # 0
    BY <1>3 DEF Buffers
  <2>2. pool = <<>> => ToSet(pool) = {}
    BY DEF ToSet
  <2> QED
    BY <1>0, <1>1, <1>3, <2>1, <2>2
<1> HIDE DEF header
<1>5. /\ p \in Seq(Buffers) /\ IsInjective(p) /\ ToSet(p) = ToSet(Rest(pool)) \cup {header}
      /\ held["buf"] # 0 => held["buf"] \notin ToSet(p)
  <2>1. header \in 0..5
    BY <1>3 DEF Buffers
  <2>2. p \in Seq(Buffers) /\ IsInjective(p) /\ ToSet(p) = ToSet(Rest(pool)) \cup ({header} \ {0})
    BY <1>3, <1>4, <2>1, PutFacts
  <2>3. ToSet(Rest(pool)) \subseteq ToSet(pool)
    BY <1>3
  <2> QED
    BY <1>0, <1>4, <2>2, <2>3
<1>6. p # <<>>
  BY <1>5 DEF ToSet
<1> HIDE DEF p
<1>7. /\ Last(p) \in Buffers /\ Last(p) \in ToSet(p)
      /\ Rest(p) \in Seq(Buffers) /\ IsInjective(Rest(p)) /\ ToSet(Rest(p)) = ToSet(p) \ {Last(p)}
  BY <1>5, <1>6, TopFacts DEF Rest
<1>8. /\ p2 \in Seq(Buffers) /\ IsInjective(p2) /\ ToSet(p2) \subseteq ToSet(p)
      /\ stats => Last(p) \notin ToSet(p2)
      /\ p2 = <<>> => stats /\ ToSet(p) = {header} /\ Last(p) = header
  <2>1. Rest(p) = <<>> => ToSet(Rest(p)) = {}
    BY DEF ToSet
  <2>2. ToSet(p) \ {Last(p)} = {} => ToSet(p) = {header} /\ Last(p) = header
    BY <1>5, <1>7
  <2> QED
    BY <1>5, <1>6, <1>7, <2>1, <2>2
<1> HIDE DEF p2, stats
<1>9. /\ fresh \in Buffers /\ Rest(p2) \in Seq(Buffers) /\ IsInjective(Rest(p2))
      /\ p2 # <<>> => fresh \in ToSet(p2) /\ ToSet(Rest(p2)) = ToSet(p2) \ {fresh}
      /\ p2 = <<>> => fresh \notin Owned \cup {header} /\ ToSet(Rest(p2)) = {}
  <2>1. p2 = <<>> => ToSet(pool) \subseteq {header}
    BY <1>4, <1>5, <1>8
  <2>2. p2 = <<>> => Owned \cup {header} \subseteq {0, held["buf"], header, header, header}
    BY <1>1, <2>1
  <2> QED
    BY <1>8, <2>2, FreshFacts, ZenonT(40)
<1> HIDE DEF fresh
\* What is handed out is in neither the other slot nor the block's.
<1>10. fresh # held["buf"] /\ fresh \notin ToSet(Rest(p2)) /\ (stats => fresh # Last(p)) /\ fresh # 0
  <2>1. CASE p2 # <<>>
    BY <1>0, <1>5, <1>8, <1>9, <2>1 DEF Buffers
  <2>2. CASE p2 = <<>>
    BY <1>1, <1>8, <1>9, <2>2
  <2> QED
    BY <2>1, <2>2
<1> HIDE DEF lit
<1>11. /\ held' \in [Slots -> 0..5] /\ held'["out"] = 0 /\ held'["buf"] = held["buf"]
       /\ held'["stat"] = (IF stats THEN Last(p) ELSE 0) /\ held'["lits"] = (IF lit THEN fresh ELSE 0)
  BY <1>0, <1>2, <1>7, <1>9 DEF Slots, Buffers
<1>12. /\ pool' \in Seq(Buffers) /\ IsInjective(pool') /\ ToSet(pool') \subseteq ToSet(p2)
       /\ lit => fresh \notin ToSet(pool')
  <2>1. ToSet(Rest(p2)) \subseteq ToSet(p2)
    BY <1>9
  <2> QED
    BY <1>2, <1>8, <1>9, <1>10, <2>1
<1>13. BufferTypes'
  BY <1>2, <1>11, <1>12 DEF BufferTypes
<1>14. Empty'
  BY <1>2, <1>11 DEF Empty
<1>15. BuffersOwnedOnce'
  <2>1. held["buf"] # 0 => held["buf"] \notin ToSet(pool') /\ (stats => Last(p) # held["buf"])
    BY <1>5, <1>7, <1>8, <1>12
  <2>2. stats => Last(p) \notin ToSet(pool')
    BY <1>8, <1>12
  <2> QED
    BY <1>10, <1>11, <1>12, <2>1, <2>2 DEF BuffersOwnedOnce, Slots
<1> QED
  BY <1>13, <1>14, <1>15 DEF BufferInv

LEMMA DecodeStep ==
  ASSUME BufferInv, Decode
  PROVE  BufferInv'
<1> DEFINE fresh == Fresh(pool, Owned)
<1>0. held \in [Slots -> 0..5] /\ held["out"] = 0 /\ status = "going"
  BY DEF BufferInv, BufferTypes, Empty, Decode, Going
<1>1. Owned = {held["stat"], held["lits"], held["out"], held["buf"]} \cup ToSet(pool)
  BY DEF Owned, Slots
<1>2. /\ fresh \in Buffers /\ Rest(pool) \in Seq(Buffers) /\ IsInjective(Rest(pool))
      /\ pool # <<>> => fresh \in ToSet(pool) /\ ToSet(Rest(pool)) = ToSet(pool) \ {fresh}
      /\ pool = <<>> => fresh \notin Owned /\ ToSet(Rest(pool)) = {}
  <2>1. pool = <<>> => Owned \subseteq {0, held["stat"], held["lits"], held["out"], held["buf"]}
    BY <1>1 DEF ToSet
  <2> QED
    BY <2>1, HeldFacts, FreshFacts
<1> HIDE DEF fresh
<1>3. held' = [held EXCEPT !["out"] = fresh] /\ pool' = Rest(pool) /\ pc' = "stats" /\ status' = "going"
  BY <1>0 DEF Decode, TakeOut, fresh
<1>4. /\ held' \in [Slots -> 0..5] /\ held'["out"] = fresh /\ held'["stat"] = held["stat"]
      /\ held'["lits"] = held["lits"] /\ held'["buf"] = held["buf"]
  BY <1>0, <1>2, <1>3 DEF Slots, Buffers
<1>5. ToSet(pool') \subseteq ToSet(pool) /\ fresh \notin ToSet(pool')
      /\ \A s \in {"stat", "lits", "buf"} : fresh # held[s]
  <2>1. \A s \in {"stat", "lits", "buf"} : held[s] = 0 \/ (held[s] \notin ToSet(pool) /\ held[s] \in Owned)
    BY <1>1, HeldFacts
  <2>2. fresh # 0
    BY <1>2 DEF Buffers
  <2> QED
    BY <1>2, <1>3, <2>1, <2>2
<1>6. BufferTypes' /\ Empty'
  BY <1>2, <1>3, <1>4 DEF BufferTypes, Empty
<1>7. BuffersOwnedOnce'
  <2>1. \A s \in {"stat", "lits", "buf"} : held[s] # 0 =>
          held[s] \notin ToSet(pool') /\ \A t \in {"stat", "lits", "buf"} : t # s => held[t] # held[s]
    BY <1>5, HeldFacts
  <2> QED
    BY <1>2, <1>3, <1>4, <1>5, <2>1 DEF BuffersOwnedOnce, Slots
<1> QED
  BY <1>6, <1>7 DEF BufferInv

LEMMA DeliverStep ==
  ASSUME BufferInv, Deliver
  PROVE  BufferInv'
<1> DEFINE p1 == Put(pool, held["stat"])
           p2 == Put(p1, held["lits"])
           p3 == Put(p2, held["buf"])
<1>1. p1 \in Seq(Buffers) /\ IsInjective(p1) /\ ToSet(p1) = ToSet(pool) \cup ({held["stat"]} \ {0})
  BY HeldFacts, PutFacts
<1> HIDE DEF p1
<1>2. p2 \in Seq(Buffers) /\ IsInjective(p2) /\ ToSet(p2) = ToSet(p1) \cup ({held["lits"]} \ {0})
  <2>1. held["lits"] \in 0..5 /\ (held["lits"] # 0 => held["lits"] \notin ToSet(p1))
    BY <1>1, HeldFacts
  <2> QED
    BY <1>1, <2>1, PutFacts
<1> HIDE DEF p2
<1>3. p3 \in Seq(Buffers) /\ IsInjective(p3) /\ ToSet(p3) = ToSet(p2) \cup ({held["buf"]} \ {0})
  <2>1. held["buf"] \in 0..5 /\ (held["buf"] # 0 => held["buf"] \notin ToSet(p2))
    BY <1>1, <1>2, HeldFacts
  <2> QED
    BY <1>2, <2>1, PutFacts
<1> HIDE DEF p3
<1>4. /\ pool' = p3 /\ pc' = "next" /\ status' = "going"
      /\ held' = [stat |-> 0, lits |-> 0, out |-> 0, buf |-> held["out"]]
  BY DEF Deliver, Going, p1, p2, p3
<1>5. /\ held' \in [Slots -> 0..5] /\ held'["stat"] = 0 /\ held'["lits"] = 0 /\ held'["out"] = 0
      /\ held'["buf"] = held["out"]
  <2>1. held["out"] \in 0..5 /\ 0 \in 0..5
    BY HeldFacts
  <2> QED
    BY <1>4, <2>1 DEF Slots
<1>6. held["out"] # 0 => held["out"] \notin ToSet(p3)
  BY <1>1, <1>2, <1>3, HeldFacts
<1>7. BufferTypes' /\ Empty'
  BY <1>3, <1>4, <1>5 DEF BufferTypes, Empty
<1>8. BuffersOwnedOnce'
  BY <1>3, <1>4, <1>5, <1>6 DEF BuffersOwnedOnce, Slots
<1> QED
  BY <1>7, <1>8 DEF BufferInv

LEMMA CloseStep ==
  ASSUME BufferInv, Close
  PROVE  BufferInv'
<1>0. held \in [Slots -> 0..5] /\ held["stat"] = 0 /\ held["lits"] = 0 /\ held["out"] = 0
  BY DEF BufferInv, BufferTypes, Empty, Close
<1>1. held' = [held EXCEPT !["buf"] = 0] /\ pool' = Put(pool, held["buf"]) /\ pc' = pc /\ status' = "closed"
  BY DEF Close, blockVars
<1>2. pool' \in Seq(Buffers) /\ IsInjective(pool')
  BY <1>1, HeldFacts, PutFacts
<1>3. held' \in [Slots -> 0..5] /\ \A s \in Slots : held'[s] = 0
  BY <1>0, <1>1 DEF Slots
<1>4. BufferTypes' /\ Empty'
  BY <1>1, <1>2, <1>3 DEF BufferTypes, Empty, Slots
<1>5. BuffersOwnedOnce'
  BY <1>2, <1>3 DEF BuffersOwnedOnce
<1> QED
  BY <1>4, <1>5 DEF BufferInv

LEMMA BufferStep == BufferInv /\ [Next]_vars => BufferInv'
<1> SUFFICES ASSUME BufferInv, [Next]_vars PROVE BufferInv'
  OBVIOUS
<1> USE DEF Going, blockVars, kernelVars
<1>1. CASE ReadBlock \/ Decode \/ Deliver \/ Close
  BY <1>1, ReadBlockStep, DecodeStep, DeliverStep, CloseStep
<1>2. CASE Broken \/ Cancel
  <2>1. DropBuffers /\ status' # "going" /\ pc' = pc
    BY <1>2 DEF Broken, Cancel
  <2> QED
    BY <2>1, DropStep
<1>3. CASE EndOfInput
  BY <1>3, SameBuffers DEF EndOfInput
<1>4. CASE StartBlock /\ ~Broken
  <2>1. UNCHANGED <<held, pool, status>> /\ pc' = "copy"
    BY <1>4 DEF StartBlock
  <2> QED
    BY <2>1, SameBuffers
<1>5. CASE (Copy \/ MakeRoom \/ BringBack \/ SpillForCopy \/ KeepCopy) /\ ~Broken
  <2>1. UNCHANGED <<held, pool, status, pc>>
    BY <1>5 DEF Copy, MakeRoom, BringBack, SpillForCopy, KeepCopy
  <2> QED
    BY <2>1, SameBuffers DEF BufferInv, BufferTypes
<1>6. CASE LastLiterals /\ ~Broken
  <2>1. UNCHANGED <<held, pool, status>> /\ pc' = "save"
    BY <1>6 DEF LastLiterals
  <2> QED
    BY <2>1, SameBuffers
<1>7. CASE UNCHANGED vars
  BY <1>7, SameBuffers DEF vars, BufferInv, BufferTypes
<1> QED
  BY <1>1, <1>2, <1>3, <1>4, <1>5, <1>6, <1>7 DEF Next, Read, CloseAgain

\* No buffer of the pool that all readers share is lost to two holders: not
\* when a block breaks, is canceled in the middle or ends, and not in Close.
THEOREM BuffersSafe == Spec => []BuffersOwnedOnce
<1>1. Init => BufferInv
  <2> SUFFICES ASSUME Init PROVE BufferInv
    OBVIOUS
  <2>1. held = [s \in Slots |-> 0] /\ pool = <<>> /\ pc = "next" /\ status = "going"
    BY DEF Init
  <2>2. held \in [Slots -> 0..5] /\ pool \in Seq(Buffers) /\ IsInjective(pool)
    BY <2>1 DEF IsInjective
  <2> QED
    BY <2>1, <2>2 DEF BufferInv, BufferTypes, Empty, BuffersOwnedOnce, Slots
<1>2. BufferInv => BuffersOwnedOnce
  BY DEF BufferInv
<1> QED
  BY <1>1, <1>2, BufferStep, PTL DEF Spec

-----------------------------------------------------------------------------
(* The recursions of the model: each has a function that obeys it, up to   *)
(* every length.                                                           *)

\* Start adds up the sizes of blocks.
Starts(s, n, g) ==
  g = [i \in 0..n |-> IF i = 0 THEN 0
                     ELSE g[i - 1] + s.blocks[i].size]

LEMMA StartsExists ==
  ASSUME NEW s, NEW N \in Nat
  PROVE  \E g : Starts(s, N, g)
<1> DEFINE S == {n \in Nat : \E g : Starts(s, n, g)}
<1>1. 0 \in S
  <2> DEFINE g == [i \in 0..0 |-> 0]
  <2>1. Starts(s, 0, g)
    BY DEF Starts
  <2> QED
    BY <2>1
<1>2. ASSUME NEW n \in Nat, n \in S
      PROVE  n + 1 \in S
  <2>1. PICK g : Starts(s, n, g)
    BY <1>2
  <2>2. \A i \in 0..n : g[i] = IF i = 0 THEN 0 ELSE g[i - 1] + s.blocks[i].size
    BY <2>1 DEF Starts
  <2> DEFINE h == [i \in 0..n + 1 |-> IF i = n + 1 THEN g[n] + s.blocks[n + 1].size ELSE g[i]]
  <2>3. h[n] = g[n]
    OBVIOUS
  <2>4. ASSUME NEW i \in 0..n + 1
        PROVE  h[i] = IF i = 0 THEN 0 ELSE h[i - 1] + s.blocks[i].size
    <3>1. CASE i = n + 1
      BY <2>3, <3>1
    <3>2. CASE i = 0
      <4>1. i \in 0..n /\ h[i] = g[i]
        BY <3>2
      <4> HIDE DEF h
      <4> QED
        BY <2>2, <3>2, <4>1
    <3>3. CASE i # 0 /\ i # n + 1
      <4>1. i \in 1..n /\ i - 1 \in 0..n
        BY <3>3
      <4>2. h[i] = g[i] /\ h[i - 1] = g[i - 1]
        BY <4>1
      <4> HIDE DEF h
      <4>3. g[i] = g[i - 1] + s.blocks[i].size
        BY <2>2, <3>3, <4>1
      <4> QED
        BY <3>3, <4>2, <4>3
    <3> QED
      BY <3>1, <3>2, <3>3
  <2>5. h = [i \in 0..n + 1 |-> h[i]]
    OBVIOUS
  <2> HIDE DEF h
  <2>6. Starts(s, n + 1, h)
    BY <2>4, <2>5 DEF Starts
  <2> QED
    BY <2>6
<1>3. Nat \subseteq S
  <2> HIDE DEF S
  <2> QED
    BY <1>1, <1>2, SetInduction
<1> QED
  BY <1>3

\* decodeStats adds up the literals between sources.
Sources(s, k, n, g) ==
  g = [i \in 0..n |-> IF i = 0 THEN Start(s, k)
                     ELSE g[i - 1] + s.blocks[k].stats[i].lit]

LEMMA SourcesExists ==
  ASSUME NEW s, NEW k, NEW N \in Nat
  PROVE  \E g : Sources(s, k, N, g)
<1> DEFINE S == {n \in Nat : \E g : Sources(s, k, n, g)}
<1>1. 0 \in S
  <2> DEFINE g == [i \in 0..0 |-> Start(s, k)]
  <2>1. Sources(s, k, 0, g)
    BY DEF Sources
  <2> QED
    BY <2>1
<1>2. ASSUME NEW n \in Nat, n \in S
      PROVE  n + 1 \in S
  <2>1. PICK g : Sources(s, k, n, g)
    BY <1>2
  <2>2. \A i \in 0..n : g[i] = IF i = 0 THEN Start(s, k) ELSE g[i - 1] + s.blocks[k].stats[i].lit
    BY <2>1 DEF Sources
  <2> DEFINE h == [i \in 0..n + 1 |-> IF i = n + 1 THEN g[n] + s.blocks[k].stats[n + 1].lit ELSE g[i]]
  <2>3. h[n] = g[n]
    OBVIOUS
  <2>4. ASSUME NEW i \in 0..n + 1
        PROVE  h[i] = IF i = 0 THEN Start(s, k) ELSE h[i - 1] + s.blocks[k].stats[i].lit
    <3>1. CASE i = n + 1
      BY <2>3, <3>1
    <3>2. CASE i = 0
      <4>1. i \in 0..n /\ h[i] = g[i]
        BY <3>2
      <4> HIDE DEF h
      <4> QED
        BY <2>2, <3>2, <4>1
    <3>3. CASE i # 0 /\ i # n + 1
      <4>1. i \in 1..n /\ i - 1 \in 0..n
        BY <3>3
      <4>2. h[i] = g[i] /\ h[i - 1] = g[i - 1]
        BY <4>1
      <4> HIDE DEF h
      <4>3. g[i] = g[i - 1] + s.blocks[k].stats[i].lit
        BY <2>2, <3>3, <4>1
      <4> QED
        BY <3>3, <4>2, <4>3
    <3> QED
      BY <3>1, <3>2, <3>3
  <2>5. h = [i \in 0..n + 1 |-> h[i]]
    OBVIOUS
  <2> HIDE DEF h
  <2>6. Sources(s, k, n + 1, h)
    BY <2>4, <2>5 DEF Sources
  <2> QED
    BY <2>6
<1>3. Nat \subseteq S
  <2> HIDE DEF S
  <2> QED
    BY <1>1, <1>2, SetInduction
<1> QED
  BY <1>3

\* Chain follows links.
Follows(m, c, n, g) ==
  g = [i \in 0..n |-> IF i = 0 THEN c
                     ELSE IF g[i - 1] = 0 THEN 0 ELSE m.link[g[i - 1]]]

LEMMA FollowsExists ==
  ASSUME NEW m, NEW c, NEW N \in Nat
  PROVE  \E g : Follows(m, c, N, g)
<1> DEFINE S == {n \in Nat : \E g : Follows(m, c, n, g)}
<1>1. 0 \in S
  <2> DEFINE g == [i \in 0..0 |-> c]
  <2>1. Follows(m, c, 0, g)
    BY DEF Follows
  <2> QED
    BY <2>1
<1>2. ASSUME NEW n \in Nat, n \in S
      PROVE  n + 1 \in S
  <2>1. PICK g : Follows(m, c, n, g)
    BY <1>2
  <2>2. \A i \in 0..n : g[i] = IF i = 0 THEN c ELSE IF g[i - 1] = 0 THEN 0 ELSE m.link[g[i - 1]]
    BY <2>1 DEF Follows
  <2> DEFINE h == [i \in 0..n + 1 |-> IF i = n + 1 THEN IF g[n] = 0 THEN 0 ELSE m.link[g[n]] ELSE g[i]]
  <2>3. h[n] = g[n]
    OBVIOUS
  <2>4. ASSUME NEW i \in 0..n + 1
        PROVE  h[i] = IF i = 0 THEN c ELSE IF h[i - 1] = 0 THEN 0 ELSE m.link[h[i - 1]]
    <3>1. CASE i = n + 1
      BY <2>3, <3>1
    <3>2. CASE i = 0
      <4>1. i \in 0..n /\ h[i] = g[i]
        BY <3>2
      <4> HIDE DEF h
      <4> QED
        BY <2>2, <3>2, <4>1
    <3>3. CASE i # 0 /\ i # n + 1
      <4>1. i \in 1..n /\ i - 1 \in 0..n
        BY <3>3
      <4>2. h[i] = g[i] /\ h[i - 1] = g[i - 1]
        BY <4>1
      <4> HIDE DEF h
      <4>3. g[i] = IF g[i - 1] = 0 THEN 0 ELSE m.link[g[i - 1]]
        BY <2>2, <3>3, <4>1
      <4> QED
        BY <3>3, <4>2, <4>3
    <3> QED
      BY <3>1, <3>2, <3>3
  <2>5. h = [i \in 0..n + 1 |-> h[i]]
    OBVIOUS
  <2> HIDE DEF h
  <2>6. Follows(m, c, n + 1, h)
    BY <2>4, <2>5 DEF Follows
  <2> QED
    BY <2>6
<1>3. Nat \subseteq S
  <2> HIDE DEF S
  <2> QED
    BY <1>1, <1>2, SetInduction
<1> QED
  BY <1>3

\* Save takes one chunk after the other.
Takes(m, p, n, g) ==
  g = [i \in 0..n |-> IF i = 0 THEN [mem |-> m, index |-> 0, last |-> 0]
                     ELSE Take(g[i - 1], p, i)]

LEMMA TakesExists ==
  ASSUME NEW m, NEW p, NEW N \in Nat
  PROVE  \E g : Takes(m, p, N, g)
<1> DEFINE S == {n \in Nat : \E g : Takes(m, p, n, g)}
<1>1. 0 \in S
  <2> DEFINE g == [i \in 0..0 |-> [mem |-> m, index |-> 0, last |-> 0]]
  <2>1. Takes(m, p, 0, g)
    BY DEF Takes
  <2> QED
    BY <2>1
<1>2. ASSUME NEW n \in Nat, n \in S
      PROVE  n + 1 \in S
  <2>1. PICK g : Takes(m, p, n, g)
    BY <1>2
  <2>2. \A i \in 0..n : g[i] = IF i = 0 THEN [mem |-> m, index |-> 0, last |-> 0] ELSE Take(g[i - 1], p, i)
    BY <2>1 DEF Takes
  <2> DEFINE h == [i \in 0..n + 1 |-> IF i = n + 1 THEN Take(g[n], p, n + 1) ELSE g[i]]
  <2>3. h[n] = g[n]
    OBVIOUS
  <2>4. ASSUME NEW i \in 0..n + 1
        PROVE  h[i] = IF i = 0 THEN [mem |-> m, index |-> 0, last |-> 0] ELSE Take(h[i - 1], p, i)
    <3>1. CASE i = n + 1
      BY <2>3, <3>1
    <3>2. CASE i = 0
      <4>1. i \in 0..n /\ h[i] = g[i]
        BY <3>2
      <4> HIDE DEF h
      <4> QED
        BY <2>2, <3>2, <4>1
    <3>3. CASE i # 0 /\ i # n + 1
      <4>1. i \in 1..n /\ i - 1 \in 0..n
        BY <3>3
      <4>2. h[i] = g[i] /\ h[i - 1] = g[i - 1]
        BY <4>1
      <4> HIDE DEF h
      <4>3. g[i] = Take(g[i - 1], p, i)
        BY <2>2, <3>3, <4>1
      <4> QED
        BY <3>3, <4>2, <4>3
    <3> QED
      BY <3>1, <3>2, <3>3
  <2>5. h = [i \in 0..n + 1 |-> h[i]]
    OBVIOUS
  <2> HIDE DEF h
  <2>6. Takes(m, p, n + 1, h)
    BY <2>4, <2>5 DEF Takes
  <2> QED
    BY <2>6
<1>3. Nat \subseteq S
  <2> HIDE DEF S
  <2> QED
    BY <1>1, <1>2, SetInduction
<1> QED
  BY <1>3

\* Free gives them back, one after the other.
Frees(m, chain, n, g) ==
  g = [i \in 0..n |-> IF i = 0 THEN m
                     ELSE FreeOne(g[i - 1], chain[i])]

LEMMA FreesExists ==
  ASSUME NEW m, NEW chain, NEW N \in Nat
  PROVE  \E g : Frees(m, chain, N, g)
<1> DEFINE S == {n \in Nat : \E g : Frees(m, chain, n, g)}
<1>1. 0 \in S
  <2> DEFINE g == [i \in 0..0 |-> m]
  <2>1. Frees(m, chain, 0, g)
    BY DEF Frees
  <2> QED
    BY <2>1
<1>2. ASSUME NEW n \in Nat, n \in S
      PROVE  n + 1 \in S
  <2>1. PICK g : Frees(m, chain, n, g)
    BY <1>2
  <2>2. \A i \in 0..n : g[i] = IF i = 0 THEN m ELSE FreeOne(g[i - 1], chain[i])
    BY <2>1 DEF Frees
  <2> DEFINE h == [i \in 0..n + 1 |-> IF i = n + 1 THEN FreeOne(g[n], chain[n + 1]) ELSE g[i]]
  <2>3. h[n] = g[n]
    OBVIOUS
  <2>4. ASSUME NEW i \in 0..n + 1
        PROVE  h[i] = IF i = 0 THEN m ELSE FreeOne(h[i - 1], chain[i])
    <3>1. CASE i = n + 1
      BY <2>3, <3>1
    <3>2. CASE i = 0
      <4>1. i \in 0..n /\ h[i] = g[i]
        BY <3>2
      <4> HIDE DEF h
      <4> QED
        BY <2>2, <3>2, <4>1
    <3>3. CASE i # 0 /\ i # n + 1
      <4>1. i \in 1..n /\ i - 1 \in 0..n
        BY <3>3
      <4>2. h[i] = g[i] /\ h[i - 1] = g[i - 1]
        BY <4>1
      <4> HIDE DEF h
      <4>3. g[i] = FreeOne(g[i - 1], chain[i])
        BY <2>2, <3>3, <4>1
      <4> QED
        BY <3>3, <4>2, <4>3
    <3> QED
      BY <3>1, <3>2, <3>3
  <2>5. h = [i \in 0..n + 1 |-> h[i]]
    OBVIOUS
  <2> HIDE DEF h
  <2>6. Frees(m, chain, n + 1, h)
    BY <2>4, <2>5 DEF Frees
  <2> QED
    BY <2>6
<1>3. Nat \subseteq S
  <2> HIDE DEF S
  <2> QED
    BY <1>1, <1>2, SetInduction
<1> QED
  BY <1>3

\* Spill frees the bytes of one copy after the other.
FreesAll(m, nodes, n, g) ==
  g = [i \in 0..n |-> IF i = 0 THEN m
                     ELSE Free(g[i - 1], nodes[i].index)]

LEMMA FreesAllExists ==
  ASSUME NEW m, NEW nodes, NEW N \in Nat
  PROVE  \E g : FreesAll(m, nodes, N, g)
<1> DEFINE S == {n \in Nat : \E g : FreesAll(m, nodes, n, g)}
<1>1. 0 \in S
  <2> DEFINE g == [i \in 0..0 |-> m]
  <2>1. FreesAll(m, nodes, 0, g)
    BY DEF FreesAll
  <2> QED
    BY <2>1
<1>2. ASSUME NEW n \in Nat, n \in S
      PROVE  n + 1 \in S
  <2>1. PICK g : FreesAll(m, nodes, n, g)
    BY <1>2
  <2>2. \A i \in 0..n : g[i] = IF i = 0 THEN m ELSE Free(g[i - 1], nodes[i].index)
    BY <2>1 DEF FreesAll
  <2> DEFINE h == [i \in 0..n + 1 |-> IF i = n + 1 THEN Free(g[n], nodes[n + 1].index) ELSE g[i]]
  <2>3. h[n] = g[n]
    OBVIOUS
  <2>4. ASSUME NEW i \in 0..n + 1
        PROVE  h[i] = IF i = 0 THEN m ELSE Free(h[i - 1], nodes[i].index)
    <3>1. CASE i = n + 1
      BY <2>3, <3>1
    <3>2. CASE i = 0
      <4>1. i \in 0..n /\ h[i] = g[i]
        BY <3>2
      <4> HIDE DEF h
      <4> QED
        BY <2>2, <3>2, <4>1
    <3>3. CASE i # 0 /\ i # n + 1
      <4>1. i \in 1..n /\ i - 1 \in 0..n
        BY <3>3
      <4>2. h[i] = g[i] /\ h[i - 1] = g[i - 1]
        BY <4>1
      <4> HIDE DEF h
      <4>3. g[i] = Free(g[i - 1], nodes[i].index)
        BY <2>2, <3>3, <4>1
      <4> QED
        BY <3>3, <4>2, <4>3
    <3> QED
      BY <3>1, <3>2, <3>3
  <2>5. h = [i \in 0..n + 1 |-> h[i]]
    OBVIOUS
  <2> HIDE DEF h
  <2>6. FreesAll(m, nodes, n + 1, h)
    BY <2>4, <2>5 DEF FreesAll
  <2> QED
    BY <2>6
<1>3. Nat \subseteq S
  <2> HIDE DEF S
  <2> QED
    BY <1>1, <1>2, SetInduction
<1> QED
  BY <1>3

\* Loaded brings one copy back after the other.
Loads(m, block, n, g) ==
  g = [i \in 0..n |-> IF i = 0 THEN [mem |-> m, nodes |-> {}]
                     ELSE Load(g[i - 1], block[i])]

LEMMA LoadsExists ==
  ASSUME NEW m, NEW block, NEW N \in Nat
  PROVE  \E g : Loads(m, block, N, g)
<1> DEFINE S == {n \in Nat : \E g : Loads(m, block, n, g)}
<1>1. 0 \in S
  <2> DEFINE g == [i \in 0..0 |-> [mem |-> m, nodes |-> {}]]
  <2>1. Loads(m, block, 0, g)
    BY DEF Loads
  <2> QED
    BY <2>1
<1>2. ASSUME NEW n \in Nat, n \in S
      PROVE  n + 1 \in S
  <2>1. PICK g : Loads(m, block, n, g)
    BY <1>2
  <2>2. \A i \in 0..n : g[i] = IF i = 0 THEN [mem |-> m, nodes |-> {}] ELSE Load(g[i - 1], block[i])
    BY <2>1 DEF Loads
  <2> DEFINE h == [i \in 0..n + 1 |-> IF i = n + 1 THEN Load(g[n], block[n + 1]) ELSE g[i]]
  <2>3. h[n] = g[n]
    OBVIOUS
  <2>4. ASSUME NEW i \in 0..n + 1
        PROVE  h[i] = IF i = 0 THEN [mem |-> m, nodes |-> {}] ELSE Load(h[i - 1], block[i])
    <3>1. CASE i = n + 1
      BY <2>3, <3>1
    <3>2. CASE i = 0
      <4>1. i \in 0..n /\ h[i] = g[i]
        BY <3>2
      <4> HIDE DEF h
      <4> QED
        BY <2>2, <3>2, <4>1
    <3>3. CASE i # 0 /\ i # n + 1
      <4>1. i \in 1..n /\ i - 1 \in 0..n
        BY <3>3
      <4>2. h[i] = g[i] /\ h[i - 1] = g[i - 1]
        BY <4>1
      <4> HIDE DEF h
      <4>3. g[i] = Load(g[i - 1], block[i])
        BY <2>2, <3>3, <4>1
      <4> QED
        BY <3>3, <4>2, <4>3
    <3> QED
      BY <3>1, <3>2, <3>3
  <2>5. h = [i \in 0..n + 1 |-> h[i]]
    OBVIOUS
  <2> HIDE DEF h
  <2>6. Loads(m, block, n + 1, h)
    BY <2>4, <2>5 DEF Loads
  <2> QED
    BY <2>6
<1>3. Nat \subseteq S
  <2> HIDE DEF S
  <2> QED
    BY <1>1, <1>2, SetInduction
<1> QED
  BY <1>3

\* The size of a block on the disk adds up that of its records.
Sizes(block, n, g) ==
  g = [i \in 0..n |-> IF i = 0 THEN 0
                     ELSE g[i - 1] + RecordHead + block[i].len]

\* Walk goes round by round.
Walks(hp, n, g) ==
  g = [i \in 0..n |-> IF i = 0 THEN [dest |-> Far + 1, size |-> 0, nodes |-> <<>>, over |-> FALSE]
                     ELSE Round(hp, g[i - 1])]

LEMMA WalksExists ==
  ASSUME NEW hp, NEW N \in Nat
  PROVE  \E g : Walks(hp, N, g)
<1> DEFINE S == {n \in Nat : \E g : Walks(hp, n, g)}
<1>1. 0 \in S
  <2> DEFINE g == [i \in 0..0 |-> [dest |-> Far + 1, size |-> 0, nodes |-> <<>>, over |-> FALSE]]
  <2>1. Walks(hp, 0, g)
    BY DEF Walks
  <2> QED
    BY <2>1
<1>2. ASSUME NEW n \in Nat, n \in S
      PROVE  n + 1 \in S
  <2>1. PICK g : Walks(hp, n, g)
    BY <1>2
  <2>2. \A i \in 0..n : g[i] = IF i = 0 THEN [dest |-> Far + 1, size |-> 0, nodes |-> <<>>, over |-> FALSE] ELSE Round(hp, g[i - 1])
    BY <2>1 DEF Walks
  <2> DEFINE h == [i \in 0..n + 1 |-> IF i = n + 1 THEN Round(hp, g[n]) ELSE g[i]]
  <2>3. h[n] = g[n]
    OBVIOUS
  <2>4. ASSUME NEW i \in 0..n + 1
        PROVE  h[i] = IF i = 0 THEN [dest |-> Far + 1, size |-> 0, nodes |-> <<>>, over |-> FALSE] ELSE Round(hp, h[i - 1])
    <3>1. CASE i = n + 1
      BY <2>3, <3>1
    <3>2. CASE i = 0
      <4>1. i \in 0..n /\ h[i] = g[i]
        BY <3>2
      <4> HIDE DEF h
      <4> QED
        BY <2>2, <3>2, <4>1
    <3>3. CASE i # 0 /\ i # n + 1
      <4>1. i \in 1..n /\ i - 1 \in 0..n
        BY <3>3
      <4>2. h[i] = g[i] /\ h[i - 1] = g[i - 1]
        BY <4>1
      <4> HIDE DEF h
      <4>3. g[i] = Round(hp, g[i - 1])
        BY <2>2, <3>3, <4>1
      <4> QED
        BY <3>3, <4>2, <4>3
    <3> QED
      BY <3>1, <3>2, <3>3
  <2>5. h = [i \in 0..n + 1 |-> h[i]]
    OBVIOUS
  <2> HIDE DEF h
  <2>6. Walks(hp, n + 1, h)
    BY <2>4, <2>5 DEF Walks
  <2> QED
    BY <2>6
<1>3. Nat \subseteq S
  <2> HIDE DEF S
  <2> QED
    BY <1>1, <1>2, SetInduction
<1> QED
  BY <1>3

-----------------------------------------------------------------------------
(* Chains.  A path is a function on 1..k: chunks that are linked each to   *)
(* the next one; the path ends where the last one is linked to 0.          *)

Linked(link, q, k) ==
  /\ k \in Nat /\ q \in [1..k -> DOMAIN link]
  /\ \A i, j \in 1..k : q[i] = q[j] => i = j
  /\ \A i \in 1..k : i < k => link[q[i]] = q[i + 1]

Path(link, q, k) == Linked(link, q, k) /\ (k > 0 => link[q[k]] = 0)

\* The chain that starts with chunk c is the path q.
Leads(m, c, q, k) == Path(m.link, q, k) /\ c = IF k = 0 THEN 0 ELSE q[1]

IsMemory(m) ==
  /\ m = [first |-> m.first, link |-> m.link, data |-> m.data, used |-> m.used]
  /\ m.link \in Seq(Nat) /\ m.used \in Int

On(q, k) == {q[i] : i \in 1..k}

\* The free list is the path F, and used counts the other chunks.
FreeIs(m, F, f) ==
  IsMemory(m) /\ Leads(m, m.first, F, f) /\ m.used = Len(m.link) - f

\* Memory n has the chunks of m with the same links, but for some cells.
Keeps(m, cells, n) ==
  /\ DOMAIN m.link \subseteq DOMAIN n.link
  /\ \A x \in DOMAIN m.link \ cells : n.link[x] = m.link[x]

NewIn(n, m) == DOMAIN n.link \ DOMAIN m.link

\* Memory n comes from m by taking k of the cells before; after are the cells
\* taken, those still free, and those that are new.
Grew(m, before, n, after, k) ==
  Keeps(m, before, n) /\ after = before \cup NewIn(n, m) /\ n.used = m.used + k

LEMMA LeadsFacts ==
  ASSUME NEW m, IsMemory(m), NEW c, NEW q, NEW k, Leads(m, c, q, k)
  PROVE  /\ k \in Nat /\ q \in [1..k -> 1..Len(m.link)] /\ c \in Nat
         /\ c = IF k = 0 THEN 0 ELSE q[1]
         /\ \A i, j \in 1..k : q[i] = q[j] => i = j
         /\ \A i \in 1..k : m.link[q[i]] = IF i < k THEN q[i + 1] ELSE 0
<1>1. Len(m.link) \in Nat /\ DOMAIN m.link = 1..Len(m.link)
  BY DEF IsMemory
<1>2. /\ k \in Nat /\ q \in [1..k -> DOMAIN m.link]
      /\ c = IF k = 0 THEN 0 ELSE q[1]
      /\ \A i, j \in 1..k : q[i] = q[j] => i = j
      /\ \A i \in 1..k : i < k => m.link[q[i]] = q[i + 1]
      /\ k > 0 => m.link[q[k]] = 0
  BY DEF Leads, Path, Linked
<1>3. \A i \in 1..k : m.link[q[i]] = IF i < k THEN q[i + 1] ELSE 0
  <2>1. \A i \in 1..k : i < k \/ (i = k /\ k > 0)
    BY <1>2
  <2> QED
    BY <1>2, <2>1
<1>4. c \in Nat
  BY <1>1, <1>2
<1> QED
  BY <1>1, <1>2, <1>3, <1>4

\* No path is longer than there are chunks.
LEMMA PathLength ==
  ASSUME NEW link, NEW N \in Nat, DOMAIN link = 1..N, NEW q, NEW k, Linked(link, q, k)
  PROVE  k <= N
<1>1. q \in Injection(1..k, 1..N)
  BY DEF Linked, Injection, IsInjective
<1>2. k \in Nat /\ IsFiniteSet(1..N) /\ Cardinality(1..N) = N /\ Cardinality(1..k) = k
  <2>1. k \in Nat
    BY DEF Linked
  <2>2. IsFiniteSet(1..N) /\ Cardinality(1..N) = IF 1 > N THEN 0 ELSE N - 1 + 1
    BY FS_Interval
  <2>3. Cardinality(1..k) = IF 1 > k THEN 0 ELSE k - 1 + 1
    BY <2>1, FS_Interval
  <2> QED
    BY <2>1, <2>2, <2>3
<1>3. Cardinality(1..k) <= Cardinality(1..N)
  BY <1>1, <1>2, FS_Injection
<1> QED
  BY <1>2, <1>3

\* Chain finds the path.
LEMMA ChainIs ==
  ASSUME NEW m, IsMemory(m), NEW c, NEW q, NEW k, Leads(m, c, q, k)
  PROVE  /\ Chain(m, c) = q /\ Len(Chain(m, c)) = k
         /\ DOMAIN Chain(m, c) = 1..k /\ ToSet(Chain(m, c)) = On(q, k)
<1>0. Len(m.link) \in Nat /\ \E g : Follows(m, c, Len(m.link), g)
  <2>1. Len(m.link) \in Nat
    BY DEF IsMemory
  <2> QED
    BY <2>1, FollowsExists
<1> DEFINE N == Len(m.link)
           at == CHOOSE g : Follows(m, c, N, g)
           S == {i \in Nat : i <= N => at[i] = IF i < k THEN q[i + 1] ELSE 0}
<1>1. N \in Nat /\ DOMAIN m.link = 1..N
  BY DEF IsMemory
<1>2. k \in 0..N /\ q \in [1..k -> 1..N]
  <2>1. Linked(m.link, q, k) /\ k \in Nat /\ q \in [1..k -> DOMAIN m.link]
    BY DEF Leads, Path, Linked
  <2> HIDE DEF N
  <2>2. k <= N
    BY <1>1, <2>1, PathLength
  <2> QED
    BY <1>1, <2>1, <2>2
<1>3. Follows(m, c, N, at)
  BY <1>0
<1>4. /\ at[0] = c
      /\ \A i \in 0..N : i + 1 <= N => at[i + 1] = IF at[i] = 0 THEN 0 ELSE m.link[at[i]]
  <2>1. \A i \in 0..N : at[i] = IF i = 0 THEN c ELSE IF at[i - 1] = 0 THEN 0 ELSE m.link[at[i - 1]]
    BY <1>3, ZenonT(40) DEF Follows
  <2>2. \A i \in 0..N : i + 1 <= N => i + 1 \in 0..N /\ i + 1 # 0 /\ (i + 1) - 1 = i
    BY <1>1
  <2> HIDE DEF at, N
  <2> QED
    BY <1>1, <2>1, <2>2, SMTT(20)
<1> HIDE DEF at, N
<1>5. \A i \in 1..k : m.link[q[i]] = IF i < k THEN q[i + 1] ELSE 0
  BY LeadsFacts
<1>6. 0 \in S
  BY <1>2, <1>4 DEF Leads
<1>7. ASSUME NEW i \in Nat, i \in S
      PROVE  i + 1 \in S
  <2> SUFFICES ASSUME i + 1 <= N
               PROVE  at[i + 1] = IF i + 1 < k THEN q[i + 2] ELSE 0
    OBVIOUS
  <2>1. i \in 0..N /\ at[i] = IF i < k THEN q[i + 1] ELSE 0
    BY <1>1, <1>7
  <2>2. at[i + 1] = IF at[i] = 0 THEN 0 ELSE m.link[at[i]]
    BY <1>4, <2>1
  <2>3. CASE i < k
    <3>1. i + 1 \in 1..k /\ q[i + 1] \in 1..N
      BY <1>2, <2>1, <2>3
    <3>2. at[i + 1] = m.link[q[i + 1]]
      BY <1>1, <2>1, <2>2, <2>3, <3>1
    <3>3. (i + 1) + 1 = i + 2
      BY <2>1
    <3> QED
      BY <1>5, <3>1, <3>2, <3>3
  <2>4. CASE ~(i < k)
    <3>1. ~(i + 1 < k)
      BY <1>2, <2>1, <2>4
    <3> QED
      BY <2>1, <2>2, <2>4, <3>1
  <2> QED
    BY <2>3, <2>4
<1>8. Nat \subseteq S
  <2> HIDE DEF S
  <2> QED
    BY <1>6, <1>7, SetInduction
<1>9. \A i \in 0..N : at[i] = IF i < k THEN q[i + 1] ELSE 0
  BY <1>1, <1>8
<1>10. {n \in 0..N : at[n] # 0} = 0..k - 1
  <2>1. \A n \in 0..N : n < k => q[n + 1] # 0
    BY <1>1, <1>2
  <2> QED
    BY <1>1, <1>2, <1>9, <2>1
<1>11. Cardinality({n \in 0..N : at[n] # 0}) = k
  <2>1. Cardinality(0..k - 1) = IF 0 > k - 1 THEN 0 ELSE (k - 1) - 0 + 1
    BY <1>2, FS_Interval
  <2>2. Cardinality(0..k - 1) = k
    BY <1>1, <1>2, <2>1
  <2> QED
    BY <1>10, <2>2
<1>12. Chain(m, c) = [i \in 1..Cardinality({n \in 0..N : at[n] # 0}) |-> at[i - 1]]
  BY DEF Chain, at, N, Follows
<1>13. Chain(m, c) = [i \in 1..k |-> at[i - 1]]
  BY <1>11, <1>12
<1>14. \A i \in 1..k : at[i - 1] = q[i]
  BY <1>1, <1>2, <1>9
<1>15. Chain(m, c) = q
  BY <1>2, <1>13, <1>14
<1>16. q \in Seq(1..N) /\ Len(q) = k
  <2>1. k \in Nat /\ DOMAIN q = 1..k
    BY <1>1, <1>2
  <2>2. q \in Seq(1..N)
    BY <1>1, <1>2
  <2> QED
    BY <2>1, <2>2
<1> QED
  BY <1>2, <1>15, <1>16 DEF ToSet, On

\* A chain does not change with the links of other chunks.
LEMMA SamePath ==
  ASSUME NEW link, NEW other, NEW q, NEW k, Path(link, q, k),
         DOMAIN link \subseteq DOMAIN other, \A c \in On(q, k) : other[c] = link[c]
  PROVE  Path(other, q, k)
<1>1. k \in Nat /\ q \in [1..k -> DOMAIN other]
  BY DEF Path, Linked
<1>2. \A i \in 1..k : other[q[i]] = link[q[i]]
  BY DEF On
<1> QED
  BY <1>1, <1>2 DEF Path, Linked

-----------------------------------------------------------------------------
(* Giving chunks back.                                                     *)

LEMMA SetLink ==
  ASSUME NEW link \in Seq(Nat), NEW c \in DOMAIN link, NEW v \in Nat
  PROVE  /\ [link EXCEPT ![c] = v] \in Seq(Nat) /\ DOMAIN [link EXCEPT ![c] = v] = DOMAIN link
         /\ [link EXCEPT ![c] = v][c] = v
         /\ \A x \in DOMAIN link : x # c => [link EXCEPT ![c] = v][x] = link[x]
<1>1. Len(link) \in Nat /\ link \in [1..Len(link) -> Nat]
  OBVIOUS
<1>2. [link EXCEPT ![c] = v] \in [1..Len(link) -> Nat]
  BY <1>1
<1> QED
  BY <1>1, <1>2

LEMMA FreeOneList ==
  ASSUME NEW m, IsMemory(m), NEW F, NEW f, Leads(m, m.first, F, f),
         NEW c \in DOMAIN m.link, c \notin On(F, f)
  PROVE  LET m1 == FreeOne(m, c)
             F1 == [i \in 1..f + 1 |-> IF i = 1 THEN c ELSE F[i - 1]]
         IN /\ IsMemory(m1) /\ Leads(m1, m1.first, F1, f + 1)
            /\ m1.used = m.used - 1 /\ DOMAIN m1.link = DOMAIN m.link
            /\ \A x \in DOMAIN m.link : x # c => m1.link[x] = m.link[x]
            /\ On(F1, f + 1) = On(F, f) \cup {c}
<1> DEFINE m1 == FreeOne(m, c)
           F1 == [i \in 1..f + 1 |-> IF i = 1 THEN c ELSE F[i - 1]]
           N == Len(m.link)
<1>1. /\ N \in Nat /\ DOMAIN m.link = 1..N /\ m.link \in Seq(Nat) /\ m.used \in Int
      /\ m = [first |-> m.first, link |-> m.link, data |-> m.data, used |-> m.used]
  BY DEF IsMemory
<1>2. /\ f \in Nat /\ F \in [1..f -> 1..N] /\ m.first = IF f = 0 THEN 0 ELSE F[1]
      /\ \A i, j \in 1..f : F[i] = F[j] => i = j
      /\ \A i \in 1..f : m.link[F[i]] = IF i < f THEN F[i + 1] ELSE 0
      /\ \A i \in 1..f : F[i] # c
  <2>1. /\ f \in Nat /\ F \in [1..f -> 1..N] /\ m.first = IF f = 0 THEN 0 ELSE F[1]
        /\ \A i, j \in 1..f : F[i] = F[j] => i = j
        /\ \A i \in 1..f : m.link[F[i]] = IF i < f THEN F[i + 1] ELSE 0
    BY LeadsFacts
  <2>2. \A i \in 1..f : F[i] # c
    BY DEF On
  <2> QED
    BY <2>1, <2>2
<1>3. m.first \in Nat
  BY <1>2
<1>4. m1 = [first |-> c, link |-> [m.link EXCEPT ![c] = m.first], data |-> m.data, used |-> m.used - 1]
  BY <1>1 DEF FreeOne
<1>5. /\ m1.link \in Seq(Nat) /\ DOMAIN m1.link = 1..N /\ m1.link[c] = m.first
      /\ \A x \in 1..N : x # c => m1.link[x] = m.link[x]
  <2>1. m1.link = [m.link EXCEPT ![c] = m.first]
    BY <1>4
  <2> QED
    BY <1>1, <1>3, <2>1, SetLink
<1>6. m1.first = c /\ m1.used = m.used - 1 /\ IsMemory(m1)
  BY <1>1, <1>4, <1>5 DEF IsMemory
<1> HIDE DEF m1
<1>7. /\ f + 1 \in Nat /\ F1 \in [1..f + 1 -> 1..N] /\ F1[1] = c
      /\ \A i \in 1..f : i + 1 \in 1..f + 1 /\ F1[i + 1] = F[i]
      /\ \A i \in 1..f + 1 : i = 1 \/ (i - 1 \in 1..f /\ F1[i] = F[i - 1])
  <2>1. f + 1 \in Nat /\ \A i \in 1..f + 1 : i = 1 \/ i - 1 \in 1..f
    BY <1>2
  <2>2. F1 \in [1..f + 1 -> 1..N]
    BY <1>1, <1>2, <2>1
  <2>3. \A i \in 1..f : i + 1 \in 1..f + 1 /\ i + 1 # 1 /\ (i + 1) - 1 = i
    BY <1>2
  <2>4. 1 \in 1..f + 1
    BY <1>2
  <2> QED
    BY <2>1, <2>2, <2>3, <2>4
<1> HIDE DEF F1
<1>8. \A i, j \in 1..f + 1 : F1[i] = F1[j] => i = j
  <2>1. \A i, j \in 1..f + 1 : i # 1 /\ j # 1 /\ i - 1 = j - 1 => i = j
    BY <1>2
  <2> SUFFICES ASSUME NEW i \in 1..f + 1, NEW j \in 1..f + 1, F1[i] = F1[j] PROVE i = j
    OBVIOUS
  <2>2. /\ i = 1 \/ (i - 1 \in 1..f /\ F1[i] = F[i - 1])
        /\ j = 1 \/ (j - 1 \in 1..f /\ F1[j] = F[j - 1])
        /\ F1[1] = c
    BY <1>7
  <2>3. CASE i = 1 \/ j = 1
    BY <1>2, <2>2, <2>3
  <2>4. CASE i # 1 /\ j # 1
    <3>1. F[i - 1] = F[j - 1] /\ i - 1 \in 1..f /\ j - 1 \in 1..f
      BY <2>2, <2>4
    <3>2. i - 1 = j - 1
      BY <1>2, <3>1
    <3> QED
      BY <2>1, <2>4, <3>2
  <2> QED
    BY <2>3, <2>4
<1>9. \A i \in 1..f + 1 : m1.link[F1[i]] = IF i < f + 1 THEN F1[i + 1] ELSE 0
  <2> SUFFICES ASSUME NEW i \in 1..f + 1
               PROVE  m1.link[F1[i]] = IF i < f + 1 THEN F1[i + 1] ELSE 0
    OBVIOUS
  <2>1. CASE i = 1
    BY <1>2, <1>5, <1>7, <2>1
  <2>2. CASE i # 1
    <3>1. i - 1 \in 1..f /\ F1[i] = F[i - 1] /\ F[i - 1] \in 1..N /\ F[i - 1] # c
      BY <1>2, <1>7, <2>2
    <3>2. m1.link[F1[i]] = IF i - 1 < f THEN F[(i - 1) + 1] ELSE 0
      <4> DEFINE j == i - 1
      <4> HIDE DEF j
      <4>1. j \in 1..f /\ F1[i] = F[j] /\ F[j] \in 1..N /\ F[j] # c
        BY <3>1 DEF j
      <4>2. m.link[F[j]] = IF j < f THEN F[j + 1] ELSE 0
        BY <1>2, <4>1
      <4>3. m1.link[F[j]] = m.link[F[j]]
        BY <1>5, <4>1
      <4> QED
        BY <4>1, <4>2, <4>3 DEF j
    <3>3. i < f + 1 => i - 1 < f /\ i \in 1..f /\ F1[i + 1] = F[i] /\ (i - 1) + 1 = i
      BY <1>2, <1>7, <2>2
    <3>4. ~(i < f + 1) => ~(i - 1 < f)
      BY <1>2
    <3> QED
      BY <3>2, <3>3, <3>4
  <2> QED
    BY <2>1, <2>2
<1>10. Leads(m1, m1.first, F1, f + 1)
  BY <1>2, <1>5, <1>6, <1>7, <1>8, <1>9 DEF Leads, Path, Linked
<1>11. On(F1, f + 1) = On(F, f) \cup {c}
  <2>1. 1 \in 1..f + 1
    BY <1>2
  <2> QED
    BY <1>7, <2>1 DEF On
<1> QED
  BY <1>1, <1>5, <1>6, <1>10, <1>11 DEF F1, m1

\* Free puts a whole chain on the free list and changes no other link.
LEMMA FreeChain ==
  ASSUME NEW m, NEW F, NEW f, FreeIs(m, F, f),
         NEW c, NEW q, NEW k, Leads(m, c, q, k), On(q, k) \cap On(F, f) = {},
         NEW n, n = Free(m, c)
  PROVE  \E F1 : /\ FreeIs(n, F1, f + k) /\ On(F1, f + k) = On(F, f) \cup On(q, k)
                 /\ Keeps(m, On(q, k), n) /\ NewIn(n, m) = {} /\ n.used = m.used - k
                 /\ n.data = m.data
<1>0. IsMemory(m) /\ Leads(m, m.first, F, f) /\ m.used = Len(m.link) - f /\ Len(m.link) \in Nat
  BY DEF FreeIs, IsMemory
<1> DEFINE g == CHOOSE g : Frees(m, q, k, g)
           Given(i, F1) == /\ IsMemory(g[i]) /\ Leads(g[i], g[i].first, F1, f + i)
                           /\ g[i].used = m.used - i /\ DOMAIN g[i].link = DOMAIN m.link
                           /\ \A x \in DOMAIN m.link \ On(q, i) : g[i].link[x] = m.link[x]
                           /\ On(F1, f + i) = On(F, f) \cup On(q, i)
                           /\ g[i].data = m.data
           S == {i \in Nat : i <= k => \E F1 : Given(i, F1)}
<1>1. /\ k \in Nat /\ f \in Nat /\ q \in [1..k -> DOMAIN m.link] /\ m.used \in Int
      /\ \A i, j \in 1..k : q[i] = q[j] => i = j
  BY <1>0 DEF Leads, Path, Linked, IsMemory
<1>2. Frees(m, q, k, g)
  BY <1>1, FreesExists
<1>3. Chain(m, c) = q /\ Len(Chain(m, c)) = k
  BY <1>0, ChainIs
<1>4. n = g[k]
  <2>1. n = (CHOOSE h : Frees(m, Chain(m, c), Len(Chain(m, c)), h))[Len(Chain(m, c))]
    BY DEF Free, Frees
  <2> QED
    BY <1>3, <2>1
<1>5. g[0] = m /\ \A i \in Nat : i + 1 <= k => g[i + 1] = FreeOne(g[i], q[i + 1])
  <2>1. \A i \in 0..k : g[i] = IF i = 0 THEN m ELSE FreeOne(g[i - 1], q[i])
    BY <1>2 DEF Frees
  <2>2. \A i \in Nat : i + 1 <= k => i + 1 \in 0..k /\ i + 1 # 0 /\ (i + 1) - 1 = i
    BY <1>1
  <2>3. 0 \in 0..k
    BY <1>1
  <2> HIDE DEF g
  <2> QED
    BY <2>1, <2>2, <2>3
<1> HIDE DEF g
<1>6. 0 \in S
  <2>1. f + 0 = f /\ m.used - 0 = m.used /\ On(q, 0) = {}
    BY <1>1 DEF On
  <2>2. Given(0, F)
    BY <1>0, <1>5, <2>1
  <2> QED
    BY <2>2
<1>7. ASSUME NEW i \in Nat, i \in S
      PROVE  i + 1 \in S
  <2> SUFFICES ASSUME i + 1 <= k
               PROVE  \E F1 : Given(i + 1, F1)
    OBVIOUS
  <2>1. i <= k
    BY <1>1
  <2>2. PICK F1 : Given(i, F1)
    BY <1>7, <2>1
  <2> DEFINE F2 == [j \in 1..(f + i) + 1 |-> IF j = 1 THEN q[i + 1] ELSE F1[j - 1]]
  <2>3. i + 1 \in 1..k /\ q[i + 1] \in DOMAIN m.link /\ \A j \in 1..i : j \in 1..k /\ j # i + 1
    BY <1>1
  <2>4. On(q, i + 1) = On(q, i) \cup {q[i + 1]}
    <3>1. \A j \in 1..i + 1 : j \in 1..i \/ j = i + 1
      OBVIOUS
    <3>2. i + 1 \in 1..i + 1 /\ \A j \in 1..i : j \in 1..i + 1
      OBVIOUS
    <3> QED
      BY <3>1, <3>2 DEF On
  <2>5. q[i + 1] \notin On(F1, f + i)
    <3>1. q[i + 1] \in On(q, k) /\ q[i + 1] \notin On(q, i)
      BY <1>1, <2>3 DEF On
    <3> QED
      BY <2>2, <3>1
  <2>6. g[i + 1] = FreeOne(g[i], q[i + 1])
    BY <1>5
  <2>7. /\ IsMemory(g[i + 1]) /\ Leads(g[i + 1], g[i + 1].first, F2, (f + i) + 1)
        /\ g[i + 1].used = g[i].used - 1 /\ DOMAIN g[i + 1].link = DOMAIN g[i].link
        /\ \A x \in DOMAIN g[i].link : x # q[i + 1] => g[i + 1].link[x] = g[i].link[x]
        /\ On(F2, (f + i) + 1) = On(F1, f + i) \cup {q[i + 1]}
    BY <2>2, <2>3, <2>5, <2>6, FreeOneList
  <2>11. g[i + 1].data = m.data
    BY <2>2, <2>6 DEF FreeOne
  <2>8. (f + i) + 1 = f + (i + 1) /\ (m.used - i) - 1 = m.used - (i + 1)
    BY <1>1
  <2> HIDE DEF F2
  <2>9. \A x \in DOMAIN m.link \ On(q, i + 1) : g[i + 1].link[x] = m.link[x]
    BY <2>2, <2>4, <2>7
  <2>10. Given(i + 1, F2)
    BY <2>2, <2>4, <2>7, <2>8, <2>9, <2>11
  <2> QED
    BY <2>10
<1>8. Nat \subseteq S
  <2> HIDE DEF S
  <2> QED
    BY <1>6, <1>7, SetInduction
<1>9. PICK F1 : Given(k, F1)
  BY <1>1, <1>8
<1>10. /\ IsMemory(n) /\ Leads(n, n.first, F1, f + k) /\ n.used = m.used - k
       /\ DOMAIN n.link = DOMAIN m.link /\ On(F1, f + k) = On(F, f) \cup On(q, k)
       /\ \A x \in DOMAIN m.link \ On(q, k) : n.link[x] = m.link[x]
       /\ n.data = m.data
  BY <1>4, <1>9
<1>11. n.used = Len(n.link) - (f + k)
  <2>1. m.link \in Seq(Nat) /\ n.link \in Seq(Nat)
    BY <1>0, <1>10 DEF IsMemory
  <2>2. Len(n.link) = Len(m.link)
    BY <1>10, <2>1
  <2> QED
    BY <1>0, <1>1, <1>10, <2>2
<1> QED
  BY <1>10, <1>11 DEF FreeIs, Keeps, NewIn

-----------------------------------------------------------------------------
(* Taking chunks.                                                          *)

LEMMA LenOf ==
  ASSUME NEW n \in Nat, NEW f, f = [i \in 1..n |-> f[i]]
  PROVE  Len(f) = n /\ DOMAIN f = 1..n
<1> DEFINE R == {f[i] : i \in 1..n}
<1>1. f \in [1..n -> R]
  OBVIOUS
<1> HIDE DEF R
<1>2. f \in Seq(R) /\ DOMAIN f = 1..n
  BY <1>1
<1> QED
  BY <1>2

LEMMA JoinFacts ==
  ASSUME NEW T, NEW s \in Seq(T), NEW t \in Seq(T)
  PROVE  /\ s \o t \in Seq(T) /\ Len(s \o t) = Len(s) + Len(t)
         /\ \A i \in 1..Len(s) : (s \o t)[i] = s[i]
         /\ \A i \in 1..Len(t) : (s \o t)[Len(s) + i] = t[i]
<1>1. Len(s) \in Nat /\ Len(t) \in Nat /\ s \o t \in Seq(T) /\ Len(s \o t) = Len(s) + Len(t)
  OBVIOUS
<1>2. ASSUME NEW i \in 1..Len(s) PROVE (s \o t)[i] = s[i]
  OBVIOUS
<1>3. ASSUME NEW i \in 1..Len(t) PROVE (s \o t)[Len(s) + i] = t[i]
  OBVIOUS
<1> QED
  BY <1>1, <1>2, <1>3

\* The memory grows when no chunk is free.
LEMMA ReadyList ==
  ASSUME NEW m, NEW F, NEW f, FreeIs(m, F, f), NEW r, r = Ready(m)
  PROVE  \E F1, f1 : /\ FreeIs(r, F1, f1) /\ f1 > 0 /\ On(F1, f1) = On(F, f) \cup NewIn(r, m)
                     /\ Keeps(m, {}, r) /\ r.used = m.used
<1>0. IsMemory(m) /\ Leads(m, m.first, F, f) /\ m.used = Len(m.link) - f
  BY DEF FreeIs
<1> DEFINE N == Len(m.link)
           new == IF N = 0 THEN Grown - 1 ELSE Grown
           more == [i \in 1..new |-> IF i < new THEN N + i + 1 ELSE m.first]
           F1 == [i \in 1..new |-> N + i]
<1>1. /\ N \in Nat /\ DOMAIN m.link = 1..N /\ m.link \in Seq(Nat) /\ m.used \in Int
      /\ Len(m.link) = N
  BY <1>0 DEF IsMemory
<1>2. /\ f \in Nat /\ F \in [1..f -> 1..N] /\ m.first = IF f = 0 THEN 0 ELSE F[1]
  BY <1>0, LeadsFacts
<1>3. CASE m.first # 0
  <2>1. r = m /\ f > 0
    BY <1>2, <1>3 DEF Ready
  <2>2. On(F, f) = On(F, f) \cup NewIn(m, m) /\ Keeps(m, {}, m)
    BY DEF Keeps, NewIn
  <2> QED
    BY <2>1, <2>2
<1>4. CASE m.first = 0
  <2>1. f = 0 /\ On(F, f) = {}
    BY <1>1, <1>2, <1>4 DEF On
  <2>2. new \in Nat /\ new > 0
    BY <1>1, SrepAssumption
  <2>3. r = [first |-> N + 1, link |-> m.link \o more, data |-> m.data \o [i \in 1..new |-> <<>>],
             used |-> m.used]
    BY <1>4 DEF Ready, Grow
  <2> HIDE DEF new, N
  <2>4. more \in [1..new -> Nat] /\ \A i \in 1..new : more[i] = IF i < new THEN N + i + 1 ELSE 0
    BY <1>1, <1>4, <2>2
  <2> HIDE DEF more
  <2>5. more \in Seq(Nat) /\ Len(more) = new
    <3>1. more \in Seq(Nat)
      BY <2>2, <2>4
    <3>2. DOMAIN more = 1..new
      BY <2>4
    <3> QED
      BY <2>2, <3>1, <3>2
  <2>6. /\ r.link \in Seq(Nat) /\ Len(r.link) = N + new
        /\ \A i \in 1..N : r.link[i] = m.link[i]
        /\ \A i \in 1..new : r.link[N + i] = more[i]
    <3>1. r.link = m.link \o more
      BY <2>3
    <3>2. /\ m.link \o more \in Seq(Nat) /\ Len(m.link \o more) = Len(m.link) + Len(more)
          /\ \A i \in 1..Len(m.link) : (m.link \o more)[i] = m.link[i]
          /\ \A i \in 1..Len(more) : (m.link \o more)[Len(m.link) + i] = more[i]
      <4>1. m.link \in Seq(Nat) /\ more \in Seq(Nat)
        BY <1>1, <2>5
      <4> HIDE DEF more
      <4> QED
        BY <4>1, JoinFacts
    <3> QED
      BY <1>1, <2>5, <3>1, <3>2, Zenon
  <2>7. DOMAIN r.link = 1..N + new
    BY <2>6
  <2>8. IsMemory(r) /\ r.first = N + 1 /\ r.used = m.used
    BY <1>1, <2>3, <2>6 DEF IsMemory
  <2>9. /\ F1 \in [1..new -> 1..N + new] /\ \A i \in 1..new : F1[i] = N + i
        /\ \A i, j \in 1..new : F1[i] = F1[j] => i = j
    BY <1>1, <2>2
  <2> HIDE DEF F1
  <2>10. \A i \in 1..new : r.link[F1[i]] = IF i < new THEN F1[i + 1] ELSE 0
    <3> SUFFICES ASSUME NEW i \in 1..new PROVE r.link[F1[i]] = IF i < new THEN F1[i + 1] ELSE 0
      OBVIOUS
    <3>1. i < new => i + 1 \in 1..new /\ N + (i + 1) = N + i + 1
      BY <1>1, <2>2
    <3>2. i < new => F1[i + 1] = N + i + 1
      BY <2>9, <3>1
    <3> QED
      BY <2>4, <2>6, <2>9, <3>2
  <2>11. Leads(r, r.first, F1, new)
    <3>1. r.first = F1[1] /\ 1 \in 1..new /\ new \in 1..new
      BY <2>2, <2>8, <2>9
    <3> QED
      BY <2>2, <2>7, <2>9, <2>10, <3>1 DEF Leads, Path, Linked
  <2>12. On(F1, new) = On(F, f) \cup (DOMAIN r.link \ DOMAIN m.link)
    <3>1. \A x : x \in (1..N + new) \ (1..N) <=> \E i \in 1..new : x = N + i
      <4> SUFFICES ASSUME NEW x PROVE x \in (1..N + new) \ (1..N) <=> \E i \in 1..new : x = N + i
        OBVIOUS
      <4>1. ASSUME x \in (1..N + new) \ (1..N) PROVE \E i \in 1..new : x = N + i
        <5>1. x \in Nat /\ x > N /\ x <= N + new
          BY <1>1, <2>2, <4>1
        <5>2. x - N \in 1..new /\ x = N + (x - N)
          BY <1>1, <2>2, <5>1
        <5> QED
          BY <5>2
      <4>2. ASSUME NEW i \in 1..new, x = N + i PROVE x \in (1..N + new) \ (1..N)
        BY <1>1, <2>2, <4>2
      <4> QED
        BY <4>1, <4>2
    <3> QED
      BY <1>1, <2>1, <2>7, <2>9, <3>1 DEF On
  <2>13. r.used = Len(r.link) - new /\ DOMAIN m.link \subseteq DOMAIN r.link
    BY <1>0, <1>1, <2>1, <2>2, <2>6, <2>7, <2>8
  <2>14. \A x \in DOMAIN m.link : r.link[x] = m.link[x]
    BY <1>1, <2>6
  <2> QED
    BY <2>2, <2>8, <2>11, <2>12, <2>13, <2>14 DEF FreeIs, Keeps, NewIn
<1> QED
  BY <1>3, <1>4

\* In the middle of Save: Q are the i chunks taken so far, F the f free ones.
Taking(s, Q, i, F, f) ==
  /\ FreeIs(s.mem, F, f)
  /\ Linked(s.mem.link, Q, i) /\ On(Q, i) \cap On(F, f) = {}
  /\ s.last = IF i = 0 THEN 0 ELSE Q[i]
  /\ s.index = IF i = 0 THEN 0 ELSE Q[1]

\* Every chunk holds some bytes.
Filled(m) == (\E T : m.data \in Seq(T)) /\ Len(m.data) = Len(m.link)

\* The i-th piece of the bytes p.
Piece(p, i) == SubSeq(p, (i - 1) * Room + 1, Min({i * Room, Len(p)}))

LEMMA ReadyData ==
  ASSUME NEW m, IsMemory(m), Filled(m), NEW r, r = Ready(m)
  PROVE  /\ Filled(r) /\ Len(m.link) <= Len(r.link)
         /\ \A x \in DOMAIN m.link : r.data[x] = m.data[x]
<1> DEFINE N == Len(m.link)
           new == IF N = 0 THEN Grown - 1 ELSE Grown
           more == [i \in 1..new |-> <<>>]
           links == [i \in 1..new |-> IF i < new THEN N + i + 1 ELSE m.first]
<1>1. m.link \in Seq(Nat) /\ N \in Nat /\ DOMAIN m.link = 1..N /\ Len(m.data) = N
  BY DEF IsMemory, Filled
<1>2. CASE m.first # 0
  BY <1>2 DEF Ready
<1>3. CASE m.first = 0
  <2>1. r.link = m.link \o links /\ r.data = m.data \o more
    BY <1>3 DEF Ready, Grow
  <2>2. PICK T0 : m.data \in Seq(T0)
    BY DEF Filled
  <2> DEFINE T == T0 \cup {<<>>}
  <2>3. m.data \in Seq(T)
    BY <2>2
  <2>4. new \in Nat
    BY <1>1, SrepAssumption
  <2>5. more \in Seq(T) /\ Len(more) = new
    <3>1. more \in [1..new -> T]
      OBVIOUS
    <3> HIDE DEF more, new, T
    <3> QED
      BY <2>4, <3>1
  <2>6. \E L : links \in Seq(L) /\ m.link \in Seq(L) /\ Len(links) = new
    <3> DEFINE L == Nat \cup {links[i] : i \in 1..new}
    <3>1. links \in [1..new -> L]
      OBVIOUS
    <3> HIDE DEF links
    <3>2. links \in [1..new -> L] /\ m.link \in Seq(L)
      BY <1>1, <3>1
    <3> HIDE DEF L, new
    <3>3. links \in Seq(L) /\ Len(links) = new
      BY <2>4, <3>2
    <3> QED
      BY <3>2, <3>3
  <2> HIDE DEF more, links, new, T, N
  <2>7. /\ m.data \o more \in Seq(T) /\ Len(m.data \o more) = N + new
        /\ \A i \in 1..N : (m.data \o more)[i] = m.data[i]
    <3>1. /\ m.data \o more \in Seq(T) /\ Len(m.data \o more) = Len(m.data) + Len(more)
          /\ \A i \in 1..Len(m.data) : (m.data \o more)[i] = m.data[i]
      BY <2>3, <2>5, JoinFacts, ZenonT(40)
    <3> QED
      BY <1>1, <2>5, <3>1
  <2>8. Len(m.link \o links) = N + new
    <3>1. PICK L : links \in Seq(L) /\ m.link \in Seq(L) /\ Len(links) = new
      BY <2>6
    <3>2. Len(m.link \o links) = Len(m.link) + Len(links)
      BY <3>1, JoinFacts, ZenonT(40)
    <3> QED
      BY <3>1, <3>2 DEF N
  <2> QED
    BY <1>1, <2>1, <2>4, <2>7, <2>8 DEF Filled, N
<1> QED
  BY <1>2, <1>3

\* The chunk taken gets its piece, and the others keep what they hold.
LEMMA TakeData ==
  ASSUME NEW s, IsMemory(s.mem), Filled(s.mem), NEW p, NEW i, NEW t, t = Take(s, p, i),
         t.last \in DOMAIN t.mem.link, IsMemory(Ready(s.mem))
  PROVE  /\ Filled(t.mem) /\ t.mem.data[t.last] = Piece(p, i)
         /\ \A x \in DOMAIN s.mem.link : x # t.last => t.mem.data[x] = s.mem.data[x]
<1> DEFINE r == Ready(s.mem)
           c == r.first
<1>1. /\ Filled(r) /\ Len(s.mem.link) <= Len(r.link) /\ IsMemory(r)
      /\ \A x \in DOMAIN s.mem.link : r.data[x] = s.mem.data[x]
  BY ReadyData
<1>2. /\ t.last = c
      /\ t.mem.link = IF s.last = 0 THEN r.link ELSE [r.link EXCEPT ![s.last] = c]
      /\ t.mem.data = [r.data EXCEPT ![c] = Piece(p, i)]
  BY DEF Take, Piece
<1> HIDE DEF r, c
<1>3. /\ DOMAIN r.link = 1..Len(r.link) /\ Len(r.link) \in Nat
      /\ DOMAIN s.mem.link = 1..Len(s.mem.link) /\ Len(s.mem.link) \in Nat
  <2>1. s.mem.link \in Seq(Nat) /\ r.link \in Seq(Nat)
    BY <1>1 DEF IsMemory
  <2> QED
    BY <2>1
<1>4. DOMAIN t.mem.link = DOMAIN r.link /\ Len(t.mem.link) = Len(r.link)
  <2>1. CASE s.last = 0
    BY <1>2, <2>1
  <2>2. CASE s.last # 0
    <3>1. t.mem.link = [r.link EXCEPT ![s.last] = c] /\ r.link \in Seq(Nat)
      BY <1>1, <1>2, <2>2 DEF IsMemory
    <3>2. t.mem.link = [x \in 1..Len(r.link) |-> t.mem.link[x]]
      BY <1>3, <3>1
    <3> QED
      BY <1>3, <3>2, LenOf
  <2> QED
    BY <2>1, <2>2
<1>5. PICK T : r.data \in Seq(T)
  BY <1>1 DEF Filled
<1> DEFINE U == T \cup {Piece(p, i)}
           d == t.mem.data
<1>6. r.data \in [1..Len(r.link) -> U]
  <2>1. r.data \in Seq(U) /\ Len(r.data) = Len(r.link)
    BY <1>1, <1>5 DEF Filled
  <2> HIDE DEF U
  <2> QED
    BY <2>1
<1>7. d = [r.data EXCEPT ![c] = Piece(p, i)] /\ Piece(p, i) \in U /\ c \in 1..Len(r.link)
  BY <1>2, <1>3, <1>4
<1> HIDE DEF U, d
<1>8. /\ d \in [1..Len(r.link) -> U] /\ d[c] = Piece(p, i)
      /\ \A x \in 1..Len(r.link) : x # c => d[x] = r.data[x]
  BY <1>6, <1>7
<1>9. d \in Seq(U) /\ Len(d) = Len(r.link)
  BY <1>3, <1>8
<1>10. Filled(t.mem)
  BY <1>4, <1>9 DEF d, Filled
<1>11. \A x \in DOMAIN s.mem.link : x \in 1..Len(r.link)
  BY <1>1, <1>3
<1> QED
  BY <1>1, <1>2, <1>8, <1>10, <1>11 DEF d
\* t takes one chunk more than s, of those that are free, for the next piece.
Feeds(s, t, Q, i, Q1, free, p) ==
  /\ \A j \in 1..i : Q1[j] = Q[j]
  /\ Q1[i + 1] \in free \cup NewIn(t.mem, s.mem)
  /\ Filled(s.mem) =>
       /\ Filled(t.mem) /\ t.mem.data[Q1[i + 1]] = Piece(p, i + 1)
       /\ \A x \in DOMAIN s.mem.link : x # Q1[i + 1] => t.mem.data[x] = s.mem.data[x]

\* Memory n holds the first k pieces of p in the chunks q, and elsewhere what m
\* does, but for some cells.
Fills(m, cells, n, q, k, p) ==
  Filled(m) =>
    /\ Filled(n) /\ \A i \in 1..k : n.data[q[i]] = Piece(p, i)
    /\ \A x \in DOMAIN m.link \ cells : n.data[x] = m.data[x]

LEMMA TakeStep ==
  ASSUME NEW s, NEW p, NEW Q, NEW i, NEW F, NEW f, Taking(s, Q, i, F, f),
         NEW t, t = Take(s, p, i + 1)
  PROVE  \E Q1, F1, f1 :
           /\ Taking(t, Q1, i + 1, F1, f1)
           /\ Grew(s.mem, On(Q, i) \cup On(F, f), t.mem, On(Q1, i + 1) \cup On(F1, f1), 1)
           /\ Feeds(s, t, Q, i, Q1, On(F, f), p)
<1> DEFINE m == s.mem
           r == Ready(m)
           n == t.mem
           c == r.first
<1>1. /\ FreeIs(m, F, f) /\ IsMemory(m) /\ Leads(m, m.first, F, f) /\ m.used = Len(m.link) - f /\ On(Q, i) \cap On(F, f) = {}
      /\ i \in Nat /\ Q \in [1..i -> DOMAIN m.link] /\ \A j, l \in 1..i : Q[j] = Q[l] => j = l
      /\ \A j \in 1..i : j < i => m.link[Q[j]] = Q[j + 1]
  BY DEF Taking, Linked, FreeIs
<1>2. PICK F2, f2 :
        /\ IsMemory(r) /\ Leads(r, r.first, F2, f2) /\ f2 > 0 /\ r.used = Len(r.link) - f2
        /\ r.used = m.used /\ DOMAIN m.link \subseteq DOMAIN r.link
        /\ \A x \in DOMAIN m.link : r.link[x] = m.link[x]
        /\ On(F2, f2) = On(F, f) \cup (DOMAIN r.link \ DOMAIN m.link)
  <2>1. PICK F2, f2 : /\ FreeIs(r, F2, f2) /\ f2 > 0 /\ On(F2, f2) = On(F, f) \cup NewIn(r, m)
                      /\ Keeps(m, {}, r) /\ r.used = m.used
    BY <1>1, ReadyList
  <2> QED
    BY <2>1 DEF FreeIs, Keeps, NewIn
<1>3. t = [mem   |-> [first |-> r.link[c],
                      link  |-> IF s.last = 0 THEN r.link ELSE [r.link EXCEPT ![s.last] = c],
                      data  |-> n.data, used |-> r.used + 1],
           index |-> IF s.last = 0 THEN c ELSE s.index, last |-> c]
  BY DEF Take
<1>4. /\ m.used \in Int /\ Len(m.link) \in Nat /\ DOMAIN m.link = 1..Len(m.link)
      /\ r.link \in Seq(Nat) /\ DOMAIN r.link = 1..Len(r.link) /\ Len(r.link) \in Nat
  <2>1. m.used \in Int /\ m.link \in Seq(Nat) /\ r.link \in Seq(Nat)
    BY <1>1, <1>2 DEF IsMemory
  <2> QED
    BY <2>1
<1> HIDE DEF r, n
<1>5. /\ f2 \in Nat /\ F2 \in [1..f2 -> 1..Len(r.link)] /\ c = F2[1] /\ 1 \in 1..f2
      /\ \A j, l \in 1..f2 : F2[j] = F2[l] => j = l
      /\ \A j \in 1..f2 : r.link[F2[j]] = IF j < f2 THEN F2[j + 1] ELSE 0
      /\ c \in DOMAIN r.link
  <2>1. /\ f2 \in Nat /\ F2 \in [1..f2 -> 1..Len(r.link)] /\ c = IF f2 = 0 THEN 0 ELSE F2[1]
        /\ \A j, l \in 1..f2 : F2[j] = F2[l] => j = l
        /\ \A j \in 1..f2 : r.link[F2[j]] = IF j < f2 THEN F2[j + 1] ELSE 0
    BY <1>2, LeadsFacts
  <2>2. f2 # 0 /\ 1 \in 1..f2
    BY <1>2, <2>1
  <2> QED
    BY <1>4, <2>1, <2>2
<1> HIDE DEF m, c
<1>6. /\ n.first = r.link[c] /\ n.used = m.used + 1
      /\ n.link = IF s.last = 0 THEN r.link ELSE [r.link EXCEPT ![s.last] = c]
      /\ n = [first |-> n.first, link |-> n.link, data |-> n.data, used |-> n.used]
      /\ t.last = c /\ t.index = IF s.last = 0 THEN c ELSE s.index
  BY <1>2, <1>3 DEF n
<1>7. \A j \in 1..i : Q[j] \in DOMAIN m.link /\ Q[j] \notin On(F2, f2) /\ Q[j] # c
  <2>1. \A j \in 1..i : Q[j] \in DOMAIN m.link /\ Q[j] \in On(Q, i)
    BY <1>1 DEF On
  <2>2. c \in On(F2, f2)
    BY <1>5 DEF On
  <2> QED
    BY <1>1, <1>2, <2>1, <2>2
<1>8. i # 0 => i \in 1..i /\ 1 \in 1..i /\ s.last = Q[i] /\ s.last # 0 /\ s.index = Q[1]
  <2>1. i # 0 => i \in 1..i /\ 1 \in 1..i
    BY <1>1
  <2>2. i # 0 => s.last = Q[i] /\ s.index = Q[1]
    BY DEF Taking
  <2>3. 0 \notin DOMAIN m.link
    BY <1>4
  <2> QED
    BY <1>7, <2>1, <2>2, <2>3
<1>9. i = 0 => s.last = 0
  BY DEF Taking
<1>10. /\ n.link \in Seq(Nat) /\ DOMAIN n.link = DOMAIN r.link
       /\ \A x \in DOMAIN r.link : i = 0 \/ x # Q[i] => n.link[x] = r.link[x]
       /\ i # 0 => n.link[Q[i]] = c
  <2>1. CASE i = 0
    BY <1>4, <1>6, <1>9, <2>1
  <2>2. CASE i # 0
    <3>1. n.link = [r.link EXCEPT ![Q[i]] = c] /\ Q[i] \in DOMAIN r.link /\ c \in Nat
      <4>1. n.link = [r.link EXCEPT ![Q[i]] = c]
        BY <1>6, <1>8, <2>2
      <4>2. Q[i] \in DOMAIN r.link
        BY <1>2, <1>7, <1>8, <2>2
      <4>3. c \in Nat
        BY <1>4, <1>5
      <4> QED
        BY <4>1, <4>2, <4>3
    <3> QED
      BY <1>4, <2>2, <3>1, SetLink
  <2> QED
    BY <2>1, <2>2
<1>11. Len(n.link) = Len(r.link) /\ Len(n.link) \in Nat
  BY <1>4, <1>10
<1>12. IsMemory(n)
  BY <1>4, <1>6, <1>10 DEF IsMemory
<1> DEFINE Q1 == [j \in 1..i + 1 |-> IF j = i + 1 THEN c ELSE Q[j]]
           F1 == [j \in 1..f2 - 1 |-> F2[j + 1]]
<1>13. /\ i + 1 \in Nat /\ Q1 \in [1..i + 1 -> DOMAIN n.link] /\ Q1[i + 1] = c
       /\ \A j \in 1..i : Q1[j] = Q[j] /\ j \in 1..i + 1
       /\ \A j \in 1..i + 1 : j \in 1..i \/ j = i + 1
  <2>1. i + 1 \in Nat /\ \A j \in 1..i + 1 : j \in 1..i \/ j = i + 1
    BY <1>1
  <2>2. \A j \in 1..i : j # i + 1 /\ j \in 1..i + 1
    BY <1>1
  <2>3. c \in DOMAIN n.link /\ \A j \in 1..i : Q[j] \in DOMAIN n.link
    BY <1>2, <1>5, <1>7, <1>10
  <2>4. Q1 \in [1..i + 1 -> DOMAIN n.link]
    BY <2>1, <2>3
  <2>5. i + 1 \in 1..i + 1
    BY <1>1
  <2> QED
    BY <2>1, <2>2, <2>4, <2>5
<1>14. /\ f2 - 1 \in Nat /\ F1 \in [1..f2 - 1 -> DOMAIN n.link]
       /\ \A j \in 1..f2 - 1 : F1[j] = F2[j + 1] /\ j + 1 \in 1..f2
       /\ \A j \in 1..f2 : j = 1 \/ (j - 1 \in 1..f2 - 1 /\ (j - 1) + 1 = j)
  <2>1. /\ f2 - 1 \in Nat /\ \A j \in 1..f2 - 1 : j + 1 \in 1..f2
        /\ \A j \in 1..f2 : j = 1 \/ (j - 1 \in 1..f2 - 1 /\ (j - 1) + 1 = j)
    BY <1>2, <1>5
  <2>2. DOMAIN n.link = 1..Len(r.link)
    BY <1>4, <1>10
  <2> QED
    BY <1>5, <2>1, <2>2
<1> HIDE DEF Q1, F1
<1>15. Linked(n.link, Q1, i + 1)
  <2>1. \A j, l \in 1..i + 1 : Q1[j] = Q1[l] => j = l
    BY <1>1, <1>7, <1>13
  <2>2. ASSUME NEW j \in 1..i + 1, j < i + 1
        PROVE  n.link[Q1[j]] = Q1[j + 1]
    <3>1. j \in 1..i /\ Q1[j] = Q[j]
      BY <1>13, <2>2
    <3>2. CASE j = i
      BY <1>1, <1>10, <1>13, <3>1, <3>2
    <3>3. CASE j # i
      <4>1. j < i /\ j + 1 \in 1..i
        BY <1>1, <3>1, <3>3
      <4>2. i \in 1..i /\ i # 0
        BY <1>1, <3>1
      <4>3. Q[j] # Q[i] /\ Q[j] \in DOMAIN r.link /\ Q[j] \in DOMAIN m.link
        BY <1>1, <1>2, <1>7, <3>1, <3>3, <4>2
      <4>4. n.link[Q[j]] = m.link[Q[j]]
        BY <1>2, <1>10, <4>3
      <4> QED
        BY <1>1, <1>13, <3>1, <4>1, <4>4
    <3> QED
      BY <3>2, <3>3
  <2> QED
    BY <1>13, <2>1, <2>2 DEF Linked
<1>16. \A j \in 1..f2 : n.link[F2[j]] = r.link[F2[j]]
  <2>1. \A j \in 1..f2 : F2[j] \in DOMAIN r.link /\ F2[j] \in On(F2, f2)
    BY <1>4, <1>5 DEF On
  <2> QED
    BY <1>7, <1>8, <1>10, <2>1
<1>17. Leads(n, n.first, F1, f2 - 1)
  <2>1. \A j, l \in 1..f2 - 1 : F1[j] = F1[l] => j = l
    <3> SUFFICES ASSUME NEW j \in 1..f2 - 1, NEW l \in 1..f2 - 1, F1[j] = F1[l] PROVE j = l
      OBVIOUS
    <3>1. j + 1 = l + 1
      BY <1>5, <1>14
    <3> QED
      BY <1>14, <3>1
  <2>2. ASSUME NEW j \in 1..f2 - 1 PROVE n.link[F1[j]] = IF j < f2 - 1 THEN F1[j + 1] ELSE 0
    <3>1. j + 1 \in 1..f2 /\ F1[j] = F2[j + 1]
      BY <1>14
    <3>2. n.link[F1[j]] = IF j + 1 < f2 THEN F2[(j + 1) + 1] ELSE 0
      BY <1>5, <1>16, <3>1
    <3>3. j < f2 - 1 => j + 1 \in 1..f2 - 1
      BY <1>14
    <3>4. j < f2 - 1 <=> j + 1 < f2
      BY <1>14, <1>5
    <3> QED
      BY <1>14, <3>2, <3>3, <3>4
  <2>3. n.first = IF f2 - 1 = 0 THEN 0 ELSE F1[1]
    <3>1. n.first = IF 1 < f2 THEN F2[1 + 1] ELSE 0
      BY <1>5, <1>6
    <3>2. f2 - 1 # 0 => 1 \in 1..f2 - 1 /\ 1 < f2
      BY <1>5, <1>14
    <3>3. f2 - 1 = 0 => ~(1 < f2)
      BY <1>5
    <3> QED
      BY <1>14, <3>1, <3>2, <3>3
  <2>4. f2 - 1 > 0 => n.link[F1[f2 - 1]] = 0
    BY <1>14, <2>2
  <2>5. \A j \in 1..f2 - 1 : j < f2 - 1 => n.link[F1[j]] = F1[j + 1]
    BY <2>2
  <2> QED
    BY <1>14, <2>1, <2>3, <2>4, <2>5 DEF Leads, Path, Linked
<1>18. On(Q1, i + 1) = On(Q, i) \cup {c}
  <2>1. i + 1 \in 1..i + 1
    BY <1>1
  <2> QED
    BY <1>13, <2>1 DEF On
<1>19. On(F2, f2) = On(F1, f2 - 1) \cup {c} /\ c \notin On(F1, f2 - 1)
  <2>1. \A j \in 1..f2 - 1 : F1[j] # c
    <3> SUFFICES ASSUME NEW j \in 1..f2 - 1 PROVE F1[j] # c
      OBVIOUS
    <3>1. j + 1 # 1
      BY <1>14
    <3> QED
      BY <1>5, <1>14, <3>1
  <2>2. On(F2, f2) \subseteq On(F1, f2 - 1) \cup {c}
    <3> SUFFICES ASSUME NEW j \in 1..f2, j # 1 PROVE F2[j] \in On(F1, f2 - 1)
      <4>1. F2[1] = c
        BY <1>5
      <4>2. On(F2, f2) = {F2[j] : j \in 1..f2}
        BY DEF On
      <4> QED
        BY <4>1, <4>2
    <3>1. j - 1 \in 1..f2 - 1 /\ F1[j - 1] = F2[j]
      BY <1>14
    <3> QED
      BY <3>1 DEF On
  <2>3. On(F1, f2 - 1) \cup {c} \subseteq On(F2, f2)
    BY <1>5, <1>14 DEF On
  <2> QED
    BY <2>1, <2>2, <2>3 DEF On
<1>20. On(Q1, i + 1) \cap On(F1, f2 - 1) = {}
  <2>1. On(Q, i) \cap On(F2, f2) = {}
    BY <1>7 DEF On
  <2> QED
    BY <1>18, <1>19, <2>1
<1>21. Taking(t, Q1, i + 1, F1, f2 - 1)
  <2>0. n.used = Len(n.link) - (f2 - 1)
    BY <1>2, <1>4, <1>5, <1>6, <1>11
  <2>1. i + 1 # 0 /\ t.last = Q1[i + 1] /\ t.mem = n
    BY <1>1, <1>6, <1>13 DEF n
  <2>2. t.index = Q1[1]
    <3>1. CASE i = 0
      BY <1>6, <1>9, <1>13, <3>1
    <3>2. CASE i # 0
      BY <1>6, <1>8, <1>13, <3>2
    <3> QED
      BY <3>1, <3>2
  <2> QED
    BY <1>12, <1>15, <1>17, <1>20, <2>0, <2>1, <2>2 DEF Taking, FreeIs
<1>22. On(Q1, i + 1) \cup On(F1, f2 - 1) = On(Q, i) \cup On(F, f) \cup (DOMAIN n.link \ DOMAIN m.link)
  BY <1>2, <1>10, <1>18, <1>19
<1>23. \A x \in DOMAIN m.link \ (On(Q, i) \cup On(F, f)) : n.link[x] = m.link[x]
  <2>1. i # 0 => Q[i] \in On(Q, i)
    BY <1>8 DEF On
  <2> QED
    BY <1>2, <1>10, <2>1
<1>24. DOMAIN m.link \subseteq DOMAIN n.link
  BY <1>2, <1>10
<1>25. Feeds(s, t, Q, i, Q1, On(F, f), p)
  <2>1. c \in On(F2, f2) /\ NewIn(n, m) = DOMAIN r.link \ DOMAIN m.link
    BY <1>5, <1>10 DEF On, NewIn
  <2>2. Q1[i + 1] \in On(F, f) \cup NewIn(t.mem, s.mem)
    BY <1>2, <1>13, <2>1 DEF n, m
  <2>3. t.last = Q1[i + 1] /\ t.last \in DOMAIN t.mem.link /\ IsMemory(Ready(s.mem))
    BY <1>2, <1>5, <1>6, <1>10, <1>13 DEF n, m, r
  <2>4. ASSUME Filled(s.mem)
        PROVE  /\ Filled(t.mem) /\ t.mem.data[t.last] = Piece(p, i + 1)
               /\ \A x \in DOMAIN s.mem.link : x # t.last => t.mem.data[x] = s.mem.data[x]
    BY <1>1, <2>3, <2>4, TakeData DEF m
  <2> QED
    BY <1>13, <2>2, <2>3, <2>4 DEF Feeds
<1> QED
  BY <1>6, <1>21, <1>22, <1>23, <1>24, <1>25 DEF n, m, Grew, Keeps, NewIn

\* Save takes a chain of its own from the free list, as long as it has to be,
\* and changes no other link.
LEMMA SaveList ==
  ASSUME NEW m, NEW F, NEW f, FreeIs(m, F, f),
         NEW p, NEW k \in Nat, Chunks(Len(p)) = k, NEW s, s = Save(m, p)
  PROVE  \E q, F1, f1 :
           /\ FreeIs(s.mem, F1, f1) /\ Leads(s.mem, s.index, q, k) /\ On(q, k) \cap On(F1, f1) = {}
           /\ Grew(m, On(F, f), s.mem, On(q, k) \cup On(F1, f1), k)
           /\ Fills(m, On(F, f), s.mem, q, k, p)
<1> DEFINE g == CHOOSE g : Takes(m, p, k, g)
           Given(i, Q, F1, f1) ==
             /\ Taking(g[i], Q, i, F1, f1)
             /\ Grew(m, On(F, f), g[i].mem, On(Q, i) \cup On(F1, f1), i)
             /\ Fills(m, On(F, f), g[i].mem, Q, i, p)
           S == {i \in Nat : i <= k => \E Q, F1, f1 : Given(i, Q, F1, f1)}
<1>1. /\ m.used \in Int /\ m.link \in Seq(Nat) /\ On(F, f) \subseteq DOMAIN m.link
      /\ IsMemory(m) /\ Leads(m, m.first, F, f)
  BY DEF FreeIs, IsMemory, Leads, Path, Linked, On
<1>2. Takes(m, p, k, g)
  BY TakesExists
<1>3. s =
        [mem   |-> IF g[k].last = 0 THEN g[k].mem
                   ELSE [g[k].mem EXCEPT !.link = [@ EXCEPT ![g[k].last] = 0]],
         index |-> g[k].index]
  <2> DEFINE h == CHOOSE h : Takes(m, p, Chunks(Len(p)), h)
  <2>1. s =
          [mem   |-> IF h[Chunks(Len(p))].last = 0 THEN h[Chunks(Len(p))].mem
                     ELSE [h[Chunks(Len(p))].mem EXCEPT !.link = [@ EXCEPT ![h[Chunks(Len(p))].last] = 0]],
           index |-> h[Chunks(Len(p))].index]
    BY DEF Save, Takes
  <2>2. h[Chunks(Len(p))] = g[k]
    OBVIOUS
  <2> HIDE DEF h, g
  <2> QED
    BY <2>1, <2>2
<1>4. /\ g[0] = [mem |-> m, index |-> 0, last |-> 0]
      /\ \A i \in Nat : i + 1 <= k => g[i + 1] = Take(g[i], p, i + 1)
  <2>1. \A i \in 0..k : g[i] = IF i = 0 THEN [mem |-> m, index |-> 0, last |-> 0] ELSE Take(g[i - 1], p, i)
    BY <1>2 DEF Takes
  <2>2. \A i \in Nat : i + 1 <= k => i + 1 \in 0..k /\ i + 1 # 0 /\ (i + 1) - 1 = i
    OBVIOUS
  <2>3. 0 \in 0..k
    OBVIOUS
  <2> HIDE DEF g
  <2> QED
    BY <2>1, <2>2, <2>3
<1> HIDE DEF g
<1>5. 0 \in S
  <2> DEFINE Q == [j \in 1..0 |-> 0]
  <2>1. g[0].mem = m /\ g[0].last = 0 /\ g[0].index = 0
    BY <1>4
  <2>2. On(Q, 0) = {} /\ Linked(m.link, Q, 0)
    <3>1. \A j \in 1..0 : FALSE
      OBVIOUS
    <3> QED
      BY <3>1 DEF On, Linked
  <2> HIDE DEF Q
  <2>3. Taking(g[0], Q, 0, F, f)
    BY <2>1, <2>2 DEF Taking
  <2>4. Keeps(m, On(F, f), m) /\ NewIn(m, m) = {} /\ m.used + 0 = m.used
    BY <1>1 DEF Keeps, NewIn
  <2>6. Fills(m, On(F, f), m, Q, 0, p)
    <3>1. \A j \in 1..0 : FALSE
      OBVIOUS
    <3> QED
      BY <3>1 DEF Fills
  <2>5. Given(0, Q, F, f)
    BY <2>1, <2>2, <2>3, <2>4, <2>6 DEF Grew
  <2> QED
    BY <2>5
<1>6. ASSUME NEW i \in Nat, i \in S
      PROVE  i + 1 \in S
  <2> SUFFICES ASSUME i + 1 <= k
               PROVE  \E Q, F1, f1 : Given(i + 1, Q, F1, f1)
    <3> HIDE DEF Given
    <3> QED
      OBVIOUS
  <2>1. PICK Q, F1, f1 : Given(i, Q, F1, f1)
    <3>1. i <= k
      OBVIOUS
    <3> HIDE DEF Given
    <3> QED
      BY <1>6, <3>1
  <2>2. g[i + 1] = Take(g[i], p, i + 1)
    BY <1>4
  <2> DEFINE n == g[i].mem
             o == g[i + 1].mem
  <2>3. PICK Q2, F2, f2 :
           /\ Taking(g[i + 1], Q2, i + 1, F2, f2)
           /\ Grew(n, On(Q, i) \cup On(F1, f1), o, On(Q2, i + 1) \cup On(F2, f2), 1)
           /\ Feeds(g[i], g[i + 1], Q, i, Q2, On(F1, f1), p)
    <3>1. Taking(g[i], Q, i, F1, f1)
      BY <2>1
    <3> QED
      BY <2>2, <3>1, TakeStep
  <2>4. /\ On(Q, i) \cup On(F1, f1) = On(F, f) \cup NewIn(n, m)
        /\ Keeps(m, On(F, f), n) /\ n.used = m.used + i
    BY <2>1 DEF Grew
  <2> HIDE DEF n, o
  <2>5. Keeps(m, On(F, f), o)
    BY <2>3, <2>4 DEF Grew, Keeps, NewIn
  <2>6. On(Q2, i + 1) \cup On(F2, f2) = On(F, f) \cup NewIn(o, m)
    BY <1>1, <2>3, <2>4 DEF Grew, Keeps, NewIn
  <2>7. o.used = m.used + (i + 1)
    BY <1>1, <2>3, <2>4, SMTT(20) DEF Grew
  <2>9. Fills(m, On(F, f), o, Q2, i + 1, p)
    <3> SUFFICES ASSUME Filled(m)
                 PROVE  /\ Filled(o) /\ \A j \in 1..i + 1 : o.data[Q2[j]] = Piece(p, j)
                        /\ \A x \in DOMAIN m.link \ On(F, f) : o.data[x] = m.data[x]
      BY DEF Fills
    <3>1. /\ Filled(n) /\ \A j \in 1..i : n.data[Q[j]] = Piece(p, j)
          /\ \A x \in DOMAIN m.link \ On(F, f) : n.data[x] = m.data[x]
      BY <2>1 DEF Fills, n
    <3>2. /\ \A j \in 1..i : Q2[j] = Q[j]
          /\ Q2[i + 1] \in On(F1, f1) \cup NewIn(o, n)
          /\ Filled(o) /\ o.data[Q2[i + 1]] = Piece(p, i + 1)
          /\ \A x \in DOMAIN n.link : x # Q2[i + 1] => o.data[x] = n.data[x]
      BY <2>3, <3>1 DEF Feeds, n, o
    <3>3. /\ i \in Nat /\ Q \in [1..i -> DOMAIN n.link]
          /\ \A j, l \in 1..i + 1 : Q2[j] = Q2[l] => j = l
      BY <2>1, <2>3 DEF Taking, Linked, n
    <3>4. ASSUME NEW j \in 1..i + 1 PROVE o.data[Q2[j]] = Piece(p, j)
      <4>1. CASE j = i + 1
        BY <3>2, <4>1
      <4>2. CASE j # i + 1
        <5>1. j \in 1..i /\ i + 1 \in 1..i + 1
          BY <4>2
        <5>2. Q2[j] = Q[j] /\ Q[j] \in DOMAIN n.link /\ Q2[j] # Q2[i + 1]
          BY <3>2, <3>3, <4>2, <5>1
        <5> QED
          BY <3>1, <3>2, <5>1, <5>2
      <4> QED
        BY <4>1, <4>2
    <3>5. ASSUME NEW x \in DOMAIN m.link \ On(F, f) PROVE o.data[x] = m.data[x]
      <4>1. x \in DOMAIN n.link
        BY <2>4 DEF Keeps
      <4>2. x # Q2[i + 1]
        BY <2>4, <3>2, <4>1 DEF NewIn
      <4> QED
        BY <3>1, <3>2, <4>1, <4>2
    <3> QED
      BY <3>2, <3>4, <3>5
  <2>8. Given(i + 1, Q2, F2, f2)
    BY <2>3, <2>5, <2>6, <2>7, <2>9 DEF o, Grew
  <2> QED
    BY <2>8
<1>7. Nat \subseteq S
  <2> HIDE DEF S
  <2> QED
    BY <1>5, <1>6, SetInduction
<1>8. PICK q, F1, f1 : Given(k, q, F1, f1)
  <2>1. k \in S /\ k <= k
    <3> HIDE DEF S
    <3> QED
      BY <1>7
  <2> HIDE DEF Given
  <2> QED
    BY <2>1
<1> DEFINE n == g[k].mem
           o == s.mem
<1>9. /\ FreeIs(n, F1, f1) /\ IsMemory(n) /\ Leads(n, n.first, F1, f1) /\ n.used = Len(n.link) - f1
      /\ Linked(n.link, q, k) /\ On(q, k) \cap On(F1, f1) = {}
      /\ g[k].last = IF k = 0 THEN 0 ELSE q[k]
      /\ g[k].index = IF k = 0 THEN 0 ELSE q[1]
      /\ On(q, k) \cup On(F1, f1) = On(F, f) \cup NewIn(n, m)
      /\ Keeps(m, On(F, f), n) /\ n.used = m.used + k
      /\ Fills(m, On(F, f), n, q, k, p)
  BY <1>8 DEF Taking, FreeIs, Grew
<1>10. s.index = IF k = 0 THEN 0 ELSE q[1]
  BY <1>3, <1>9
<1>11. o = IF g[k].last = 0 THEN n ELSE [n EXCEPT !.link = [@ EXCEPT ![g[k].last] = 0]]
  BY <1>3
<1> HIDE DEF n, o
<1>12. CASE k = 0
  <2>1. o = n
    BY <1>9, <1>11, <1>12
  <2>2. Leads(n, s.index, q, k)
    BY <1>9, <1>10, <1>12 DEF Leads, Path
  <2> QED
    BY <1>9, <2>1, <2>2 DEF o, Grew
<1>13. CASE k # 0
  <2>1. /\ k \in 1..k /\ q[k] \in DOMAIN n.link /\ q[k] # 0 /\ q[k] \in On(q, k)
        /\ n.link \in Seq(Nat)
        /\ n = [first |-> n.first, link |-> n.link, data |-> n.data, used |-> n.used]
    <3>1. n.link \in Seq(Nat) /\ n = [first |-> n.first, link |-> n.link, data |-> n.data, used |-> n.used]
      BY <1>9 DEF IsMemory
    <3>2. k \in 1..k
      BY <1>13
    <3>3. q[k] \in DOMAIN n.link
      BY <1>9, <3>2 DEF Linked
    <3>4. 0 \notin DOMAIN n.link
      BY <3>1
    <3> QED
      BY <3>1, <3>2, <3>3, <3>4 DEF On
  <2>2. o = [n EXCEPT !.link = [n.link EXCEPT ![q[k]] = 0]]
    BY <1>9, <1>11, <1>13, <2>1
  <2>3. o.first = n.first /\ o.used = n.used /\ o.link = [n.link EXCEPT ![q[k]] = 0]
        /\ o = [first |-> o.first, link |-> o.link, data |-> o.data, used |-> o.used]
        /\ o.data = n.data
    BY <2>1, <2>2
  <2>4. /\ o.link \in Seq(Nat) /\ DOMAIN o.link = DOMAIN n.link /\ o.link[q[k]] = 0
        /\ \A x \in DOMAIN n.link : x # q[k] => o.link[x] = n.link[x]
    BY <2>1, <2>3, SetLink
  <2>5. IsMemory(o) /\ Len(o.link) = Len(n.link)
    <3>1. n.used \in Int
      BY <1>9 DEF IsMemory
    <3> QED
      BY <2>1, <2>3, <2>4, <3>1 DEF IsMemory
  <2>6. Leads(o, o.first, F1, f1)
    <3>1. On(F1, f1) \subseteq DOMAIN n.link /\ q[k] \notin On(F1, f1)
      <4>1. f1 \in Nat /\ F1 \in [1..f1 -> DOMAIN n.link]
        BY <1>9 DEF Leads, Path, Linked
      <4>2. On(F1, f1) \subseteq DOMAIN n.link
        BY <4>1 DEF On
      <4> QED
        BY <1>9, <2>1, <4>2
    <3>2. \A x \in On(F1, f1) : o.link[x] = n.link[x]
      BY <2>4, <3>1
    <3>3. Path(n.link, F1, f1)
      BY <1>9 DEF Leads
    <3>4. Path(o.link, F1, f1)
      BY <2>4, <3>2, <3>3, SamePath
    <3> QED
      BY <1>9, <2>3, <3>4 DEF Leads
  <2>7. Leads(o, s.index, q, k)
    <3>1. /\ q \in [1..k -> DOMAIN n.link] /\ \A i, j \in 1..k : q[i] = q[j] => i = j
          /\ \A i \in 1..k : i < k => n.link[q[i]] = q[i + 1]
      BY <1>9 DEF Linked
    <3>2. \A i \in 1..k : i < k => q[i] # q[k]
      BY <2>1, <3>1
    <3>3. \A i \in 1..k : i < k => o.link[q[i]] = q[i + 1]
      <4> SUFFICES ASSUME NEW i \in 1..k, i < k PROVE o.link[q[i]] = q[i + 1]
        OBVIOUS
      <4>1. q[i] \in DOMAIN n.link /\ q[i] # q[k]
        BY <3>1, <3>2
      <4>2. o.link[q[i]] = n.link[q[i]]
        BY <2>4, <4>1
      <4>3. n.link[q[i]] = q[i + 1]
        BY <3>1
      <4> QED
        BY <4>2, <4>3
    <3> QED
      BY <1>10, <2>4, <3>1, <3>3 DEF Leads, Path, Linked
  <2>8. Keeps(m, On(F, f), o) /\ NewIn(o, m) = NewIn(n, m)
    <3>1. q[k] \in On(F, f) \/ q[k] \notin DOMAIN m.link
      BY <1>9, <2>1 DEF NewIn
    <3> QED
      BY <1>9, <2>4, <3>1 DEF Keeps, NewIn
  <2>9. FreeIs(o, F1, f1)
    BY <1>9, <2>3, <2>5, <2>6 DEF FreeIs
  <2>10. Fills(m, On(F, f), o, q, k, p)
    <3>1. Filled(n) => Filled(o)
      BY <2>3, <2>5 DEF Filled
    <3> QED
      BY <1>9, <2>3, <3>1 DEF Fills
  <2> QED
    BY <1>9, <2>3, <2>7, <2>8, <2>9, <2>10 DEF o, Grew
<1> QED
  BY <1>12, <1>13

-----------------------------------------------------------------------------
(* The memory as a whole: chains that share no chunk, and a free list of   *)
(* all other chunks.                                                       *)

Cells(m, c) == ToSet(Chain(m, c))

Proper(m, c) == Leads(m, c, Chain(m, c), Len(Chain(m, c)))

\* I is the set of the first chunks of the chains in use.
Sound(m, I) ==
  /\ IsMemory(m) /\ Proper(m, m.first) /\ m.used = Len(m.link) - Len(Chain(m, m.first))
  /\ \A c \in I : c # 0 /\ Proper(m, c) /\ Cells(m, c) \cap Cells(m, m.first) = {}
  /\ \A c, d \in I : c # d => Cells(m, c) \cap Cells(m, d) = {}
  /\ (UNION {Cells(m, c) : c \in I}) \cup Cells(m, m.first) = DOMAIN m.link

LEMMA ProperIs ==
  ASSUME NEW m, IsMemory(m), NEW c, NEW q, NEW k, Leads(m, c, q, k)
  PROVE  /\ Proper(m, c) /\ Chain(m, c) = q /\ Len(Chain(m, c)) = k /\ Cells(m, c) = On(q, k)
         /\ Cells(m, c) \subseteq DOMAIN m.link /\ k \in Nat
         /\ c # 0 => c \in Cells(m, c) /\ k # 0
<1>1. Chain(m, c) = q /\ Len(Chain(m, c)) = k /\ ToSet(Chain(m, c)) = On(q, k)
  BY ChainIs
<1>2. k \in Nat /\ q \in [1..k -> DOMAIN m.link] /\ c = IF k = 0 THEN 0 ELSE q[1]
  BY DEF Leads, Path, Linked
<1>3. On(q, k) \subseteq DOMAIN m.link
  BY <1>2 DEF On
<1>4. c # 0 => c \in On(q, k) /\ k # 0
  <2>1. c # 0 => k # 0 /\ c = q[1] /\ 1 \in 1..k
    BY <1>2
  <2> QED
    BY <2>1 DEF On
<1> QED
  BY <1>1, <1>2, <1>3, <1>4 DEF Proper, Cells

LEMMA SameChain ==
  ASSUME NEW m, NEW n, IsMemory(m), IsMemory(n), NEW c, Proper(m, c), NEW cells,
         Keeps(m, cells, n), Cells(m, c) \cap cells = {}
  PROVE  Proper(n, c) /\ Chain(n, c) = Chain(m, c) /\ Cells(n, c) = Cells(m, c)
<1> DEFINE q == Chain(m, c)
           k == Len(Chain(m, c))
<1>1. Path(m.link, q, k) /\ c = IF k = 0 THEN 0 ELSE q[1]
  BY DEF Proper, Leads
<1>2. Cells(m, c) = On(q, k) /\ Cells(m, c) \subseteq DOMAIN m.link
  BY ProperIs DEF Proper
<1> HIDE DEF q, k
<1>3. Path(n.link, q, k)
  BY <1>1, <1>2, SamePath DEF Keeps
<1>4. Leads(n, c, q, k)
  BY <1>1, <1>3 DEF Leads
<1>5. Proper(n, c) /\ Chain(n, c) = q /\ Cells(n, c) = On(q, k)
  BY <1>4, ProperIs
<1> QED
  BY <1>2, <1>5 DEF q

\* The kinds of a sound memory's chunks.
LEMMA SoundFacts ==
  ASSUME NEW m, NEW I, Sound(m, I)
  PROVE  /\ IsMemory(m) /\ FreeIs(m, Chain(m, m.first), Len(Chain(m, m.first)))
         /\ Cells(m, m.first) = On(Chain(m, m.first), Len(Chain(m, m.first)))
         /\ Cells(m, m.first) \subseteq DOMAIN m.link
         /\ \A c \in I : /\ c # 0 /\ c \in Cells(m, c) /\ Proper(m, c)
                         /\ Cells(m, c) \subseteq DOMAIN m.link
                         /\ Cells(m, c) \cap Cells(m, m.first) = {}
                         /\ Cells(m, c) = On(Chain(m, c), Len(Chain(m, c)))
                         /\ Len(Chain(m, c)) \in Nat
         /\ m.used \in Nat /\ m.used = Len(m.link) - Len(Chain(m, m.first))
<1>1. IsMemory(m) /\ Proper(m, m.first) /\ m.used = Len(m.link) - Len(Chain(m, m.first))
  BY DEF Sound
<1>2. FreeIs(m, Chain(m, m.first), Len(Chain(m, m.first)))
  BY <1>1 DEF FreeIs, Proper
<1>3. /\ Cells(m, m.first) = On(Chain(m, m.first), Len(Chain(m, m.first)))
      /\ Cells(m, m.first) \subseteq DOMAIN m.link
  BY <1>1, ProperIs DEF Proper
<1>4. \A c \in I : c # 0 /\ Proper(m, c) /\ Cells(m, c) \cap Cells(m, m.first) = {}
  BY DEF Sound
<1>5. ASSUME NEW c \in I
      PROVE  /\ c \in Cells(m, c) /\ Cells(m, c) \subseteq DOMAIN m.link
             /\ Cells(m, c) = On(Chain(m, c), Len(Chain(m, c)))
             /\ Len(Chain(m, c)) \in Nat
  BY <1>1, <1>4, ProperIs DEF Proper
<1>6. m.used \in Nat
  <2> DEFINE k == Len(Chain(m, m.first))
             N == Len(m.link)
  <2>1. Linked(m.link, Chain(m, m.first), k) /\ k \in Nat
    BY <1>1 DEF Proper, Leads, Path, Linked
  <2>2. N \in Nat /\ DOMAIN m.link = 1..N
    BY <1>1 DEF IsMemory
  <2> HIDE DEF k, N
  <2>3. k <= N
    BY <2>1, <2>2, PathLength
  <2>4. m.used = N - k
    BY <1>1 DEF k, N
  <2> QED
    BY <2>1, <2>2, <2>3, <2>4
<1> QED
  BY <1>1, <1>2, <1>3, <1>4, <1>5, <1>6

\* Memory n has the chains of m and one of k chunks more, from chunk d on.
OneMore(m, I, n, d, k) ==
  /\ Sound(n, I \cup {d}) /\ d \notin I /\ n.used = m.used + k /\ Len(Chain(n, d)) = k
  /\ \A c \in I : Chain(n, c) = Chain(m, c)

\* It has all of them but one.
OneLess(m, I, n, c) ==
  /\ Sound(n, I \ {c}) /\ n.used = m.used - Len(Chain(m, c)) /\ Len(Chain(m, c)) \in Nat
  /\ \A d \in I \ {c} : Chain(n, d) = Chain(m, d)

\* Saved bytes have a chain of their own.
LEMMA SaveSound ==
  ASSUME NEW m, NEW I, Sound(m, I), NEW p, NEW k \in Nat, k # 0, Chunks(Len(p)) = k,
         NEW s, s = Save(m, p)
  PROVE  /\ OneMore(m, I, s.mem, s.index, k)
         /\ Fills(m, Cells(m, m.first), s.mem, Chain(s.mem, s.index), k, p)
<1> DEFINE F == Chain(m, m.first)
           f == Len(Chain(m, m.first))
           n == s.mem
           d == s.index
<1>1. /\ IsMemory(m) /\ FreeIs(m, F, f) /\ Cells(m, m.first) = On(F, f)
      /\ Cells(m, m.first) \subseteq DOMAIN m.link
      /\ \A c \in I : /\ c # 0 /\ c \in Cells(m, c) /\ Proper(m, c)
                      /\ Cells(m, c) \subseteq DOMAIN m.link /\ Cells(m, c) \cap Cells(m, m.first) = {}
  BY SoundFacts
<1> HIDE DEF F, f
<1>2. PICK q, F1, f1 :
        /\ FreeIs(n, F1, f1) /\ Leads(n, d, q, k) /\ On(q, k) \cap On(F1, f1) = {}
        /\ Grew(m, On(F, f), n, On(q, k) \cup On(F1, f1), k)
        /\ Fills(m, On(F, f), n, q, k, p)
  BY <1>1, SaveList
<1> HIDE DEF n, d
<1>3. /\ IsMemory(n) /\ Leads(n, n.first, F1, f1) /\ n.used = Len(n.link) - f1
      /\ Keeps(m, On(F, f), n) /\ n.used = m.used + k
      /\ On(q, k) \cup On(F1, f1) = On(F, f) \cup NewIn(n, m)
  BY <1>2 DEF FreeIs, Grew
<1>4. Proper(n, n.first) /\ Cells(n, n.first) = On(F1, f1) /\ Len(Chain(n, n.first)) = f1
  BY <1>3, ProperIs
<1>5. Proper(n, d) /\ Cells(n, d) = On(q, k) /\ Len(Chain(n, d)) = k /\ Chain(n, d) = q
  BY <1>2, <1>3, ProperIs
<1>6. d # 0 /\ d \in On(q, k)
  <2>1. q \in [1..k -> DOMAIN n.link] /\ d = q[1] /\ 1 \in 1..k
    BY <1>2 DEF Leads, Path, Linked
  <2>2. 0 \notin DOMAIN n.link
    BY <1>3 DEF IsMemory
  <2> QED
    BY <2>1, <2>2 DEF On
<1>7. \A c \in I : Proper(n, c) /\ Chain(n, c) = Chain(m, c) /\ Cells(n, c) = Cells(m, c)
  BY <1>1, <1>3, SameChain
<1>8. \A c \in I : Cells(n, c) \cap On(q, k) = {} /\ Cells(n, c) \cap On(F1, f1) = {}
  BY <1>1, <1>3, <1>7 DEF NewIn
<1>9. d \notin I
  BY <1>1, <1>6, <1>7, <1>8
<1>10. \A c \in I \cup {d} : c # 0 /\ Proper(n, c) /\ Cells(n, c) \cap Cells(n, n.first) = {}
  BY <1>1, <1>2, <1>4, <1>5, <1>6, <1>7, <1>8
<1>11. \A c, e \in I \cup {d} : c # e => Cells(n, c) \cap Cells(n, e) = {}
  <2>1. \A c, e \in I : c # e => Cells(m, c) \cap Cells(m, e) = {}
    BY DEF Sound
  <2> QED
    BY <1>5, <1>7, <1>8, <2>1
<1>12. (UNION {Cells(n, c) : c \in I \cup {d}}) \cup Cells(n, n.first) = DOMAIN n.link
  <2>1. (UNION {Cells(m, c) : c \in I}) \cup On(F, f) = DOMAIN m.link
    BY <1>1 DEF Sound
  <2>2. UNION {Cells(n, c) : c \in I \cup {d}} = (UNION {Cells(m, c) : c \in I}) \cup On(q, k)
    BY <1>5, <1>7
  <2>3. DOMAIN m.link \subseteq DOMAIN n.link
    BY <1>3 DEF Keeps
  <2> QED
    BY <1>3, <1>4, <2>1, <2>2, <2>3 DEF NewIn
<1>13. Sound(n, I \cup {d})
  BY <1>3, <1>4, <1>10, <1>11, <1>12 DEF Sound
<1>14. OneMore(m, I, n, d, k)
  BY <1>3, <1>5, <1>7, <1>9, <1>13 DEF OneMore
<1>15. Fills(m, Cells(m, m.first), n, Chain(n, d), k, p)
  BY <1>1, <1>2, <1>5
<1> QED
  BY <1>14, <1>15 DEF n, d

\* Freed chunks leave the other chains as they are, and all bytes.
LEMMA FreeSound ==
  ASSUME NEW m, NEW I, Sound(m, I), NEW c \in I, NEW n, n = Free(m, c)
  PROVE  OneLess(m, I, n, c) /\ n.data = m.data /\ DOMAIN n.link = DOMAIN m.link
<1> DEFINE F == Chain(m, m.first)
           f == Len(Chain(m, m.first))
           q == Chain(m, c)
           k == Len(Chain(m, c))
<1>1. /\ IsMemory(m) /\ FreeIs(m, F, f) /\ Cells(m, m.first) = On(F, f)
      /\ \A d \in I : /\ d # 0 /\ Proper(m, d) /\ Cells(m, d) \subseteq DOMAIN m.link
                      /\ Cells(m, d) \cap Cells(m, m.first) = {}
      /\ Cells(m, c) = On(q, k) /\ Leads(m, c, q, k) /\ k \in Nat
  BY SoundFacts DEF Proper
<1>2. \A d, e \in I : d # e => Cells(m, d) \cap Cells(m, e) = {}
  BY DEF Sound
<1>3. (UNION {Cells(m, d) : d \in I}) \cup Cells(m, m.first) = DOMAIN m.link
  BY DEF Sound
<1> HIDE DEF F, f, q, k
<1>4. PICK F1 : /\ FreeIs(n, F1, f + k) /\ On(F1, f + k) = On(F, f) \cup On(q, k)
                /\ Keeps(m, On(q, k), n) /\ NewIn(n, m) = {} /\ n.used = m.used - k
                /\ n.data = m.data
  <2>1. On(q, k) \cap On(F, f) = {}
    BY <1>1
  <2> QED
    BY <1>1, <2>1, FreeChain
<1>5. IsMemory(n) /\ Leads(n, n.first, F1, f + k) /\ n.used = Len(n.link) - (f + k)
  BY <1>4 DEF FreeIs
<1>6. /\ Proper(n, n.first) /\ Cells(n, n.first) = On(F, f) \cup On(q, k)
      /\ Len(Chain(n, n.first)) = f + k
  BY <1>4, <1>5, ProperIs
<1>7. \A d \in I \ {c} : Proper(n, d) /\ Chain(n, d) = Chain(m, d) /\ Cells(n, d) = Cells(m, d)
  <2>1. \A d \in I \ {c} : Cells(m, d) \cap On(q, k) = {}
    BY <1>1, <1>2
  <2> QED
    BY <1>1, <1>4, <1>5, <2>1, SameChain
<1>8. \A d \in I \ {c} : d # 0 /\ Proper(n, d) /\ Cells(n, d) \cap Cells(n, n.first) = {}
  BY <1>1, <1>2, <1>6, <1>7
<1>9. (UNION {Cells(n, d) : d \in I \ {c}}) \cup Cells(n, n.first) = DOMAIN n.link
  <2>1. UNION {Cells(n, d) : d \in I \ {c}} = UNION {Cells(m, d) : d \in I \ {c}}
    BY <1>7
  <2>2. UNION {Cells(m, d) : d \in I} = (UNION {Cells(m, d) : d \in I \ {c}}) \cup On(q, k)
    BY <1>1
  <2>3. DOMAIN n.link = DOMAIN m.link
    BY <1>4 DEF Keeps, NewIn
  <2> QED
    BY <1>1, <1>3, <1>6, <2>1, <2>2, <2>3
<1>10. Sound(n, I \ {c})
  <2>1. \A d, e \in I \ {c} : d # e => Cells(n, d) \cap Cells(n, e) = {}
    BY <1>2, <1>7
  <2> QED
    BY <1>5, <1>6, <1>8, <1>9, <2>1 DEF Sound
<1>11. DOMAIN n.link = DOMAIN m.link
  BY <1>4 DEF Keeps, NewIn
<1> QED
  BY <1>1, <1>4, <1>7, <1>10, <1>11 DEF k, OneLess

\* A copy without bytes in memory has nothing to free.
LEMMA FreeNone ==
  ASSUME NEW m, IsMemory(m)
  PROVE  Free(m, 0) = m
<1> DEFINE q == [j \in 1..0 |-> 0]
           g == CHOOSE g : Frees(m, q, 0, g)
<1>1. Leads(m, 0, q, 0)
  <2>1. \A j \in 1..0 : FALSE
    OBVIOUS
  <2> QED
    BY <2>1 DEF Leads, Path, Linked
<1>2. Chain(m, 0) = q /\ Len(Chain(m, 0)) = 0
  BY <1>1, ProperIs
<1>3. Free(m, 0) = (CHOOSE h : Frees(m, Chain(m, 0), Len(Chain(m, 0)), h))[Len(Chain(m, 0))]
  BY DEF Free, Frees
<1> HIDE DEF q
<1>4. Free(m, 0) = g[0]
  BY <1>2, <1>3
<1>5. Frees(m, q, 0, g)
  BY FreesExists
<1> HIDE DEF g
<1>6. g[0] = m
  BY <1>5 DEF Frees
<1> QED
  BY <1>4, <1>6

-----------------------------------------------------------------------------
(* The streams.                                                            *)

LEMMA StreamFacts ==
  ASSUME NEW s \in Streams
  PROVE  /\ s.blocks \in Seq(Block) /\ Len(s.blocks) \in Nat /\ DOMAIN s.blocks = 1..Len(s.blocks)
         /\ \A k \in 1..Len(s.blocks) :
              /\ s.blocks[k].size \in Nat \ {0} /\ s.blocks[k].lits \in Nat
              /\ s.blocks[k].stats \in Seq(Stat)
<1>1. s.blocks \in Seq(Block)
  BY StreamAssumption
<1>2. \A k \in 1..Len(s.blocks) : s.blocks[k] \in Block
  BY <1>1
<1>3. \A b \in Block : b.size \in Nat \ {0} /\ b.lits \in Nat /\ b.stats \in Seq(Stat)
  BY DEF Block
<1>4. Len(s.blocks) \in Nat /\ DOMAIN s.blocks = 1..Len(s.blocks)
  BY <1>1
<1> QED
  BY <1>1, <1>2, <1>3, <1>4

LEMMA StartFacts ==
  ASSUME NEW s \in Streams, NEW k \in 1..Len(s.blocks)
  PROVE  Start(s, k) \in Nat /\ End(s, k) \in Nat
<1> DEFINE N == Len(s.blocks)
           g == CHOOSE g : Starts(s, N, g)
           S == {i \in Nat : i <= N => g[i] \in Nat}
<1>1. N \in Nat /\ \A i \in 1..N : s.blocks[i].size \in Nat
  BY StreamFacts
<1>2. Starts(s, N, g)
  BY <1>1, StartsExists
<1>3. Start(s, k) = g[k - 1]
  BY DEF Start, Starts
<1> HIDE DEF g
<1>4. \A i \in 0..N : g[i] = IF i = 0 THEN 0 ELSE g[i - 1] + s.blocks[i].size
  BY <1>2 DEF Starts
<1> HIDE DEF N
<1>5. 0 \in S
  BY <1>1, <1>4
<1>6. ASSUME NEW i \in Nat, i \in S
      PROVE  i + 1 \in S
  <2> SUFFICES ASSUME i + 1 <= N PROVE g[i + 1] \in Nat
    OBVIOUS
  <2>1. i + 1 \in 0..N /\ i + 1 \in 1..N /\ i + 1 # 0 /\ (i + 1) - 1 = i /\ i <= N
    BY <1>1
  <2>2. g[i + 1] = g[i] + s.blocks[i + 1].size
    BY <1>4, <2>1
  <2>3. s.blocks[i + 1].size \in Nat /\ g[i] \in Nat
    BY <1>1, <1>6, <2>1
  <2> QED
    BY <2>2, <2>3
<1>7. Nat \subseteq S
  <2> HIDE DEF S
  <2> QED
    BY <1>5, <1>6, SetInduction
<1>8. k - 1 \in Nat /\ k - 1 <= N
  BY <1>1 DEF N
<1>9. Start(s, k) \in Nat
  BY <1>3, <1>7, <1>8
<1> QED
  BY <1>1, <1>9 DEF End, N

\* The copies that a block announces.
CopyType == [src : Nat, dest : 0..Far - 1, len : Nat \ {0}]

LEMMA DecodedFacts ==
  ASSUME NEW s \in Streams, NEW k \in 1..Len(s.blocks)
  PROVE  /\ End(s, k) < Far
         /\ Len(Decoded(s, k)) \in Nat /\ DOMAIN Decoded(s, k) = 1..Len(Decoded(s, k))
         /\ DOMAIN Decoded(s, k) = DOMAIN s.blocks[k].stats
         /\ \A j \in DOMAIN Decoded(s, k) :
              /\ Decoded(s, k)[j] \in CopyType /\ Start(s, k) <= Decoded(s, k)[j].src
<1> DEFINE st == s.blocks[k].stats
           N == Len(st)
           g == CHOOSE g : Sources(s, k, N, g)
           S == {i \in Nat : i <= N => g[i] \in Nat /\ Start(s, k) <= g[i]}
<1>1. st \in Seq(Stat) /\ Start(s, k) \in Nat
  BY StreamFacts, StartFacts
<1>2. /\ N \in Nat /\ DOMAIN st = 1..N
      /\ \A i \in 1..N : st[i].lit \in Nat /\ st[i].off \in Nat /\ st[i].len \in Nat \ {0}
  <2> HIDE DEF st
  <2>1. N \in Nat /\ DOMAIN st = 1..N
    BY <1>1
  <2>2. \A i \in 1..N : st[i] \in Stat
    BY <1>1
  <2> HIDE DEF N
  <2>3. \A i \in 1..N : st[i].lit \in Nat /\ st[i].off \in Nat /\ st[i].len \in Nat \ {0}
    BY <2>2 DEF Stat
  <2> QED
    BY <2>1, <2>3
<1>3. Sources(s, k, N, g)
  BY <1>2, SourcesExists
<1>4. Decoded(s, k) = [j \in DOMAIN st |-> [src |-> g[j], dest |-> g[j] + st[j].off, len |-> st[j].len]]
  BY DEF Decoded, Sources
<1> HIDE DEF g
<1>5. \A i \in 0..N : g[i] = IF i = 0 THEN Start(s, k) ELSE g[i - 1] + st[i].lit
  BY <1>3 DEF Sources
<1>6. /\ End(s, k) < Far /\ \A c \in ToSet(Decoded(s, k)) : c.dest < Far
      /\ Far \in Nat
  <2>1. k \in DOMAIN s.blocks
    BY StreamFacts
  <2> QED
    BY <1>2, <2>1, SrepAssumption
<1> HIDE DEF st, N
<1>0. N \in Nat
  BY <1>2
<1>7. 0 \in S
  BY <1>1, <1>2, <1>5
<1>8. ASSUME NEW i \in Nat, i \in S
      PROVE  i + 1 \in S
  <2> SUFFICES ASSUME i + 1 <= N PROVE g[i + 1] \in Nat /\ Start(s, k) <= g[i + 1]
    OBVIOUS
  <2>1. i + 1 \in 0..N /\ i + 1 \in 1..N /\ i + 1 # 0 /\ (i + 1) - 1 = i /\ i <= N
    BY <1>0
  <2>2. g[i + 1] = g[i] + st[i + 1].lit
    BY <1>5, <2>1
  <2> QED
    BY <1>1, <1>2, <1>8, <2>1, <2>2
<1>9. Nat \subseteq S
  <2> HIDE DEF S
  <2> QED
    BY <1>7, <1>8, SetInduction
<1>10. \A j \in 1..N : g[j] \in Nat /\ Start(s, k) <= g[j] /\ g[j] + st[j].off \in Nat
  <2> SUFFICES ASSUME NEW j \in 1..N PROVE g[j] \in Nat /\ Start(s, k) <= g[j] /\ g[j] + st[j].off \in Nat
    OBVIOUS
  <2>1. j \in Nat /\ j <= N
    BY <1>0
  <2>2. g[j] \in Nat /\ Start(s, k) <= g[j]
    BY <1>9, <2>1
  <2>3. st[j].off \in Nat
    BY <1>2
  <2> QED
    BY <2>2, <2>3
<1>11. DOMAIN Decoded(s, k) = 1..N
  BY <1>2, <1>4
<1>12. \A j \in 1..N : Decoded(s, k)[j] = [src |-> g[j], dest |-> g[j] + st[j].off, len |-> st[j].len]
  BY <1>2, <1>4
<1>13. \A j \in 1..N : g[j] + st[j].off < Far
  <2> SUFFICES ASSUME NEW j \in 1..N PROVE g[j] + st[j].off < Far
    OBVIOUS
  <2>1. Decoded(s, k)[j] \in ToSet(Decoded(s, k))
    BY <1>11 DEF ToSet
  <2>2. Decoded(s, k)[j].dest < Far
    BY <1>6, <2>1
  <2>3. Decoded(s, k)[j].dest = g[j] + st[j].off
    <3>1. Decoded(s, k)[j] = [src |-> g[j], dest |-> g[j] + st[j].off, len |-> st[j].len]
      BY <1>12
    <3> QED
      BY <3>1
  <2> QED
    BY <2>2, <2>3
<1>14. ASSUME NEW j \in 1..N
       PROVE  /\ Decoded(s, k)[j] \in CopyType /\ Start(s, k) <= Decoded(s, k)[j].src
  <2>1. Decoded(s, k)[j] = [src |-> g[j], dest |-> g[j] + st[j].off, len |-> st[j].len]
    BY <1>12
  <2>2. /\ g[j] \in Nat /\ g[j] + st[j].off \in Nat /\ g[j] + st[j].off < Far
        /\ st[j].len \in Nat \ {0}
    BY <1>2, <1>6, <1>10, <1>13
  <2>3. g[j] + st[j].off \in 0..Far - 1
    BY <1>6, <2>2
  <2>4. Start(s, k) <= g[j]
    BY <1>10
  <2> QED
    BY <2>1, <2>2, <2>3, <2>4 DEF CopyType
<1>15. Decoded(s, k) = [j \in 1..N |-> Decoded(s, k)[j]]
  BY <1>4, <1>11
<1>16. Len(Decoded(s, k)) = N
  <2>1. Decoded(s, k) \in [1..N -> CopyType]
    BY <1>14, <1>15
  <2>2. \A q \in [1..N -> CopyType] : q \in Seq(CopyType) /\ Len(q) = N
    BY <1>0
  <2> QED
    BY <2>1, <2>2
<1>17. DOMAIN Decoded(s, k) = DOMAIN s.blocks[k].stats
  BY <1>4 DEF st
<1> QED
  BY <1>0, <1>6, <1>11, <1>14, <1>16, <1>17

-----------------------------------------------------------------------------
(* Chunks and bytes.                                                       *)

\* Bytes in a number of chunks grow with the number.
LEMMA Monotone ==
  ASSUME NEW a \in Nat, NEW b \in Nat, a <= b, NEW c \in Nat
  PROVE  a * c \in Nat /\ b * c \in Nat /\ a * c <= b * c
OBVIOUS

\* A division is the greatest number of times that the divisor fits.
LEMMA DivFacts ==
  ASSUME NEW a \in Nat, NEW b \in Nat \ {0}
  PROVE  /\ a \div b \in Nat /\ (a \div b) * b <= a
         /\ a >= b => a \div b >= 1
         /\ \A n \in Nat : n * b <= a => n <= a \div b
<1>1. a \div b \in Nat
  OBVIOUS
<1>2. (a \div b) * b <= a
  OBVIOUS
<1>3. a >= b => a \div b >= 1
  OBVIOUS
<1>4. ASSUME NEW n \in Nat, n * b <= a
      PROVE  n <= a \div b
  BY <1>4
<1> QED
  BY <1>1, <1>2, <1>3, <1>4

\* The chunks of some bytes are more than none, and hold less than a chunk
\* more than the bytes.
LEMMA ChunksFacts ==
  ASSUME NEW len \in Nat \ {0}
  PROVE  /\ Chunks(len) \in Nat /\ Chunks(len) # 0
         /\ Chunks(len) * Room \in Nat /\ Chunks(len) * Room <= len + Room - 1
<1>1. Room \in Nat \ {0}
  BY SrepAssumption
<1>2. len + Room - 1 \in Nat /\ len + Room - 1 >= Room
  BY <1>1
<1> DEFINE a == len + Room - 1
<1>3. Chunks(len) = a \div Room
  BY DEF Chunks
<1> HIDE DEF a
<1>4. a \div Room \in Nat /\ (a \div Room) * Room <= a /\ a \div Room >= 1
  BY <1>1, <1>2, DivFacts DEF a
<1> DEFINE c == a \div Room
<1> HIDE DEF c
<1>5. c \in Nat /\ c * Room <= a /\ c >= 1
  BY <1>4 DEF c
<1>6. c * Room \in Nat /\ c # 0
  BY <1>1, <1>5
<1> QED
  BY <1>3, <1>5, <1>6 DEF a, c

\* Room for some bytes.
LEMMA AvailableFacts ==
  ASSUME NEW m, m.used \in Nat, NEW len \in Nat \ {0}, len <= Available(m)
  PROVE  m.used * Room + len <= Useful
<1> DEFINE u == m.used * Room
<1>1. u \in Nat /\ Useful \in Nat
  BY SrepAssumption, Monotone
<1>2. len <= IF Useful > u THEN Useful - u ELSE 0
  BY DEF Available
<1> HIDE DEF u
<1>3. u + len <= Useful
  BY <1>1, <1>2
<1> QED
  BY <1>3 DEF u

\* A set of numbers has a least one.
LEMMA LeastNumber ==
  ASSUME NEW S, S \subseteq Nat, S # {}
  PROVE  \E x \in S : \A y \in S : x <= y
<1> DEFINE U == {n \in Nat : \A y \in S : n <= y}
<1> SUFFICES ASSUME \A x \in S : \E y \in S : ~(x <= y) PROVE FALSE
  OBVIOUS
<1>1. 0 \in U
  OBVIOUS
<1>2. ASSUME NEW n \in Nat, n \in U
      PROVE  n + 1 \in U
  <2>1. n \notin S
    BY <1>2
  <2>2. \A y \in S : n + 1 <= y
    BY <1>2, <2>1
  <2> QED
    BY <2>2
<1>3. Nat \subseteq U
  <2> HIDE DEF U
  <2> QED
    BY <1>1, <1>2, SetInduction
<1>4. PICK y \in S : y \in Nat
  OBVIOUS
<1>5. y + 1 \in U
  BY <1>3, <1>4
<1> QED
  BY <1>4, <1>5

LEMMA MinFacts ==
  ASSUME NEW S, S \subseteq Nat, S # {}
  PROVE  Min(S) \in S /\ \A y \in S : Min(S) <= y
<1>1. Min(S) = CHOOSE x \in S : \A y \in S : x <= y
  BY DEF Min
<1> QED
  BY <1>1, LeastNumber

-----------------------------------------------------------------------------
(* The heap.                                                               *)

\* What the walks over a heap need: the barrier behind everything else.
IsHeap(hp) ==
  /\ IsFiniteSet(hp) /\ Barrier \in hp
  /\ \A n \in hp : \/ n = Barrier
                   \/ n.dest \in 0..Far - 1 /\ n.len \in Nat /\ (n.len = 0 => n.index = 0)

LEMMA HeapFacts ==
  ASSUME NEW hp, IsHeap(hp)
  PROVE  /\ Far \in Nat /\ Barrier.dest = Far /\ Barrier.index = 0
         /\ \A n \in hp : /\ n.dest \in Nat /\ n.dest <= Far
                          /\ n.dest < Far \/ n.index # 0 => n.dest \in 0..Far - 1 /\ n.len \in Nat
                          /\ n.index # 0 => n.len \in Nat \ {0}
<1>1. Far \in Nat
  BY SrepAssumption
<1>2. Barrier.dest = Far /\ Barrier.index = 0
  BY DEF Barrier
<1> QED
  BY <1>1, <1>2 DEF IsHeap

\* The first node.
LEMMA FirstFacts ==
  ASSUME NEW hp, IsHeap(hp)
  PROVE  First(hp) \in hp /\ \A o \in hp : First(hp).dest <= o.dest
<1> DEFINE D == {n.dest : n \in hp}
<1>1. D \subseteq Nat /\ D # {}
  BY HeapFacts DEF IsHeap
<1>2. PICK x \in D : \A y \in D : x <= y
  <2> HIDE DEF D
  <2> QED
    BY <1>1, LeastNumber
<1>3. \E n \in hp : \A o \in hp : n.dest <= o.dest
  BY <1>2
<1> QED
  BY <1>3 DEF First

\* The last node below a destination.
LEMMA LargestFacts ==
  ASSUME NEW hp, IsHeap(hp), NEW rest, rest \subseteq hp, NEW dest \in Nat, Below(rest, dest) # {}
  PROVE  /\ Largest(Below(rest, dest)) \in rest /\ Largest(Below(rest, dest)).dest < dest
         /\ \A o \in Below(rest, dest) : o.dest <= Largest(Below(rest, dest)).dest
<1> DEFINE B == Below(rest, dest)
           D == {Far - n.dest : n \in B}
<1>1. \A n \in B : n \in rest /\ n.dest < dest /\ n.dest \in Nat /\ Far \in Nat /\ n.dest <= Far
  BY HeapFacts DEF Below
<1>2. B # {}
  OBVIOUS
<1> HIDE DEF B
<1>3. D \subseteq Nat /\ D # {}
  BY <1>1, <1>2
<1>4. PICK x \in D : \A y \in D : x <= y
  <2> HIDE DEF D
  <2> QED
    BY <1>3, LeastNumber
<1>5. \E n \in B : \A o \in B : o.dest <= n.dest
  <2>1. PICK n \in B : x = Far - n.dest
    BY <1>4
  <2>2. \A o \in B : Far - n.dest <= Far - o.dest
    BY <1>4, <2>1
  <2>3. \A o \in B : o.dest <= n.dest
    BY <1>1, <2>2
  <2> QED
    BY <2>3
<1>6. Largest(B) \in B /\ \A o \in B : o.dest <= Largest(B).dest
  BY <1>5 DEF Largest
<1> QED
  BY <1>1, <1>6 DEF B

\* x is the size of some copies on the disk, but for the tail.
Weighs(block, x) == \E g : Sizes(block, Len(block), g) /\ x = g[Len(block)]

LEMMA WeighsNothing == Weighs(<<>>, 0)
<1> DEFINE g == [i \in 0..0 |-> 0]
<1>1. Sizes(<<>>, 0, g)
  BY DEF Sizes
<1>2. Len(<<>>) = 0 /\ g[0] = 0
  OBVIOUS
<1> QED
  BY <1>1, <1>2 DEF Weighs

LEMMA WeighsMore ==
  ASSUME NEW S, NEW b \in Seq(S), NEW e \in S, NEW x, Weighs(b, x)
  PROVE  Weighs(Append(b, e), x + RecordHead + e.len)
<1> DEFINE k == Len(b)
           c == Append(b, e)
<1>1. k \in Nat /\ Len(c) = k + 1 /\ c[k + 1] = e /\ \A i \in 1..k : c[i] = b[i]
  OBVIOUS
<1>2. PICK g : Sizes(b, k, g) /\ x = g[k]
  BY DEF Weighs
<1> HIDE DEF k, c
<1>3. \A i \in 0..k : g[i] = IF i = 0 THEN 0 ELSE g[i - 1] + RecordHead + b[i].len
  BY <1>2 DEF Sizes
<1> DEFINE h == [i \in 0..k + 1 |-> IF i = k + 1 THEN x + RecordHead + e.len ELSE g[i]]
<1>4. \A i \in 0..k + 1 : h[i] = IF i = k + 1 THEN x + RecordHead + e.len ELSE g[i]
  OBVIOUS
<1>5. h = [i \in 0..k + 1 |-> h[i]]
  OBVIOUS
<1> HIDE DEF h
<1>6. ASSUME NEW i \in 0..k + 1
      PROVE  h[i] = IF i = 0 THEN 0 ELSE h[i - 1] + RecordHead + c[i].len
  <2>1. CASE i = k + 1
    <3>1. h[i - 1] = x /\ i # 0
      BY <1>1, <1>2, <1>4, <2>1
    <3> QED
      BY <1>1, <1>4, <2>1, <3>1
  <2>2. CASE i # k + 1
    <3>1. i \in 0..k /\ h[i] = g[i] /\ (i # 0 => i \in 1..k /\ i - 1 \in 0..k /\ h[i - 1] = g[i - 1])
      BY <1>1, <1>4, <2>2
    <3>2. i # 0 => c[i] = b[i]
      BY <1>1, <3>1
    <3> QED
      BY <1>3, <3>1, <3>2
  <2> QED
    BY <2>1, <2>2
<1>7. Sizes(c, k + 1, h)
  BY <1>5, <1>6 DEF Sizes
<1>8. h[k + 1] = x + RecordHead + e.len
  BY <1>1, <1>4
<1>9. Weighs(c, x + RecordHead + e.len)
  BY <1>1, <1>7, <1>8 DEF Weighs
<1> QED
  BY <1>9 DEF c

\* The walk of virtMem.save so far: copies with bytes in memory, each taken
\* once, that fit into a block.
Spillable(hp, nodes) ==
  /\ nodes \in Seq(hp)
  /\ \A i \in 1..Len(nodes) : nodes[i].index # 0
  /\ \A i, j \in 1..Len(nodes) : i < j => nodes[j] # nodes[i]

Walking(hp, walk) ==
  /\ Spillable(hp, walk.nodes)
  /\ walk.dest \in Nat /\ walk.size \in Nat
  /\ Weighs(walk.nodes, walk.size)
  /\ walk.nodes # <<>> => walk.size + RecordTail <= DiskBlock

WalkType(walk) ==
  walk = [dest |-> walk.dest, size |-> walk.size, nodes |-> walk.nodes, over |-> walk.over]

\* Where the iterator of the walk w goes.
BaseOf(hp, w) ==
  LET above == Below(hp \ ToSet(w.nodes), w.dest)
  IN IF above = {} THEN Far + 1 ELSE Largest(above).dest

LEMMA BaseFacts ==
  ASSUME NEW hp, IsHeap(hp), NEW w, w.dest \in Nat
  PROVE  BaseOf(hp, w) \in Nat
<1> DEFINE rest == hp \ ToSet(w.nodes)
<1>1. CASE Below(rest, w.dest) = {}
  <2>1. BaseOf(hp, w) = Far + 1
    BY <1>1 DEF BaseOf
  <2> QED
    BY <2>1, SrepAssumption
<1>2. CASE Below(rest, w.dest) # {}
  <2>1. BaseOf(hp, w) = Largest(Below(rest, w.dest)).dest
    BY <1>2 DEF BaseOf
  <2>2. rest \subseteq hp
    OBVIOUS
  <2> HIDE DEF rest
  <2>3. Largest(Below(rest, w.dest)) \in hp
    BY <1>2, <2>2, LargestFacts
  <2> QED
    BY <2>1, <2>3, HeapFacts
<1> QED
  BY <1>1, <1>2

LEMMA RoundIs ==
  ASSUME NEW hp, NEW w, ~w.over, NEW rest, rest = hp \ ToSet(w.nodes),
         NEW base, base = BaseOf(hp, w), NEW n, n = Largest(Below(rest, base))
  PROVE  Round(hp, w) =
           IF Below(rest, base) = {} THEN [w EXCEPT !.over = TRUE]
           ELSE IF n.index = 0 THEN [w EXCEPT !.dest = base]
           ELSE IF w.size + RecordHead + n.len + RecordTail > DiskBlock THEN [w EXCEPT !.over = TRUE]
           ELSE [dest |-> base, size |-> w.size + RecordHead + n.len,
                 nodes |-> Append(w.nodes, n), over |-> FALSE]
BY DEF Round, BaseOf

LEMMA RoundWalks ==
  ASSUME NEW hp, IsHeap(hp), NEW w, Walking(hp, w), WalkType(w), NEW v, v = Round(hp, w)
  PROVE  Walking(hp, v) /\ WalkType(v)
<1> DEFINE rest == hp \ ToSet(w.nodes)
           base == BaseOf(hp, w)
           n    == Largest(Below(rest, base))
           size == w.size + RecordHead + n.len
<1>0. w.dest \in Nat /\ base \in Nat /\ rest \subseteq hp
  BY BaseFacts DEF Walking
<1>1. CASE w.over
  BY <1>1 DEF Round
<1>2. CASE ~w.over /\ Below(rest, base) = {}
  <2>1. v = [w EXCEPT !.over = TRUE]
    BY <1>2, RoundIs
  <2>2. v.nodes = w.nodes /\ v.dest = w.dest /\ v.size = w.size
    BY <2>1 DEF WalkType
  <2>3. WalkType(v)
    BY <2>1 DEF WalkType
  <2>4. Walking(hp, v)
    BY <2>2 DEF Walking
  <2> QED
    BY <2>3, <2>4
<1>3. CASE ~w.over /\ Below(rest, base) # {}
  <2>1. v = IF n.index = 0 THEN [w EXCEPT !.dest = base]
            ELSE IF size + RecordTail > DiskBlock THEN [w EXCEPT !.over = TRUE]
            ELSE [dest |-> base, size |-> size, nodes |-> Append(w.nodes, n), over |-> FALSE]
    BY <1>3, RoundIs
  <2> HIDE DEF base
  <2>2. n \in rest
    <3> HIDE DEF rest
    <3> QED
      BY <1>0, <1>3, LargestFacts
  <2>3. n \in hp /\ n \notin ToSet(w.nodes)
    BY <2>2
  <2> HIDE DEF n, rest
  <2>4. CASE n.index = 0
    <3>1. v = [w EXCEPT !.dest = base]
      BY <2>1, <2>4
    <3>2. v.nodes = w.nodes /\ v.dest = base /\ v.size = w.size
      BY <3>1 DEF WalkType
    <3>3. WalkType(v)
      BY <3>1 DEF WalkType
    <3>4. Walking(hp, v)
      BY <1>0, <3>2 DEF Walking
    <3> QED
      BY <3>3, <3>4
  <2>5. CASE n.index # 0 /\ size + RecordTail > DiskBlock
    <3>1. v = [w EXCEPT !.over = TRUE]
      BY <2>1, <2>5
    <3>2. v.nodes = w.nodes /\ v.dest = w.dest /\ v.size = w.size
      BY <3>1 DEF WalkType
    <3>3. WalkType(v)
      BY <3>1 DEF WalkType
    <3>4. Walking(hp, v)
      BY <3>2 DEF Walking
    <3> QED
      BY <3>3, <3>4
  <2>6. CASE n.index # 0 /\ ~(size + RecordTail > DiskBlock)
    <3> DEFINE q == w.nodes
               k == Len(w.nodes)
    <3>1. v = [dest |-> base, size |-> size, nodes |-> Append(q, n), over |-> FALSE]
      BY <2>1, <2>6
    <3>2. v.nodes = Append(q, n) /\ v.dest = base /\ v.size = size /\ WalkType(v)
      BY <3>1 DEF WalkType
    <3>3. /\ q \in Seq(hp) /\ k \in Nat /\ Append(q, n) \in Seq(hp) /\ Len(Append(q, n)) = k + 1
          /\ Append(q, n)[k + 1] = n /\ \A i \in 1..k : Append(q, n)[i] = q[i]
          /\ DOMAIN q = 1..k
      BY <2>3 DEF Walking, Spillable
    <3>4. \A i \in 1..k : /\ q[i].index # 0 /\ n # q[i]
                          /\ \A j \in 1..k : i < j => q[j] # q[i]
      <4>1. \A i \in 1..k : q[i].index # 0 /\ \A j \in 1..k : i < j => q[j] # q[i]
        BY DEF Walking, Spillable
      <4>2. \A i \in 1..k : n # q[i]
        BY <2>3, <3>3 DEF ToSet
      <4> QED
        BY <4>1, <4>2
    <3>5. w.size \in Nat /\ n.len \in Nat /\ RecordHead \in Nat /\ RecordTail \in Nat /\ DiskBlock \in Nat
      BY <2>3, <2>6, HeapFacts, SrepAssumption DEF Walking
    <3>6. size \in Nat /\ size + RecordTail <= DiskBlock
      BY <2>6, <3>5
    <3>7. Weighs(Append(q, n), size)
      <4>1. Weighs(q, w.size)
        BY DEF Walking
      <4> QED
        BY <2>3, <3>3, <4>1, WeighsMore
    <3> HIDE DEF q, k, size
    <3> DEFINE r == Append(q, n)
    <3>8. r \in Seq(hp) /\ Len(r) = k + 1 /\ r[k + 1] = n /\ \A i \in 1..k : r[i] = q[i]
      BY <3>3
    <3> HIDE DEF r
    <3>9. \A i \in 1..k + 1 : i = k + 1 \/ i \in 1..k
      BY <3>3
    <3>10. \A i \in 1..k + 1 : r[i].index # 0
      BY <2>6, <3>4, <3>8, <3>9
    <3>11. \A i, j \in 1..k + 1 : i < j => r[j] # r[i]
      <4> SUFFICES ASSUME NEW i \in 1..k + 1, NEW j \in 1..k + 1, i < j
                   PROVE  r[j] # r[i]
        OBVIOUS
      <4>1. i \in 1..k /\ r[i] = q[i]
        BY <3>3, <3>8
      <4>2. CASE j = k + 1
        BY <3>4, <3>8, <4>1, <4>2
      <4>3. CASE j \in 1..k
        BY <3>4, <3>8, <4>1, <4>3
      <4> QED
        BY <3>9, <4>2, <4>3
    <3>12. Spillable(hp, r)
      BY <3>8, <3>10, <3>11 DEF Spillable
    <3>13. v.nodes = r /\ Weighs(r, size)
      BY <3>2, <3>7 DEF r
    <3>14. Walking(hp, v)
      BY <1>0, <3>2, <3>6, <3>12, <3>13 DEF Walking
    <3> QED
      BY <3>2, <3>14
  <2> QED
    BY <2>4, <2>5, <2>6
<1> QED
  BY <1>1, <1>2, <1>3

LEMMA RoundsFacts ==
  ASSUME NEW hp, IsHeap(hp)
  PROVE  Rounds(hp) \in Nat /\ Cardinality(hp) \in Nat /\ Cardinality(hp) <= Rounds(hp)
<1>1. Cardinality(hp) \in Nat
  BY FS_CardinalityType DEF IsHeap
<1> DEFINE c == Cardinality(hp)
<1>2. (c + 1) * (c + 1) = c * c + c + c + 1 /\ c * c \in Nat
  <2> HIDE DEF c
  <2> QED
    BY <1>1 DEF c
<1> QED
  BY <1>1, <1>2 DEF Rounds

\* virtMem.save spills copies that are in memory, each once, that fit into a
\* block.
LEMMA SpilledFacts ==
  ASSUME NEW hp, IsHeap(hp)
  PROVE  /\ Spillable(hp, Spilled(hp))
         /\ \E x \in Nat : /\ Weighs(Spilled(hp), x)
                           /\ Spilled(hp) # <<>> => x + RecordTail <= DiskBlock
<1> DEFINE N == Rounds(hp)
           g == CHOOSE g : Walks(hp, N, g)
           S == {i \in Nat : i <= N => Walking(hp, g[i]) /\ WalkType(g[i])}
<1>1. N \in Nat
  BY RoundsFacts
<1>2. Walks(hp, N, g)
  BY <1>1, WalksExists
<1>3. Spilled(hp) = g[N].nodes
  BY DEF Spilled, Walk, Walks
<1> HIDE DEF g, N
<1>4. \A i \in 0..N : g[i] = IF i = 0 THEN [dest |-> Far + 1, size |-> 0, nodes |-> <<>>, over |-> FALSE]
                             ELSE Round(hp, g[i - 1])
  BY <1>2 DEF Walks
<1>5. 0 \in S
  <2>1. g[0] = [dest |-> Far + 1, size |-> 0, nodes |-> <<>>, over |-> FALSE]
    <3>1. 0 \in 0..N
      BY <1>1
    <3> HIDE DEF S
    <3> QED
      BY <1>4, <3>1
  <2>2. WalkType(g[0])
    BY <2>1 DEF WalkType
  <2>3. g[0].nodes = <<>> /\ g[0].dest \in Nat /\ g[0].size = 0
    BY <2>1, HeapFacts
  <2>4. <<>> \in Seq(hp) /\ Len(<<>>) = 0 /\ \A i \in 1..0 : FALSE
    OBVIOUS
  <2>5. Spillable(hp, <<>>)
    BY <2>4 DEF Spillable
  <2>6. Walking(hp, g[0])
    BY <2>3, <2>4, <2>5, WeighsNothing DEF Walking
  <2> QED
    BY <2>2, <2>6
<1>6. ASSUME NEW i \in Nat, i \in S
      PROVE  i + 1 \in S
  <2> SUFFICES ASSUME i + 1 <= N PROVE Walking(hp, g[i + 1]) /\ WalkType(g[i + 1])
    OBVIOUS
  <2>1. i + 1 \in 0..N /\ i + 1 # 0 /\ (i + 1) - 1 = i /\ i <= N
    BY <1>1
  <2>2. g[i + 1] = Round(hp, g[i])
    BY <1>4, <2>1
  <2>3. Walking(hp, g[i]) /\ WalkType(g[i])
    BY <1>6, <2>1
  <2> QED
    BY <2>2, <2>3, RoundWalks
<1>7. Nat \subseteq S
  <2> HIDE DEF S
  <2> QED
    BY <1>5, <1>6, SetInduction
<1>8. Walking(hp, g[N])
  BY <1>1, <1>7
<1> QED
  BY <1>3, <1>8 DEF Walking

-----------------------------------------------------------------------------
(* The bytes of the copies kept, wherever they are.                        *)

\* Where the i-th byte of a copy is.
LEMMA PlaceFacts ==
  ASSUME NEW len \in Nat, NEW i \in 1..len
  PROVE  /\ (i - 1) \div Room \in Nat /\ (i - 1) \div Room + 1 \in 1..Chunks(len)
         /\ (i - 1) % Room \in 0..Room - 1
         /\ i - 1 = ((i - 1) \div Room) * Room + ((i - 1) % Room)
<1> DEFINE a == i - 1
           q == a \div Room
<1>1. Room \in Nat \ {0}
  BY SrepAssumption
<1>2. a \in Nat /\ a <= len - 1
  OBVIOUS
<1>3. q \in Nat /\ q * Room <= a
  BY <1>1, <1>2, DivFacts
<1>4. a % Room \in 0..Room - 1 /\ a = q * Room + (a % Room)
  <2> DEFINE b == Room
  <2>1. b \in Nat \ {0}
    BY <1>1
  <2> HIDE DEF a, b
  <2>2. a % b \in 0..b - 1
    BY <1>2, <2>1
  <2>3. a = (a \div b) * b + (a % b)
    BY <1>2, <2>1
  <2> QED
    BY <2>2, <2>3 DEF b
<1> HIDE DEF q, a
<1>5. q + 1 \in Nat /\ len + Room - 1 \in Nat /\ (q + 1) * Room <= len + Room - 1
  <2>1. (q + 1) * Room = q * Room + Room
    BY <1>1, <1>3
  <2> DEFINE x == q * Room
  <2>2. x \in Nat /\ x <= a
    BY <1>1, <1>3
  <2> HIDE DEF x
  <2> QED
    BY <1>1, <1>2, <1>3, <2>1, <2>2 DEF x
<1>6. q + 1 <= Chunks(len)
  BY <1>1, <1>5, DivFacts DEF Chunks
<1>7. Chunks(len) \in Nat
  BY <1>1, <1>5, DivFacts DEF Chunks
<1> QED
  BY <1>3, <1>4, <1>6, <1>7 DEF q, a

\* The bytes of a chain that nobody touches stay.
LEMMA StoredSame ==
  ASSUME NEW m, NEW n, NEW c, NEW len \in Nat, Chain(n, c) = Chain(m, c),
         DOMAIN Chain(m, c) = 1..Chunks(len), \A x \in Cells(m, c) : n.data[x] = m.data[x]
  PROVE  Stored(n, c, len) = Stored(m, c, len)
<1> DEFINE q == Chain(m, c)
<1>1. ASSUME NEW i \in 1..len
      PROVE  n.data[q[(i - 1) \div Room + 1]] = m.data[q[(i - 1) \div Room + 1]]
  <2>1. (i - 1) \div Room + 1 \in DOMAIN q
    BY PlaceFacts
  <2> DEFINE j == (i - 1) \div Room + 1
  <2> HIDE DEF j, q
  <2>2. q[j] \in Cells(m, c)
    BY <2>1 DEF j, q, Cells, ToSet
  <2> QED
    BY <2>2 DEF j, q
<1> QED
  BY <1>1 DEF Stored

\* f is a sequence of n bytes.
IsBytes(f, n) == n \in Nat /\ f = [i \in 1..n |-> f[i]]

LEMMA BytesFacts ==
  ASSUME NEW f, NEW n, IsBytes(f, n)
  PROVE  n \in Nat /\ Len(f) = n /\ DOMAIN f = 1..n /\ f \in Seq({f[i] : i \in 1..n})
<1>1. n \in Nat /\ f = [i \in 1..n |-> f[i]]
  BY DEF IsBytes
<1>2. f \in [1..n -> {f[i] : i \in 1..n}]
  BY <1>1
<1>3. Len(f) = n
  BY <1>1, LenOf
<1> QED
  BY <1>1, <1>2, <1>3

\* What is read of a chain.
LEMMA StoredIs ==
  ASSUME NEW m, NEW c, NEW len \in Nat
  PROVE  /\ IsBytes(Stored(m, c, len), len)
         /\ \A i \in 1..len :
              Stored(m, c, len)[i] = m.data[Chain(m, c)[(i - 1) \div Room + 1]][((i - 1) % Room) + 1]
BY DEF Stored, IsBytes

\* The bytes saved are the bytes read.
LEMMA StoredSaved ==
  ASSUME NEW m, NEW c, NEW p, NEW len \in Nat, IsBytes(p, len),
         \A i \in 1..Chunks(len) : m.data[Chain(m, c)[i]] = Piece(p, i)
  PROVE  Stored(m, c, len) = p
<1>1. Room \in Nat \ {0}
  BY SrepAssumption
<1>2. Len(p) = len /\ p \in Seq({p[i] : i \in 1..len})
  BY BytesFacts
<1>3. ASSUME NEW i \in 1..len
      PROVE  Stored(m, c, len)[i] = p[i]
  <2> DEFINE q == (i - 1) \div Room
             r == (i - 1) % Room
             a == q * Room
  <2>1. q \in Nat /\ q + 1 \in 1..Chunks(len) /\ r \in 0..Room - 1 /\ i - 1 = a + r
    BY PlaceFacts
  <2>2. Stored(m, c, len)[i] = Piece(p, q + 1)[r + 1]
    <3>1. Stored(m, c, len)[i] = m.data[Chain(m, c)[q + 1]][r + 1]
      <4>1. \A j \in 1..len :
              Stored(m, c, len)[j] = m.data[Chain(m, c)[(j - 1) \div Room + 1]][((j - 1) % Room) + 1]
        BY StoredIs
      <4> QED
        BY <4>1, Zenon
    <3> HIDE DEF q, r
    <3>2. m.data[Chain(m, c)[q + 1]] = Piece(p, q + 1)
      BY <2>1
    <3> QED
      BY <3>1, <3>2
  <2> HIDE DEF q, r
  <2>3. (q + 1) * Room = a + Room /\ (q + 1 - 1) * Room = a /\ a \in Nat
    BY <1>1, <2>1
  <2> HIDE DEF a
  <2> DEFINE e == Min({a + Room, len})
  <2>4. e \in Nat /\ e <= len /\ a + r + 1 <= e
    <3>1. {a + Room, len} \subseteq Nat /\ {a + Room, len} # {}
      BY <1>1, <2>3
    <3>2. e \in {a + Room, len} /\ e <= len
      BY <3>1, MinFacts
    <3> QED
      BY <1>1, <2>1, <2>3, <3>1, <3>2
  <2> HIDE DEF e
  <2>5. Piece(p, q + 1) = SubSeq(p, a + 1, e)
    <3> DEFINE j == q + 1
    <3>1. (j - 1) * Room + 1 = a + 1 /\ j * Room = a + Room
      BY <1>1, <2>1, <2>3
    <3> HIDE DEF j
    <3>2. Piece(p, j) = SubSeq(p, (j - 1) * Room + 1, Min({j * Room, Len(p)}))
      BY DEF Piece
    <3>3. Piece(p, j) = SubSeq(p, a + 1, Min({a + Room, len}))
      BY <1>2, <3>1, <3>2
    <3> QED
      BY <3>3 DEF e, j
  <2>6. SubSeq(p, a + 1, e)[r + 1] = p[a + r + 1]
    <3>1. /\ r + 1 \in 1..e - (a + 1) + 1 /\ a + 1 \in Int /\ e \in Int
          /\ (a + 1) + (r + 1) - 1 = a + r + 1
      BY <2>1, <2>3, <2>4
    <3> DEFINE T == {p[x] : x \in (a + 1)..e}
    <3>2. \A x \in (a + 1)..e : p[x] \in T
      OBVIOUS
    <3> HIDE DEF T
    <3>3. \A x \in 1..e - (a + 1) + 1 : SubSeq(p, a + 1, e)[x] = p[(a + 1) + x - 1]
      BY <3>1, <3>2, SubSeqProperties
    <3> QED
      BY <3>1, <3>3
  <2>7. a + r + 1 = i
    BY <2>1, <2>3
  <2> QED
    BY <2>2, <2>5, <2>6, <2>7
<1>4. Stored(m, c, len) = [i \in 1..len |-> Stored(m, c, len)[i]] /\ p = [i \in 1..len |-> p[i]]
  BY StoredIs DEF IsBytes
<1> QED
  BY <1>3, <1>4

-----------------------------------------------------------------------------
(* Bytes kept in memory: each copy of a set has a chain of its own, of as  *)
(* many chunks as its bytes need.                                          *)

IndicesOf(nodes) == {n.index : n \in nodes}

Stores(m, nodes) ==
  /\ Sound(m, IndicesOf(nodes))
  /\ \A n, o \in nodes : n # o => n.index # o.index
  /\ \A n \in nodes : n.len \in Nat \ {0} /\ Len(Chain(m, n.index)) = Chunks(n.len)

LEMMA StoresFacts ==
  ASSUME NEW m, NEW nodes, Stores(m, nodes)
  PROVE  /\ IsMemory(m) /\ m.used \in Nat /\ m.used = Len(m.link) - Len(Chain(m, m.first))
         /\ \A n \in nodes : n.index # 0
<1> DEFINE I == IndicesOf(nodes)
<1>1. Sound(m, I)
  BY DEF Stores
<1>2. \A n \in nodes : n.index \in I
  BY DEF IndicesOf
<1> HIDE DEF I
<1> QED
  BY <1>1, <1>2, SoundFacts

\* One copy's bytes go: the others keep theirs.
LEMMA StoresLess ==
  ASSUME NEW m, NEW nodes, Stores(m, nodes), NEW n \in nodes, NEW o, o = Free(m, n.index)
  PROVE  Stores(o, nodes \ {n}) /\ o.used <= m.used
<1> DEFINE I == IndicesOf(nodes)
           c == n.index
<1>1. /\ Sound(m, I) /\ \A a, b \in nodes : a # b => a.index # b.index
      /\ \A a \in nodes : a.len \in Nat \ {0} /\ Len(Chain(m, a.index)) = Chunks(a.len)
  BY DEF Stores
<1>2. c \in I /\ o = Free(m, c)
  BY DEF IndicesOf
<1>4. IndicesOf(nodes \ {n}) = I \ {c}
  BY <1>1 DEF IndicesOf
<1>5. \A a \in nodes \ {n} : a.index \in I \ {c}
  BY <1>1 DEF IndicesOf
<1> HIDE DEF I, c
<1>9. OneLess(m, I, o, c)
  BY <1>1, <1>2, FreeSound
<1>3. /\ Sound(o, I \ {c}) /\ o.used = m.used - Len(Chain(m, c))
      /\ Len(Chain(m, c)) \in Nat
      /\ \A d \in I \ {c} : Chain(o, d) = Chain(m, d)
  BY <1>9 DEF OneLess
<1>6. \A a \in nodes \ {n} : a.len \in Nat \ {0} /\ Len(Chain(o, a.index)) = Chunks(a.len)
  BY <1>1, <1>3, <1>5
<1>7. Stores(o, nodes \ {n})
  BY <1>1, <1>3, <1>4, <1>6 DEF Stores
<1>8. m.used \in Nat
  BY StoresFacts
<1> QED
  BY <1>3, <1>7, <1>8

\* The bytes saved as s are those of the new node n.
StoredAs(m, nodes, s, n) ==
  /\ Stores(s.mem, nodes \cup {n}) /\ s.mem.used = m.used + Chunks(n.len)
  /\ n.index # 0 /\ n \notin nodes

\* One copy more.
LEMMA StoresMore ==
  ASSUME NEW m, NEW nodes, Stores(m, nodes), NEW p, NEW n, n.len \in Nat \ {0}, Len(p) = n.len,
         NEW s, s = Save(m, p), n.index = s.index
  PROVE  StoredAs(m, nodes, s, n)
<1> DEFINE len == n.len
           k == Chunks(len)
           I == IndicesOf(nodes)
<1>1. /\ Sound(m, I) /\ \A a, b \in nodes : a # b => a.index # b.index
      /\ \A a \in nodes : a.len \in Nat \ {0} /\ Len(Chain(m, a.index)) = Chunks(a.len)
  BY DEF Stores
<1>2. k \in Nat /\ k # 0 /\ Chunks(Len(p)) = k
  BY ChunksFacts
<1>3. \A a \in nodes : a.index \in I
  BY DEF IndicesOf
<1>4. IndicesOf(nodes \cup {n}) = I \cup {s.index}
  BY DEF IndicesOf
<1> HIDE DEF k, I
<1>10. OneMore(m, I, s.mem, s.index, k)
  BY <1>1, <1>2, SaveSound
<1>5. /\ Sound(s.mem, I \cup {s.index}) /\ s.index \notin I /\ s.mem.used = m.used + k
      /\ Len(Chain(s.mem, s.index)) = k
      /\ \A c \in I : Chain(s.mem, c) = Chain(m, c)
  BY <1>10 DEF OneMore
<1>6. \A a, b \in nodes \cup {n} : a # b => a.index # b.index
  BY <1>1, <1>3, <1>5
<1>7. \A a \in nodes \cup {n} : a.len \in Nat \ {0} /\ Len(Chain(s.mem, a.index)) = Chunks(a.len)
  BY <1>1, <1>3, <1>5 DEF k
<1>8. Stores(s.mem, nodes \cup {n})
  BY <1>4, <1>5, <1>6, <1>7 DEF Stores
<1>9. s.index # 0
  BY <1>5 DEF Sound
<1> QED
  BY <1>3, <1>5, <1>8, <1>9 DEF k, StoredAs

\* The bytes of the copies nodes are in memory n as they are in m.
SameBytes(m, n, nodes) ==
  Filled(m) => /\ Filled(n)
               /\ \A x \in nodes : Stored(n, x.index, x.len) = Stored(m, x.index, x.len)

LEMMA StoresChains ==
  ASSUME NEW m, NEW nodes, Stores(m, nodes), NEW n \in nodes
  PROVE  /\ DOMAIN Chain(m, n.index) = 1..Chunks(n.len) /\ n.len \in Nat \ {0}
         /\ Cells(m, n.index) \subseteq DOMAIN m.link
         /\ Cells(m, n.index) \cap Cells(m, m.first) = {}
         /\ n.index \in IndicesOf(nodes)
<1>1. n.index \in IndicesOf(nodes)
  BY DEF IndicesOf
<1>2. /\ Sound(m, IndicesOf(nodes)) /\ n.len \in Nat \ {0}
      /\ Len(Chain(m, n.index)) = Chunks(n.len)
  BY DEF Stores
<1> DEFINE c == n.index
           q == Chain(m, c)
           k == Len(q)
<1>3. /\ IsMemory(m) /\ Proper(m, c) /\ Cells(m, c) \subseteq DOMAIN m.link
      /\ Cells(m, c) \cap Cells(m, m.first) = {}
  BY <1>1, <1>2, SoundFacts
<1>4. q \in [1..k -> DOMAIN m.link]
  BY <1>3 DEF Proper, Leads, Path, Linked
<1>5. DOMAIN q = 1..k
  BY <1>4
<1> QED
  BY <1>1, <1>2, <1>3, <1>5

LEMMA LessBytes ==
  ASSUME NEW m, NEW nodes, Stores(m, nodes), NEW n \in nodes, NEW o, o = Free(m, n.index)
  PROVE  SameBytes(m, o, nodes \ {n})
<1> SUFFICES ASSUME Filled(m), NEW x \in nodes \ {n}
             PROVE  Filled(o) /\ Stored(o, x.index, x.len) = Stored(m, x.index, x.len)
  <2>1. Filled(m) => Filled(o)
    <3> DEFINE I == IndicesOf(nodes)
               c == n.index
    <3>1. Sound(m, I) /\ c \in I /\ o = Free(m, c)
      BY DEF Stores, IndicesOf
    <3> HIDE DEF I, c
    <3>2. OneLess(m, I, o, c) /\ o.data = m.data /\ DOMAIN o.link = DOMAIN m.link
      BY <3>1, FreeSound
    <3>3. IsMemory(o) /\ IsMemory(m)
      BY <3>1, <3>2 DEF OneLess, Sound
    <3>4. Len(o.link) = Len(m.link)
      <4>1. o.link \in Seq(Nat) /\ m.link \in Seq(Nat)
        BY <3>3 DEF IsMemory
      <4> QED
        BY <3>2, <4>1
    <3> QED
      BY <3>2, <3>4 DEF Filled
  <2> QED
    BY <2>1 DEF SameBytes
<1> DEFINE I == IndicesOf(nodes)
           c == n.index
           d == x.index
<1>1. /\ Sound(m, I) /\ c \in I /\ o = Free(m, c) /\ d \in I \ {c}
      /\ \A a, b \in nodes : a # b => a.index # b.index
  BY DEF Stores, IndicesOf
<1>2. DOMAIN Chain(m, d) = 1..Chunks(x.len) /\ x.len \in Nat
  BY StoresChains
<1> HIDE DEF I, c, d
<1>3. OneLess(m, I, o, c) /\ o.data = m.data /\ DOMAIN o.link = DOMAIN m.link
  BY <1>1, FreeSound
<1>4. IsMemory(o) /\ IsMemory(m) /\ Chain(o, d) = Chain(m, d)
  BY <1>1, <1>3 DEF OneLess, Sound
<1>5. Len(o.link) = Len(m.link)
  <2>1. o.link \in Seq(Nat) /\ m.link \in Seq(Nat)
    BY <1>4 DEF IsMemory
  <2> QED
    BY <1>3, <2>1
<1>6. Filled(o)
  BY <1>3, <1>5 DEF Filled
<1>7. Stored(o, d, x.len) = Stored(m, d, x.len)
  BY <1>2, <1>3, <1>4, StoredSame
<1> QED
  BY <1>6, <1>7 DEF d

LEMMA MoreBytes ==
  ASSUME NEW m, NEW nodes, Stores(m, nodes), NEW p, NEW len \in Nat \ {0}, IsBytes(p, len),
         NEW s, s = Save(m, p)
  PROVE  /\ SameBytes(m, s.mem, nodes)
         /\ Filled(m) => Stored(s.mem, s.index, len) = p
<1> DEFINE k == Chunks(len)
           I == IndicesOf(nodes)
<1>1. Sound(m, I) /\ k \in Nat /\ k # 0 /\ Chunks(Len(p)) = k
  BY ChunksFacts, BytesFacts DEF Stores
<1> HIDE DEF k, I
<1>2. /\ OneMore(m, I, s.mem, s.index, k)
      /\ Fills(m, Cells(m, m.first), s.mem, Chain(s.mem, s.index), k, p)
  BY <1>1, SaveSound
<1>3. \A c \in I : Chain(s.mem, c) = Chain(m, c)
  BY <1>2 DEF OneMore
<1> SUFFICES ASSUME Filled(m)
             PROVE  /\ Filled(s.mem)
                    /\ \A x \in nodes : Stored(s.mem, x.index, x.len) = Stored(m, x.index, x.len)
                    /\ Stored(s.mem, s.index, len) = p
  BY DEF SameBytes
<1>4. /\ Filled(s.mem) /\ \A i \in 1..k : s.mem.data[Chain(s.mem, s.index)[i]] = Piece(p, i)
      /\ \A x \in DOMAIN m.link \ Cells(m, m.first) : s.mem.data[x] = m.data[x]
  BY <1>2 DEF Fills
<1>5. Stored(s.mem, s.index, len) = p
  BY <1>4, StoredSaved DEF k
<1>6. ASSUME NEW x \in nodes
      PROVE  Stored(s.mem, x.index, x.len) = Stored(m, x.index, x.len)
  <2> DEFINE c == x.index
  <2>1. /\ DOMAIN Chain(m, c) = 1..Chunks(x.len) /\ x.len \in Nat \ {0}
        /\ Cells(m, c) \subseteq DOMAIN m.link /\ Cells(m, c) \cap Cells(m, m.first) = {}
        /\ c \in I
    BY StoresChains DEF I
  <2> HIDE DEF c
  <2>2. \A y \in Cells(m, c) : s.mem.data[y] = m.data[y]
    BY <1>4, <2>1
  <2>3. Stored(s.mem, c, x.len) = Stored(m, c, x.len)
    BY <1>3, <2>1, <2>2, StoredSame
  <2> QED
    BY <2>3 DEF c
<1> QED
  BY <1>4, <1>5, <1>6

\* In memory g[i] the first i copies of q are gone.
SpillsEach(m, nodes, q, N, g) ==
  \A i \in 0..N : Stores(g[i], nodes \ {q[j] : j \in 1..i}) /\ g[i].used <= m.used

\* Spill frees what it takes, copy by copy.
LEMMA SpillEach ==
  ASSUME NEW m, NEW nodes, Stores(m, nodes), NEW q, NEW N \in Nat,
         \A i \in 1..N : q[i] \in nodes,
         \A i, j \in 1..N : i < j => q[j] # q[i],
         NEW g, FreesAll(m, q, N, g)
  PROVE  SpillsEach(m, nodes, q, N, g)
<1> DEFINE S == {i \in Nat : i <= N => /\ Stores(g[i], nodes \ {q[j] : j \in 1..i})
                                       /\ g[i].used <= m.used}
<1>1. \A i \in 0..N : g[i] = IF i = 0 THEN m ELSE Free(g[i - 1], q[i].index)
  BY DEF FreesAll
<1>2. m.used \in Nat
  BY StoresFacts
<1>3. 0 \in S
  <2>1. g[0] = m
    BY <1>1
  <2>2. nodes \ {q[j] : j \in 1..0} = nodes
    OBVIOUS
  <2>3. Stores(g[0], nodes \ {q[j] : j \in 1..0})
    BY <2>1, <2>2
  <2>4. g[0].used <= m.used
    BY <1>2, <2>1
  <2> QED
    BY <2>3, <2>4
<1>4. ASSUME NEW i \in Nat, i \in S
      PROVE  i + 1 \in S
  <2> SUFFICES ASSUME i + 1 <= N
               PROVE  Stores(g[i + 1], nodes \ {q[j] : j \in 1..i + 1}) /\ g[i + 1].used <= m.used
    OBVIOUS
  <2>1. i + 1 \in 0..N /\ i + 1 \in 1..N /\ i + 1 # 0 /\ (i + 1) - 1 = i /\ i <= N
    OBVIOUS
  <2>2. g[i + 1] = Free(g[i], q[i + 1].index)
    BY <1>1, <2>1
  <2>3. Stores(g[i], nodes \ {q[j] : j \in 1..i}) /\ g[i].used <= m.used
    BY <1>4, <2>1
  <2>4. q[i + 1] \in nodes \ {q[j] : j \in 1..i}
    <3>1. \A j \in 1..i : j \in 1..N /\ j < i + 1
      BY <2>1
    <3> QED
      BY <2>1, <3>1
  <2>5. (nodes \ {q[j] : j \in 1..i}) \ {q[i + 1]} = nodes \ {q[j] : j \in 1..i + 1}
    <3>1. 1..i + 1 = (1..i) \cup {i + 1}
      OBVIOUS
    <3> QED
      BY <3>1
  <2>6. /\ Stores(g[i + 1], (nodes \ {q[j] : j \in 1..i}) \ {q[i + 1]})
        /\ g[i + 1].used <= g[i].used
    BY <2>2, <2>3, <2>4, StoresLess
  <2>7. g[i].used \in Nat /\ g[i + 1].used \in Nat
    BY <2>3, <2>6, StoresFacts
  <2> QED
    BY <1>2, <2>3, <2>5, <2>6, <2>7
<1>5. Nat \subseteq S
  <2> HIDE DEF S
  <2> QED
    BY <1>3, <1>4, SetInduction
<1>6. \A i \in 0..N : i \in S
  <2> HIDE DEF S
  <2> QED
    BY <1>5
<1> QED
  BY <1>6, SMTT(20) DEF SpillsEach

LEMMA SpillStores ==
  ASSUME NEW m, NEW nodes, Stores(m, nodes), NEW q, NEW N \in Nat,
         \A i \in 1..N : q[i] \in nodes,
         \A i, j \in 1..N : i < j => q[j] # q[i],
         NEW g, FreesAll(m, q, N, g)
  PROVE  Stores(g[N], nodes \ {q[i] : i \in 1..N}) /\ g[N].used <= m.used
<1>1. SpillsEach(m, nodes, q, N, g)
  BY SpillEach
<1>2. N \in 0..N
  OBVIOUS
<1> QED
  BY <1>1, <1>2 DEF SpillsEach

-----------------------------------------------------------------------------
(* Blocks on the disk.                                                     *)

\* The bytes that a copy may take in memory over and above its place on the
\* disk.
Extra == IF Room - 1 > RecordHead THEN Room - 1 - RecordHead ELSE 0

IsRecord(r) == r.dest \in 0..Far - 1 /\ r.len \in Nat \ {0} /\ Len(r.data) = r.len

\* A node for a copy with bytes in memory.
IsKept(n) == n.dest \in 0..Far - 1 /\ n.len \in Nat \ {0} /\ n.index # 0

\* i records of x bytes have been loaded.
Loading(m, nodes, load, i, x) ==
  /\ Stores(load.mem, nodes \cup load.nodes)
  /\ IsFiniteSet(load.nodes) /\ \A n \in load.nodes : IsKept(n)
  /\ x \in Nat /\ i * (RecordHead + 1) <= x
  /\ load.mem.used * Room <= m.used * Room + x + i * Extra

LEMMA LoadOne ==
  ASSUME NEW m, m.used \in Nat, NEW nodes, NEW load, NEW i \in Nat, NEW x, Loading(m, nodes, load, i, x),
         NEW r, IsRecord(r), NEW next, next = Load(load, r)
  PROVE  Loading(m, nodes, next, i + 1, x + RecordHead + r.len)
<1> DEFINE s == Save(load.mem, r.data)
           n == [src |-> r.src, dest |-> r.dest, len |-> r.len, index |-> s.index]
           k == Chunks(r.len)
           u == load.mem.used
           y == x + RecordHead + r.len
<1>1. next.mem = s.mem /\ next.nodes = load.nodes \cup {n}
  BY DEF Load
<1>2. n.index = s.index /\ n.len = r.len /\ n.dest = r.dest
  OBVIOUS
<1>3. /\ Stores(load.mem, nodes \cup load.nodes)
      /\ IsFiniteSet(load.nodes) /\ \A o \in load.nodes : IsKept(o)
      /\ x \in Nat /\ i * (RecordHead + 1) <= x
      /\ u * Room <= m.used * Room + x + i * Extra
  BY DEF Loading
<1>4. r.dest \in 0..Far - 1 /\ r.len \in Nat \ {0} /\ Len(r.data) = r.len
  BY DEF IsRecord
<1> DEFINE all == nodes \cup load.nodes
<1> HIDE DEF s, n, all
<1>5. Stores(load.mem, all)
  BY <1>3 DEF all
<1>6. /\ Stores(s.mem, all \cup {n}) /\ s.mem.used = u + k
      /\ n.index # 0
  <2> DEFINE p == r.data
             mem == load.mem
  <2>1. n.len \in Nat \ {0} /\ Len(p) = n.len /\ s = Save(mem, p) /\ n.index = s.index
    BY <1>2, <1>4 DEF s
  <2>2. Stores(mem, all)
    BY <1>5
  <2> HIDE DEF p, mem
  <2>3. StoredAs(mem, all, s, n)
    BY <2>1, <2>2, StoresMore
  <2> QED
    BY <1>2, <2>3 DEF mem, StoredAs
<1>7. Stores(next.mem, nodes \cup next.nodes)
  <2>1. nodes \cup next.nodes = all \cup {n}
    BY <1>1 DEF all
  <2> QED
    BY <1>1, <1>6, <2>1
<1>8. IsFiniteSet(next.nodes) /\ \A o \in next.nodes : IsKept(o)
  <2>1. IsKept(n)
    BY <1>2, <1>4, <1>6 DEF IsKept
  <2>2. IsFiniteSet(load.nodes \cup {n})
    BY <1>3, FS_AddElement
  <2> QED
    BY <1>1, <1>3, <2>1, <2>2
<1>9. /\ RecordHead \in Nat /\ Room \in Nat \ {0} /\ Extra \in Nat
      /\ Room - 1 <= RecordHead + Extra
  BY SrepAssumption DEF Extra
<1>10. y \in Nat /\ (i + 1) * (RecordHead + 1) <= y
  <2> DEFINE h == RecordHead + 1
             z == i * h
  <2>1. h \in Nat /\ z \in Nat /\ (i + 1) * h = z + h
    BY <1>9
  <2>2. z <= x /\ x \in Nat
    BY <1>3
  <2>3. y \in Nat /\ y >= x + h
    <3> DEFINE l == r.len
    <3>1. l \in Nat /\ l >= 1
      BY <1>4
    <3> HIDE DEF l
    <3>2. x + RecordHead + l \in Nat /\ x + RecordHead + l >= x + (RecordHead + 1)
      BY <1>9, <2>2, <3>1
    <3> QED
      BY <3>2 DEF l
  <2> HIDE DEF h, z, y
  <2>4. z + h <= y
    BY <2>1, <2>2, <2>3
  <2> QED
    BY <2>1, <2>3, <2>4 DEF h
<1>11. next.mem.used * Room <= m.used * Room + y + (i + 1) * Extra
  <2>1. k \in Nat /\ k * Room \in Nat /\ k * Room <= r.len + Room - 1
    BY <1>4, ChunksFacts
  <2>2. u \in Nat
    BY <1>5, StoresFacts
  <2>3. next.mem.used = u + k
    BY <1>1, <1>6
  <2> HIDE DEF k, u
  <2>4. (u + k) * Room = u * Room + k * Room
    BY <1>9, <2>1, <2>2
  <2>5. (i + 1) * Extra = i * Extra + Extra
    BY <1>9
  <2> DEFINE a == u * Room
             b == k * Room
             c == m.used * Room
             e == i * Extra
  <2>6. a \in Nat /\ b \in Nat /\ c \in Nat /\ e \in Nat
    BY <1>9, <2>1, <2>2
  <2>7. a <= c + x + e /\ b <= r.len + Room - 1
    BY <1>3, <2>1 DEF u
  <2>8. a + b <= c + y + (e + Extra)
    <3> DEFINE l == r.len
    <3>1. x \in Nat /\ l \in Nat
      BY <1>3, <1>4
    <3> HIDE DEF a, b, c, e, l
    <3>2. b <= l + Room - 1
      BY <2>7 DEF l
    <3>3. y = x + RecordHead + l
      BY DEF l
    <3> HIDE DEF y
    <3> QED
      BY <1>9, <2>6, <2>7, <3>1, <3>2, <3>3
  <2> QED
    BY <2>3, <2>4, <2>5, <2>8 DEF a, b, c, e
<1> QED
  BY <1>7, <1>8, <1>10, <1>11 DEF Loading

\* All records of a block.
LEMMA LoadAll ==
  ASSUME NEW m, NEW nodes, Stores(m, nodes), NEW block, NEW N \in Nat, N = Len(block),
         \A i \in 1..N : IsRecord(block[i]), NEW x, Weighs(block, x),
         NEW g, Loads(m, block, N, g)
  PROVE  /\ Loading(m, nodes, g[N], N, x)
         /\ \A i \in 0..N : Stores(g[i].mem, nodes \cup g[i].nodes)
<1>1. PICK z : Sizes(block, N, z) /\ x = z[N]
  BY DEF Weighs
<1>2. \A i \in 0..N : z[i] = IF i = 0 THEN 0 ELSE z[i - 1] + RecordHead + block[i].len
  BY <1>1 DEF Sizes
<1>3. \A i \in 0..N : g[i] = IF i = 0 THEN [mem |-> m, nodes |-> {}] ELSE Load(g[i - 1], block[i])
  BY DEF Loads
<1>4. m.used \in Nat
  BY StoresFacts
<1> DEFINE S == {i \in Nat : i <= N => Loading(m, nodes, g[i], i, z[i])}
<1>5. 0 \in S
  <2>1. 0 \in 0..N
    OBVIOUS
  <2>2. g[0] = [mem |-> m, nodes |-> {}] /\ z[0] = 0
    BY <1>2, <1>3, <2>1
  <2>3. g[0].mem = m /\ g[0].nodes = {} /\ nodes \cup {} = nodes
    BY <2>2
  <2>4. IsFiniteSet({})
    BY FS_EmptySet
  <2>5. RecordHead \in Nat /\ Room \in Nat /\ Extra \in Nat
    BY SrepAssumption DEF Extra
  <2>6. 0 * (RecordHead + 1) <= 0 /\ m.used * Room <= m.used * Room + 0 + 0 * Extra
    BY <1>4, <2>5
  <2>7. Loading(m, nodes, g[0], 0, z[0])
    BY <2>2, <2>3, <2>4, <2>6 DEF Loading
  <2> QED
    BY <2>7
<1>6. ASSUME NEW i \in Nat, i \in S
      PROVE  i + 1 \in S
  <2> SUFFICES ASSUME i + 1 <= N PROVE Loading(m, nodes, g[i + 1], i + 1, z[i + 1])
    OBVIOUS
  <2>1. i + 1 \in 0..N /\ i + 1 \in 1..N /\ i + 1 # 0 /\ (i + 1) - 1 = i /\ i <= N
    OBVIOUS
  <2>2. g[i + 1] = Load(g[i], block[i + 1]) /\ z[i + 1] = z[i] + RecordHead + block[i + 1].len
    BY <1>2, <1>3, <2>1
  <2>3. Loading(m, nodes, g[i], i, z[i]) /\ IsRecord(block[i + 1])
    BY <1>6, <2>1
  <2> QED
    BY <1>4, <2>2, <2>3, LoadOne
<1>7. Nat \subseteq S
  <2> HIDE DEF S
  <2> QED
    BY <1>5, <1>6, SetInduction
<1>8. N \in S
  <2> HIDE DEF S
  <2> QED
    BY <1>7
<1>9. N <= N
  OBVIOUS
<1>10. \A i \in 0..N : Stores(g[i].mem, nodes \cup g[i].nodes)
  <2>1. \A i \in 0..N : i \in S
    <3> HIDE DEF S
    <3> QED
      BY <1>7
  <2>2. \A i \in 0..N : Loading(m, nodes, g[i], i, z[i])
    BY <2>1
  <2> QED
    BY <2>2 DEF Loading
<1> QED
  BY <1>1, <1>8, <1>9, <1>10

\* The limit that loading a block keeps.
Bound == Useful + Room - 1 + (DiskBlock \div (RecordHead + 1)) * Extra

LEMMA LoadBounded ==
  ASSUME NEW m, m.used \in Nat, Available(m) >= DiskBlock, NEW nodes, NEW load, NEW i \in Nat \ {0}, NEW x,
         Loading(m, nodes, load, i, x), x + RecordTail <= DiskBlock
  PROVE  load.mem.used * Room <= Bound
<1>1. /\ RecordHead \in Nat /\ RecordTail \in Nat /\ Room \in Nat \ {0} /\ Extra \in Nat
      /\ DiskBlock \in Nat /\ Useful \in Nat
  BY SrepAssumption DEF Extra
<1> DEFINE a == load.mem.used * Room
           c == m.used * Room
           d == DiskBlock \div (RecordHead + 1)
           u == load.mem.used
<1>2. x \in Nat /\ i * (RecordHead + 1) <= x /\ a <= c + x + i * Extra /\ u \in Nat
  BY StoresFacts DEF Loading
<1>3. x <= DiskBlock /\ DiskBlock \in Nat \ {0} /\ i * (RecordHead + 1) \in Nat
  <2>1. i * (RecordHead + 1) \in Nat /\ i * (RecordHead + 1) >= 1
    BY <1>1
  <2> QED
    BY <1>1, <1>2, <2>1
<1>4. c + DiskBlock <= Useful
  <2>1. DiskBlock <= Available(m)
    <3>1. Available(m) \in Nat
      BY <1>1 DEF Available
    <3> QED
      BY <1>1, <3>1
  <2> QED
    BY <1>3, <2>1, AvailableFacts
<1>5. d \in Nat /\ i <= d
  <2>1. i * (RecordHead + 1) <= DiskBlock
    BY <1>1, <1>2, <1>3
  <2>2. RecordHead + 1 \in Nat \ {0}
    BY <1>1
  <2> QED
    BY <1>1, <2>1, <2>2, DivFacts
<1>6. i * Extra \in Nat /\ d * Extra \in Nat /\ i * Extra <= d * Extra
  <2> HIDE DEF d
  <2> QED
    BY <1>1, <1>5, Monotone
<1> DEFINE e == i * Extra
           f == d * Extra
<1>7. a \in Nat /\ c \in Nat
  BY <1>1, <1>2
<1>8. e \in Nat /\ f \in Nat /\ e <= f /\ a <= c + x + e
  BY <1>2, <1>6
<1> HIDE DEF a, c, e, f
<1>9. a <= Useful + Room - 1 + f
  BY <1>1, <1>2, <1>3, <1>4, <1>7, <1>8
<1> QED
  BY <1>9 DEF a, f, Bound

-----------------------------------------------------------------------------
(* The blocks on the disk, the numbers to use again, and the marks.        *)

IsBlock(block) ==
  /\ Len(block) \in Nat /\ DOMAIN block = 1..Len(block) /\ (block = NoBlock <=> Len(block) = 0)
  /\ \A i \in DOMAIN block : IsRecord(block[i])
  /\ \E x \in Nat : Weighs(block, x) /\ (block # NoBlock => x + RecordTail <= DiskBlock)

MarksOf(hp, b) == {n \in hp : IsMark(n) /\ n.src = b}

\* The marks of block b: one, which has the destination of one of its records,
\* and the least of them unless a walk has led astray (lost).
Marked(marks, block, lost) ==
  IF block = NoBlock THEN marks = {}
  ELSE \E n : /\ marks = {n}
              /\ \E i \in DOMAIN block : n.dest = block[i].dest
              /\ lost \/ \A i \in DOMAIN block : n.dest <= block[i].dest

Disk(hp, dk, vc, lost) ==
  /\ \E S : dk \in Seq(S)
  /\ vc \in Seq(Nat) /\ IsInjective(vc)
  /\ ToSet(vc) = {b \in DOMAIN dk : dk[b] = NoBlock}
  /\ \A n \in hp : IsMark(n) => n = Barrier \/ (n.src \in DOMAIN dk /\ dk[n.src] # NoBlock)
  /\ \A b \in DOMAIN dk : IsBlock(dk[b]) /\ Marked(MarksOf(hp, b), dk[b], lost)

\* The marks alone matter to the disk.
LEMMA SameMarks ==
  ASSUME NEW hp, NEW dk, NEW vc, NEW lost, Disk(hp, dk, vc, lost), NEW hq,
         \A n : IsMark(n) => (n \in hq <=> n \in hp)
  PROVE  Disk(hq, dk, vc, lost)
<1>1. \A b : MarksOf(hq, b) = MarksOf(hp, b)
  BY DEF MarksOf
<1>2. \A n \in hq : IsMark(n) => n = Barrier \/ (n.src \in DOMAIN dk /\ dk[n.src] # NoBlock)
  BY DEF Disk
<1> QED
  BY <1>1, <1>2 DEF Disk

\* No mark of a block that is not there.
LEMMA NoMarks ==
  ASSUME NEW hp, NEW dk, NEW vc, NEW lost, Disk(hp, dk, vc, lost), NEW b \in Nat \ {0},
         b \in DOMAIN dk => dk[b] = NoBlock
  PROVE  MarksOf(hp, b) = {}
<1> SUFFICES ASSUME NEW n \in hp, IsMark(n), n.src = b PROVE FALSE
  BY DEF MarksOf
<1>1. CASE n = Barrier
  <2>1. n.src = Far /\ n.len = Far
    BY <1>1 DEF Barrier
  <2> QED
    BY <2>1 DEF IsMark
<1>2. CASE n # Barrier
  BY <1>2 DEF Disk
<1> QED
  BY <1>1, <1>2

LEMMA DiskFacts ==
  ASSUME NEW hp, NEW dk, NEW vc, NEW lost, Disk(hp, dk, vc, lost)
  PROVE  /\ Len(dk) \in Nat /\ DOMAIN dk = 1..Len(dk)
         /\ vc \in Seq(Nat) /\ IsInjective(vc)
         /\ ToSet(vc) = {b \in DOMAIN dk : dk[b] = NoBlock}
<1>1. PICK S : dk \in Seq(S)
  BY DEF Disk
<1> QED
  BY <1>1 DEF Disk

\* The disk with block at the number b.
PutAt(dk, b, block) == IF b = Len(dk) + 1 THEN Append(dk, block) ELSE [dk EXCEPT ![b] = block]

IsPutAt(dl, dk, b, block) ==
  /\ \E T : dl \in Seq(T)
  /\ DOMAIN dl = (1..Len(dk)) \cup {b} /\ dl[b] = block
  /\ \A c \in 1..Len(dk) : c # b => dl[c] = dk[c]

LEMMA PutAtFacts ==
  ASSUME NEW dk, \E S : dk \in Seq(S), NEW block, NEW b \in 1..Len(dk) + 1,
         NEW e, e = PutAt(dk, b, block)
  PROVE  IsPutAt(e, dk, b, block)
<1>0. PICK S : dk \in Seq(S)
  OBVIOUS
<1> DEFINE T == S \cup {block}
           N == Len(dk)
<1>1. N \in Nat /\ dk \in Seq(T) /\ block \in T
  BY <1>0
<1> HIDE DEF T
<1>2. CASE b = N + 1
  <2>1. e = Append(dk, block)
    BY <1>2 DEF PutAt
  <2>2. /\ e \in Seq(T) /\ DOMAIN e = 1..N + 1 /\ e[N + 1] = block
        /\ \A c \in 1..N : e[c] = dk[c]
    BY <1>1, <2>1
  <2>3. 1..N + 1 = (1..N) \cup {b}
    BY <1>1, <1>2
  <2> QED
    BY <1>2, <2>2, <2>3 DEF IsPutAt
<1>3. CASE b # N + 1
  <2>1. b \in 1..N
    BY <1>1, <1>3
  <2>2. e = [dk EXCEPT ![b] = block]
    BY <1>3 DEF PutAt
  <2>3. dk \in [1..N -> T]
    BY <1>1
  <2>4. /\ e \in [1..N -> T] /\ DOMAIN e = 1..N /\ e[b] = block
        /\ \A c \in 1..N : c # b => e[c] = dk[c]
    BY <1>1, <2>1, <2>2, <2>3
  <2>5. e \in Seq(T)
    BY <1>1, <2>4
  <2>6. 1..N = (1..N) \cup {b}
    BY <2>1
  <2> QED
    BY <2>4, <2>5, <2>6 DEF IsPutAt
<1> QED
  BY <1>2, <1>3

\* What is left of the disk by virtMem.save.
Written(hq, dk, vc, b, block, dl, vd, lost) ==
  Disk(hq, dl, vd, lost) /\ dl = IF vc = <<>> THEN Append(dk, block) ELSE [dk EXCEPT ![b] = block]

\* A block is written under a number that none has, and gets its mark.
LEMMA WriteBlock ==
  ASSUME NEW hp, NEW dk, NEW vc, NEW lost \in BOOLEAN, Disk(hp, dk, vc, lost),
         NEW more \in BOOLEAN, lost => more, NEW hq, NEW b, NEW vd, NEW block, NEW mark,
         b = IF vc = <<>> THEN Len(dk) + 1 ELSE Last(vc),
         vd = IF vc = <<>> THEN vc ELSE Front(vc),
         IsBlock(block), block # NoBlock,
         IsMark(mark), mark.src = b,
         \E i \in DOMAIN block : mark.dest = block[i].dest,
         more \/ \A i \in DOMAIN block : mark.dest <= block[i].dest,
         mark \in hq, \A n : IsMark(n) /\ n # mark => (n \in hq <=> n \in hp),
         NEW dl, dl = PutAt(dk, b, block)
  PROVE  Written(hq, dk, vc, b, block, dl, vd, more)
<1> DEFINE N == Len(dk)
<1>1. /\ N \in Nat /\ DOMAIN dk = 1..N /\ vc \in Seq(Nat) /\ IsInjective(vc)
      /\ ToSet(vc) = {c \in DOMAIN dk : dk[c] = NoBlock}
  BY DiskFacts
<1>2. /\ b \in 1..N + 1 /\ b \in Nat \ {0} /\ (b \in DOMAIN dk => dk[b] = NoBlock)
      /\ (b = N + 1 <=> vc = <<>>)
      /\ vd \in Seq(Nat) /\ IsInjective(vd) /\ ToSet(vd) = ToSet(vc) \ {b}
  <2>1. CASE vc = <<>>
    <3>1. b = N + 1 /\ vd = vc /\ ToSet(vc) = {}
      BY <2>1 DEF ToSet
    <3> QED
      BY <1>1, <2>1, <3>1
  <2>2. CASE vc # <<>>
    <3>1. b = Last(vc) /\ vd = Front(vc)
      BY <2>2
    <3>2. /\ vd \in Seq(Nat) /\ IsInjective(vd) /\ b \in ToSet(vc) /\ ToSet(vd) = ToSet(vc) \ {b}
      <4>1. /\ Front(vc) \in Seq(Nat) /\ IsInjective(Front(vc)) /\ Last(vc) \in ToSet(vc)
            /\ ToSet(Front(vc)) = ToSet(vc) \ {Last(vc)}
        BY <1>1, <2>2, TopFacts
      <4> QED
        BY <3>1, <4>1
    <3>3. b \in 1..N /\ dk[b] = NoBlock
      BY <1>1, <3>2
    <3> QED
      BY <1>1, <2>2, <3>2, <3>3
  <2> QED
    BY <2>1, <2>2
<1>3. /\ \E T : dl \in Seq(T)
      /\ DOMAIN dl = (1..N) \cup {b} /\ dl[b] = block
      /\ \A c \in 1..N : c # b => dl[c] = dk[c]
  <2>1. \E S : dk \in Seq(S)
    BY DEF Disk
  <2>2. IsPutAt(dl, dk, b, block)
    BY <1>2, <2>1, PutAtFacts
  <2> QED
    BY <2>2 DEF IsPutAt
<1>4. dl = IF vc = <<>> THEN Append(dk, block) ELSE [dk EXCEPT ![b] = block]
  BY <1>2 DEF PutAt
<1>5. ToSet(vd) = {c \in DOMAIN dl : dl[c] = NoBlock}
  BY <1>1, <1>2, <1>3
<1>6. ASSUME NEW n \in hq, IsMark(n)
      PROVE  n = Barrier \/ (n.src \in DOMAIN dl /\ dl[n.src] # NoBlock)
  <2>1. CASE n = mark
    BY <1>3, <2>1
  <2>2. CASE n # mark
    <3>1. n \in hp
      BY <1>6, <2>2
    <3>2. n = Barrier \/ (n.src \in DOMAIN dk /\ dk[n.src] # NoBlock)
      BY <1>6, <3>1 DEF Disk
    <3> QED
      BY <1>1, <1>2, <1>3, <3>2
  <2> QED
    BY <2>1, <2>2
<1>7. ASSUME NEW c \in DOMAIN dl
      PROVE  IsBlock(dl[c]) /\ Marked(MarksOf(hq, c), dl[c], more)
  <2>1. CASE c = b
    <3>1. MarksOf(hp, b) = {}
      BY <1>2, NoMarks
    <3>2. MarksOf(hq, b) = {mark}
      BY <3>1 DEF MarksOf
    <3> QED
      BY <1>3, <2>1, <3>2 DEF Marked
  <2>2. CASE c # b
    <3>1. c \in DOMAIN dk /\ dl[c] = dk[c]
      BY <1>1, <1>3, <2>2
    <3>2. MarksOf(hq, c) = MarksOf(hp, c)
      BY <2>2 DEF MarksOf
    <3>3. IsBlock(dk[c]) /\ Marked(MarksOf(hp, c), dk[c], lost)
      BY <3>1 DEF Disk
    <3>4. Marked(MarksOf(hp, c), dk[c], more)
      BY <3>3 DEF Marked
    <3> QED
      BY <3>1, <3>2, <3>3, <3>4
  <2> QED
    BY <2>1, <2>2
<1> QED
  BY <1>2, <1>3, <1>4, <1>5, <1>6, <1>7 DEF Disk, Written

\* A block is given up with its mark.
LEMMA ClearBlock ==
  ASSUME NEW hp, NEW dk, NEW vc, NEW lost, Disk(hp, dk, vc, lost), NEW mark \in hp, IsMark(mark), mark # Barrier,
         NEW hq, mark \notin hq, \A n : IsMark(n) /\ n # mark => (n \in hq <=> n \in hp)
  PROVE  Disk(hq, [dk EXCEPT ![mark.src] = NoBlock], Append(vc, mark.src), lost)
<1> DEFINE N == Len(dk)
           b == mark.src
           dl == PutAt(dk, b, NoBlock)
           vd == Append(vc, b)
<1>1. /\ N \in Nat /\ DOMAIN dk = 1..N /\ vc \in Seq(Nat) /\ IsInjective(vc)
      /\ ToSet(vc) = {c \in DOMAIN dk : dk[c] = NoBlock}
  BY DiskFacts
<1>2. b \in 1..N /\ dk[b] # NoBlock /\ b \notin ToSet(vc)
  BY <1>1 DEF Disk
<1>3. /\ \E T : dl \in Seq(T)
      /\ DOMAIN dl = 1..N /\ dl[b] = NoBlock
      /\ \A c \in 1..N : c # b => dl[c] = dk[c]
  <2>1. \E S : dk \in Seq(S)
    BY DEF Disk
  <2>2. b \in 1..N + 1 /\ (1..N) \cup {b} = 1..N
    BY <1>1, <1>2
  <2>3. IsPutAt(dl, dk, b, NoBlock)
    BY <2>1, <2>2, PutAtFacts
  <2> HIDE DEF dl, b
  <2> QED
    BY <2>2, <2>3 DEF IsPutAt
<1>4. dl = [dk EXCEPT ![b] = NoBlock]
  <2>1. b # Len(dk) + 1
    BY <1>1, <1>2
  <2> QED
    BY <2>1 DEF PutAt
<1>5. /\ vd \in Seq(Nat) /\ IsInjective(vd) /\ ToSet(vd) = ToSet(vc) \cup {b}
  <2> DEFINE k == Len(vc)
  <2>1. b \in Nat /\ k \in Nat /\ DOMAIN vc = 1..k
    BY <1>1, <1>2
  <2>2. /\ vd \in Seq(Nat) /\ DOMAIN vd = 1..k + 1 /\ vd[k + 1] = b
        /\ \A i \in 1..k : vd[i] = vc[i]
    BY <1>1, <2>1
  <2> HIDE DEF k, vd
  <2>3. \A i \in 1..k + 1 : i \in 1..k \/ i = k + 1
    BY <2>1
  <2>4. \A i \in 1..k : vc[i] # b /\ i \in 1..k + 1
    BY <1>2, <2>1 DEF ToSet
  <2>5. IsInjective(vd)
    BY <1>1, <2>1, <2>2, <2>3, <2>4 DEF IsInjective
  <2>6. ToSet(vd) = ToSet(vc) \cup {b}
    BY <2>1, <2>2, <2>3, <2>4, SMTT(20) DEF ToSet
  <2> QED
    BY <2>2, <2>5, <2>6
<1> HIDE DEF dl, vd
<1>6. ToSet(vd) = {c \in DOMAIN dl : dl[c] = NoBlock}
  BY <1>1, <1>2, <1>3, <1>5
<1>7. \A n \in MarksOf(hp, b) : n = mark
  <2>1. Marked(MarksOf(hp, b), dk[b], lost)
    BY <1>1, <1>2 DEF Disk
  <2>2. mark \in MarksOf(hp, b)
    BY DEF MarksOf
  <2> QED
    BY <1>2, <2>1, <2>2 DEF Marked
<1>8. MarksOf(hq, b) = {}
  BY <1>7 DEF MarksOf
<1>9. ASSUME NEW n \in hq, IsMark(n)
      PROVE  n = Barrier \/ (n.src \in DOMAIN dl /\ dl[n.src] # NoBlock)
  <2>1. n # mark /\ n \in hp
    BY <1>9
  <2>2. n = Barrier \/ (n.src \in DOMAIN dk /\ dk[n.src] # NoBlock)
    BY <1>9, <2>1 DEF Disk
  <2>3. n.src # b
    BY <1>7, <1>9, <2>1 DEF MarksOf
  <2> QED
    BY <1>1, <1>3, <2>2, <2>3
<1>10. IsBlock(NoBlock)
  <2>1. Len(NoBlock) = 0 /\ DOMAIN NoBlock = {} /\ 1..0 = {}
    BY DEF NoBlock
  <2>2. Weighs(NoBlock, 0)
    BY WeighsNothing DEF NoBlock
  <2> QED
    BY <2>1, <2>2 DEF IsBlock
<1>11. ASSUME NEW c \in DOMAIN dl
       PROVE  IsBlock(dl[c]) /\ Marked(MarksOf(hq, c), dl[c], lost)
  <2>1. CASE c = b
    BY <1>3, <1>8, <1>10, <2>1 DEF Marked
  <2>2. CASE c # b
    <3>1. c \in DOMAIN dk /\ dl[c] = dk[c]
      BY <1>1, <1>3, <2>2
    <3>2. MarksOf(hq, c) = MarksOf(hp, c)
      BY <2>2 DEF MarksOf
    <3> QED
      BY <3>1, <3>2 DEF Disk
  <2> QED
    BY <2>1, <2>2
<1>12. Disk(hq, dl, vd, lost)
  BY <1>3, <1>5, <1>6, <1>9, <1>11 DEF Disk
<1> QED
  BY <1>4, <1>12 DEF vd

-----------------------------------------------------------------------------
(* The kernel's state, and the steps that change it.                       *)

InMem(hp) == {n \in hp : n.index # 0}

Kernel(hp, m, dk, vc, lost) ==
  /\ IsHeap(hp) /\ Stores(m, InMem(hp)) /\ m.used * Room <= Bound
  /\ lost \in BOOLEAN /\ Disk(hp, dk, vc, lost)

KernelInv == Kernel(heap, mm, disk, vacant, astray)

\* Less memory in use keeps the limit.
LEMMA LessUsed ==
  ASSUME NEW m, NEW nodes, Stores(m, nodes), NEW o, NEW rest, Stores(o, rest), o.used <= m.used,
         m.used * Room <= Bound
  PROVE  o.used * Room <= Bound
<1> DEFINE a == o.used
           b == m.used
<1>1. a \in Nat /\ b \in Nat /\ a <= b
  BY StoresFacts
<1>2. Room \in Nat /\ Bound \in Nat
  <2>1. /\ Room \in Nat \ {0} /\ Useful \in Nat /\ DiskBlock \in Nat /\ RecordHead + 1 \in Nat \ {0}
        /\ Extra \in Nat
    BY SrepAssumption DEF Extra
  <2>2. DiskBlock \div (RecordHead + 1) \in Nat
    BY <2>1, DivFacts
  <2> DEFINE d == DiskBlock \div (RecordHead + 1)
  <2> HIDE DEF d
  <2>3. d * Extra \in Nat
    BY <2>1, <2>2 DEF d
  <2> DEFINE e == d * Extra
  <2> HIDE DEF e
  <2>4. Useful + Room - 1 + e \in Nat
    BY <2>1, <2>3 DEF e
  <2> QED
    BY <2>1, <2>4 DEF Bound, d, e
<1> HIDE DEF a, b
<1>3. a * Room \in Nat /\ b * Room \in Nat /\ a * Room <= b * Room
  BY <1>1, <1>2, Monotone
<1>4. b * Room <= Bound
  BY DEF b
<1> DEFINE c == a * Room
           d == b * Room
<1> HIDE DEF c, d
<1>5. c \in Nat /\ d \in Nat /\ c <= d /\ d <= Bound
  BY <1>3, <1>4 DEF c, d
<1>6. c <= Bound
  BY <1>2, <1>5
<1> QED
  BY <1>6 DEF c, a

\* A block of the copies in nodes.
Recorded(block, nodes) ==
  /\ IsBlock(block) /\ block # NoBlock /\ DOMAIN block = DOMAIN nodes
  /\ \A i \in DOMAIN nodes : block[i].dest = nodes[i].dest

\* The copies that are spilled become the records of a block of that size.
LEMMA SpilledBlock ==
  ASSUME NEW hp, IsHeap(hp), NEW m, NEW nodes, nodes # <<>>, Spillable(hp, nodes),
         NEW x \in Nat, Weighs(nodes, x), x + RecordTail <= DiskBlock,
         NEW block,
         block = [i \in DOMAIN nodes |->
                    [src |-> nodes[i].src, dest |-> nodes[i].dest, len |-> nodes[i].len,
                     data |-> Stored(m, nodes[i].index, nodes[i].len)]]
  PROVE  Recorded(block, nodes)
<1> DEFINE N == Len(nodes)
<1>1. N \in Nat \ {0} /\ DOMAIN nodes = 1..N
  BY DEF Spillable
<1>2. \A i \in 1..N : nodes[i] \in hp /\ nodes[i].index # 0
  BY <1>1 DEF Spillable
<1> HIDE DEF N
<1>3. \A i \in 1..N : nodes[i].dest \in 0..Far - 1 /\ nodes[i].len \in Nat \ {0}
  BY <1>2, HeapFacts
<1>4. DOMAIN block = 1..N /\ Len(block) = N
  <2>1. block = [i \in 1..N |-> block[i]]
    BY <1>1
  <2> QED
    BY <1>1, <2>1, LenOf
<1>5. \A i \in 1..N :
        block[i] = [src |-> nodes[i].src, dest |-> nodes[i].dest, len |-> nodes[i].len,
                    data |-> Stored(m, nodes[i].index, nodes[i].len)]
  BY <1>1
<1>6. \A i \in 1..N : /\ block[i].dest = nodes[i].dest /\ block[i].len = nodes[i].len
                      /\ block[i].data = Stored(m, nodes[i].index, nodes[i].len)
  <2> SUFFICES ASSUME NEW i \in 1..N
               PROVE  /\ block[i].dest = nodes[i].dest /\ block[i].len = nodes[i].len
                      /\ block[i].data = Stored(m, nodes[i].index, nodes[i].len)
    OBVIOUS
  <2>1. block[i] = [src |-> nodes[i].src, dest |-> nodes[i].dest, len |-> nodes[i].len,
                    data |-> Stored(m, nodes[i].index, nodes[i].len)]
    BY <1>5
  <2> QED
    BY <2>1
<1>7. ASSUME NEW i \in 1..N
      PROVE  Len(Stored(m, nodes[i].index, nodes[i].len)) = nodes[i].len
  <2> DEFINE k == nodes[i].len
             chain == Chain(m, nodes[i].index)
             f == [j \in 1..k |-> m.data[chain[(j - 1) \div Room + 1]][((j - 1) % Room) + 1]]
  <2>1. Stored(m, nodes[i].index, nodes[i].len) = f
    BY DEF Stored
  <2>2. f = [j \in 1..k |-> f[j]] /\ k \in Nat
    BY <1>3
  <2> HIDE DEF f
  <2>3. Len(f) = k
    BY <2>2, LenOf
  <2> QED
    BY <2>1, <2>3
<1>8. \A i \in 1..N : IsRecord(block[i])
  BY <1>3, <1>6, <1>7 DEF IsRecord
<1>9. Weighs(block, x)
  <2>1. PICK g : Sizes(nodes, N, g) /\ x = g[N]
    BY DEF Weighs, N
  <2>2. g = [i \in 0..N |-> IF i = 0 THEN 0 ELSE g[i - 1] + RecordHead + nodes[i].len]
    BY <2>1 DEF Sizes
  <2>3. \A i \in 0..N : i # 0 => block[i].len = nodes[i].len
    BY <1>1, <1>6
  <2>4. g = [i \in 0..N |-> IF i = 0 THEN 0 ELSE g[i - 1] + RecordHead + block[i].len]
    BY <2>2, <2>3
  <2>5. Sizes(block, N, g)
    BY <2>4 DEF Sizes
  <2> QED
    BY <1>4, <2>1, <2>5 DEF Weighs
<1>10. block # NoBlock
  <2>1. Len(NoBlock) = 0
    BY DEF NoBlock
  <2> QED
    BY <1>1, <1>4, <2>1
<1>11. IsBlock(block)
  BY <1>1, <1>4, <1>8, <1>9, <1>10 DEF IsBlock
<1> QED
  BY <1>1, <1>4, <1>6, <1>10, <1>11 DEF Recorded

LEMMA SpillStep ==
  ASSUME KernelInv, Spill
  PROVE  KernelInv'
<1> DEFINE nodes == Spilled(heap)
           N     == Len(nodes)
           b     == IF vacant = <<>> THEN Len(disk) + 1 ELSE Last(vacant)
           vd    == IF vacant = <<>> THEN vacant ELSE Front(vacant)
           block == [i \in DOMAIN nodes |->
                       [src |-> nodes[i].src, dest |-> nodes[i].dest, len |-> nodes[i].len,
                        data |-> Stored(mm, nodes[i].index, nodes[i].len)]]
           mark  == MarkAt(nodes, b)
           g     == CHOOSE g : FreesAll(mm, nodes, N, g)
           all   == InMem(heap)
<1>1. /\ IsHeap(heap) /\ Stores(mm, all) /\ mm.used * Room <= Bound
      /\ astray \in BOOLEAN /\ Disk(heap, disk, vacant, astray)
  BY DEF KernelInv, Kernel
<1>2. /\ nodes # <<>> /\ heap' = (heap \ ToSet(nodes)) \cup {mark}
      /\ mm' = g[N]
      /\ disk' = (IF vacant = <<>> THEN Append(disk, block) ELSE [disk EXCEPT ![b] = block])
      /\ vacant' = vd
      /\ astray' = (astray \/ Misplaced(nodes))
  BY DEF Spill, FreesAll
<1>3. PICK x \in Nat : Weighs(nodes, x) /\ x + RecordTail <= DiskBlock
  BY <1>1, <1>2, SpilledFacts
<1>4. Spillable(heap, nodes)
  BY <1>1, SpilledFacts
<1>5. block = [i \in DOMAIN nodes |->
                 [src |-> nodes[i].src, dest |-> nodes[i].dest, len |-> nodes[i].len,
                  data |-> Stored(mm, nodes[i].index, nodes[i].len)]]
  OBVIOUS
<1> HIDE DEF block, nodes
<1>6. /\ IsBlock(block) /\ block # NoBlock /\ DOMAIN block = DOMAIN nodes
      /\ \A i \in DOMAIN nodes : block[i].dest = nodes[i].dest
  <2>1. nodes # <<>> /\ x + RecordTail <= DiskBlock /\ Weighs(nodes, x) /\ x \in Nat
    BY <1>2, <1>3
  <2>2. Recorded(block, nodes)
    BY <1>1, <1>4, <1>5, <2>1, SpilledBlock
  <2> QED
    BY <2>2 DEF Recorded
<1>7. /\ N \in Nat \ {0} /\ DOMAIN nodes = 1..N
      /\ \A i \in 1..N : nodes[i] \in heap /\ nodes[i].index # 0
      /\ \A i, j \in 1..N : i < j => nodes[j] # nodes[i]
  <2>1. nodes \in Seq(heap) /\ nodes # <<>>
    BY <1>2, <1>4 DEF Spillable
  <2>2. N \in Nat \ {0} /\ DOMAIN nodes = 1..N /\ \A i \in 1..N : nodes[i] \in heap
    BY <2>1
  <2> QED
    BY <1>4, <2>2 DEF Spillable
<1>8. mark.len = 0 /\ mark.index = 0 /\ mark.src = b /\ mark.dest = nodes[N].dest
  BY DEF MarkAt, Last
<1> HIDE DEF N, mark, b, vd
<1>9. \A i \in 1..N : nodes[i].dest \in 0..Far - 1 /\ nodes[i].len \in Nat \ {0}
  BY <1>1, <1>7, HeapFacts
<1>10. /\ N \in 1..N /\ astray' \in BOOLEAN /\ (astray => astray')
       /\ astray' \/ \A i \in 1..N : nodes[N].dest <= nodes[i].dest
  <2>1. N \in 1..N
    BY <1>7
  <2>2. Misplaced(nodes) <=> \E i \in 1..N : nodes[i].dest < nodes[N].dest
    BY <1>7 DEF Misplaced, Last, N
  <2>3. Misplaced(nodes) \in BOOLEAN
    BY DEF Misplaced
  <2>4. astray' \in BOOLEAN /\ (astray => astray') /\ (Misplaced(nodes) => astray')
    BY <1>1, <1>2, <2>3
  <2>5. ASSUME ~astray', NEW i \in 1..N PROVE nodes[N].dest <= nodes[i].dest
    <3>1. ~(nodes[i].dest < nodes[N].dest)
      BY <2>2, <2>4, <2>5
    <3>2. nodes[i].dest \in Nat /\ nodes[N].dest \in Nat
      BY <1>9, <2>1
    <3> QED
      BY <3>1, <3>2
  <2> QED
    BY <2>1, <2>4, <2>5
<1>11. ToSet(nodes) = {nodes[i] : i \in 1..N}
  BY <1>7 DEF ToSet
<1>12. IsHeap(heap')
  <2>1. IsFiniteSet(heap')
    <3>1. IsFiniteSet(heap)
      BY <1>1 DEF IsHeap
    <3>2. IsFiniteSet(heap \ ToSet(nodes))
      BY <3>1, FS_Subset
    <3> QED
      BY <1>2, <3>2, FS_AddElement
  <2>2. Barrier \in heap'
    <3>1. Barrier \in heap /\ Barrier.index = 0
      BY <1>1, HeapFacts DEF IsHeap
    <3> QED
      BY <1>2, <1>7, <1>11, <3>1
  <2>3. mark.dest \in 0..Far - 1 /\ mark.len \in Nat
    BY <1>8, <1>9, <1>10
  <2> QED
    BY <1>1, <1>2, <1>8, <2>1, <2>2, <2>3 DEF IsHeap
<1>13. InMem(heap') = all \ {nodes[i] : i \in 1..N}
  BY <1>2, <1>8, <1>11 DEF InMem
<1>14. Stores(mm', InMem(heap')) /\ mm'.used <= mm.used
  <2>1. FreesAll(mm, nodes, N, g)
    BY <1>7, FreesAllExists
  <2>2. \A i \in 1..N : nodes[i] \in all
    BY <1>7 DEF InMem
  <2> HIDE DEF g, all
  <2>4. Stores(g[N], all \ {nodes[i] : i \in 1..N}) /\ g[N].used <= mm.used
    BY <1>1, <1>7, <2>1, <2>2, SpillStores
  <2> QED
    BY <1>2, <1>13, <2>4
<1>15. mm'.used * Room <= Bound
  BY <1>1, <1>14, LessUsed
<1>16. Disk(heap', disk', vacant', astray')
  <2>1. \A n : IsMark(n) /\ n # mark => (n \in heap' <=> n \in heap)
    <3>1. \A i \in 1..N : ~IsMark(nodes[i])
      BY <1>9 DEF IsMark
    <3> QED
      BY <1>2, <1>11, <3>1
  <2>2. IsMark(mark) /\ mark \in heap'
    BY <1>2, <1>8 DEF IsMark
  <2>3. \E i \in DOMAIN block : mark.dest = block[i].dest
    BY <1>6, <1>7, <1>8, <1>10
  <2>4. astray' \/ \A i \in DOMAIN block : mark.dest <= block[i].dest
    BY <1>6, <1>7, <1>8, <1>10
  <2>5. /\ b = (IF vacant = <<>> THEN Len(disk) + 1 ELSE Last(vacant))
        /\ vd = (IF vacant = <<>> THEN vacant ELSE Front(vacant))
    BY DEF b, vd
  <2> DEFINE dl == PutAt(disk, b, block)
  <2>6. dl = PutAt(disk, b, block)
    OBVIOUS
  <2> HIDE DEF dl
  <2>8. /\ Disk(heap, disk, vacant, astray) /\ IsBlock(block) /\ block # NoBlock /\ mark.src = b
    BY <1>1, <1>6, <1>8
  <2>9. astray \in BOOLEAN /\ astray' \in BOOLEAN /\ (astray => astray')
    BY <1>1, <1>10
  <2>7. Written(heap', disk, vacant, b, block, dl, vd, astray')
    BY <2>9, <2>1, <2>2, <2>3, <2>4, <2>5, <2>6, <2>8, WriteBlock
  <2> QED
    BY <1>2, <2>7 DEF Written
<1> QED
  BY <1>10, <1>12, <1>14, <1>15, <1>16 DEF KernelInv, Kernel

\* Where the reader is in its stream.
Where ==
  /\ stream \in Streams /\ done \in Nat
  /\ status = "going" => pc \in {"next", "decode", "stats", "copy", "save"}
  /\ status = "going" /\ pc # "next" => done < Len(stream.blocks)
  /\ status = "going" /\ pc = "save" => todo \subseteq DOMAIN Decoded(stream, done + 1)
  /\ status = "going" /\ pc = "copy" => todo \subseteq DOMAIN Decoded(stream, done + 1)

LEMMA WhereStep == Where /\ [Next]_vars => Where'
<1> SUFFICES ASSUME Where, [Next]_vars PROVE Where'
  OBVIOUS
<1> USE DEF Going, blockVars, kernelVars, Where
<1>1. CASE ReadBlock
  BY <1>1 DEF ReadBlock
<1>2. CASE Decode
  BY <1>2 DEF Decode
<1>3. CASE Deliver
  BY <1>3 DEF Deliver
<1>4. CASE Close \/ Cancel \/ Broken \/ EndOfInput
  BY <1>4 DEF Close, Cancel, Broken, EndOfInput
<1>5. CASE StartBlock /\ ~Broken
  <2>1. /\ Going("stats") /\ pc' = "copy" /\ UNCHANGED <<stream, done, status>>
        /\ todo' = {j \in DOMAIN Decoded(stream, done + 1) : Decoded(stream, done + 1)[j].dest >= Limit}
    BY <1>5 DEF StartBlock
  <2>2. todo' \subseteq DOMAIN Decoded(stream, done + 1)
    BY <2>1
  <2> QED
    BY <2>1, <2>2
<1>6. CASE (Copy \/ MakeRoom \/ BringBack \/ SpillForCopy) /\ ~Broken
  <2>1. UNCHANGED <<stream, done, status, pc, todo>>
    BY <1>6 DEF Copy, MakeRoom, BringBack, SpillForCopy
  <2> QED
    BY <2>1
<1>7. CASE KeepCopy
  <2>1. UNCHANGED <<stream, done, status, pc>> /\ todo' = todo \ {Min(todo)}
    BY <1>7 DEF KeepCopy
  <2> QED
    BY <2>1
<1>8. CASE LastLiterals /\ ~Broken
  <2>1. Going("copy") /\ UNCHANGED <<stream, done, status, todo>> /\ pc' = "save"
    BY <1>8 DEF LastLiterals
  <2> QED
    BY <2>1
<1>9. CASE UNCHANGED vars
  BY <1>9 DEF vars
<1> QED
  BY <1>1, <1>2, <1>3, <1>4, <1>5, <1>6, <1>7, <1>8, <1>9 DEF Next, Read, CloseAgain

\* What is due in this block is not the barrier.
LEMMA WhereFacts ==
  ASSUME Where, status = "going", pc # "next"
  PROVE  /\ Limit < Far /\ Far \in Nat
         /\ \A j \in DOMAIN Decoded(stream, done + 1) : Decoded(stream, done + 1)[j] \in CopyType
         /\ DOMAIN Decoded(stream, done + 1) = 1..Len(Decoded(stream, done + 1))
         /\ Len(Decoded(stream, done + 1)) \in Nat
         /\ Limit \in Nat
<1> DEFINE k == done + 1
<1>1. stream \in Streams /\ done \in Nat /\ done < Len(stream.blocks)
  BY DEF Where
<1>2. k \in 1..Len(stream.blocks)
  <2>1. Len(stream.blocks) \in Nat
    BY <1>1, StreamFacts
  <2> QED
    BY <1>1, <2>1
<1> HIDE DEF k
<1>3. /\ End(stream, k) < Far
      /\ Len(Decoded(stream, k)) \in Nat /\ DOMAIN Decoded(stream, k) = 1..Len(Decoded(stream, k))
      /\ \A j \in DOMAIN Decoded(stream, k) : Decoded(stream, k)[j] \in CopyType
  BY <1>1, <1>2, DecodedFacts
<1>4. End(stream, k) \in Nat
  BY <1>1, <1>2, StartFacts
<1>5. Limit = End(stream, k)
  BY DEF Limit, k
<1> QED
  BY <1>3, <1>4, <1>5, SrepAssumption DEF k

LEMMA KernelParts ==
  ASSUME KernelInv
  PROVE  /\ IsHeap(heap) /\ Stores(mm, InMem(heap)) /\ mm.used * Room <= Bound
         /\ astray \in BOOLEAN /\ Disk(heap, disk, vacant, astray)
BY DEF KernelInv, Kernel

\* block puts copies without bytes on the heap.
LEMMA StartBlockStep ==
  ASSUME Where, KernelInv, StartBlock, ~Broken
  PROVE  KernelInv'
<1> DEFINE copies  == Decoded(stream, done + 1)
           node(c) == [src |-> c.src, dest |-> c.dest, len |-> c.len, index |-> 0]
           new     == {node(c) : c \in {c \in ToSet(copies) : c.dest < Limit}}
           n       == Len(copies)
<1>1. Going("stats") /\ heap' = heap \cup new /\ mm' = mm /\ disk' = disk /\ vacant' = vacant /\ astray' = astray
  BY DEF StartBlock
<1>2. /\ \A j \in DOMAIN copies : copies[j] \in CopyType
      /\ DOMAIN copies = 1..n /\ n \in Nat
  BY <1>1, WhereFacts DEF Going
<1> HIDE DEF copies
<1>3. \A o \in new : o.dest \in 0..Far - 1 /\ o.len \in Nat \ {0} /\ o.index = 0
  <2> SUFFICES ASSUME NEW c \in ToSet(copies)
               PROVE  node(c).dest \in 0..Far - 1 /\ node(c).len \in Nat \ {0} /\ node(c).index = 0
    OBVIOUS
  <2>1. c \in CopyType
    BY <1>2 DEF ToSet
  <2>2. c.dest \in 0..Far - 1 /\ c.len \in Nat \ {0}
    BY <2>1 DEF CopyType
  <2> QED
    BY <2>2
<1>4. IsFiniteSet(new)
  <2> DEFINE all == {node(c) : c \in ToSet(copies)}
             f == [j \in 1..n |-> node(copies[j])]
  <2>1. ToSet(copies) = {copies[j] : j \in 1..n}
    BY <1>2 DEF ToSet
  <2>2. all = {f[j] : j \in 1..n}
    BY <2>1
  <2>3. f = [j \in 1..n |-> f[j]]
    OBVIOUS
  <2>4. new \subseteq all
    OBVIOUS
  <2> HIDE DEF f, all
  <2>5. f \in Surjection(1..n, all)
    BY <2>2, <2>3 DEF Surjection
  <2>6. IsFiniteSet(1..n)
    BY <1>2, FS_Interval
  <2>7. IsFiniteSet(all)
    BY <2>5, <2>6, FS_Surjection
  <2> HIDE DEF new
  <2> QED
    BY <2>4, <2>7, FS_Subset
<1> HIDE DEF new, n
<1>5. IsHeap(heap')
  <2>1. IsHeap(heap)
    BY KernelParts
  <2>2. IsFiniteSet(heap')
    <3>1. IsFiniteSet(heap)
      BY <2>1 DEF IsHeap
    <3> QED
      BY <1>1, <1>4, <3>1, FS_Union
  <2> QED
    BY <1>1, <1>3, <2>1, <2>2 DEF IsHeap
<1>6. InMem(heap') = InMem(heap)
  BY <1>1, <1>3 DEF InMem
<1>7. Disk(heap', disk, vacant, astray)
  <2>1. \A o : IsMark(o) => (o \in heap' <=> o \in heap)
    BY <1>1, <1>3 DEF IsMark
  <2> QED
    BY <2>1, KernelParts, SameMarks
<1> QED
  BY <1>1, <1>5, <1>6, <1>7, KernelParts DEF KernelInv, Kernel

\* A copy that is due leaves the heap, and its bytes leave memory.
LEMMA CopyStep ==
  ASSUME Where, KernelInv, Copy, ~Broken
  PROVE  KernelInv'
<1> DEFINE n == First(heap)
<1>1. /\ Going("copy") /\ n.dest < Limit /\ ~IsMark(n)
      /\ mm' = Free(mm, n.index) /\ heap' = heap \ {n} /\ disk' = disk /\ vacant' = vacant /\ astray' = astray
  BY DEF Copy
<1>2. IsHeap(heap) /\ Stores(mm, InMem(heap)) /\ mm.used * Room <= Bound
  BY KernelParts
<1>3. n \in heap
  BY <1>2, FirstFacts
<1>4. n # Barrier
  <2>1. Limit < Far /\ Limit \in Nat /\ Far \in Nat
    BY <1>1, WhereFacts DEF Going
  <2>2. Barrier.dest = Far
    BY DEF Barrier
  <2> HIDE DEF n
  <2> QED
    BY <1>1, <2>1, <2>2
<1> HIDE DEF n
<1>5. IsHeap(heap')
  <2>1. IsFiniteSet(heap \ {n})
    BY <1>2, FS_RemoveElement DEF IsHeap
  <2> QED
    BY <1>1, <1>2, <1>4, <2>1 DEF IsHeap
<1>6. InMem(heap') = InMem(heap) \ {n}
  BY <1>1 DEF InMem
<1>7. Stores(mm', InMem(heap')) /\ mm'.used <= mm.used
  <2>1. CASE n.index = 0
    <3>1. InMem(heap') = InMem(heap)
      BY <1>6, <2>1 DEF InMem
    <3>2. IsMemory(mm) /\ mm.used \in Nat
      BY <1>2, StoresFacts
    <3>3. mm' = mm
      BY <1>1, <2>1, <3>2, FreeNone
    <3> QED
      BY <1>2, <3>1, <3>2, <3>3
  <2>2. CASE n.index # 0
    <3>1. n \in InMem(heap)
      BY <1>3, <2>2 DEF InMem
    <3>2. Stores(mm', InMem(heap) \ {n}) /\ mm'.used <= mm.used
      BY <1>1, <1>2, <3>1, StoresLess
    <3> QED
      BY <1>6, <3>2
  <2> QED
    BY <2>1, <2>2
<1>8. mm'.used * Room <= Bound
  BY <1>2, <1>7, LessUsed
<1>9. Disk(heap', disk, vacant, astray)
  <2>1. \A o : IsMark(o) => (o \in heap' <=> o \in heap)
    BY <1>1
  <2> QED
    BY <2>1, KernelParts, SameMarks
<1> QED
  BY <1>1, <1>5, <1>7, <1>8, <1>9 DEF KernelInv, Kernel

\* A block comes back from the disk.
LEMMA BringBackStep ==
  ASSUME Where, KernelInv, BringBack
  PROVE  KernelInv'
<1> DEFINE mark  == First(heap)
           block == disk[mark.src]
           N     == Len(block)
           g     == CHOOSE g : Loads(mm, block, N, g)
           all   == InMem(heap)
<1>1. /\ Going("copy") /\ mark.dest < Limit /\ IsMark(mark) /\ Available(mm) >= DiskBlock
      /\ heap' = (heap \ {mark}) \cup g[N].nodes
      /\ mm' = g[N].mem
      /\ disk' = [disk EXCEPT ![mark.src] = NoBlock]
      /\ vacant' = Append(vacant, mark.src) /\ astray' = astray
  BY DEF BringBack, Unspill, Loaded, Loads
<1>2. IsHeap(heap) /\ Stores(mm, all) /\ Disk(heap, disk, vacant, astray)
  BY KernelParts
<1>3. mark \in heap
  BY <1>2, FirstFacts
<1>4. mark # Barrier
  <2>1. Limit < Far /\ Limit \in Nat /\ Far \in Nat
    BY <1>1, WhereFacts DEF Going
  <2>2. Barrier.dest = Far
    BY DEF Barrier
  <2> HIDE DEF mark
  <2> QED
    BY <1>1, <2>1, <2>2
<1> HIDE DEF mark, g
<1>5. mark.len = 0 /\ mark.index = 0
  BY <1>1, <1>2, <1>3, <1>4 DEF IsMark, IsHeap
<1>6. IsBlock(block) /\ block # NoBlock
  BY <1>1, <1>2, <1>3, <1>4 DEF Disk
<1> HIDE DEF block
<1>7. /\ N \in Nat \ {0} /\ DOMAIN block = 1..N /\ \A i \in 1..N : IsRecord(block[i])
  BY <1>6 DEF IsBlock
<1>8. PICK x \in Nat : Weighs(block, x) /\ x + RecordTail <= DiskBlock
  BY <1>6 DEF IsBlock
<1>9. Loads(mm, block, N, g)
  BY <1>7, LoadsExists DEF g
<1> DEFINE load == g[N]
<1>10. Loading(mm, all, load, N, x)
  <2>1. N = Len(block) /\ N \in Nat
    BY <1>7
  <2> HIDE DEF N, all
  <2> QED
    BY <1>2, <1>7, <1>8, <1>9, <2>1, LoadAll
<1> HIDE DEF N, load
<1>11. /\ heap' = (heap \ {mark}) \cup load.nodes /\ mm' = load.mem
  BY <1>1 DEF load
<1>12. /\ Stores(load.mem, all \cup load.nodes)
       /\ IsFiniteSet(load.nodes) /\ \A n \in load.nodes : IsKept(n)
  BY <1>10 DEF Loading
<1>13. \A n \in load.nodes : n.dest \in 0..Far - 1 /\ n.len \in Nat \ {0} /\ n.index # 0
  BY <1>12 DEF IsKept
<1>14. IsHeap(heap')
  <2>1. IsFiniteSet(heap')
    <3>1. IsFiniteSet(heap \ {mark})
      BY <1>2, FS_RemoveElement DEF IsHeap
    <3> QED
      BY <1>11, <1>12, <3>1, FS_Union
  <2> QED
    BY <1>2, <1>4, <1>11, <1>13, <2>1 DEF IsHeap
<1>15. InMem(heap') = all \cup load.nodes
  BY <1>5, <1>11, <1>13 DEF InMem
<1>16. mm'.used * Room <= Bound
  <2>1. mm.used \in Nat
    BY <1>2, StoresFacts
  <2> HIDE DEF all
  <2>2. load.mem.used * Room <= Bound
    BY <1>1, <1>7, <1>8, <1>10, <2>1, LoadBounded
  <2> QED
    BY <1>11, <2>2
<1>17. Disk(heap', disk', vacant', astray')
  <2>1. mark \notin heap'
    BY <1>5, <1>11, <1>13
  <2>2. \A n : IsMark(n) /\ n # mark => (n \in heap' <=> n \in heap)
    BY <1>11, <1>13 DEF IsMark
  <2>3. Disk(heap', [disk EXCEPT ![mark.src] = NoBlock], Append(vacant, mark.src), astray)
    BY <1>1, <1>2, <1>3, <1>4, <2>1, <2>2, ClearBlock
  <2> QED
    BY <1>1, <2>3
<1> QED
  BY <1>1, <1>11, <1>12, <1>14, <1>15, <1>16, <1>17, KernelParts DEF KernelInv, Kernel

\* A copy into a later block is kept, with its bytes.
LEMMA KeepCopyStep ==
  ASSUME Where, KernelInv, KeepCopy
  PROVE  KernelInv'
<1> DEFINE c    == ToSave
           from == c.src - Start(stream, done + 1)
           p    == [i \in 1..c.len |-> cur[from + i]]
           s    == Save(mm, p)
           n    == [src |-> c.src, dest |-> c.dest, len |-> c.len, index |-> s.index]
           all  == InMem(heap)
<1>1. /\ Going("save") /\ todo # {} /\ c.len <= Available(mm)
      /\ mm' = s.mem /\ heap' = heap \cup {n} /\ disk' = disk /\ vacant' = vacant /\ astray' = astray
  BY DEF KeepCopy
<1>2. IsHeap(heap) /\ Stores(mm, all) /\ Disk(heap, disk, vacant, astray)
  BY KernelParts
<1>3. c.dest \in 0..Far - 1 /\ c.len \in Nat \ {0}
  <2> DEFINE copies == Decoded(stream, done + 1)
  <2>1. /\ \A j \in DOMAIN copies : copies[j] \in CopyType
        /\ DOMAIN copies = 1..Len(copies) /\ Len(copies) \in Nat
    BY <1>1, WhereFacts DEF Going
  <2>2. todo \subseteq DOMAIN copies
    BY <1>1 DEF Where, Going
  <2>3. c = copies[Min(todo)]
    BY DEF ToSave
  <2> HIDE DEF copies
  <2>4. todo \subseteq Nat
    BY <2>1, <2>2
  <2>5. Min(todo) \in todo
    BY <1>1, <2>4, MinFacts
  <2>6. c \in CopyType
    BY <2>1, <2>2, <2>3, <2>5
  <2> QED
    BY <2>6 DEF CopyType
<1>4. Len(p) = c.len
  <2>1. p = [i \in 1..c.len |-> p[i]]
    OBVIOUS
  <2> HIDE DEF p
  <2> QED
    BY <1>3, <2>1, LenOf
<1>5. n.len = c.len /\ n.dest = c.dest /\ n.index = s.index
  OBVIOUS
<1>6. s = Save(mm, p)
  OBVIOUS
<1> HIDE DEF c, p, s, n, all
<1>7. StoredAs(mm, all, s, n)
  BY <1>2, <1>3, <1>4, <1>5, <1>6, StoresMore
<1>8. /\ Stores(s.mem, all \cup {n}) /\ s.mem.used = mm.used + Chunks(c.len) /\ n.index # 0
  BY <1>5, <1>7 DEF StoredAs
<1>9. IsHeap(heap')
  <2>1. IsFiniteSet(heap \cup {n})
    BY <1>2, FS_AddElement DEF IsHeap
  <2> QED
    BY <1>1, <1>2, <1>3, <1>5, <2>1 DEF IsHeap
<1>10. InMem(heap') = all \cup {n}
  BY <1>1, <1>8 DEF InMem, all
<1>11. Disk(heap', disk, vacant, astray)
  <2>1. \A o : IsMark(o) => (o \in heap' <=> o \in heap)
    BY <1>1, <1>3, <1>5 DEF IsMark
  <2> QED
    BY <1>2, <2>1, SameMarks
<1>12. mm'.used * Room <= Bound
  <2> DEFINE u == mm.used
             k == Chunks(c.len)
             d == DiskBlock \div (RecordHead + 1)
             e == d * Extra
  <2>1. u \in Nat
    BY <1>2, StoresFacts
  <2>2. u * Room + c.len <= Useful
    BY <1>1, <1>3, <2>1, AvailableFacts
  <2>3. k \in Nat /\ k * Room \in Nat /\ k * Room <= c.len + Room - 1
    BY <1>3, ChunksFacts
  <2>4. Room \in Nat \ {0} /\ Useful \in Nat /\ Extra \in Nat
    BY SrepAssumption DEF Extra
  <2>5. d \in Nat
    BY SrepAssumption, DivFacts
  <2> HIDE DEF d
  <2>6. e \in Nat
    BY <2>4, <2>5
  <2>7. mm'.used = u + k
    BY <1>1, <1>8
  <2> HIDE DEF u, k
  <2>8. (u + k) * Room = u * Room + k * Room /\ u * Room \in Nat
    BY <2>1, <2>3, <2>4
  <2> DEFINE a == u * Room
             b == k * Room
  <2> HIDE DEF a, b, e
  <2>9. a + b <= Useful + Room - 1 + e
    <3>1. a \in Nat /\ b \in Nat /\ a + c.len <= Useful /\ b <= c.len + Room - 1
      BY <2>2, <2>3, <2>8 DEF a, b
    <3> QED
      BY <1>3, <2>4, <2>6, <3>1
  <2> QED
    BY <2>7, <2>8, <2>9 DEF a, b, Bound, d, e
<1> QED
  BY <1>1, <1>8, <1>9, <1>10, <1>11, <1>12 DEF KernelInv, Kernel

LEMMA KernelStep == Where /\ KernelInv /\ [Next]_vars => KernelInv'
<1> SUFFICES ASSUME Where, KernelInv, [Next]_vars PROVE KernelInv'
  OBVIOUS
<1>1. ASSUME UNCHANGED kernelVars PROVE KernelInv'
  BY <1>1 DEF kernelVars, KernelInv
<1>2. CASE StartBlock /\ ~Broken
  BY <1>2, StartBlockStep
<1>3. CASE Copy /\ ~Broken
  BY <1>3, CopyStep
<1>4. CASE (MakeRoom \/ SpillForCopy) /\ ~Broken
  <2>1. Spill
    BY <1>4 DEF MakeRoom, SpillForCopy
  <2> QED
    BY <2>1, SpillStep
<1>5. CASE BringBack
  BY <1>5, BringBackStep
<1>6. CASE KeepCopy
  BY <1>6, KeepCopyStep
<1>7. CASE Broken \/ EndOfInput \/ ReadBlock \/ Decode \/ Deliver \/ Cancel \/ Close \/ UNCHANGED vars
  <2>1. UNCHANGED kernelVars
    BY <1>7 DEF Broken, EndOfInput, ReadBlock, Decode, Deliver, Cancel, Close, vars, kernelVars
  <2> QED
    BY <1>1, <2>1
<1>8. CASE LastLiterals /\ ~Broken
  <2>1. UNCHANGED kernelVars
    BY <1>8 DEF LastLiterals, kernelVars
  <2> QED
    BY <1>1, <2>1
<1> QED
  BY <1>2, <1>3, <1>4, <1>5, <1>6, <1>7, <1>8 DEF Next, Read, CloseAgain

-----------------------------------------------------------------------------
LEMMA KernelInit == Init => Where /\ KernelInv
<1> SUFFICES ASSUME Init PROVE Where /\ KernelInv
  OBVIOUS
<1>1. /\ stream \in Streams /\ done = 0 /\ status = "going" /\ pc = "next"
      /\ heap = {Barrier} /\ mm = EmptyMemory /\ disk = <<>> /\ vacant = <<>>
      /\ astray = FALSE
  BY DEF Init
<1>2. Where
  BY <1>1 DEF Where
<1>3. IsHeap(heap)
  BY <1>1, FS_Singleton DEF IsHeap
<1>4. Barrier.index = 0
  BY DEF Barrier
<1>5. InMem(heap) = {}
  BY <1>1, <1>4 DEF InMem
<1>6. Sound(mm, {})
  <2> DEFINE q == [j \in 1..0 |-> 0]
  <2>1. mm = [first |-> 0, link |-> <<>>, data |-> <<>>, used |-> 0]
    BY <1>1 DEF EmptyMemory
  <2>2. IsMemory(mm) /\ mm.first = 0 /\ mm.used = 0 /\ Len(mm.link) = 0 /\ DOMAIN mm.link = {}
    BY <2>1 DEF IsMemory
  <2>3. Leads(mm, 0, q, 0)
    <3>1. \A j \in 1..0 : FALSE
      OBVIOUS
    <3> QED
      BY <3>1 DEF Leads, Path, Linked
  <2>4. Proper(mm, 0) /\ Len(Chain(mm, 0)) = 0 /\ Cells(mm, 0) \subseteq DOMAIN mm.link
    BY <2>2, <2>3, ProperIs
  <2>5. UNION {Cells(mm, c) : c \in {}} = {}
    OBVIOUS
  <2> QED
    BY <2>2, <2>4, <2>5 DEF Sound
<1>7. Stores(mm, InMem(heap))
  <2>1. IndicesOf({}) = {}
    BY DEF IndicesOf
  <2> QED
    BY <1>5, <1>6, <2>1 DEF Stores
<1>8. mm.used * Room <= Bound
  <2>1. mm.used = 0
    BY <1>1 DEF EmptyMemory
  <2>2. /\ Room \in Nat \ {0} /\ Useful \in Nat /\ Extra \in Nat /\ DiskBlock \in Nat
        /\ RecordHead + 1 \in Nat \ {0}
    BY SrepAssumption DEF Extra
  <2> DEFINE d == DiskBlock \div (RecordHead + 1)
             e == d * Extra
  <2>3. d \in Nat
    BY <2>2, DivFacts
  <2> HIDE DEF d
  <2>4. e \in Nat
    BY <2>2, <2>3
  <2> HIDE DEF e
  <2>5. 0 * Room <= Useful + Room - 1 + e
    BY <2>2, <2>4
  <2> QED
    BY <2>1, <2>5 DEF Bound, d, e
<1>9. Disk(heap, disk, vacant, astray)
  <2>1. disk \in Seq({}) /\ vacant \in Seq(Nat) /\ DOMAIN disk = {} /\ DOMAIN vacant = {}
    BY <1>1
  <2>2. IsInjective(vacant) /\ ToSet(vacant) = {}
    BY <2>1 DEF IsInjective, ToSet
  <2>3. \A n \in heap : n = Barrier
    BY <1>1
  <2> QED
    BY <2>1, <2>2, <2>3 DEF Disk
<1> QED
  BY <1>1, <1>2, <1>3, <1>7, <1>8, <1>9 DEF KernelInv, Kernel

\* The memory is sound in every reachable state.
LEMMA KernelSafe == Spec => [](Where /\ KernelInv)
  BY KernelInit, WhereStep, KernelStep, PTL DEF Spec

\* However copies are kept, come due, are spilled and come back: no chunk of
\* the memory is lost, in two chains, or in a chain and on the free list, and
\* each copy has as many as its bytes need.
THEOREM ChunksSafe == Spec => []ChunksConserved
<1>1. KernelInv => ChunksConserved
  <2> SUFFICES ASSUME KernelInv PROVE ChunksConserved
    OBVIOUS
  <2> DEFINE I == IndicesOf(InMem(heap))
             F == Chain(mm, mm.first)
  <2>1. Stores(mm, InMem(heap)) /\ InMemory = InMem(heap)
    BY KernelParts DEF InMemory, InMem
  <2>2. /\ Sound(mm, I) /\ \A n, o \in InMemory : n # o => n.index # o.index
        /\ \A n \in InMemory : Len(Chain(mm, n.index)) = Chunks(n.len)
    BY <2>1 DEF Stores
  <2>3. /\ mm.used = Len(mm.link) - Len(F)
        /\ \A c \in I : Cells(mm, c) \cap Cells(mm, mm.first) = {}
        /\ \A c, d \in I : c # d => Cells(mm, c) \cap Cells(mm, d) = {}
        /\ (UNION {Cells(mm, c) : c \in I}) \cup Cells(mm, mm.first) = DOMAIN mm.link
    BY <2>2 DEF Sound
  <2>4. ToSet(FreeChunks) = Cells(mm, mm.first) /\ Len(FreeChunks) = Len(F)
    <3>1. CASE mm.first # 0
      BY <3>1 DEF FreeChunks, Cells
    <3>2. CASE mm.first = 0
      <4>1. Leads(mm, 0, F, Len(F)) /\ IsMemory(mm)
        BY <2>2, <3>2 DEF Sound, Proper
      <4>2. Len(F) \in Nat /\ Cells(mm, 0) = On(F, Len(F)) /\ Cells(mm, 0) \subseteq DOMAIN mm.link
        BY <4>1, ProperIs
      <4>3. Len(F) = 0
        <5>1. ASSUME Len(F) # 0 PROVE FALSE
          <6>1. F[1] \in DOMAIN mm.link /\ F[1] = 0
            BY <4>1, <4>2, <5>1 DEF Leads, Path, Linked
          <6>2. DOMAIN mm.link = 1..Len(mm.link)
            BY <4>1 DEF IsMemory
          <6> QED
            BY <6>1, <6>2
        <5> QED
          BY <5>1
      <4>4. Cells(mm, 0) = {}
        BY <4>2, <4>3 DEF On
      <4>5. FreeChunks = <<>> /\ ToSet(<<>>) = {} /\ Len(<<>>) = 0
        BY <3>2 DEF FreeChunks, ToSet
      <4> QED
        BY <3>2, <4>3, <4>4, <4>5
    <3> QED
      BY <3>1, <3>2
  <2>5. \A n \in InMemory : n.index \in I
    BY <2>1 DEF IndicesOf
  <2>6. \A n : ToSet(Chain(mm, n.index)) = Cells(mm, n.index)
    BY DEF Cells
  <2>7. {ToSet(Chain(mm, n.index)) : n \in InMemory} = {Cells(mm, c) : c \in I}
    BY <2>1, <2>6 DEF IndicesOf
  <2> HIDE DEF I, F
  <2>8. UNION ({ToSet(Chain(mm, n.index)) : n \in InMemory} \cup {ToSet(FreeChunks)}) = DOMAIN mm.link
    BY <2>3, <2>4, <2>7
  <2>9. \A m, n \in InMemory :
          m # n => ToSet(Chain(mm, m.index)) \cap ToSet(Chain(mm, n.index)) = {}
    BY <2>2, <2>3, <2>5, <2>6
  <2>10. \A n \in InMemory : /\ Len(Chain(mm, n.index)) = Chunks(n.len)
                             /\ ToSet(Chain(mm, n.index)) \cap ToSet(FreeChunks) = {}
    BY <2>2, <2>3, <2>4, <2>5, <2>6
  <2>11. mm.used = Len(mm.link) - Len(FreeChunks)
    BY <2>3, <2>4
  <2> QED
    BY <2>8, <2>9, <2>10, <2>11 DEF ChunksConserved
<1> QED
  BY <1>1, KernelSafe, PTL

\* Memory stays at its limit, but for the last chunk of one copy and what the
\* copies of one block take over and above their place on the disk.
THEOREM MemoryLimited == Spec => []MemoryBounded
<1>1. KernelInv => MemoryBounded
  BY KernelParts DEF MemoryBounded, Bound, Extra
<1> QED
  BY <1>1, KernelSafe, PTL

\* Each block on the disk has one mark in the heap, at the destination of a
\* copy in it: of the one due first of those, unless a loop of virtMem.save that
\* started over has led astray; and no number of a block in use is given out
\* again.
THEOREM MarksSafe == Spec => []OneMarkPerBlock
<1>1. KernelInv => OneMarkPerBlock
  <2> SUFFICES ASSUME KernelInv, NEW b \in DOMAIN disk
               PROVE  LET marks == {n \in heap : IsMark(n) /\ n.src = b}
                          dests == {disk[b][i].dest : i \in DOMAIN disk[b]}
                      IN IF disk[b] = NoBlock
                         THEN marks = {} /\ b \in ToSet(vacant)
                         ELSE /\ b \notin ToSet(vacant) /\ Cardinality(marks) = 1
                              /\ \A n \in marks : n.dest \in dests /\ (astray \/ n.dest = Min(dests))
    BY DEF OneMarkPerBlock
  <2> DEFINE marks == MarksOf(heap, b)
             block == disk[b]
             dests == {block[i].dest : i \in DOMAIN block}
  <2>1. marks = {n \in heap : IsMark(n) /\ n.src = b}
    BY DEF MarksOf
  <2>2. /\ ToSet(vacant) = {c \in DOMAIN disk : disk[c] = NoBlock}
        /\ IsBlock(block) /\ Marked(marks, block, astray) /\ astray \in BOOLEAN
    BY KernelParts DEF Disk
  <2> HIDE DEF marks, block
  <2>3. CASE block = NoBlock
    BY <2>1, <2>2, <2>3 DEF Marked, block
  <2>4. CASE block # NoBlock
    <3>1. PICK n : /\ marks = {n}
                   /\ \E i \in DOMAIN block : n.dest = block[i].dest
                   /\ astray \/ \A i \in DOMAIN block : n.dest <= block[i].dest
      BY <2>2, <2>4 DEF Marked
    <3>2. dests \subseteq Nat
      BY <2>2 DEF IsBlock, IsRecord
    <3>3. n.dest \in dests /\ (astray \/ \A d \in dests : n.dest <= d)
      BY <3>1
    <3> HIDE DEF dests
    <3>4. Min(dests) \in dests /\ \A d \in dests : Min(dests) <= d
      BY <3>2, <3>3, MinFacts
    <3>5. ASSUME ~astray PROVE n.dest = Min(dests)
      <4> DEFINE x == Min(dests)
                 y == n.dest
      <4>1. x \in Nat /\ y \in Nat /\ x <= y /\ y <= x
        BY <3>2, <3>3, <3>4, <3>5
      <4> HIDE DEF x, y
      <4>2. x = y
        BY <4>1
      <4> QED
        BY <4>2 DEF x, y
    <3>6. \A o \in marks : o.dest \in dests /\ (astray \/ o.dest = Min(dests))
      BY <3>1, <3>3, <3>5
    <3>7. Cardinality(marks) = 1
      BY <3>1, FS_Singleton
    <3>8. b \notin ToSet(vacant)
      BY <2>2, <2>4 DEF block
    <3> QED
      BY <2>1, <2>4, <3>6, <3>7, <3>8 DEF block, dests
  <2> QED
    BY <2>3, <2>4
<1> QED
  BY <1>1, KernelSafe, PTL

\* The copies nodes without the first N of q.
Without(nodes, q, N) == nodes \ {q[i] : i \in 1..N}

\* Spilling leaves the bytes of the copies that stay.
LEMMA SpillBytes ==
  ASSUME NEW m, NEW nodes, Stores(m, nodes), NEW q, NEW N \in Nat,
         \A i \in 1..N : q[i] \in nodes,
         \A i, j \in 1..N : i < j => q[j] # q[i],
         NEW g, FreesAll(m, q, N, g)
  PROVE  SameBytes(m, g[N], Without(nodes, q, N))
<1> DEFINE left(i) == nodes \ {q[j] : j \in 1..i}
           S == {i \in Nat : i <= N => SameBytes(m, g[i], left(i))}
<1>1. \A i \in 0..N : g[i] = IF i = 0 THEN m ELSE Free(g[i - 1], q[i].index)
  BY DEF FreesAll
<1>2. \A i \in 0..N : Stores(g[i], left(i))
  <2>1. SpillsEach(m, nodes, q, N, g)
    BY SpillEach
  <2> QED
    BY <2>1 DEF SpillsEach
<1>3. 0 \in S
  <2>1. g[0] = m
    BY <1>1
  <2> HIDE DEF left
  <2>2. SameBytes(m, g[0], left(0))
    BY <2>1 DEF SameBytes
  <2> QED
    BY <2>2
<1>4. ASSUME NEW i \in Nat, i \in S
      PROVE  i + 1 \in S
  <2> SUFFICES ASSUME i + 1 <= N PROVE SameBytes(m, g[i + 1], left(i + 1))
    OBVIOUS
  <2>1. i + 1 \in 0..N /\ i + 1 \in 1..N /\ i + 1 # 0 /\ (i + 1) - 1 = i /\ i <= N /\ i \in 0..N
    OBVIOUS
  <2>2. g[i + 1] = Free(g[i], q[i + 1].index)
    BY <1>1, <2>1
  <2>3. q[i + 1] \in left(i)
    <3>1. \A j \in 1..i : j \in 1..N /\ j < i + 1
      BY <2>1
    <3> QED
      BY <2>1, <3>1
  <2>4. left(i + 1) = left(i) \ {q[i + 1]}
    <3>1. 1..i + 1 = (1..i) \cup {i + 1}
      OBVIOUS
    <3> QED
      BY <3>1
  <2>5. SameBytes(m, g[i], left(i))
    BY <1>4, <2>1
  <2>6. Stores(g[i], left(i))
    BY <1>2, <2>1
  <2> HIDE DEF left
  <2>7. SameBytes(g[i], g[i + 1], left(i) \ {q[i + 1]})
    BY <2>2, <2>3, <2>6, LessBytes
  <2> QED
    BY <2>4, <2>5, <2>7 DEF SameBytes
<1>5. Nat \subseteq S
  <2> HIDE DEF S
  <2> QED
    BY <1>3, <1>4, SetInduction
<1>6. N \in S /\ N <= N
  <2> HIDE DEF S
  <2> QED
    BY <1>5
<1> QED
  BY <1>6 DEF Without

\* A record on the disk, with its bytes.
IsWhole(r) ==
  /\ r = [src |-> r.src, dest |-> r.dest, len |-> r.len, data |-> r.data]
  /\ IsBytes(r.data, r.len)

\* A copy in memory as it would be on the disk.
Item(n, m) ==
  [src |-> n.src, dest |-> n.dest, len |-> n.len, data |-> Stored(m, n.index, n.len)]

\* The nodes of the first i records that are loaded.
Brings(block, load, i) ==
  \E f : /\ load.nodes = {f[j] : j \in 1..i}
         /\ \A j \in 1..i : Item(f[j], load.mem) = block[j]

\* Loading brings the bytes of each record back and leaves those in memory.
LEMMA LoadBytes ==
  ASSUME NEW m, NEW nodes, Stores(m, nodes), Filled(m), NEW block, NEW N \in Nat, N = Len(block),
         \A i \in 1..N : IsRecord(block[i]) /\ IsWhole(block[i]), NEW x, Weighs(block, x),
         NEW g, Loads(m, block, N, g)
  PROVE  SameBytes(m, g[N].mem, nodes) /\ Brings(block, g[N], N)
<1> DEFINE Given(i) == SameBytes(m, g[i].mem, nodes) /\ Brings(block, g[i], i)
           S == {i \in Nat : i <= N => Given(i)}
<1>1. \A i \in 0..N : g[i] = IF i = 0 THEN [mem |-> m, nodes |-> {}] ELSE Load(g[i - 1], block[i])
  BY DEF Loads
<1>2. \A i \in 0..N : Stores(g[i].mem, nodes \cup g[i].nodes)
  BY LoadAll
<1>3. 0 \in S
  <2>1. g[0] = [mem |-> m, nodes |-> {}]
    <3>1. 0 \in 0..N
      OBVIOUS
    <3> HIDE DEF S
    <3> QED
      BY <1>1, <3>1
  <2>2. SameBytes(m, g[0].mem, nodes)
    BY <2>1 DEF SameBytes
  <2>3. Brings(block, g[0], 0)
    BY <2>1 DEF Brings
  <2> QED
    BY <2>2, <2>3
<1>4. ASSUME NEW i \in Nat, i \in S
      PROVE  i + 1 \in S
  <2> SUFFICES ASSUME i + 1 <= N PROVE Given(i + 1)
    OBVIOUS
  <2> DEFINE r == block[i + 1]
             mem == g[i].mem
             s == Save(mem, r.data)
             n == [src |-> r.src, dest |-> r.dest, len |-> r.len, index |-> s.index]
             all == nodes \cup g[i].nodes
  <2>1. i + 1 \in 0..N /\ i + 1 \in 1..N /\ i + 1 # 0 /\ (i + 1) - 1 = i /\ i <= N /\ i \in 0..N
    OBVIOUS
  <2>2. g[i + 1] = Load(g[i], r)
    BY <1>1, <2>1
  <2>3. g[i + 1].mem = s.mem /\ g[i + 1].nodes = g[i].nodes \cup {n}
    BY <2>2 DEF Load
  <2>4. IsRecord(r) /\ IsWhole(r)
    BY <2>1
  <2>5. SameBytes(m, mem, nodes) /\ Brings(block, g[i], i)
    BY <1>4, <2>1
  <2>6. Stores(mem, all)
    BY <1>2, <2>1
  <2>7. n.index = s.index /\ n.len = r.len /\ n.src = r.src /\ n.dest = r.dest /\ s = Save(mem, r.data)
    OBVIOUS
  <2> HIDE DEF s, n, all, r
  <2>8. /\ SameBytes(mem, s.mem, all)
        /\ Filled(mem) => Stored(s.mem, s.index, r.len) = r.data
    <3> DEFINE p == r.data
    <3>1. r.len \in Nat \ {0} /\ IsBytes(p, r.len) /\ s = Save(mem, p)
      BY <2>4, <2>7 DEF IsRecord, IsWhole
    <3> HIDE DEF p, mem
    <3>2. SameBytes(mem, s.mem, all) /\ (Filled(mem) => Stored(s.mem, s.index, r.len) = p)
      BY <2>6, <3>1, MoreBytes
    <3> QED
      BY <3>2 DEF p
  <2> HIDE DEF mem
  <2>9. Filled(mem) /\ nodes \subseteq all /\ g[i].nodes \subseteq all
    BY <2>5 DEF SameBytes, all
  <2>10. SameBytes(m, s.mem, nodes)
    BY <2>5, <2>8, <2>9 DEF SameBytes
  <2>11. Item(n, s.mem) = r
    BY <2>4, <2>7, <2>8, <2>9 DEF Item, IsWhole
  <2>12. \A o \in g[i].nodes : Item(o, s.mem) = Item(o, mem)
    BY <2>8, <2>9 DEF SameBytes, Item
  <2>13. PICK f : /\ g[i].nodes = {f[j] : j \in 1..i}
                  /\ \A j \in 1..i : Item(f[j], mem) = block[j]
    BY <2>5 DEF Brings, mem
  <2> DEFINE h == [j \in 1..i + 1 |-> IF j = i + 1 THEN n ELSE f[j]]
  <2>14. h[i + 1] = n /\ \A j \in 1..i : h[j] = f[j]
    OBVIOUS
  <2>15. 1..i + 1 = (1..i) \cup {i + 1}
    OBVIOUS
  <2> HIDE DEF h
  <2>16. g[i + 1].nodes = {h[j] : j \in 1..i + 1}
    BY <2>3, <2>13, <2>14, <2>15
  <2>17. \A j \in 1..i + 1 : Item(h[j], s.mem) = block[j]
    <3>1. \A j \in 1..i : f[j] \in g[i].nodes
      BY <2>13
    <3> QED
      BY <2>11, <2>12, <2>13, <2>14, <2>15, <3>1 DEF r
  <2>18. Brings(block, g[i + 1], i + 1)
    BY <2>3, <2>16, <2>17 DEF Brings
  <2> QED
    BY <2>3, <2>10, <2>18
<1>5. Nat \subseteq S
  <2> HIDE DEF S
  <2> QED
    BY <1>3, <1>4, SetInduction
<1>6. N \in S /\ N <= N
  <2> HIDE DEF S
  <2> QED
    BY <1>5
<1> QED
  BY <1>6

-----------------------------------------------------------------------------
(* The copies to come, wherever they are kept.                             *)

\* Those in the heap, and those of them without bytes.
Copying(hp) == {n \in hp : n # Barrier /\ ~IsMark(n)}
Inside(hp)  == {n \in Copying(hp) : n.index = 0}

Records(dk) == UNION {{dk[b][i] : i \in DOMAIN dk[b]} : b \in DOMAIN dk}

\* The copies kept with their bytes.
Items(hp, m, dk) == {Item(n, m) : n \in InMem(hp)} \cup Records(dk)

\* No two copies have the same destination.
Once(hp, dk) ==
  /\ \A m, n \in Copying(hp) : m.dest = n.dest => m = n
  /\ \A n \in Copying(hp) : \A b \in DOMAIN dk : \A i \in DOMAIN dk[b] : n.dest # dk[b][i].dest
  /\ \A b, c \in DOMAIN dk : \A i \in DOMAIN dk[b], j \in DOMAIN dk[c] :
       dk[b][i].dest = dk[c][j].dest => b = c /\ i = j

Whole(dk) == \A b \in DOMAIN dk : \A i \in DOMAIN dk[b] : IsWhole(dk[b][i])

DataInv == Filled(mm) /\ Once(heap, disk) /\ Whole(disk)

\* The copies in the heap are marks, the barrier, and copies with and without
\* bytes.
LEMMA CopyingFacts ==
  ASSUME NEW hp, IsHeap(hp)
  PROVE  /\ Copying(hp) = InMem(hp) \cup Inside(hp)
         /\ \A n \in InMem(hp) : n \in hp /\ n \in Copying(hp) /\ n.index # 0 /\ ~IsMark(n)
         /\ \A n \in Copying(hp) : n.dest \in 0..Far - 1 /\ n.len \in Nat \ {0}
<1>1. \A n \in InMem(hp) : n \in hp /\ n.index # 0 /\ n # Barrier /\ ~IsMark(n)
  BY HeapFacts DEF InMem, IsMark
<1>2. \A n \in Copying(hp) : n.dest \in 0..Far - 1 /\ n.len \in Nat \ {0}
  BY DEF Copying, IsHeap, IsMark
<1> QED
  BY <1>1, <1>2 DEF Copying, Inside, InMem

\* Spilling moves copies, and changes none.
LEMMA SpillKeeps ==
  ASSUME KernelInv, DataInv, Spill
  PROVE  DataInv' /\ Items(heap', mm', disk') = Items(heap, mm, disk) /\ Inside(heap') = Inside(heap)
<1> DEFINE nodes == Spilled(heap)
           N     == Len(nodes)
           b     == IF vacant = <<>> THEN Len(disk) + 1 ELSE Last(vacant)
           block == [i \in DOMAIN nodes |->
                       [src |-> nodes[i].src, dest |-> nodes[i].dest, len |-> nodes[i].len,
                        data |-> Stored(mm, nodes[i].index, nodes[i].len)]]
           mark  == MarkAt(nodes, b)
           g     == CHOOSE g : FreesAll(mm, nodes, N, g)
           all   == InMem(heap)
<1>1. IsHeap(heap) /\ Stores(mm, all) /\ Disk(heap, disk, vacant, astray)
  BY KernelParts
<1>2. /\ nodes # <<>> /\ heap' = (heap \ ToSet(nodes)) \cup {mark} /\ mm' = g[N]
      /\ disk' = (IF vacant = <<>> THEN Append(disk, block) ELSE [disk EXCEPT ![b] = block])
  BY DEF Spill, FreesAll
<1>3. Spillable(heap, nodes)
  BY <1>1, SpilledFacts
<1>4. IsMark(mark) /\ mark.index = 0
  BY DEF MarkAt, IsMark
<1>5. \A i \in DOMAIN nodes : block[i] = Item(nodes[i], mm)
  BY DEF Item
<1>6. DOMAIN block = DOMAIN nodes
  OBVIOUS
<1> HIDE DEF nodes, block, mark
<1>7. /\ N \in Nat \ {0} /\ DOMAIN nodes = 1..N
      /\ \A i \in 1..N : nodes[i] \in all
      /\ \A i, j \in 1..N : i < j => nodes[j] # nodes[i]
  <2>1. nodes \in Seq(heap) /\ nodes # <<>>
    BY <1>2, <1>3 DEF Spillable
  <2>2. N \in Nat \ {0} /\ DOMAIN nodes = 1..N /\ \A i \in 1..N : nodes[i] \in heap
    BY <2>1
  <2> QED
    BY <1>3, <2>2 DEF Spillable, InMem
<1>8. \A n \in all : /\ n \in heap /\ n \in Copying(heap) /\ n.index # 0 /\ ~IsMark(n)
                     /\ n.dest \in Nat /\ n.len \in Nat
  BY <1>1, CopyingFacts
<1> HIDE DEF N
<1>9. ToSet(nodes) = {nodes[i] : i \in 1..N}
  BY <1>7 DEF ToSet
<1>10. SameBytes(mm, mm', Without(all, nodes, N))
  <2>1. FreesAll(mm, nodes, N, g)
    BY <1>7, FreesAllExists
  <2>2. \A i \in 1..N : nodes[i] \in all
    BY <1>7
  <2> HIDE DEF g, all
  <2>4. SameBytes(mm, g[N], Without(all, nodes, N))
    <3>1. Stores(mm, all) /\ N \in Nat
      BY <1>1, <1>7
    <3> QED
      BY <1>7, <2>1, <2>2, <3>1, SpillBytes
  <2> QED
    BY <1>2, <2>4
<1> HIDE DEF g
<1>11. /\ InMem(heap') = all \ {nodes[i] : i \in 1..N}
       /\ Copying(heap') = Copying(heap) \ {nodes[i] : i \in 1..N}
       /\ Inside(heap') = Inside(heap)
  BY <1>2, <1>4, <1>7, <1>8, <1>9 DEF InMem, Copying, Inside
<1>12. /\ b \notin DOMAIN disk \/ DOMAIN disk[b] = {}
       /\ DOMAIN disk' = DOMAIN disk \cup {b} /\ disk'[b] = block
       /\ \A c \in DOMAIN disk : c # b => disk'[c] = disk[c]
  <2>1. /\ Len(disk) \in Nat /\ DOMAIN disk = 1..Len(disk)
        /\ vacant \in Seq(Nat) /\ IsInjective(vacant)
        /\ ToSet(vacant) = {c \in DOMAIN disk : disk[c] = NoBlock}
    BY <1>1, DiskFacts
  <2>2. CASE vacant = <<>>
    <3>1. b = Len(disk) + 1 /\ b \notin DOMAIN disk
      BY <2>1, <2>2
    <3> QED
      BY <1>2, <2>1, <2>2, <3>1, PutAtFacts DEF PutAt, IsPutAt, Disk
  <2>3. CASE vacant # <<>>
    <3>1. Last(vacant) \in ToSet(vacant)
      BY <2>1, <2>3, TopFacts
    <3>2. b \in DOMAIN disk /\ disk[b] = NoBlock /\ b # Len(disk) + 1
      BY <2>1, <2>3, <3>1
    <3>3. DOMAIN disk[b] = {}
      BY <3>2 DEF NoBlock
    <3> HIDE DEF b
    <3> QED
      BY <1>2, <2>1, <2>3, <3>2, <3>3
  <2> QED
    BY <2>2, <2>3
<1> HIDE DEF b
<1>13. \A i \in 1..N : block[i] = Item(nodes[i], mm)
  BY <1>5, <1>7
<1>14. Records(disk') = Records(disk) \cup {Item(nodes[i], mm) : i \in 1..N}
  <2>1. \A x \in Records(disk') : x \in Records(disk) \cup {Item(nodes[i], mm) : i \in 1..N}
    BY <1>6, <1>7, <1>12, <1>13 DEF Records
  <2>2. \A x \in Records(disk) : x \in Records(disk')
    BY <1>12 DEF Records
  <2>3. \A i \in 1..N : Item(nodes[i], mm) \in Records(disk')
    BY <1>6, <1>7, <1>12, <1>13 DEF Records
  <2> QED
    BY <2>1, <2>2, <2>3
<1>15. Filled(mm') /\ \A n \in InMem(heap') : Item(n, mm') = Item(n, mm)
  BY <1>10, <1>11 DEF SameBytes, DataInv, Item, Without
<1>16. Items(heap', mm', disk') = Items(heap, mm, disk)
  <2>1. \A x \in Items(heap', mm', disk') : x \in Items(heap, mm, disk)
    BY <1>7, <1>11, <1>14, <1>15 DEF Items
  <2>2. \A x \in Items(heap, mm, disk) : x \in Items(heap', mm', disk')
    <3> SUFFICES ASSUME NEW n \in all PROVE Item(n, mm) \in Items(heap', mm', disk')
      BY <1>14 DEF Items
    <3>1. CASE n \in InMem(heap')
      BY <1>15, <3>1 DEF Items
    <3>2. CASE n \notin InMem(heap')
      BY <1>11, <1>14, <3>2 DEF Items
    <3> QED
      BY <3>1, <3>2
  <2> QED
    BY <2>1, <2>2
<1>17. Whole(disk')
  <2>1. \A i \in 1..N : IsWhole(Item(nodes[i], mm))
    BY <1>7, <1>8, StoredIs DEF IsWhole, Item
  <2> QED
    BY <1>6, <1>7, <1>12, <1>13, <2>1 DEF Whole, DataInv
<1>18. Once(heap', disk')
  <2>1. \A i \in 1..N : block[i].dest = nodes[i].dest /\ nodes[i] \in Copying(heap)
    <3>1. \A n : Item(n, mm).dest = n.dest
      BY DEF Item
    <3> QED
      BY <1>7, <1>8, <1>13, <3>1
  <2>3. /\ \A m, n \in Copying(heap) : m.dest = n.dest => m = n
        /\ \A n \in Copying(heap) : \A c \in DOMAIN disk : \A i \in DOMAIN disk[c] : n.dest # disk[c][i].dest
        /\ \A c, d \in DOMAIN disk : \A i \in DOMAIN disk[c], j \in DOMAIN disk[d] :
             disk[c][i].dest = disk[d][j].dest => c = d /\ i = j
    BY DEF DataInv, Once
  <2>2. \A i, j \in 1..N : nodes[i].dest = nodes[j].dest => i = j
    <3>1. \A i, j \in 1..N : i < j \/ j < i \/ i = j
      BY <1>7
    <3>2. \A i, j \in 1..N : nodes[i].dest = nodes[j].dest => nodes[i] = nodes[j]
      BY <2>1, <2>3
    <3> QED
      BY <1>7, <3>1, <3>2
  <2>4. \A m, n \in Copying(heap') : m.dest = n.dest => m = n
    BY <1>11, <2>3
  <2>5. \A n \in Copying(heap') : \A c \in DOMAIN disk' : \A i \in DOMAIN disk'[c] : n.dest # disk'[c][i].dest
    <3> SUFFICES ASSUME NEW n \in Copying(heap'), NEW c \in DOMAIN disk', NEW i \in DOMAIN disk'[c],
                        n.dest = disk'[c][i].dest
                 PROVE  FALSE
      OBVIOUS
    <3>1. CASE c = b
      BY <1>6, <1>7, <1>11, <1>12, <2>1, <2>3, <3>1
    <3>2. CASE c # b
      BY <1>11, <1>12, <2>3, <3>2
    <3> QED
      BY <3>1, <3>2
  <2>6. ASSUME NEW c \in DOMAIN disk', NEW d \in DOMAIN disk', NEW i \in DOMAIN disk'[c],
               NEW j \in DOMAIN disk'[d], disk'[c][i].dest = disk'[d][j].dest
        PROVE  c = d /\ i = j
    <3>1. CASE c = b /\ d = b
      BY <1>6, <1>7, <1>12, <2>1, <2>2, <2>6, <3>1
    <3>2. CASE c = b /\ d # b
      BY <1>6, <1>7, <1>12, <2>1, <2>3, <2>6, <3>2
    <3>3. CASE c # b /\ d = b
      BY <1>6, <1>7, <1>12, <2>1, <2>3, <2>6, <3>3
    <3>4. CASE c # b /\ d # b
      BY <1>12, <2>3, <2>6, <3>4
    <3> QED
      BY <3>1, <3>2, <3>3, <3>4
  <2> QED
    BY <2>4, <2>5, <2>6 DEF Once
<1>19. DataInv'
  BY <1>15, <1>17, <1>18 DEF DataInv
<1> QED
  BY <1>11, <1>16, <1>19

LEMMA ItemFacts ==
  ASSUME NEW n, NEW m
  PROVE  /\ Item(n, m).src = n.src /\ Item(n, m).dest = n.dest /\ Item(n, m).len = n.len
         /\ Item(n, m).data = Stored(m, n.index, n.len)
BY DEF Item

\* So does bringing a block back.
LEMMA BringBackKeeps ==
  ASSUME Where, KernelInv, DataInv, BringBack
  PROVE  DataInv' /\ Items(heap', mm', disk') = Items(heap, mm, disk) /\ Inside(heap') = Inside(heap)
<1> DEFINE mark  == First(heap)
           b     == mark.src
           block == disk[b]
           N     == Len(block)
           g     == CHOOSE g : Loads(mm, block, N, g)
           all   == InMem(heap)
<1>1. /\ Going("copy") /\ mark.dest < Limit /\ IsMark(mark)
      /\ heap' = (heap \ {mark}) \cup g[N].nodes
      /\ mm' = g[N].mem
      /\ disk' = [disk EXCEPT ![b] = NoBlock]
  BY DEF BringBack, Unspill, Loaded, Loads
<1>2. IsHeap(heap) /\ Stores(mm, all) /\ Disk(heap, disk, vacant, astray)
  BY KernelParts
<1>3. mark \in heap
  BY <1>2, FirstFacts
<1>4. mark # Barrier
  <2>1. Limit < Far /\ Limit \in Nat /\ Far \in Nat
    BY <1>1, WhereFacts DEF Going
  <2>2. Barrier.dest = Far
    BY DEF Barrier
  <2> HIDE DEF mark
  <2> QED
    BY <1>1, <2>1, <2>2
<1> HIDE DEF mark, g
<1>5. mark.index = 0
  BY <1>1, <1>2, <1>3, <1>4 DEF IsMark, IsHeap
<1>6. b \in DOMAIN disk /\ IsBlock(block) /\ block # NoBlock
  BY <1>1, <1>2, <1>3, <1>4 DEF Disk
<1> HIDE DEF b
<1>7. /\ N \in Nat /\ DOMAIN block = 1..N
      /\ \A i \in 1..N : IsRecord(block[i]) /\ IsWhole(block[i])
  BY <1>6 DEF IsBlock, DataInv, Whole
<1>8. PICK x \in Nat : Weighs(block, x)
  BY <1>6 DEF IsBlock
<1>9. Loads(mm, block, N, g)
  BY <1>7, LoadsExists DEF g
<1> DEFINE load == g[N]
<1>10. SameBytes(mm, load.mem, all) /\ Brings(block, load, N)
  <2>1. N = Len(block) /\ N \in Nat /\ Filled(mm)
    BY <1>7 DEF DataInv
  <2> HIDE DEF N, all, block
  <2> QED
    BY <1>2, <1>7, <1>8, <1>9, <2>1, LoadBytes
<1>11. \A n \in load.nodes : n.dest \in 0..Far - 1 /\ n.len \in Nat \ {0} /\ n.index # 0
  <2>1. N = Len(block) /\ N \in Nat
    BY <1>7
  <2> HIDE DEF N, all, block
  <2>2. Loading(mm, all, load, N, x)
    BY <1>2, <1>7, <1>8, <1>9, <2>1, LoadAll
  <2> QED
    BY <2>2 DEF Loading, IsKept
<1> HIDE DEF N, load, all
<1>12. /\ heap' = (heap \ {mark}) \cup load.nodes /\ mm' = load.mem
  BY <1>1 DEF load
<1>13. PICK f : /\ load.nodes = {f[j] : j \in 1..N}
                /\ \A j \in 1..N : Item(f[j], mm') = block[j]
  BY <1>10, <1>12 DEF Brings
<1> HIDE DEF block
<1>14. Filled(mm') /\ \A n \in all : Item(n, mm') = Item(n, mm)
  BY <1>10, <1>12 DEF SameBytes, DataInv, Item
<1>15. \A n \in load.nodes : n # Barrier /\ ~IsMark(n)
  <2>1. Barrier.dest = Far /\ Far \in Nat
    BY <1>2, HeapFacts
  <2> QED
    BY <1>11, <2>1 DEF IsMark
<1>16. /\ InMem(heap') = all \cup load.nodes
       /\ Copying(heap') = Copying(heap) \cup load.nodes
       /\ Inside(heap') = Inside(heap)
  BY <1>1, <1>5, <1>11, <1>12, <1>15 DEF InMem, Copying, Inside, all
<1>17. DOMAIN disk' = DOMAIN disk /\ DOMAIN disk'[b] = {} /\ \A c \in DOMAIN disk : c # b => disk'[c] = disk[c]
  <2>1. DOMAIN disk' = DOMAIN disk /\ disk'[b] = NoBlock /\ \A c \in DOMAIN disk : c # b => disk'[c] = disk[c]
    <3>1. \E S : disk \in Seq(S)
      BY <1>2 DEF Disk
    <3> QED
      BY <1>1, <1>6, <3>1
  <2>2. DOMAIN NoBlock = {}
    BY DEF NoBlock
  <2> QED
    BY <2>1, <2>2
<1>18. /\ Records(disk) = Records(disk') \cup {block[j] : j \in 1..N}
       /\ \A j \in 1..N : block[j] \in Records(disk)
  <2>1. \A x1 \in Records(disk) : x1 \in Records(disk') \cup {block[j] : j \in 1..N}
    BY <1>6, <1>7, <1>17 DEF Records, block
  <2>2. \A x1 \in Records(disk') : x1 \in Records(disk)
    BY <1>17 DEF Records
  <2>3. \A j \in 1..N : block[j] \in Records(disk)
    BY <1>6, <1>7 DEF Records, block
  <2> QED
    BY <2>1, <2>2, <2>3
<1>19. {Item(n, mm') : n \in load.nodes} = {block[j] : j \in 1..N}
  BY <1>13
<1>20. Items(heap', mm', disk') = Items(heap, mm, disk)
  <2>1. Items(heap', mm', disk') = {Item(n, mm') : n \in all \cup load.nodes} \cup Records(disk')
    BY <1>16 DEF Items
  <2>2. {Item(n, mm') : n \in all \cup load.nodes} = {Item(n, mm) : n \in all} \cup {block[j] : j \in 1..N}
    <3>1. {Item(n, mm') : n \in all \cup load.nodes}
            = {Item(n, mm') : n \in all} \cup {Item(n, mm') : n \in load.nodes}
      OBVIOUS
    <3>2. {Item(n, mm') : n \in all} = {Item(n, mm) : n \in all}
      BY <1>14
    <3> QED
      BY <1>19, <3>1, <3>2
  <2> QED
    BY <1>18, <2>1, <2>2 DEF Items, all
<1>21. Whole(disk')
  <2>1. \A c \in DOMAIN disk : \A i \in DOMAIN disk[c] : IsWhole(disk[c][i])
    BY DEF DataInv, Whole
  <2>2. ASSUME NEW c \in DOMAIN disk', NEW i \in DOMAIN disk'[c] PROVE IsWhole(disk'[c][i])
    <3>1. c # b /\ c \in DOMAIN disk /\ disk'[c] = disk[c]
      BY <1>17
    <3> QED
      BY <2>1, <3>1
  <2> QED
    BY <2>2 DEF Whole
<1>22. Once(heap', disk')
  <2>1. /\ \A m, n \in Copying(heap) : m.dest = n.dest => m = n
        /\ \A n \in Copying(heap) : \A c \in DOMAIN disk : \A i \in DOMAIN disk[c] : n.dest # disk[c][i].dest
        /\ \A c, d \in DOMAIN disk : \A i \in DOMAIN disk[c], j \in DOMAIN disk[d] :
             disk[c][i].dest = disk[d][j].dest => c = d /\ i = j
    BY DEF DataInv, Once
  <2>2. \A j \in 1..N : f[j].dest = block[j].dest /\ j \in DOMAIN disk[b] /\ block[j] = disk[b][j]
    <3>1. \A j \in 1..N : j \in DOMAIN disk[b] /\ block[j] = disk[b][j]
      BY <1>7 DEF block
    <3>2. \A j \in 1..N : f[j].dest = block[j].dest
      BY <1>13, ItemFacts
    <3> QED
      BY <3>1, <3>2
  <2>3. ASSUME NEW m \in Copying(heap'), NEW n \in Copying(heap'), m.dest = n.dest PROVE m = n
    <3>1. CASE m \in Copying(heap) /\ n \in Copying(heap)
      BY <2>1, <2>3, <3>1
    <3>2. CASE m \in load.nodes /\ n \in load.nodes
      <4>1. PICK j \in 1..N : m = f[j]
        BY <1>13, <3>2
      <4>2. PICK l \in 1..N : n = f[l]
        BY <1>13, <3>2
      <4>3. disk[b][j].dest = disk[b][l].dest /\ j \in DOMAIN disk[b] /\ l \in DOMAIN disk[b]
        BY <2>2, <2>3, <4>1, <4>2
      <4> QED
        BY <1>6, <2>1, <4>1, <4>2, <4>3
    <3>3. CASE m \in Copying(heap) /\ n \in load.nodes
      <4>1. PICK j \in 1..N : n = f[j]
        BY <1>13, <3>3
      <4> QED
        BY <1>6, <2>1, <2>2, <2>3, <3>3, <4>1
    <3>4. CASE n \in Copying(heap) /\ m \in load.nodes
      <4>1. PICK j \in 1..N : m = f[j]
        BY <1>13, <3>4
      <4> QED
        BY <1>6, <2>1, <2>2, <2>3, <3>4, <4>1
    <3> QED
      BY <1>16, <3>1, <3>2, <3>3, <3>4
  <2>4. ASSUME NEW n \in Copying(heap'), NEW c \in DOMAIN disk', NEW i \in DOMAIN disk'[c]
        PROVE  n.dest # disk'[c][i].dest
    <3>1. c # b /\ c \in DOMAIN disk /\ disk'[c] = disk[c]
      BY <1>17
    <3>2. CASE n \in Copying(heap)
      BY <2>1, <3>1, <3>2
    <3>3. CASE n \in load.nodes
      <4>1. PICK j \in 1..N : n = f[j]
        BY <1>13, <3>3
      <4> QED
        BY <1>6, <2>1, <2>2, <3>1, <4>1
    <3> QED
      BY <1>16, <3>2, <3>3
  <2>5. ASSUME NEW c \in DOMAIN disk', NEW d \in DOMAIN disk', NEW i \in DOMAIN disk'[c],
               NEW j \in DOMAIN disk'[d], disk'[c][i].dest = disk'[d][j].dest
        PROVE  c = d /\ i = j
    <3>1. /\ c # b /\ c \in DOMAIN disk /\ disk'[c] = disk[c]
          /\ d # b /\ d \in DOMAIN disk /\ disk'[d] = disk[d]
      BY <1>17
    <3> QED
      BY <2>1, <2>5, <3>1
  <2> QED
    BY <2>3, <2>4, <2>5 DEF Once
<1>23. DataInv'
  BY <1>14, <1>21, <1>22 DEF DataInv
<1> QED
  BY <1>16, <1>20, <1>23

\* No copy kept has that destination.
Absent(hp, m, dk, dest) ==
  (\A x \in Items(hp, m, dk) : x.dest # dest) /\ (\A n \in Inside(hp) : n.dest # dest)

LEMMA AbsentFacts ==
  ASSUME NEW hp, IsHeap(hp), NEW m, NEW dk, NEW dest, Absent(hp, m, dk, dest)
  PROVE  /\ \A n \in Copying(hp) : n.dest # dest
         /\ \A b \in DOMAIN dk : \A i \in DOMAIN dk[b] : dk[b][i].dest # dest
<1>1. ASSUME NEW n \in InMem(hp) PROVE n.dest # dest
  <2>1. Item(n, m).dest = n.dest
    BY ItemFacts
  <2> QED
    BY <2>1 DEF Absent, Items
<1>2. \A n \in Copying(hp) : n.dest # dest
  BY <1>1, CopyingFacts DEF Absent
<1>3. ASSUME NEW b \in DOMAIN dk, NEW i \in DOMAIN dk[b] PROVE dk[b][i].dest # dest
  BY DEF Absent, Items, Records
<1> QED
  BY <1>2, <1>3

\* The copy that is due is taken out, whether it has bytes or not.
Taken(hp, m, dk, n, hq, o) ==
  IF n.index = 0
  THEN /\ n \in Inside(hp) /\ Items(hq, o, dk) = Items(hp, m, dk) /\ Inside(hq) = Inside(hp) \ {n}
  ELSE /\ n \in InMem(hp) /\ Item(n, m) \in Items(hp, m, dk)
       /\ Items(hq, o, dk) = Items(hp, m, dk) \ {Item(n, m)} /\ Inside(hq) = Inside(hp)

LEMMA CopyKeeps ==
  ASSUME Where, KernelInv, DataInv, Copy, ~Broken
  PROVE  DataInv' /\ disk' = disk /\ Taken(heap, mm, disk, First(heap), heap', mm')
<1> DEFINE n == First(heap)
           all == InMem(heap)
<1>1. /\ Going("copy") /\ n.dest < Limit /\ ~IsMark(n)
      /\ mm' = Free(mm, n.index) /\ heap' = heap \ {n} /\ disk' = disk /\ vacant' = vacant
  BY DEF Copy
<1>2. IsHeap(heap) /\ Stores(mm, all)
  BY KernelParts
<1>3. n \in heap
  BY <1>2, FirstFacts
<1>4. n # Barrier
  <2>1. Limit < Far /\ Limit \in Nat /\ Far \in Nat
    BY <1>1, WhereFacts DEF Going
  <2>2. Barrier.dest = Far
    BY DEF Barrier
  <2> HIDE DEF n
  <2> QED
    BY <1>1, <2>1, <2>2
<1> HIDE DEF n
<1>5. n \in Copying(heap)
  BY <1>1, <1>3, <1>4 DEF Copying
<1>6. /\ InMem(heap') = all \ {n} /\ Copying(heap') = Copying(heap) \ {n}
      /\ Inside(heap') = Inside(heap) \ {n}
  BY <1>1 DEF InMem, Copying, Inside
<1>7. Once(heap', disk')
  <2>1. Once(heap', disk)
    BY <1>6 DEF DataInv, Once
  <2> QED
    BY <1>1, <2>1
<1>8. Whole(disk')
  BY <1>1 DEF DataInv
<1>9. /\ \A x \in all : x \in Copying(heap)
      /\ \A x, y \in Copying(heap) : x.dest = y.dest => x = y
      /\ \A x \in Copying(heap) : \A b \in DOMAIN disk : \A i \in DOMAIN disk[b] : x.dest # disk[b][i].dest
  BY <1>2, CopyingFacts DEF DataInv, Once
<1>10. CASE n.index = 0
  <2>1. all \ {n} = all /\ n \in Inside(heap)
    BY <1>5, <1>10 DEF InMem, Inside
  <2>2. mm' = mm
    <3>1. IsMemory(mm)
      BY <1>2, StoresFacts
    <3> QED
      BY <1>1, <1>10, <3>1, FreeNone
  <2>3. Items(heap', mm', disk) = Items(heap, mm, disk)
    BY <1>6, <2>1, <2>2 DEF Items
  <2>4. Filled(mm')
    BY <2>2 DEF DataInv
  <2>5. DataInv'
    BY <1>7, <1>8, <2>4 DEF DataInv
  <2> QED
    BY <1>1, <1>6, <1>10, <2>1, <2>3, <2>5 DEF Taken, n
<1>11. CASE n.index # 0
  <2>1. n \in all /\ n \notin Inside(heap)
    BY <1>3, <1>11 DEF InMem, Inside
  <2>2. SameBytes(mm, mm', all \ {n})
    BY <1>1, <1>2, <2>1, LessBytes
  <2>3. Filled(mm') /\ \A x \in all \ {n} : Item(x, mm') = Item(x, mm)
    BY <2>2 DEF SameBytes, DataInv, Item
  <2>4. Item(n, mm) \in Items(heap, mm, disk)
    BY <2>1 DEF Items
  <2>5. \A x : Item(x, mm).dest = x.dest
    BY ItemFacts
  <2>6. \A x \in all \ {n} : Item(x, mm) # Item(n, mm)
    <3> SUFFICES ASSUME NEW x \in all \ {n}, Item(x, mm) = Item(n, mm) PROVE FALSE
      OBVIOUS
    <3>1. x.dest = n.dest
      BY <2>5
    <3> QED
      BY <1>5, <1>9, <3>1
  <2>7. \A r \in Records(disk) : r # Item(n, mm)
    <3> SUFFICES ASSUME NEW b \in DOMAIN disk, NEW i \in DOMAIN disk[b], disk[b][i] = Item(n, mm)
                 PROVE  FALSE
      BY DEF Records
    <3>1. n.dest = disk[b][i].dest
      BY <2>5
    <3> QED
      BY <1>5, <1>9, <3>1
  <2>8. Items(heap', mm', disk) = {Item(x, mm) : x \in all \ {n}} \cup Records(disk)
    BY <1>6, <2>3 DEF Items
  <2>9. Items(heap, mm, disk) = {Item(x, mm) : x \in all} \cup Records(disk)
    BY DEF Items
  <2>10. Items(heap', mm', disk) = Items(heap, mm, disk) \ {Item(n, mm)}
    <3> DEFINE a == Item(n, mm)
    <3>1. {Item(x, mm) : x \in all \ {n}} = {Item(x, mm) : x \in all} \ {a}
      <4>1. \A x \in all \ {n} : Item(x, mm) # a
        BY <2>6
      <4> QED
        BY <4>1
    <3>2. a \notin Records(disk)
      BY <2>7
    <3> HIDE DEF a, all
    <3>3. Items(heap', mm', disk) = Items(heap, mm, disk) \ {a}
      BY <2>8, <2>9, <3>1, <3>2
    <3> QED
      BY <3>3 DEF a
  <2>11. DataInv'
    BY <1>7, <1>8, <2>3 DEF DataInv
  <2>12. Inside(heap') = Inside(heap)
    BY <1>6, <2>1
  <2> QED
    BY <1>1, <1>11, <2>1, <2>4, <2>10, <2>11, <2>12 DEF Taken, n
<1> QED
  BY <1>10, <1>11

\* A copy is kept, with the bytes data, that has no other's destination.
LEMMA KeepCopyKeeps ==
  ASSUME Where, KernelInv, DataInv, KeepCopy, Absent(heap, mm, disk, ToSave.dest)
  PROVE  LET c    == ToSave
             data == [i \in 1..c.len |-> cur[c.src - Start(stream, done + 1) + i]]
             x    == [src |-> c.src, dest |-> c.dest, len |-> c.len, data |-> data]
         IN DataInv' /\ Items(heap', mm', disk') = Items(heap, mm, disk) \cup {x}
            /\ Inside(heap') = Inside(heap)
<1> DEFINE c    == ToSave
           from == c.src - Start(stream, done + 1)
           p    == [i \in 1..c.len |-> cur[from + i]]
           s    == Save(mm, p)
           n    == [src |-> c.src, dest |-> c.dest, len |-> c.len, index |-> s.index]
           x    == [src |-> c.src, dest |-> c.dest, len |-> c.len, data |-> p]
           all  == InMem(heap)
<1>1. /\ Going("save") /\ todo # {} /\ mm' = s.mem /\ heap' = heap \cup {n} /\ disk' = disk
  BY DEF KeepCopy
<1>2. IsHeap(heap) /\ Stores(mm, all) /\ Disk(heap, disk, vacant, astray)
  BY KernelParts
<1>3. c.dest \in 0..Far - 1 /\ c.len \in Nat \ {0}
  <2> DEFINE copies == Decoded(stream, done + 1)
  <2>1. /\ \A j \in DOMAIN copies : copies[j] \in CopyType
        /\ DOMAIN copies = 1..Len(copies) /\ Len(copies) \in Nat
    BY <1>1, WhereFacts DEF Going
  <2>2. todo \subseteq DOMAIN copies
    BY <1>1 DEF Where, Going
  <2>3. c = copies[Min(todo)]
    BY DEF ToSave
  <2> HIDE DEF copies
  <2>4. todo \subseteq Nat
    BY <2>1, <2>2
  <2>5. Min(todo) \in todo
    BY <1>1, <2>4, MinFacts
  <2>6. c \in CopyType
    BY <2>1, <2>2, <2>3, <2>5
  <2> QED
    BY <2>6 DEF CopyType
<1>4. IsBytes(p, c.len)
  BY <1>3 DEF IsBytes
<1>5. n.len = c.len /\ n.dest = c.dest /\ n.src = c.src /\ n.index = s.index
  OBVIOUS
<1>6. s = Save(mm, p) /\ x.dest = c.dest
  OBVIOUS
<1>7. x = [src |-> c.src, dest |-> c.dest, len |-> c.len, data |-> p]
  OBVIOUS
<1>8. Len(p) = c.len
  BY <1>4, BytesFacts
<1> HIDE DEF c, p, s, n, x
<1>9. SameBytes(mm, s.mem, all) /\ (Filled(mm) => Stored(s.mem, s.index, c.len) = p)
  <2> HIDE DEF all
  <2> QED
    BY <1>2, <1>3, <1>4, <1>6, MoreBytes
<1>10. n.index # 0
  <2>1. StoredAs(mm, all, s, n)
    <3> HIDE DEF all
    <3> QED
      BY <1>2, <1>3, <1>5, <1>6, <1>8, StoresMore
  <2> QED
    BY <2>1 DEF StoredAs
<1>11. n # Barrier /\ ~IsMark(n)
  <2>1. Barrier.index = 0
    BY <1>2, HeapFacts
  <2> QED
    BY <1>3, <1>5, <1>10, <2>1 DEF IsMark
<1>12. /\ InMem(heap') = all \cup {n} /\ Copying(heap') = Copying(heap) \cup {n}
       /\ Inside(heap') = Inside(heap)
  BY <1>1, <1>10, <1>11 DEF InMem, Copying, Inside
<1>13. Filled(mm') /\ (\A o \in all : Item(o, mm') = Item(o, mm)) /\ Item(n, mm') = x
  BY <1>1, <1>5, <1>7, <1>9 DEF SameBytes, DataInv, Item
<1>14. Items(heap', mm', disk') = Items(heap, mm, disk) \cup {x}
  <2>1. Items(heap', mm', disk') = {Item(o, mm') : o \in all \cup {n}} \cup Records(disk)
    BY <1>1, <1>12 DEF Items
  <2>2. {Item(o, mm') : o \in all \cup {n}} = {Item(o, mm) : o \in all} \cup {x}
    <3>1. {Item(o, mm') : o \in all \cup {n}} = {Item(o, mm') : o \in all} \cup {Item(n, mm')}
      OBVIOUS
    <3>2. {Item(o, mm') : o \in all} = {Item(o, mm) : o \in all}
      BY <1>13
    <3> QED
      BY <1>13, <3>1, <3>2
  <2> QED
    BY <2>1, <2>2 DEF Items
<1>15. Once(heap', disk')
  <2>1. /\ \A o \in Copying(heap) : o.dest # n.dest
        /\ \A b \in DOMAIN disk : \A i \in DOMAIN disk[b] : disk[b][i].dest # n.dest
    <3>1. Absent(heap, mm, disk, c.dest)
      BY DEF c
    <3> QED
      BY <1>2, <1>5, <3>1, AbsentFacts
  <2>2. Once(heap', disk)
    BY <1>12, <2>1 DEF DataInv, Once
  <2> QED
    BY <1>1, <2>2
<1>16. DataInv'
  BY <1>1, <1>13, <1>15 DEF DataInv
<1>17. x = [src |-> ToSave.src, dest |-> ToSave.dest, len |-> ToSave.len,
            data |-> [i \in 1..ToSave.len |-> cur[ToSave.src - Start(stream, done + 1) + i]]]
  BY DEF c, x, p
<1> QED
  BY <1>12, <1>14, <1>16, <1>17

\* A node without bytes for copy c.
Bytesless(c) == [src |-> c.src, dest |-> c.dest, len |-> c.len, index |-> 0]

\* The copies that stay inside block k.
Within(s, k) == {c \in ToSet(Decoded(s, k)) : c.dest < End(s, k)}

LEMMA StartBlockKeeps ==
  ASSUME Where, KernelInv, DataInv, StartBlock, ~Broken,
         \A c \in Within(stream, done + 1) : Absent(heap, mm, disk, c.dest),
         \A c, d \in Within(stream, done + 1) : c.dest = d.dest => c = d
  PROVE  /\ DataInv' /\ Items(heap', mm', disk') = Items(heap, mm, disk)
         /\ Inside(heap') = Inside(heap) \cup {Bytesless(c) : c \in Within(stream, done + 1)}
<1> DEFINE W == Within(stream, done + 1)
           new == {Bytesless(c) : c \in W}
<1>1. Going("stats") /\ heap' = heap \cup new /\ mm' = mm /\ disk' = disk /\ vacant' = vacant
  BY DEF StartBlock, Bytesless, Within, Limit
<1>2. \A c \in W : c.dest \in 0..Far - 1 /\ c.len \in Nat \ {0}
  <2> DEFINE copies == Decoded(stream, done + 1)
  <2>1. \A j \in DOMAIN copies : copies[j] \in CopyType
    BY <1>1, WhereFacts DEF Going
  <2>2. \A c \in W : \E j \in DOMAIN copies : c = copies[j]
    BY DEF Within, ToSet
  <2> HIDE DEF W, copies
  <2> QED
    BY <2>1, <2>2 DEF CopyType
<1>3. IsHeap(heap)
  BY KernelParts
<1>4. \A c \in W : \A o \in Copying(heap) : o.dest # c.dest
  BY <1>3, AbsentFacts
<1>5. \A c \in W : \A b \in DOMAIN disk : \A i \in DOMAIN disk[b] : disk[b][i].dest # c.dest
  BY <1>3, AbsentFacts
<1> HIDE DEF W
<1>6. \A o \in new : \E c \in W : o = Bytesless(c) /\ o.dest = c.dest
  BY DEF Bytesless
<1>7. \A o \in new : o.dest \in 0..Far - 1 /\ o.len \in Nat \ {0} /\ o.index = 0
  BY <1>2 DEF Bytesless
<1>8. \A o \in new : o # Barrier /\ ~IsMark(o)
  <2>1. Far \in Nat /\ Barrier.dest = Far
    BY <1>3, HeapFacts
  <2> QED
    BY <1>7, <2>1 DEF IsMark
<1> HIDE DEF new
<1>9. /\ InMem(heap') = InMem(heap) /\ Copying(heap') = Copying(heap) \cup new
      /\ Inside(heap') = Inside(heap) \cup new
  BY <1>1, <1>7, <1>8 DEF InMem, Copying, Inside
<1>10. Items(heap', mm', disk') = Items(heap, mm, disk)
  BY <1>1, <1>9 DEF Items
<1>11. \A o, p \in new : o.dest = p.dest => o = p
  <2> SUFFICES ASSUME NEW o \in new, NEW p \in new, o.dest = p.dest PROVE o = p
    OBVIOUS
  <2>1. PICK c \in W : o = Bytesless(c) /\ o.dest = c.dest
    BY <1>6
  <2>2. PICK d \in W : p = Bytesless(d) /\ p.dest = d.dest
    BY <1>6
  <2>3. c = d
    BY <2>1, <2>2 DEF W
  <2> QED
    BY <2>1, <2>2, <2>3
<1>12. /\ \A o \in new : \A q \in Copying(heap) : q.dest # o.dest
       /\ \A o \in new : \A b \in DOMAIN disk : \A i \in DOMAIN disk[b] : disk[b][i].dest # o.dest
  BY <1>4, <1>5, <1>6
<1>13. Once(heap', disk')
  <2>1. Once(heap', disk)
    BY <1>9, <1>11, <1>12 DEF DataInv, Once
  <2> QED
    BY <1>1, <2>1
<1>14. DataInv'
  BY <1>1, <1>13 DEF DataInv
<1> QED
  BY <1>9, <1>10, <1>14 DEF new, W

LEMMA DataInit == Init => DataInv /\ Items(heap, mm, disk) = {} /\ Inside(heap) = {}
<1> SUFFICES ASSUME Init PROVE DataInv /\ Items(heap, mm, disk) = {} /\ Inside(heap) = {}
  OBVIOUS
<1>1. heap = {Barrier} /\ mm = EmptyMemory /\ disk = <<>>
  BY DEF Init
<1>2. Copying(heap) = {} /\ InMem(heap) = {} /\ Inside(heap) = {}
  BY <1>1 DEF Copying, InMem, Inside, Barrier
<1>3. DOMAIN disk = {}
  BY <1>1
<1>4. Filled(mm)
  <2>1. mm.data = <<>> /\ mm.link = <<>>
    BY <1>1 DEF EmptyMemory
  <2>2. <<>> \in Seq({0})
    OBVIOUS
  <2> QED
    BY <2>1, <2>2 DEF Filled
<1>5. DataInv
  BY <1>2, <1>3, <1>4 DEF DataInv, Once, Whole
<1>6. Items(heap, mm, disk) = {}
  BY <1>2, <1>3 DEF Items, Records
<1> QED
  BY <1>2, <1>5, <1>6

-----------------------------------------------------------------------------
(* Spilling never fails.                                                   *)

\* With no copy in memory, all of it is free.
LEMMA UnusedMemory ==
  ASSUME NEW m, Stores(m, {})
  PROVE  m.used = 0
<1> DEFINE q == Chain(m, m.first)
           f == Len(q)
           N == Len(m.link)
<1>1. /\ IsMemory(m) /\ FreeIs(m, q, f) /\ Cells(m, m.first) = On(q, f)
      /\ m.used = N - f /\ m.used \in Nat
  <2>1. Sound(m, IndicesOf({}))
    BY DEF Stores
  <2> QED
    BY <2>1, SoundFacts
<1>2. On(q, f) = DOMAIN m.link
  <2>1. Sound(m, {})
    BY DEF Stores, IndicesOf
  <2> QED
    BY <1>1, <2>1 DEF Sound
<1>3. N \in Nat /\ DOMAIN m.link = 1..N
  BY <1>1 DEF IsMemory
<1>4. f \in Nat /\ q \in [1..f -> 1..N]
  BY <1>1, LeadsFacts DEF FreeIs
<1> HIDE DEF q, f, N
<1>5. q \in Surjection(1..f, 1..N)
  BY <1>2, <1>3, <1>4, ZenonT(40) DEF Surjection, On
<1>6. IsFiniteSet(1..f) /\ Cardinality(1..f) = f /\ Cardinality(1..N) = N
  <2>1. IsFiniteSet(1..f) /\ Cardinality(1..f) = IF 1 > f THEN 0 ELSE f - 1 + 1
    BY <1>4, FS_Interval
  <2>2. Cardinality(1..N) = IF 1 > N THEN 0 ELSE N - 1 + 1
    BY <1>3, FS_Interval
  <2> QED
    BY <1>3, <1>4, <2>1, <2>2
<1>7. N <= f
  BY <1>5, <1>6, FS_Surjection
<1> QED
  BY <1>1, <1>3, <1>4, <1>7

\* Every copy in memory fits into a block on the disk.
FitOnDisk(hp) == \A n \in InMem(hp) : n.len + RecordHead + RecordTail <= DiskBlock

\* No other node of the heap has the destination of a copy.
LEMMA CopiesApart ==
  ASSUME KernelInv, DataInv, NEW c \in InMem(heap), NEW n \in heap, n.index = 0
  PROVE  n.dest # c.dest
<1>1. IsHeap(heap) /\ Disk(heap, disk, vacant, astray) /\ Once(heap, disk)
  BY KernelParts DEF DataInv
<1>2. c \in Copying(heap) /\ c.index # 0 /\ c.dest \in 0..Far - 1
  BY <1>1, CopyingFacts
<1>3. CASE n = Barrier
  BY <1>1, <1>2, <1>3, HeapFacts
<1>4. CASE n # Barrier /\ ~IsMark(n)
  BY <1>1, <1>2, <1>4 DEF Once, Copying
<1>5. CASE n # Barrier /\ IsMark(n)
  <2>1. n.src \in DOMAIN disk /\ disk[n.src] # NoBlock
    BY <1>1, <1>5 DEF Disk
  <2>2. Marked(MarksOf(heap, n.src), disk[n.src], astray)
    BY <1>1, <2>1 DEF Disk
  <2>3. n \in MarksOf(heap, n.src)
    BY <1>5 DEF MarksOf
  <2>4. \E i \in DOMAIN disk[n.src] : n.dest = disk[n.src][i].dest
    BY <2>1, <2>2, <2>3 DEF Marked
  <2> QED
    BY <1>1, <1>2, <2>1, <2>4 DEF Once
<1> QED
  BY <1>3, <1>4, <1>5

\* A heap without a copy in memory's place at another node.
IsApart(hp) == \A c \in InMem(hp), n \in hp : n.index = 0 => n.dest # c.dest

\* The walk has found a copy, or it has something above one to start from.
Finds(hp, walk, c, left) ==
  \/ walk.nodes # <<>>
  \/ /\ ~walk.over /\ walk.size = 0 /\ walk.dest \in Nat
     /\ \E o \in hp : c.dest < o.dest /\ o.dest < walk.dest
     /\ Cardinality(Below(hp, walk.dest)) <= left

LEMMA RoundFinds ==
  ASSUME NEW hp, IsHeap(hp), IsApart(hp), FitOnDisk(hp), NEW c \in InMem(hp),
         \A n \in InMem(hp) : n.dest <= c.dest,
         NEW w, NEW left \in Int, Finds(hp, w, c, left), WalkType(w), Walking(hp, w),
         NEW v, v = Round(hp, w)
  PROVE  Finds(hp, v, c, left - 1)
<1> DEFINE B    == Below(hp, w.dest)
           base == Largest(B)
           C    == Below(hp, base.dest)
           n    == Largest(C)
           size == w.size + RecordHead + n.len
<1>2. CASE w.nodes # <<>>
  <2> DEFINE rest == hp \ ToSet(w.nodes)
             b == BaseOf(hp, w)
             x == Largest(Below(rest, b))
  <2>1. w = [dest |-> w.dest, size |-> w.size, nodes |-> w.nodes, over |-> w.over]
    BY DEF WalkType
  <2>2. w.nodes \in Seq(hp)
    BY DEF Walking, Spillable
  <2>3. Append(w.nodes, x) # <<>>
    BY <2>2
  <2>5. w.over => v = w
    BY DEF Round
  <2>6. ~w.over => \/ v = [w EXCEPT !.over = TRUE] \/ v = [w EXCEPT !.dest = b]
                   \/ v = [dest |-> b, size |-> w.size + RecordHead + x.len,
                           nodes |-> Append(w.nodes, x), over |-> FALSE]
    <3>1. ASSUME ~w.over
          PROVE  v = IF Below(rest, b) = {} THEN [w EXCEPT !.over = TRUE]
                     ELSE IF x.index = 0 THEN [w EXCEPT !.dest = b]
                     ELSE IF w.size + RecordHead + x.len + RecordTail > DiskBlock THEN [w EXCEPT !.over = TRUE]
                     ELSE [dest |-> b, size |-> w.size + RecordHead + x.len,
                           nodes |-> Append(w.nodes, x), over |-> FALSE]
      BY <3>1 DEF Round, BaseOf
    <3> HIDE DEF b, x, rest
    <3> QED
      BY <3>1
  <2>4. v.nodes # <<>>
    <3> HIDE DEF B, C, base, n, size, b, x, rest
    <3>1. [w EXCEPT !.over = TRUE].nodes = w.nodes /\ [w EXCEPT !.dest = b].nodes = w.nodes
      BY <2>1
    <3>2. v = w \/ v = [w EXCEPT !.over = TRUE] \/ v = [w EXCEPT !.dest = b]
          \/ v.nodes = Append(w.nodes, x)
      BY <2>5, <2>6
    <3> QED
      BY <1>2, <2>3, <3>1, <3>2
  <2> QED
    BY <2>4 DEF Finds
<1>3. CASE w.nodes = <<>>
  <2>1. /\ ~w.over /\ w.size = 0 /\ w.dest \in Nat /\ Cardinality(B) <= left
        /\ \E o \in hp : c.dest < o.dest /\ o.dest < w.dest
    BY <1>3 DEF Finds
  <2>2. PICK o \in hp : c.dest < o.dest /\ o.dest < w.dest
    BY <2>1
  <2>3. /\ c \in hp /\ c.index # 0 /\ c.dest \in Nat /\ c.len \in Nat \ {0} /\ o.dest \in Nat
        /\ \A x \in hp : x.dest \in Nat /\ (x.index # 0 => x.len \in Nat \ {0})
    BY HeapFacts DEF InMem
  <2>4. o \in B /\ B # {}
    BY <2>2 DEF Below
  <2>0. hp \ ToSet(w.nodes) = hp /\ BaseOf(hp, w) = base.dest
    <3>1. ToSet(w.nodes) = {}
      BY <1>3 DEF ToSet
    <3>2. hp \ ToSet(w.nodes) = hp
      BY <3>1
    <3> QED
      BY <2>4, <3>2 DEF BaseOf
  <2>11. C # {} => v = IF n.index = 0 THEN [w EXCEPT !.dest = base.dest]
                       ELSE IF size + RecordTail > DiskBlock THEN [w EXCEPT !.over = TRUE]
                       ELSE [dest |-> base.dest, size |-> size, nodes |-> Append(w.nodes, n), over |-> FALSE]
    <3> HIDE DEF base
    <3> QED
      BY <2>0, <2>1, RoundIs
  <2>5. base \in hp /\ base.dest < w.dest /\ o.dest <= base.dest /\ base \in B
    <3>1. base \in hp /\ base.dest < w.dest /\ \A x \in B : x.dest <= base.dest
      BY <2>1, <2>4, LargestFacts
    <3> QED
      BY <2>4, <3>1 DEF Below
  <2>6. base.dest \in Nat
    BY <2>3, <2>5
  <2>7. c \in C /\ C # {}
    <3>1. c.dest < base.dest
      <4> HIDE DEF base
      <4> QED
        BY <2>2, <2>3, <2>5, <2>6
    <3> HIDE DEF base
    <3> QED
      BY <2>3, <3>1 DEF Below
  <2>8. n \in hp /\ n.dest < base.dest /\ c.dest <= n.dest
    BY <2>6, <2>7, LargestFacts
  <2> HIDE DEF n
  <2>9. CASE n.index = 0
    <3>1. v = [w EXCEPT !.dest = base.dest]
      BY <2>7, <2>9, <2>11
    <3>2. w = [dest |-> w.dest, size |-> w.size, nodes |-> w.nodes, over |-> w.over]
      BY DEF WalkType
    <3>3. v.dest = base.dest /\ v.size = 0 /\ v.over = w.over
      <4> HIDE DEF base
      <4> QED
        BY <2>1, <3>1, <3>2
    <3>4. n.dest # c.dest
      BY <2>8, <2>9 DEF IsApart
    <3>5. c.dest < n.dest /\ n.dest < base.dest
      BY <2>3, <2>8, <3>4
    <3>6. Cardinality(C) < Cardinality(B)
      <4>1. IsFiniteSet(B)
        <5>1. B \in SUBSET hp /\ IsFiniteSet(hp)
          BY DEF Below, IsHeap
        <5> HIDE DEF B
        <5> QED
          BY <5>1, FS_Subset
      <4>2. C \in SUBSET B
        <5>1. \A x \in C : x \in hp /\ x.dest < base.dest /\ x.dest \in Nat
          BY <2>3 DEF Below
        <5>2. \A x \in C : x.dest < w.dest
          BY <2>1, <2>5, <2>6, <5>1
        <5> HIDE DEF C
        <5> QED
          BY <5>1, <5>2 DEF Below
      <4>3. base \notin C
        BY <2>6 DEF Below
      <4>4. base \in B
        BY <2>5
      <4> HIDE DEF B, C, base
      <4>5. Cardinality(C) <= Cardinality(B) /\ (Cardinality(B) = Cardinality(C) => B = C)
        BY <4>1, <4>2, FS_Subset
      <4>6. Cardinality(C) \in Nat /\ Cardinality(B) \in Nat
        BY <4>1, <4>2, FS_CardinalityType, FS_Subset
      <4> QED
        BY <4>3, <4>4, <4>5, <4>6
    <3>7. Cardinality(C) <= left - 1
      <4>1. IsFiniteSet(B) /\ C \in SUBSET B
        <5>1. B \in SUBSET hp /\ IsFiniteSet(hp)
          BY DEF Below, IsHeap
        <5>2. \A x \in C : x \in hp /\ x.dest < base.dest /\ x.dest \in Nat
          BY <2>3 DEF Below
        <5>3. \A x \in C : x.dest < w.dest
          BY <2>1, <2>5, <2>6, <5>2
        <5>4. C \in SUBSET B
          <6> HIDE DEF C
          <6> QED
            BY <5>2, <5>3 DEF Below
        <5> HIDE DEF B, C
        <5> QED
          BY <5>1, <5>4, FS_Subset
      <4> HIDE DEF B, C
      <4>2. Cardinality(C) \in Nat /\ Cardinality(B) \in Nat
        BY <4>1, FS_CardinalityType, FS_Subset
      <4> QED
        BY <2>1, <3>6, <4>2
    <3> QED
      BY <2>1, <2>6, <2>8, <3>3, <3>5, <3>7 DEF Finds
  <2>10. CASE n.index # 0
    <3>1. n \in InMem(hp)
      BY <2>8, <2>10 DEF InMem
    <3>2. n.len + RecordHead + RecordTail <= DiskBlock /\ n.len \in Nat
      BY <2>3, <2>8, <2>10, <3>1 DEF FitOnDisk
    <3>3. ~(size + RecordTail > DiskBlock)
      BY <2>1, <3>2, SrepAssumption
    <3>4. w.nodes \in Seq(hp)
      BY DEF Walking, Spillable
    <3>5. Append(w.nodes, n) # <<>>
      BY <3>4
    <3>6. v = [dest |-> base.dest, size |-> size, nodes |-> Append(w.nodes, n), over |-> FALSE]
      <4> HIDE DEF size
      <4> QED
        BY <2>7, <2>10, <2>11, <3>3
    <3> QED
      BY <3>5, <3>6 DEF Finds
  <2> QED
    BY <2>9, <2>10
<1> QED
  BY <1>2, <1>3

\* With a copy in memory, virtMem.save finds one to spill.
LEMMA SpillFinds ==
  ASSUME NEW hp, IsHeap(hp), IsApart(hp), FitOnDisk(hp), InMem(hp) # {}
  PROVE  ~SpillFails(hp)
<1> DEFINE N == Rounds(hp)
           g == CHOOSE g : Walks(hp, N, g)
<1>1. N \in Nat
  BY RoundsFacts
<1>2. Walks(hp, N, g)
  BY <1>1, WalksExists
<1>3. Spilled(hp) = g[N].nodes
  BY DEF Spilled, Walk, Walks
<1>4. PICK c \in InMem(hp) : \A n \in InMem(hp) : n.dest <= c.dest
  <2> DEFINE D == {Far - n.dest : n \in InMem(hp)}
  <2>1. \A n \in InMem(hp) : n.dest \in Nat /\ Far \in Nat /\ n.dest <= Far
    BY HeapFacts DEF InMem
  <2>2. D \subseteq Nat /\ D # {}
    BY <2>1
  <2>3. PICK x \in D : \A y \in D : x <= y
    <3> HIDE DEF D
    <3> QED
      BY <2>2, LeastNumber
  <2>4. PICK n \in InMem(hp) : x = Far - n.dest
    BY <2>3
  <2>5. \A o \in InMem(hp) : Far - n.dest <= Far - o.dest
    BY <2>3, <2>4
  <2> QED
    BY <2>1, <2>5
<1> HIDE DEF g
<1>5. \A i \in 0..N : g[i] = IF i = 0 THEN [dest |-> Far + 1, size |-> 0, nodes |-> <<>>, over |-> FALSE]
                             ELSE Round(hp, g[i - 1])
  BY <1>2 DEF Walks
<1> DEFINE S == {i \in Nat : i <= N => Walking(hp, g[i]) /\ WalkType(g[i]) /\ Finds(hp, g[i], c, N - i)}
<1>6. 0 \in S
  <2>1. g[0] = [dest |-> Far + 1, size |-> 0, nodes |-> <<>>, over |-> FALSE]
    <3>1. 0 \in 0..N
      BY <1>1
    <3> HIDE DEF S
    <3> QED
      BY <1>5, <3>1
  <2>2. WalkType(g[0])
    BY <2>1 DEF WalkType
  <2>3. /\ g[0].nodes = <<>> /\ g[0].dest \in Nat /\ g[0].dest = Far + 1 /\ g[0].size = 0 /\ ~g[0].over
        /\ Far \in Nat
    BY <2>1, HeapFacts
  <2>4. <<>> \in Seq(hp) /\ Len(<<>>) = 0 /\ \A i \in 1..0 : FALSE
    OBVIOUS
  <2>5. Spillable(hp, <<>>)
    BY <2>4 DEF Spillable
  <2>6. Walking(hp, g[0])
    BY <2>3, <2>4, <2>5, WeighsNothing DEF Walking
  <2>7. Barrier \in hp /\ c.dest < Barrier.dest /\ Barrier.dest < g[0].dest
    <3>1. c \in hp /\ c.index # 0
      BY DEF InMem
    <3>2. Barrier \in hp /\ Barrier.dest = Far /\ c.dest \in 0..Far - 1
      BY <3>1, HeapFacts DEF IsHeap
    <3> QED
      BY <2>3, <3>2
  <2>8. Cardinality(Below(hp, g[0].dest)) <= N - 0
    <3> DEFINE B == Below(hp, g[0].dest)
    <3>1. B \in SUBSET hp /\ IsFiniteSet(hp)
      BY DEF Below, IsHeap
    <3> HIDE DEF B
    <3>2. Cardinality(B) <= Cardinality(hp) /\ Cardinality(B) \in Nat
      BY <3>1, FS_Subset, FS_CardinalityType
    <3>3. Cardinality(hp) <= N /\ Cardinality(hp) \in Nat
      BY RoundsFacts
    <3> HIDE DEF N
    <3> QED
      BY <1>1, <3>2, <3>3 DEF B
  <2>9. Finds(hp, g[0], c, N - 0)
    BY <2>3, <2>7, <2>8 DEF Finds
  <2> QED
    BY <2>2, <2>6, <2>9
<1>7. ASSUME NEW i \in Nat, i \in S
      PROVE  i + 1 \in S
  <2> SUFFICES ASSUME i + 1 <= N
               PROVE  Walking(hp, g[i + 1]) /\ WalkType(g[i + 1]) /\ Finds(hp, g[i + 1], c, N - (i + 1))
    OBVIOUS
  <2>1. i + 1 \in 0..N /\ i + 1 # 0 /\ (i + 1) - 1 = i /\ i <= N
    BY <1>1
  <2>2. g[i + 1] = Round(hp, g[i])
    BY <1>5, <2>1
  <2>3. Walking(hp, g[i]) /\ WalkType(g[i]) /\ Finds(hp, g[i], c, N - i)
    BY <1>7, <2>1
  <2>4. Walking(hp, g[i + 1]) /\ WalkType(g[i + 1])
    BY <2>2, <2>3, RoundWalks
  <2>5. N - i \in Int /\ N - (i + 1) = (N - i) - 1
    BY <1>1
  <2> HIDE DEF N
  <2>6. Finds(hp, g[i + 1], c, (N - i) - 1)
    BY <1>4, <2>2, <2>3, <2>5, RoundFinds
  <2> QED
    BY <2>4, <2>5, <2>6
<1>8. Nat \subseteq S
  <2> HIDE DEF S
  <2> QED
    BY <1>6, <1>7, SetInduction
<1>9. Finds(hp, g[N], c, 0)
  <2>1. N \in S /\ N <= N /\ N - N = 0
    <3> HIDE DEF S
    <3> QED
      BY <1>1, <1>8
  <2> QED
    BY <2>1
<1> DEFINE w == g[N]
           B == Below(hp, w.dest)
<1>10. ASSUME w.nodes = <<>> PROVE FALSE
  <2>1. /\ Cardinality(B) <= 0 /\ B # {}
    <3>1. Cardinality(B) <= 0 /\ \E o \in hp : o.dest < w.dest
      BY <1>9, <1>10 DEF Finds
    <3> QED
      BY <3>1 DEF Below
  <2>2. IsFiniteSet(B)
    <3>1. B \in SUBSET hp /\ IsFiniteSet(hp)
      BY DEF Below, IsHeap
    <3> HIDE DEF B
    <3> QED
      BY <3>1, FS_Subset
  <2> HIDE DEF B
  <2>3. Cardinality(B) \in Nat
    BY <2>2, FS_CardinalityType
  <2> QED
    BY <2>1, <2>2, <2>3, FS_EmptySet
<1> QED
  BY <1>3, <1>10 DEF SpillFails

\* When there is no room for a block, there is something to spill.
LEMMA SpillsAlways ==
  ASSUME KernelInv, DataInv, FitOnDisk(heap), Available(mm) < DiskBlock
  PROVE  ~SpillFails(heap)
<1>1. IsHeap(heap) /\ Stores(mm, InMem(heap))
  BY KernelParts
<1>2. IsApart(heap)
  BY CopiesApart DEF IsApart
<1>3. InMem(heap) # {}
  <2> SUFFICES ASSUME InMem(heap) = {} PROVE FALSE
    OBVIOUS
  <2>1. mm.used = 0
    BY <1>1, UnusedMemory
  <2>2. Room \in Nat /\ Useful \in Nat /\ DiskBlock \in Nat /\ DiskBlock <= Useful
    BY SrepAssumption
  <2>3. mm.used * Room = 0
    BY <2>1, <2>2
  <2>4. Available(mm) = Useful
    BY <2>2, <2>3 DEF Available
  <2> QED
    BY <2>2, <2>4
<1> QED
  BY <1>1, <1>2, <1>3, SpillFinds

-----------------------------------------------------------------------------
(* The positions of blocks and of the copies they announce.                *)

\* Blocks follow each other.
LEMMA StartNext ==
  ASSUME NEW s \in Streams, NEW k \in 1..Len(s.blocks)
  PROVE  /\ Start(s, 1) = 0 /\ Start(s, k + 1) = End(s, k)
         /\ Start(s, k) \in Nat /\ End(s, k) \in Nat /\ Start(s, k) < End(s, k)
         /\ End(s, k) = Start(s, k) + s.blocks[k].size /\ s.blocks[k].size \in Nat \ {0}
<1> DEFINE N == Len(s.blocks)
           g == CHOOSE g : Starts(s, N, g)
<1>1. N \in Nat /\ s.blocks[k].size \in Nat \ {0}
  BY StreamFacts
<1>2. Starts(s, N, g)
  BY <1>1, StartsExists
<1>3. \A j : Start(s, j) = g[j - 1]
  BY DEF Start, Starts
<1> HIDE DEF g
<1>4. \A i \in 0..N : g[i] = IF i = 0 THEN 0 ELSE g[i - 1] + s.blocks[i].size
  BY <1>2 DEF Starts
<1> HIDE DEF N
<1>5. 0 \in 0..N /\ 1 - 1 = 0 /\ k \in 0..N /\ k # 0 /\ (k + 1) - 1 = k
  BY <1>1 DEF N
<1>6. Start(s, 1) = 0
  BY <1>3, <1>4, <1>5
<1>7. Start(s, k + 1) = Start(s, k) + s.blocks[k].size
  BY <1>3, <1>4, <1>5
<1>8. Start(s, k) \in Nat
  BY StartFacts
<1> QED
  BY <1>1, <1>6, <1>7, <1>8 DEF End

\* Later blocks lie behind.
LEMMA StartsAscend ==
  ASSUME NEW s \in Streams, NEW k \in 1..Len(s.blocks), NEW l \in 1..Len(s.blocks), k < l
  PROVE  End(s, k) <= Start(s, l)
<1> DEFINE N == Len(s.blocks)
           S == {i \in Nat : k + 1 + i <= N => End(s, k) <= Start(s, k + 1 + i)}
<1>1. N \in Nat /\ k \in Nat
  BY StreamFacts
<1>2. Start(s, k + 1) = End(s, k) /\ End(s, k) \in Nat
  BY StartNext
<1>3. 0 \in S
  <2>1. k + 1 + 0 = k + 1
    BY <1>1
  <2> QED
    BY <1>2, <2>1
<1>4. ASSUME NEW i \in Nat, i \in S PROVE i + 1 \in S
  <2> SUFFICES ASSUME k + 1 + (i + 1) <= N PROVE End(s, k) <= Start(s, k + 1 + (i + 1))
    OBVIOUS
  <2> DEFINE j == k + 1 + i
  <2>1. j \in 1..N /\ k + 1 + (i + 1) = j + 1 /\ j <= N
    BY <1>1
  <2>2. End(s, k) <= Start(s, j)
    BY <1>4, <2>1
  <2> HIDE DEF j
  <2>3. Start(s, j + 1) = End(s, j) /\ Start(s, j) \in Nat /\ End(s, j) \in Nat /\ Start(s, j) < End(s, j)
    BY <2>1, StartNext
  <2> QED
    BY <1>2, <2>1, <2>2, <2>3
<1>5. Nat \subseteq S
  <2> HIDE DEF S
  <2> QED
    BY <1>3, <1>4, SetInduction
<1>6. l - (k + 1) \in Nat /\ k + 1 + (l - (k + 1)) = l /\ l <= N
  BY <1>1
<1> HIDE DEF N
<1>7. l - (k + 1) \in S
  <2> HIDE DEF S
  <2> QED
    BY <1>5, <1>6
<1> QED
  BY <1>6, <1>7

\* A position lies in one block.
LEMMA BlockOfOnce ==
  ASSUME NEW s \in Streams, NEW k \in 1..Len(s.blocks), NEW l \in 1..Len(s.blocks),
         NEW p, p \in Positions(s, k), p \in Positions(s, l)
  PROVE  k = l
<1>1. /\ Start(s, k) \in Nat /\ End(s, k) \in Nat /\ Start(s, l) \in Nat /\ End(s, l) \in Nat
  BY StartNext
<1>2. /\ p \in Nat /\ Start(s, k) <= p /\ p < End(s, k) /\ Start(s, l) <= p /\ p < End(s, l)
  BY <1>1 DEF Positions
<1>3. ~(k < l)
  <2> SUFFICES ASSUME k < l PROVE FALSE
    OBVIOUS
  <2>1. End(s, k) <= Start(s, l)
    BY StartsAscend
  <2> QED
    BY <1>1, <1>2, <2>1
<1>4. ~(l < k)
  <2> SUFFICES ASSUME l < k PROVE FALSE
    OBVIOUS
  <2>1. End(s, l) <= Start(s, k)
    BY StartsAscend
  <2> QED
    BY <1>1, <1>2, <2>1
<1> QED
  BY <1>3, <1>4

\* Where a copy comes from.
LEMMA AnnouncedBy ==
  ASSUME NEW s \in Streams, NEW k \in 0..Len(s.blocks), NEW m \in Copies(s, k)
  PROVE  \E i \in 1..k : \E j \in DOMAIN Decoded(s, i) : m = Decoded(s, i)[j]
<1>1. PICK i \in 1..k : m \in ToSet(Decoded(s, i))
  BY DEF Copies
<1> QED
  BY <1>1 DEF ToSet

LEMMA CopyFacts ==
  ASSUME NEW s \in Streams, NEW i \in 1..Len(s.blocks), NEW m \in ToSet(Decoded(s, i))
  PROVE  /\ m \in CopyType /\ m.src \in Nat /\ m.dest \in Nat /\ m.len \in Nat \ {0}
         /\ m.dest < Far /\ Start(s, i) <= m.src
         /\ GoodStats(s, i) => m.src + m.len <= End(s, i) /\ m.dest > m.src
<1>1. PICK j \in DOMAIN Decoded(s, i) : m = Decoded(s, i)[j]
  BY DEF ToSet
<1>2. m \in CopyType /\ Start(s, i) <= m.src
  BY <1>1, DecodedFacts
<1>3. Far \in Nat
  BY SrepAssumption
<1>4. m.src \in Nat /\ m.dest \in Nat /\ m.len \in Nat \ {0} /\ m.dest < Far
  BY <1>2, <1>3 DEF CopyType
<1>5. GoodStats(s, i) => m.src + m.len <= End(s, i) /\ m.dest > m.src
  BY DEF GoodStats
<1> QED
  BY <1>2, <1>4, <1>5

\* A copy is known by its destination.
LEMMA CopiesOnce ==
  ASSUME NEW s \in Streams, NEW k \in 1..Len(s.blocks), NEW l \in 1..Len(s.blocks),
         NEW i \in DOMAIN Decoded(s, k), NEW j \in DOMAIN Decoded(s, l),
         Decoded(s, k)[i].dest = Decoded(s, l)[j].dest
  PROVE  k = l /\ i = j
<1>1. Distinct(s)
  BY DistinctAssumption
<1>2. k \in DOMAIN s.blocks /\ l \in DOMAIN s.blocks
  BY StreamFacts
<1>3. i \in DOMAIN s.blocks[k].stats /\ j \in DOMAIN s.blocks[l].stats
  BY DecodedFacts
<1> QED
  BY <1>1, <1>2, <1>3 DEF Distinct

LEMMA CopiesNext ==
  ASSUME NEW s, NEW d \in Nat
  PROVE  Copies(s, d + 1) = Copies(s, d) \cup ToSet(Decoded(s, d + 1)) /\ Copies(s, 0) = {}
<1>1. 1..(d + 1) = (1..d) \cup {d + 1} /\ 1..0 = {}
  OBVIOUS
<1> QED
  BY <1>1 DEF Copies

LEMMA SameCopy ==
  ASSUME NEW s \in Streams, NEW d \in 0..Len(s.blocks),
         NEW m \in Copies(s, d), NEW n \in Copies(s, d), m.dest = n.dest
  PROVE  m = n
<1>0. Len(s.blocks) \in Nat
  BY StreamFacts
<1>1. PICK k \in 1..d : \E i \in DOMAIN Decoded(s, k) : m = Decoded(s, k)[i]
  BY AnnouncedBy
<1>2. PICK i \in DOMAIN Decoded(s, k) : m = Decoded(s, k)[i]
  BY <1>1
<1>3. PICK l \in 1..d : \E j \in DOMAIN Decoded(s, l) : n = Decoded(s, l)[j]
  BY AnnouncedBy
<1>4. PICK j \in DOMAIN Decoded(s, l) : n = Decoded(s, l)[j]
  BY <1>3
<1>5. k \in 1..Len(s.blocks) /\ l \in 1..Len(s.blocks)
  BY <1>0
<1>6. k = l /\ i = j
  BY <1>2, <1>4, <1>5, CopiesOnce
<1> QED
  BY <1>2, <1>4, <1>6

\* No copy that a block announces has the destination of an earlier one.
LEMMA NewCopy ==
  ASSUME NEW s \in Streams, NEW d \in Nat, d < Len(s.blocks),
         NEW m \in Copies(s, d), NEW n \in ToSet(Decoded(s, d + 1))
  PROVE  m.dest # n.dest
<1> SUFFICES ASSUME m.dest = n.dest PROVE FALSE
  OBVIOUS
<1>0. Len(s.blocks) \in Nat /\ d \in 0..Len(s.blocks)
  BY StreamFacts
<1>1. PICK k \in 1..d : \E i \in DOMAIN Decoded(s, k) : m = Decoded(s, k)[i]
  BY <1>0, AnnouncedBy
<1>2. PICK i \in DOMAIN Decoded(s, k) : m = Decoded(s, k)[i]
  BY <1>1
<1>3. PICK j \in DOMAIN Decoded(s, d + 1) : n = Decoded(s, d + 1)[j]
  BY DEF ToSet
<1>4. k \in 1..Len(s.blocks) /\ d + 1 \in 1..Len(s.blocks) /\ k # d + 1
  BY <1>0
<1> QED
  BY <1>2, <1>3, <1>4, CopiesOnce

-----------------------------------------------------------------------------
(* What a valid stream means, byte by byte.                                *)

\* Nothing is copied back.
Forward(s, k) == \A m \in Copies(s, k) : m.src \in Nat /\ m.dest \in Nat /\ m.len \in Nat \ {0} /\ m.src < m.dest

LEMMA ValidForward ==
  ASSUME NEW s \in Streams, NEW k \in 0..Len(s.blocks), Valid(s, k)
  PROVE  Forward(s, k)
<1> SUFFICES ASSUME NEW m \in Copies(s, k)
             PROVE  m.src \in Nat /\ m.dest \in Nat /\ m.len \in Nat \ {0} /\ m.src < m.dest
  BY DEF Forward
<1>1. PICK i \in 1..k : m \in ToSet(Decoded(s, i))
  BY DEF Copies
<1>2. i \in 1..Len(s.blocks)
  BY StreamFacts
<1>3. GoodStats(s, i)
  BY DEF Valid
<1> QED
  BY <1>1, <1>2, <1>3, CopyFacts

\* The byte at p, when g has those before it.
Byte(s, k, g, p) ==
  IF \E m \in Copies(s, k) : Covers(m, p)
  THEN LET m == CHOOSE m \in Copies(s, k) : Covers(m, p) IN g[m.src + (p - m.dest)]
  ELSE LET i == CHOOSE i \in 1..k : p \in Positions(s, i) IN
       <<i, Cardinality({q \in {q \in Positions(s, i) : \A m \in Copies(s, k) : ~Covers(m, q)} : q <= p})>>

Means(s, k, n, g) == g = [p \in 0..n - 1 |-> Byte(s, k, g, p)]

\* A byte depends on earlier ones only.
LEMMA ByteSame ==
  ASSUME NEW s, NEW k, Forward(s, k), NEW p \in Nat, NEW g, NEW h, \A q \in 0..p - 1 : h[q] = g[q]
  PROVE  Byte(s, k, h, p) = Byte(s, k, g, p)
<1>1. ASSUME \E m \in Copies(s, k) : Covers(m, p)
      PROVE  LET m == CHOOSE m \in Copies(s, k) : Covers(m, p)
             IN h[m.src + (p - m.dest)] = g[m.src + (p - m.dest)]
  <2> DEFINE m == CHOOSE m \in Copies(s, k) : Covers(m, p)
  <2>1. m \in Copies(s, k) /\ Covers(m, p)
    BY <1>1
  <2> HIDE DEF m
  <2>2. m.src \in Nat /\ m.dest \in Nat /\ m.src < m.dest /\ m.dest <= p
    BY <2>1 DEF Forward, Covers
  <2>3. m.src + (p - m.dest) \in 0..p - 1
    BY <2>2
  <2>4. h[m.src + (p - m.dest)] = g[m.src + (p - m.dest)]
    BY <2>3
  <2> QED
    BY <2>4 DEF m
<1> QED
  BY <1>1 DEF Byte

LEMMA MeansExists ==
  ASSUME NEW s, NEW k, Forward(s, k), NEW N \in Nat
  PROVE  \E g : Means(s, k, N, g)
<1> DEFINE S == {n \in Nat : \E g : Means(s, k, n, g)}
<1>1. 0 \in S
  <2> DEFINE g == [p \in 0..0 - 1 |-> 0]
  <2>1. 0..0 - 1 = {}
    OBVIOUS
  <2>2. \A F, G : [p \in {} |-> F] = [p \in {} |-> G]
    OBVIOUS
  <2>3. g = [p \in 0..0 - 1 |-> Byte(s, k, g, p)]
    BY <2>1
  <2>4. Means(s, k, 0, g)
    BY <2>3 DEF Means
  <2> QED
    BY <2>4
<1>2. ASSUME NEW n \in Nat, n \in S
      PROVE  n + 1 \in S
  <2>1. PICK g : Means(s, k, n, g)
    BY <1>2
  <2>2. \A p \in 0..n - 1 : g[p] = Byte(s, k, g, p)
    BY <2>1 DEF Means
  <2> DEFINE h == [p \in 0..(n + 1) - 1 |-> IF p = n THEN Byte(s, k, g, n) ELSE g[p]]
  <2>3. \A p \in 0..n - 1 : h[p] = g[p]
    OBVIOUS
  <2>4. h[n] = Byte(s, k, g, n)
    OBVIOUS
  <2>5. h = [p \in 0..(n + 1) - 1 |-> h[p]]
    OBVIOUS
  <2> HIDE DEF h
  <2>6. ASSUME NEW p \in 0..(n + 1) - 1 PROVE h[p] = Byte(s, k, h, p)
    <3>1. p \in Nat /\ \A q \in 0..p - 1 : q \in 0..n - 1
      OBVIOUS
    <3>2. \A q \in 0..p - 1 : h[q] = g[q]
      BY <2>3, <3>1
    <3>3. Byte(s, k, h, p) = Byte(s, k, g, p)
      BY <3>1, <3>2, ByteSame
    <3>4. CASE p = n
      BY <2>4, <3>3, <3>4
    <3>5. CASE p # n
      <4>1. p \in 0..n - 1
        BY <3>5
      <4> QED
        BY <2>2, <2>3, <3>3, <4>1
    <3> QED
      BY <3>4, <3>5
  <2>7. Means(s, k, n + 1, h)
    BY <2>5, <2>6 DEF Means
  <2> QED
    BY <2>7
<1>3. Nat \subseteq S
  <2> HIDE DEF S
  <2> QED
    BY <1>1, <1>2, SetInduction
<1> QED
  BY <1>3

LEMMA OriginalIs ==
  ASSUME NEW s \in Streams, NEW k \in 1..Len(s.blocks), Valid(s, k), NEW p \in 0..End(s, k) - 1
  PROVE  Original(s, k)[p] = Byte(s, k, Original(s, k), p)
<1> DEFINE N == End(s, k)
           g == CHOOSE g : Means(s, k, N, g)
<1>1. N \in Nat /\ k \in 0..Len(s.blocks)
  BY StartNext
<1>2. Forward(s, k)
  BY <1>1, ValidForward
<1> HIDE DEF N
<1>3. Means(s, k, N, g)
  BY <1>1, <1>2, MeansExists
<1>4. Original(s, k) = g
  BY DEF Original, Means, Byte, N
<1> HIDE DEF g
<1>5. g[p] = Byte(s, k, g, p)
  BY <1>3 DEF Means, N
<1> QED
  BY <1>4, <1>5

\* The positions from a on, before b, that no copy of A covers.
Uncovered(A, a, b) == {p \in a..b - 1 : \A m \in A : ~Covers(m, p)}

\* Fits, copy by copy.
FitsIs(s, k) ==
  /\ \A m \in Copies(s, k), p \in Positions(s, k) :
       Covers(m, p) => Start(s, k) <= m.dest /\ m.dest + m.len <= End(s, k)
  /\ \A m, n \in Copies(s, k), p \in Positions(s, k) : Covers(m, p) /\ Covers(n, p) => m = n
  /\ Cardinality(Uncovered(Copies(s, k), Start(s, k), End(s, k))) = s.blocks[k].lits

LEMMA FitsFacts ==
  ASSUME NEW s, NEW k
  PROVE  Fits(s, k) <=> FitsIs(s, k)
<1> DEFINE into == {m \in Copies(s, k) : \E p \in Positions(s, k) : Covers(m, p)}
           bare == {p \in Positions(s, k) : \A m \in into : ~Covers(m, p)}
<1>1. bare = Uncovered(Copies(s, k), Start(s, k), End(s, k))
  BY DEF Uncovered, Positions
<1>2. (\A m \in into : Start(s, k) <= m.dest /\ m.dest + m.len <= End(s, k))
      <=> \A m \in Copies(s, k), p \in Positions(s, k) :
            Covers(m, p) => Start(s, k) <= m.dest /\ m.dest + m.len <= End(s, k)
  OBVIOUS
<1>3. (\A m, n \in into : m = n \/ \A p \in Positions(s, k) : ~Covers(m, p) \/ ~Covers(n, p))
      <=> \A m, n \in Copies(s, k), p \in Positions(s, k) : Covers(m, p) /\ Covers(n, p) => m = n
  OBVIOUS
<1>4. Fits(s, k) <=> /\ \A m \in into : Start(s, k) <= m.dest /\ m.dest + m.len <= End(s, k)
                     /\ \A m, n \in into : m = n \/ \A p \in Positions(s, k) : ~Covers(m, p) \/ ~Covers(n, p)
                     /\ Cardinality(bare) = s.blocks[k].lits
  BY DEF Fits
<1> HIDE DEF into, bare
<1> QED
  BY <1>1, <1>2, <1>3, <1>4 DEF FitsIs

\* The copies that cover a position have been announced by its block or
\* before it.
LEMMA CoveredBefore ==
  ASSUME NEW s \in Streams, NEW k \in 1..Len(s.blocks), Valid(s, k), NEW d \in 1..k,
         NEW p \in Positions(s, d), NEW m \in Copies(s, k), Covers(m, p)
  PROVE  m \in Copies(s, d)
<1>0. Len(s.blocks) \in Nat /\ d \in 1..Len(s.blocks)
  BY StreamFacts
<1>1. PICK i \in 1..k : m \in ToSet(Decoded(s, i))
  BY DEF Copies
<1>2. i \in 1..Len(s.blocks)
  BY <1>0
<1>3. CASE i <= d
  <2>1. i \in 1..d
    BY <1>3
  <2> QED
    BY <1>1, <2>1 DEF Copies
<1>4. CASE i > d
  <2>1. End(s, d) <= Start(s, i)
    BY <1>0, <1>2, <1>4, StartsAscend
  <2>2. GoodStats(s, i)
    BY DEF Valid
  <2>3. m.dest \in Nat /\ m.src \in Nat /\ Start(s, i) <= m.src /\ m.src < m.dest
    BY <1>1, <1>2, <2>2, CopyFacts
  <2>4. m.dest <= p
    BY DEF Covers
  <2>5. Start(s, d) \in Nat /\ End(s, d) \in Nat /\ Start(s, i) \in Nat
    BY <1>0, <1>2, StartNext
  <2>6. p \in Nat /\ p < End(s, d)
    BY <2>5 DEF Positions
  <2> QED
    BY <2>1, <2>3, <2>4, <2>5, <2>6
<1> QED
  BY <1>3, <1>4

LEMMA PositionFacts ==
  ASSUME NEW s \in Streams, NEW k \in 1..Len(s.blocks), NEW d \in 1..k, NEW p \in Positions(s, d)
  PROVE  /\ p \in Nat /\ p \in 0..End(s, k) - 1 /\ d \in 1..Len(s.blocks)
         /\ Start(s, d) <= p /\ p < End(s, d)
<1>0. Len(s.blocks) \in Nat /\ d \in 1..Len(s.blocks)
  BY StreamFacts
<1>1. Start(s, d) \in Nat /\ End(s, d) \in Nat /\ End(s, k) \in Nat /\ Start(s, k) \in Nat /\ Start(s, k) < End(s, k)
  BY <1>0, StartNext
<1>2. End(s, d) <= End(s, k)
  <2>1. CASE d = k
    BY <1>1, <2>1
  <2>2. CASE d < k
    <3>1. End(s, d) <= Start(s, k)
      BY <1>0, <2>2, StartsAscend
    <3> QED
      BY <1>1, <3>1
  <2> QED
    BY <1>0, <2>1, <2>2
<1> QED
  BY <1>0, <1>1, <1>2 DEF Positions

\* A copied byte is the byte at its source.
LEMMA OriginalCopied ==
  ASSUME NEW s \in Streams, NEW k \in 1..Len(s.blocks), Valid(s, k), NEW d \in 1..k,
         NEW p \in Positions(s, d), NEW n \in Copies(s, d), Covers(n, p)
  PROVE  Original(s, k)[p] = Original(s, k)[n.src + (p - n.dest)]
<1> DEFINE m == CHOOSE m \in Copies(s, k) : Covers(m, p)
<1>1. n \in Copies(s, k)
  BY DEF Copies
<1>2. m \in Copies(s, k) /\ Covers(m, p)
  BY <1>1
<1>3. Original(s, k)[p] = Byte(s, k, Original(s, k), p)
  BY PositionFacts, OriginalIs
<1>4. Byte(s, k, Original(s, k), p) = Original(s, k)[m.src + (p - m.dest)]
  BY <1>2 DEF Byte
<1> HIDE DEF m
<1>5. m \in Copies(s, d)
  BY <1>2, CoveredBefore
<1>6. FitsIs(s, d)
  BY FitsFacts DEF Valid
<1>7. m = n
  BY <1>2, <1>5, <1>6 DEF FitsIs
<1> QED
  BY <1>3, <1>4, <1>7

\* The others are the literals, in order.
LEMMA OriginalBare ==
  ASSUME NEW s \in Streams, NEW k \in 1..Len(s.blocks), Valid(s, k), NEW d \in 1..k,
         NEW p \in Positions(s, d), \A m \in Copies(s, d) : ~Covers(m, p)
  PROVE  Original(s, k)[p] = <<d, Cardinality(Uncovered(Copies(s, d), Start(s, d), p + 1))>>
<1> DEFINE i == CHOOSE i \in 1..k : p \in Positions(s, i)
           B(j) == {q \in {q \in Positions(s, j) : \A m \in Copies(s, k) : ~Covers(m, q)} : q <= p}
<1>0. Len(s.blocks) \in Nat /\ d \in 1..Len(s.blocks)
  BY StreamFacts
<1>1. i = d
  <2>1. i \in 1..k /\ p \in Positions(s, i)
    OBVIOUS
  <2> HIDE DEF i
  <2>2. i \in 1..Len(s.blocks)
    BY <1>0, <2>1
  <2> QED
    BY <1>0, <2>1, <2>2, BlockOfOnce
<1>2. Original(s, k)[p] = Byte(s, k, Original(s, k), p)
  BY PositionFacts, OriginalIs
<1>3. ~\E m \in Copies(s, k) : Covers(m, p)
  BY CoveredBefore
<1>4. Byte(s, k, Original(s, k), p) = <<i, Cardinality(B(i))>>
  BY <1>3 DEF Byte
<1>5. B(d) = Uncovered(Copies(s, d), Start(s, d), p + 1)
  <2>1. Start(s, d) \in Nat /\ End(s, d) \in Nat /\ p \in Nat /\ Start(s, d) <= p /\ p < End(s, d)
    BY <1>0, StartNext, PositionFacts
  <2>2. \A q : q \in Positions(s, d) /\ q <= p <=> q \in Start(s, d)..(p + 1) - 1
    BY <2>1 DEF Positions
  <2>3. \A q \in Positions(s, d) : (\A m \in Copies(s, k) : ~Covers(m, q)) <=> \A m \in Copies(s, d) : ~Covers(m, q)
    <3>1. Copies(s, d) \subseteq Copies(s, k)
      BY DEF Copies
    <3> QED
      BY <3>1, CoveredBefore
  <2> QED
    BY <2>2, <2>3 DEF Uncovered
<1> HIDE DEF B, i
<1> QED
  BY <1>1, <1>2, <1>4, <1>5

-----------------------------------------------------------------------------
(* The ledger of a block: A are the copies announced, P those still to     *)
(* come, L is where the block starts and at where the reader is.           *)

Typed(A) == \A m \in A : m.src \in Nat /\ m.dest \in Nat /\ m.len \in Nat \ {0}

\* The copies made so far end before at, and those in this block begin in it
\* and do not overlap; no copy to come has been passed over, but where another
\* one was made.
Ledger(A, P, L, at) ==
  /\ L \in Nat /\ at \in Nat /\ L <= at /\ P \subseteq A /\ Typed(A)
  /\ \A m \in P : L <= m.dest
  /\ \A m \in A \ P : m.dest + m.len <= at
  /\ \A m \in P, p \in L..at - 1 : Covers(m, p) => \E n \in A \ P : Covers(n, p)
  /\ \A m \in A \ P, p \in L..at - 1 : Covers(m, p) => L <= m.dest
  /\ \A m, n \in A \ P, p \in L..at - 1 : Covers(m, p) /\ Covers(n, p) => m = n

LEMMA IntervalCard ==
  ASSUME NEW a \in Nat, NEW b \in Nat, a <= b
  PROVE  IsFiniteSet(a..b - 1) /\ Cardinality(a..b - 1) = b - a
<1>1. a \in Int /\ b - 1 \in Int
  OBVIOUS
<1>2. IsFiniteSet(a..b - 1) /\ Cardinality(a..b - 1) = IF a > b - 1 THEN 0 ELSE (b - 1) - a + 1
  BY <1>1, FS_Interval
<1> QED
  BY <1>2

LEMMA UncoveredFinite ==
  ASSUME NEW A, NEW a \in Nat, NEW b \in Nat
  PROVE  IsFiniteSet(Uncovered(A, a, b)) /\ Cardinality(Uncovered(A, a, b)) \in Nat
<1>1. IsFiniteSet(a..b - 1)
  <2>1. a \in Int /\ b - 1 \in Int
    OBVIOUS
  <2> QED
    BY <2>1, FS_Interval
<1>2. Uncovered(A, a, b) \in SUBSET (a..b - 1)
  BY DEF Uncovered
<1>3. IsFiniteSet(Uncovered(A, a, b))
  BY <1>1, <1>2, FS_Subset
<1> QED
  BY <1>3, FS_CardinalityType

\* The copies R cover what Q does before at, nothing from there to x, and then
\* all before y.
Splits(Q, R, L, at, x, y) ==
  /\ \A p \in L..at - 1 : (\E m \in R : Covers(m, p)) <=> (\E m \in Q : Covers(m, p))
  /\ \A p \in at..x - 1 : \A m \in R : ~Covers(m, p)
  /\ \A p \in x..y - 1 : \E m \in R : Covers(m, p)

LEMMA UncoveredSplit ==
  ASSUME NEW Q, NEW R, NEW L \in Nat, NEW at \in Nat, NEW x \in Nat, NEW y \in Nat, L <= at, at <= x, x <= y,
         Splits(Q, R, L, at, x, y)
  PROVE  /\ Uncovered(R, L, y) = Uncovered(Q, L, at) \cup (at..x - 1)
         /\ Cardinality(Uncovered(R, L, y)) = Cardinality(Uncovered(Q, L, at)) + (x - at)
<1>1. Uncovered(R, L, y) = Uncovered(Q, L, at) \cup (at..x - 1)
  <2>1. \A p : p \in L..y - 1 <=> p \in L..at - 1 \/ p \in at..x - 1 \/ p \in x..y - 1
    OBVIOUS
  <2> QED
    BY <2>1 DEF Uncovered, Splits
<1> DEFINE U == Uncovered(Q, L, at)
           V == at..x - 1
<1>2. U \cap V = {}
  BY DEF Uncovered
<1>3. IsFiniteSet(U) /\ Cardinality(U) \in Nat
  BY UncoveredFinite
<1>4. IsFiniteSet(V) /\ Cardinality(V) = x - at
  BY IntervalCard
<1> HIDE DEF U, V
<1>5. Cardinality(U \cup V) = Cardinality(U) + Cardinality(V) - Cardinality({})
  BY <1>2, <1>3, <1>4, FS_Union
<1>6. Cardinality({}) = 0
  BY FS_EmptySet
<1>7. Cardinality(U \cup V) = Cardinality(U) + (x - at)
  BY <1>3, <1>4, <1>5, <1>6
<1> QED
  BY <1>1, <1>7 DEF U, V

LEMMA SplitCard ==
  \A Q, R, L, at, x, y :
    L \in Nat /\ at \in Nat /\ x \in Nat /\ y \in Nat /\ L <= at /\ at <= x /\ x <= y /\ Splits(Q, R, L, at, x, y)
      => Cardinality(Uncovered(R, L, y)) = Cardinality(Uncovered(Q, L, at)) + (x - at)
<1> SUFFICES ASSUME NEW Q, NEW R, NEW L \in Nat, NEW at \in Nat, NEW x \in Nat, NEW y \in Nat,
                    L <= at, at <= x, x <= y, Splits(Q, R, L, at, x, y)
             PROVE  Cardinality(Uncovered(R, L, y)) = Cardinality(Uncovered(Q, L, at)) + (x - at)
  OBVIOUS
<1>1. /\ Uncovered(R, L, y) = Uncovered(Q, L, at) \cup (at..x - 1)
      /\ Cardinality(Uncovered(R, L, y)) = Cardinality(Uncovered(Q, L, at)) + (x - at)
  BY UncoveredSplit
<1> QED
  BY <1>1

LEMMA CoversFacts ==
  ASSUME NEW A, Typed(A), NEW m \in A, NEW p \in Nat
  PROVE  /\ Covers(m, p) => m.dest <= p /\ p < m.dest + m.len
         /\ m.dest <= p /\ p < m.dest + m.len => Covers(m, p)
         /\ m.dest \in Nat /\ m.len \in Nat \ {0} /\ Covers(m, m.dest)
BY DEF Typed, Covers

\* Up to x, which no copy to come lies before, nothing but the copies made
\* covers a position.
LEMMA UncoveredUpto ==
  ASSUME NEW A, NEW P, NEW L, NEW at, Ledger(A, P, L, at), NEW x \in Nat, at <= x,
         \A m \in P : x <= m.dest
  PROVE  /\ Uncovered(A, L, x) = Uncovered(A \ P, L, at) \cup (at..x - 1)
         /\ Cardinality(Uncovered(A, L, x)) = Cardinality(Uncovered(A \ P, L, at)) + (x - at)
         /\ Uncovered(A \ P, L, x) = Uncovered(A, L, x)
<1>1. L \in Nat /\ at \in Nat /\ L <= at /\ P \subseteq A /\ Typed(A)
  BY DEF Ledger
<1>2. ASSUME NEW p \in L..at - 1
      PROVE  (\E m \in A : Covers(m, p)) <=> (\E m \in A \ P : Covers(m, p))
  BY <1>1 DEF Ledger
<1>3. ASSUME NEW p \in at..x - 1, NEW m \in A PROVE ~Covers(m, p)
  <2>1. p \in Nat /\ at <= p /\ p < x
    BY <1>1
  <2>2. CASE m \in P
    <3>1. x <= m.dest /\ m.dest \in Nat
      BY <1>1, <2>2 DEF Typed
    <3> QED
      BY <2>1, <3>1 DEF Covers
  <2>3. CASE m \notin P
    <3>1. m.dest + m.len <= at /\ m.dest \in Nat /\ m.len \in Nat
      BY <1>1, <2>3 DEF Ledger, Typed
    <3> QED
      BY <1>1, <2>1, <3>1 DEF Covers
  <2> QED
    BY <2>2, <2>3
<1>4. x <= x /\ \A p \in x..x - 1 : FALSE
  OBVIOUS
<1> DEFINE Q == A \ P
<1> HIDE DEF Q
<1>5. \A p \in L..at - 1 : (\E m \in A : Covers(m, p)) <=> (\E m \in Q : Covers(m, p))
  BY <1>2 DEF Q
<1>6. /\ Uncovered(A, L, x) = Uncovered(Q, L, at) \cup (at..x - 1)
      /\ Cardinality(Uncovered(A, L, x)) = Cardinality(Uncovered(Q, L, at)) + (x - at)
  <2>1. Splits(Q, A, L, at, x, x)
    BY <1>3, <1>4, <1>5 DEF Splits
  <2> QED
    BY <1>1, <1>4, <2>1, UncoveredSplit
<1>7. Uncovered(Q, L, x) = Uncovered(A, L, x)
  <2>1. \A p \in L..x - 1 : p \in L..at - 1 \/ p \in at..x - 1
    BY <1>1
  <2>2. \A p \in L..x - 1 : (\E m \in A : Covers(m, p)) <=> (\E m \in Q : Covers(m, p))
    BY <1>3, <1>5, <2>1 DEF Q
  <2> QED
    BY <2>2 DEF Uncovered
<1> QED
  BY <1>6, <1>7 DEF Q

\* The ledger when the copy n has been made.
Advances(A, P, L, at, n) ==
  /\ Ledger(A, P \ {n}, L, n.dest + n.len)
  /\ Cardinality(Uncovered(A \ (P \ {n}), L, n.dest + n.len))
       = Cardinality(Uncovered(A \ P, L, at)) + (n.dest - at)

\* The copy that comes first is made.
LEMMA LedgerTakes ==
  ASSUME NEW A, NEW P, NEW L, NEW at, Ledger(A, P, L, at), NEW n \in P, \A m \in P : n.dest <= m.dest,
         at <= n.dest
  PROVE  Advances(A, P, L, at, n)
<1> DEFINE to   == n.dest + n.len
           past == A \ P
           next == A \ (P \ {n})
<1>1. L \in Nat /\ at \in Nat /\ L <= at /\ P \subseteq A /\ Typed(A)
  BY DEF Ledger
<1>2. next = past \cup {n}
  BY <1>1
<1>3. n.dest \in Nat /\ n.len \in Nat \ {0} /\ to \in Nat /\ L <= to /\ at <= to
  BY <1>1 DEF Typed
<1>4. \A m \in past : m \in A /\ m.dest + m.len <= at /\ m.dest \in Nat /\ m.len \in Nat \ {0}
  BY <1>1 DEF Ledger, Typed
<1>5. \A p \in L..to - 1 : p \in Nat /\ L <= p /\ p < to /\ (p \in L..at - 1 \/ p \in at..n.dest - 1 \/ p \in n.dest..to - 1)
  BY <1>1, <1>3
<1>6. \A p \in n.dest..to - 1 : Covers(n, p)
  BY <1>3 DEF Covers
<1>7. \A p \in at..n.dest - 1 : \A m \in A : ~Covers(m, p)
  <2> SUFFICES ASSUME NEW p \in at..n.dest - 1, NEW m \in A, Covers(m, p) PROVE FALSE
    OBVIOUS
  <2>1. p \in Nat /\ at <= p /\ p < n.dest
    BY <1>1, <1>3
  <2>2. m.dest <= p /\ p < m.dest + m.len /\ m.dest \in Nat /\ m.len \in Nat
    BY <1>1, <2>1, CoversFacts
  <2>3. CASE m \in P
    <3>1. n.dest <= m.dest
      BY <2>3
    <3> QED
      BY <1>3, <2>1, <2>2, <3>1
  <2>4. CASE m \notin P
    <3>1. m.dest + m.len <= at
      BY <1>4, <2>4
    <3> QED
      BY <1>1, <2>1, <2>2, <3>1
  <2> QED
    BY <2>3, <2>4
<1>8. ASSUME NEW m \in past, NEW p \in L..to - 1, Covers(m, p) PROVE p \in L..at - 1
  <2>1. p \in Nat /\ p < m.dest + m.len
    BY <1>4, <1>5, <1>8 DEF Covers
  <2> QED
    BY <1>1, <1>4, <1>5, <2>1
<1>9. ASSUME NEW m \in past, NEW p \in L..to - 1, Covers(m, p), Covers(n, p) PROVE FALSE
  <2>1. p \in L..at - 1
    BY <1>8, <1>9
  <2>2. n.dest <= p
    BY <1>9 DEF Covers
  <2> QED
    BY <1>1, <1>3, <2>1, <2>2
<1> HIDE DEF to, past, next
<1>10. Ledger(A, P \ {n}, L, to)
  <2>1. L \in Nat /\ to \in Nat /\ L <= to /\ P \ {n} \subseteq A /\ Typed(A)
    BY <1>1, <1>3
  <2>2. \A m \in P \ {n} : L <= m.dest
    BY DEF Ledger
  <2>3. \A m \in next : m.dest + m.len <= to
    <3>1. n.dest + n.len <= to
      BY <1>3 DEF to
    <3>2. \A m \in past : m.dest + m.len <= to
      <4> SUFFICES ASSUME NEW m \in past PROVE m.dest + m.len <= to
        OBVIOUS
      <4>1. m.dest + m.len \in Nat /\ m.dest + m.len <= at
        BY <1>4
      <4> QED
        BY <1>1, <1>3, <4>1
    <3> QED
      BY <1>2, <3>1, <3>2
  <2>4. ASSUME NEW m \in P \ {n}, NEW p \in L..to - 1, Covers(m, p)
        PROVE  \E o \in next : Covers(o, p)
    <3>1. CASE p \in L..at - 1
      <4>1. \E o \in past : Covers(o, p)
        BY <2>4, <3>1 DEF Ledger, past
      <4> QED
        BY <1>2, <4>1
    <3>2. CASE p \in at..n.dest - 1
      BY <1>1, <1>7, <2>4, <3>2
    <3>3. CASE p \in n.dest..to - 1
      BY <1>2, <1>6, <3>3
    <3> QED
      BY <1>5, <3>1, <3>2, <3>3
  <2>5. ASSUME NEW m \in next, NEW p \in L..to - 1, Covers(m, p)
        PROVE  L <= m.dest
    <3>1. CASE m = n
      BY <3>1 DEF Ledger
    <3>2. CASE m \in past
      <4>1. p \in L..at - 1
        BY <1>8, <2>5, <3>2
      <4> QED
        BY <2>5, <3>2, <4>1 DEF Ledger, past
    <3> QED
      BY <1>2, <3>1, <3>2
  <2>6. ASSUME NEW m \in next, NEW o \in next, NEW p \in L..to - 1, Covers(m, p), Covers(o, p)
        PROVE  m = o
    <3>1. CASE m = n /\ o = n
      BY <3>1
    <3>2. CASE m \in past /\ o \in past
      <4>1. p \in L..at - 1
        BY <1>8, <2>6, <3>2
      <4> QED
        BY <2>6, <3>2, <4>1 DEF Ledger, past
    <3>3. CASE m = n /\ o \in past
      BY <1>9, <2>6, <3>3
    <3>4. CASE m \in past /\ o = n
      BY <1>9, <2>6, <3>4
    <3> QED
      BY <1>2, <3>1, <3>2, <3>3, <3>4
  <2> QED
    BY <2>1, <2>2, <2>3, <2>4, <2>5, <2>6 DEF Ledger, next
<1>11. Cardinality(Uncovered(next, L, to)) = Cardinality(Uncovered(past, L, at)) + (n.dest - at)
  <2>1. \A p \in L..at - 1 : (\E m \in next : Covers(m, p)) <=> (\E m \in past : Covers(m, p))
    <3> SUFFICES ASSUME NEW p \in L..at - 1, Covers(n, p) PROVE FALSE
      BY <1>2
    <3>1. n.dest <= p
      BY DEF Covers
    <3> QED
      BY <1>1, <1>3, <3>1
  <2>2. \A p \in at..n.dest - 1 : \A m \in next : ~Covers(m, p)
    BY <1>1, <1>7 DEF next
  <2>3. \A p \in n.dest..to - 1 : \E m \in next : Covers(m, p)
    BY <1>2, <1>6
  <2>4. n.dest <= to
    BY <1>3 DEF to
  <2>5. Splits(past, next, L, at, n.dest, to)
    BY <2>1, <2>2, <2>3 DEF Splits
  <2>6. L \in Nat /\ at \in Nat /\ L <= at /\ n.dest \in Nat /\ at <= n.dest /\ to \in Nat
    BY <1>1, <1>3
  <2> QED
    BY <2>4, <2>5, <2>6, SplitCard
<1> QED
  BY <1>10, <1>11 DEF Advances, to, past, next

-----------------------------------------------------------------------------
(* A block in the making, and what breaks it.                              *)

\* The bytes are those of the stream from src on.
Holds(s, src, data) ==
  \A k \in 1..Len(s.blocks) :
    Valid(s, k) /\ src + Len(data) <= End(s, k) =>
      \A i \in 1..Len(data) : data[i] = Original(s, k)[src + i - 1]

\* Block k of s up to at, of whose literals used have been used.
Made(s, k, P, at, used) ==
  /\ s \in Streams /\ k \in 1..Len(s.blocks) /\ Valid(s, k - 1) /\ GoodStats(s, k)
  /\ Ledger(Copies(s, k), P, Start(s, k), at)
  /\ at <= End(s, k)
  /\ used = Cardinality(Uncovered(Copies(s, k) \ P, Start(s, k), at))

LEMMA MadeFacts ==
  ASSUME NEW s, NEW k, NEW P, NEW at, NEW used, Made(s, k, P, at, used)
  PROVE  /\ s \in Streams /\ k \in 1..Len(s.blocks) /\ Len(s.blocks) \in Nat
         /\ Start(s, k) \in Nat /\ End(s, k) \in Nat /\ at \in Nat /\ Start(s, k) <= at /\ at <= End(s, k)
         /\ used \in Nat /\ s.blocks[k].lits \in Nat
         /\ P \subseteq Copies(s, k)
         /\ \A m \in Copies(s, k) : m.src \in Nat /\ m.dest \in Nat /\ m.len \in Nat \ {0}
         /\ \A m \in P : Start(s, k) <= m.dest
<1>1. s \in Streams /\ k \in 1..Len(s.blocks) /\ at <= End(s, k)
  BY DEF Made
<1>2. Len(s.blocks) \in Nat /\ s.blocks[k].lits \in Nat
  BY <1>1, StreamFacts
<1>3. Start(s, k) \in Nat /\ End(s, k) \in Nat
  BY <1>1, StartNext
<1>4. Ledger(Copies(s, k), P, Start(s, k), at)
  BY DEF Made
<1>5. at \in Nat /\ Start(s, k) <= at
  BY <1>4 DEF Ledger
<1>6. used \in Nat
  BY <1>3, <1>5, UncoveredFinite DEF Made
<1>7. P \subseteq Copies(s, k)
      /\ (\A m \in Copies(s, k) : m.src \in Nat /\ m.dest \in Nat /\ m.len \in Nat \ {0})
      /\ \A m \in P : Start(s, k) <= m.dest
  BY <1>4 DEF Ledger, Typed
<1> QED
  BY <1>1, <1>2, <1>3, <1>5, <1>6, <1>7

LEMMA ValidNext ==
  ASSUME NEW s, NEW k \in Nat \ {0}, Valid(s, k - 1), GoodStats(s, k)
  PROVE  Valid(s, k) <=> FitsIs(s, k)
<1>1. 1..k = (1..k - 1) \cup {k}
  OBVIOUS
<1> QED
  BY <1>1, FitsFacts DEF Valid

\* As many positions up to x are bare as literals have been used and gone by.
LEMMA BareUpto ==
  ASSUME NEW s, NEW k, NEW P, NEW at, NEW used, Made(s, k, P, at, used),
         NEW x \in Nat, at <= x, x <= End(s, k), \A m \in P : x <= m.dest
  PROVE  /\ Cardinality(Uncovered(Copies(s, k), Start(s, k), x)) = used + (x - at)
         /\ \A p \in at..x - 1 : \A m \in Copies(s, k) : ~Covers(m, p)
<1>1. Ledger(Copies(s, k), P, Start(s, k), at)
  BY DEF Made
<1> DEFINE A == Copies(s, k)
           L == Start(s, k)
<1>2. Ledger(A, P, L, at)
  BY <1>1
<1> HIDE DEF A, L
<1>3. /\ Uncovered(A, L, x) = Uncovered(A \ P, L, at) \cup (at..x - 1)
      /\ Cardinality(Uncovered(A, L, x)) = Cardinality(Uncovered(A \ P, L, at)) + (x - at)
      /\ Uncovered(A \ P, L, x) = Uncovered(A, L, x)
  BY <1>2, UncoveredUpto
<1>4. \A p \in at..x - 1 : \A m \in A : ~Covers(m, p)
  BY <1>3 DEF Uncovered
<1> QED
  BY <1>3, <1>4 DEF A, L, Made

\* A copy at which the reader breaks does not fit.
LEMMA CopyBreaks ==
  ASSUME NEW s, NEW k, NEW P, NEW at, NEW used, Made(s, k, P, at, used), NEW n \in P,
         \A m \in P : n.dest <= m.dest, n.dest < End(s, k),
         \/ n.dest < at
         \/ n.dest - at > s.blocks[k].lits - used
         \/ n.dest + n.len > End(s, k)
  PROVE  ~Valid(s, k)
<1> DEFINE A == Copies(s, k)
           L == Start(s, k)
           E == End(s, k)
           lit == s.blocks[k].lits
<1>1. /\ L \in Nat /\ E \in Nat /\ at \in Nat /\ L <= at /\ at <= E /\ used \in Nat /\ lit \in Nat
      /\ n \in A /\ n.dest \in Nat /\ n.len \in Nat \ {0} /\ L <= n.dest /\ k \in Nat \ {0}
  BY MadeFacts
<1>2. n.dest \in Positions(s, k) /\ Covers(n, n.dest)
  BY <1>1 DEF Positions, Covers
<1>3. SUFFICES ASSUME Valid(s, k) PROVE FALSE
  OBVIOUS
<1>4. FitsIs(s, k)
  BY <1>1, <1>3, ValidNext DEF Made
<1>5. CASE n.dest < at
  <2>1. n.dest \in L..at - 1
    BY <1>1, <1>5
  <2>2. Ledger(A, P, L, at)
    BY DEF Made
  <2>3. \E o \in A \ P : Covers(o, n.dest)
    BY <1>2, <2>1, <2>2 DEF Ledger
  <2>4. PICK o \in A \ P : Covers(o, n.dest)
    BY <2>3
  <2>5. o = n
    BY <1>1, <1>2, <1>4, <2>4 DEF FitsIs
  <2> QED
    BY <2>4, <2>5
<1>6. CASE at <= n.dest /\ n.dest - at > lit - used
  <2>1. Cardinality(Uncovered(A, L, n.dest)) = used + (n.dest - at)
    BY <1>1, <1>6, BareUpto
  <2>2. Cardinality(Uncovered(A, L, E)) = lit
    BY <1>4 DEF FitsIs
  <2>3. Uncovered(A, L, n.dest) \in SUBSET Uncovered(A, L, E)
    BY <1>1 DEF Uncovered
  <2>4. IsFiniteSet(Uncovered(A, L, E))
    BY <1>1, UncoveredFinite
  <2>5. Cardinality(Uncovered(A, L, n.dest)) <= Cardinality(Uncovered(A, L, E))
    BY <2>3, <2>4, FS_Subset
  <2> QED
    BY <1>1, <1>6, <2>1, <2>2, <2>5
<1>7. CASE n.dest + n.len > E
  <2>1. n.dest + n.len <= E
    BY <1>1, <1>2, <1>4 DEF FitsIs
  <2> QED
    BY <1>1, <1>7, <2>1
<1> QED
  BY <1>1, <1>5, <1>6, <1>7

\* When all copies into the block have been made, it fits if its other bytes
\* are as many as the literals left, and only then.
LEMMA RestDecides ==
  ASSUME NEW s, NEW k, NEW P, NEW at, NEW used, Made(s, k, P, at, used),
         \A m \in P : End(s, k) <= m.dest
  PROVE  Valid(s, k) <=> s.blocks[k].lits - used = End(s, k) - at
<1> DEFINE A == Copies(s, k)
           L == Start(s, k)
           E == End(s, k)
           lit == s.blocks[k].lits
<1>1. /\ L \in Nat /\ E \in Nat /\ at \in Nat /\ L <= at /\ at <= E /\ used \in Nat /\ lit \in Nat
      /\ k \in Nat \ {0}
  BY MadeFacts
<1>2. \A m \in A : m.dest \in Nat /\ m.len \in Nat
  BY MadeFacts
<1>3. Cardinality(Uncovered(A, L, E)) = used + (E - at)
  BY <1>1, BareUpto
<1>4. Ledger(A, P, L, at)
  BY DEF Made
<1>5. ASSUME NEW m \in A, NEW p \in Positions(s, k), Covers(m, p)
      PROVE  m \in A \ P /\ p \in L..at - 1 /\ L <= m.dest /\ m.dest + m.len <= E
  <2>1. p \in Nat /\ L <= p /\ p < E /\ m.dest <= p /\ p < m.dest + m.len /\ m.dest \in Nat /\ m.len \in Nat
    BY <1>1, <1>2, <1>5 DEF Positions, Covers
  <2>2. m \in A \ P
    <3>1. CASE m \in P
      <4>1. E <= m.dest
        BY <3>1
      <4> QED
        BY <1>1, <2>1, <4>1
    <3> QED
      BY <3>1
  <2>3. m.dest + m.len <= at
    BY <1>4, <2>2 DEF Ledger
  <2>4. p \in L..at - 1
    BY <1>1, <2>1, <2>3
  <2>5. L <= m.dest
    BY <1>4, <1>5, <2>2, <2>4 DEF Ledger
  <2> QED
    BY <1>1, <2>1, <2>2, <2>3, <2>4, <2>5
<1>6. \A m, n \in A, p \in Positions(s, k) : Covers(m, p) /\ Covers(n, p) => m = n
  BY <1>4, <1>5 DEF Ledger
<1>7. FitsIs(s, k) <=> Cardinality(Uncovered(A, L, E)) = lit
  BY <1>5, <1>6 DEF FitsIs
<1>8. FitsIs(s, k) <=> used + (E - at) = lit
  BY <1>3, <1>7
<1>9. Valid(s, k) <=> FitsIs(s, k)
  BY <1>1, ValidNext DEF Made
<1> QED
  BY <1>1, <1>8, <1>9

LEMMA LaterBlock ==
  ASSUME NEW s \in Streams, NEW k \in 1..Len(s.blocks), NEW l \in 1..Len(s.blocks), NEW p \in Nat,
         Start(s, k) <= p, p < End(s, l)
  PROVE  k \in 1..l
<1>1. Len(s.blocks) \in Nat /\ Start(s, k) \in Nat /\ End(s, l) \in Nat
  BY StreamFacts, StartNext
<1>2. ~(l < k)
  <2> SUFFICES ASSUME l < k PROVE FALSE
    OBVIOUS
  <2>1. End(s, l) <= Start(s, k)
    BY StartsAscend
  <2> QED
    BY <1>1, <2>1
<1> QED
  BY <1>1, <1>2

-----------------------------------------------------------------------------
(* The bytes of a block in the making are the bytes the stream means.      *)

LEMMA SeqBytes ==
  ASSUME NEW T, NEW f \in Seq(T), NEW n \in Nat, Len(f) = n
  PROVE  IsBytes(f, n)
<1>1. f = [i \in 1..n |-> f[i]]
  OBVIOUS
<1> QED
  BY <1>1 DEF IsBytes

\* q is the a bytes of f and then the b bytes of g.
Joins(q, f, a, g, b) ==
  /\ IsBytes(q, a + b) /\ a \in Nat /\ b \in Nat
  /\ \A i \in 1..a : q[i] = f[i]
  /\ \A i \in 1..b : q[a + i] = g[i]

LEMMA JoinBytes ==
  ASSUME NEW f, NEW a, IsBytes(f, a), NEW g, NEW b, IsBytes(g, b)
  PROVE  Joins(f \o g, f, a, g, b)
<1> DEFINE T == {f[i] : i \in 1..a} \cup {g[i] : i \in 1..b}
<1>1. /\ a \in Nat /\ Len(f) = a /\ DOMAIN f = 1..a
      /\ b \in Nat /\ Len(g) = b /\ DOMAIN g = 1..b
  BY BytesFacts
<1>2. f \in [1..a -> T] /\ g \in [1..b -> T]
  BY DEF IsBytes
<1> HIDE DEF T
<1>3. f \in Seq(T) /\ g \in Seq(T)
  BY <1>1, <1>2
<1>4. /\ f \o g \in Seq(T) /\ Len(f \o g) = a + b
      /\ \A i \in 1..a : (f \o g)[i] = f[i]
      /\ \A i \in 1..b : (f \o g)[a + i] = g[i]
  <2>1. /\ f \o g \in Seq(T) /\ Len(f \o g) = Len(f) + Len(g)
        /\ \A i \in 1..Len(f) : (f \o g)[i] = f[i]
        /\ \A i \in 1..Len(g) : (f \o g)[Len(f) + i] = g[i]
    BY <1>3, JoinFacts
  <2> QED
    BY <1>1, <2>1
<1>5. IsBytes(f \o g, a + b)
  <2>1. a + b \in Nat
    BY <1>1
  <2> QED
    BY <1>4, <2>1, SeqBytes
<1> QED
  BY <1>1, <1>4, <1>5 DEF Joins

\* q is the a bytes of f and then x.
Appends(q, f, a, x) ==
  /\ IsBytes(q, a + 1) /\ a \in Nat
  /\ \A i \in 1..a : q[i] = f[i]
  /\ q[a + 1] = x

LEMMA AppendBytes ==
  ASSUME NEW f, NEW a, IsBytes(f, a), NEW x
  PROVE  Appends(Append(f, x), f, a, x)
<1> DEFINE T == {f[i] : i \in 1..a} \cup {x}
<1>1. a \in Nat /\ Len(f) = a /\ DOMAIN f = 1..a
  BY BytesFacts
<1>2. f \in [1..a -> T] /\ x \in T
  BY DEF IsBytes
<1> HIDE DEF T
<1>3. f \in Seq(T) /\ x \in T
  BY <1>1, <1>2
<1>4. /\ Append(f, x) \in Seq(T) /\ Len(Append(f, x)) = a + 1
      /\ (\A i \in 1..a : Append(f, x)[i] = f[i]) /\ Append(f, x)[a + 1] = x
  BY <1>1, <1>3
<1>5. IsBytes(Append(f, x), a + 1)
  <2>1. a + 1 \in Nat
    BY <1>1
  <2> QED
    BY <1>4, <2>1, SeqBytes
<1> QED
  BY <1>1, <1>4, <1>5 DEF Appends

\* The bytes of q from the a-th to the b-th are those of the stream.
Goes(s, src, q, a, b) ==
  \A l \in 1..Len(s.blocks) :
    Valid(s, l) /\ src + b <= End(s, l) =>
      \A i \in 1..b : a < i => q[i] = Original(s, l)[src + i - 1]

LEMMA HoldsMore ==
  ASSUME NEW s \in Streams, NEW src \in Nat, NEW o, NEW a, IsBytes(o, a), Holds(s, src, o),
         NEW q, NEW b, IsBytes(q, b), a <= b, \A i \in 1..a : q[i] = o[i], Goes(s, src, q, a, b)
  PROVE  Holds(s, src, q)
<1>1. a \in Nat /\ b \in Nat /\ Len(o) = a /\ Len(q) = b
  BY BytesFacts
<1> SUFFICES ASSUME NEW l \in 1..Len(s.blocks), Valid(s, l), src + b <= End(s, l), NEW i \in 1..b
             PROVE  q[i] = Original(s, l)[src + i - 1]
  BY <1>1 DEF Holds
<1>2. End(s, l) \in Nat
  BY StartNext
<1>3. src + a <= End(s, l)
  BY <1>1, <1>2
<1>4. CASE a < i
  BY <1>4 DEF Goes
<1>5. CASE i <= a
  <2>1. i \in 1..a
    BY <1>1, <1>5
  <2>2. o[i] = Original(s, l)[src + i - 1]
    BY <1>1, <1>3, <2>1 DEF Holds
  <2> QED
    BY <2>1, <2>2
<1> QED
  BY <1>1, <1>4, <1>5

\* q is block k up to x.
Built(s, k, x, q) == IsBytes(q, x - Start(s, k)) /\ Holds(s, Start(s, k), q)

\* The next n literals of block k, of which used have been used.
NextLiterals(k, used, n) == [i \in 1..n |-> <<k, used + i>>]

\* Literals up to where no copy to come lies before.
LEMMA LiteralsMean ==
  ASSUME NEW s, NEW k, NEW P, NEW at, NEW used, Made(s, k, P, at, used),
         NEW o, IsBytes(o, at - Start(s, k)), Holds(s, Start(s, k), o),
         NEW x \in Nat, at <= x, x <= End(s, k), \A m \in P : x <= m.dest
  PROVE  Built(s, k, x, o \o NextLiterals(k, used, x - at))
<1> DEFINE A == Copies(s, k)
           L == Start(s, k)
           E == End(s, k)
           a == at - L
           b == x - at
           more == NextLiterals(k, used, x - at)
           q == o \o more
<1>1. /\ s \in Streams /\ k \in 1..Len(s.blocks) /\ Len(s.blocks) \in Nat
      /\ L \in Nat /\ E \in Nat /\ at \in Nat /\ L <= at /\ at <= E /\ used \in Nat
  BY MadeFacts
<1>2. b \in Nat /\ a \in Nat /\ a + b = x - L /\ x - L \in Nat /\ a <= x - L /\ at = L + a
  BY <1>1
<1>3. IsBytes(more, b) /\ IsBytes(o, a)
  BY <1>2 DEF IsBytes, NextLiterals
<1>10. \A i \in 1..b : more[i] = <<k, used + i>>
  BY DEF NextLiterals
<1>11. b = x - at
  OBVIOUS
<1> HIDE DEF more, a, b
<1>4. /\ IsBytes(q, a + b)
      /\ \A i \in 1..a : q[i] = o[i]
      /\ \A i \in 1..b : q[a + i] = more[i]
  <2>1. Joins(q, o, a, more, b)
    BY <1>3, JoinBytes
  <2> HIDE DEF q
  <2> QED
    BY <2>1 DEF Joins
<1>5. IsBytes(q, x - L)
  BY <1>2, <1>4
<1> HIDE DEF q
<1>6. ASSUME NEW l \in 1..Len(s.blocks), Valid(s, l), L + (x - L) <= End(s, l), NEW i \in 1..x - L, a < i
      PROVE  q[i] = Original(s, l)[L + i - 1]
  <2> DEFINE p == L + i - 1
             j == i - a
  <2>1. /\ p \in Nat /\ at <= p /\ p < x /\ L <= p /\ p < E /\ p + 1 \in Nat /\ p + 1 <= x /\ at <= p + 1
        /\ p + 1 <= E /\ j \in 1..b /\ a + j = i /\ (p + 1) - at = j
    <3>1. i \in Nat /\ i <= x - L /\ a + 1 <= i
      BY <1>2, <1>6
    <3> HIDE DEF L, E
    <3>2. x <= E
      BY DEF E
    <3>3. p \in Nat /\ at <= p /\ p < x
      BY <1>1, <1>2, <3>1
    <3>4. j \in 1..b /\ a + j = i /\ (p + 1) - at = j
      BY <1>1, <1>2, <3>1
    <3> QED
      BY <1>1, <3>2, <3>3, <3>4
  <2>2. q[i] = <<k, used + j>>
    BY <1>4, <1>10, <2>1
  <2> HIDE DEF p, j
  <2>3. p \in Positions(s, k)
    BY <1>1, <2>1 DEF Positions
  <2>4. End(s, l) \in Nat
    BY <1>1, StartNext
  <2>5. p < End(s, l)
    <3>1. L + (x - L) = x
      BY <1>1
    <3>2. x <= End(s, l)
      BY <1>6, <3>1
    <3> QED
      BY <2>1, <2>4, <3>2
  <2>6. k \in 1..l
    BY <1>1, <2>1, <2>5, LaterBlock
  <2>7. \A m \in P : p + 1 <= m.dest
    <3> SUFFICES ASSUME NEW m \in P PROVE p + 1 <= m.dest
      OBVIOUS
    <3>1. x <= m.dest /\ m.dest \in Nat
      BY MadeFacts
    <3> QED
      BY <2>1, <3>1
  <2> DEFINE z == p + 1
  <2>12. z \in Nat /\ at <= z /\ z <= End(s, k) /\ \A m \in P : z <= m.dest
    BY <2>1, <2>7
  <2> HIDE DEF z
  <2>13. /\ Cardinality(Uncovered(Copies(s, k), Start(s, k), z)) = used + (z - at)
         /\ \A y \in at..z - 1 : \A m \in Copies(s, k) : ~Covers(m, y)
    BY <2>12, BareUpto
  <2>8. /\ Cardinality(Uncovered(A, L, p + 1)) = used + ((p + 1) - at)
        /\ \A y \in at..(p + 1) - 1 : \A m \in A : ~Covers(m, y)
    BY <2>13 DEF z
  <2>9. \A m \in A : ~Covers(m, p)
    <3>1. p \in at..(p + 1) - 1
      BY <1>1, <2>1
    <3> QED
      BY <2>8, <3>1
  <2>10. Original(s, l)[p] = <<k, Cardinality(Uncovered(A, L, p + 1))>>
    BY <1>1, <1>6, <2>3, <2>6, <2>9, OriginalBare
  <2>11. Original(s, l)[p] = <<k, used + j>>
    BY <2>1, <2>8, <2>10
  <2> QED
    BY <2>2, <2>11 DEF p
<1>7. Goes(s, L, q, a, x - L)
  BY <1>6 DEF Goes
<1>8. Holds(s, L, o)
  OBVIOUS
<1> HIDE DEF A, L, E
<1>9. Holds(s, L, q)
  BY <1>1, <1>2, <1>3, <1>4, <1>5, <1>7, <1>8, HoldsMore
<1> QED
  BY <1>5, <1>9 DEF Built, L, q, more, b

\* What a copy into block k means.
LEMMA CopiedByte ==
  ASSUME NEW s \in Streams, NEW k \in 1..Len(s.blocks), NEW n \in Copies(s, k),
         NEW j \in Nat, j < n.len, Start(s, k) <= n.dest, n.dest + n.len <= End(s, k),
         NEW l \in 1..Len(s.blocks), Valid(s, l), n.dest + j < End(s, l)
  PROVE  Original(s, l)[n.dest + j] = Original(s, l)[n.src + j] /\ n.src + n.len <= End(s, l) /\ k \in 1..l
<1> DEFINE p == n.dest + j
<1>1. Len(s.blocks) \in Nat /\ Start(s, k) \in Nat /\ End(s, k) \in Nat /\ End(s, l) \in Nat
  BY StreamFacts, StartNext
<1>2. PICK i \in 1..k : n \in ToSet(Decoded(s, i))
  BY DEF Copies
<1>3. i \in 1..Len(s.blocks)
  BY <1>1
<1>4. n.src \in Nat /\ n.dest \in Nat /\ n.len \in Nat \ {0}
  BY <1>2, <1>3, CopyFacts
<1>5. p \in Nat /\ Start(s, k) <= p /\ p < End(s, k) /\ p - n.dest = j /\ p < End(s, l)
  BY <1>1, <1>4, SMTT(20)
<1>6. p \in Positions(s, k) /\ Covers(n, p)
  BY <1>1, <1>4, <1>5, SMTT(20) DEF Positions, Covers
<1> HIDE DEF p
<1>7. k \in 1..l
  BY <1>5, LaterBlock
<1>8. Original(s, l)[p] = Original(s, l)[n.src + (p - n.dest)]
  BY <1>6, <1>7, OriginalCopied
<1>9. i \in 1..l
  BY <1>1, <1>7
<1>10. GoodStats(s, i)
  BY <1>9 DEF Valid
<1>11. n.src + n.len <= End(s, i)
  BY <1>2, <1>3, <1>10, CopyFacts
<1>12. End(s, i) \in Nat /\ End(s, i) <= End(s, l)
  <2>0. End(s, i) \in Nat
    BY <1>3, StartNext
  <2>1. CASE i = l
    BY <1>1, <2>1
  <2>2. CASE i < l
    <3>1. End(s, i) <= Start(s, l) /\ Start(s, l) \in Nat /\ Start(s, l) < End(s, l)
      BY <1>3, <2>2, StartsAscend, StartNext
    <3> QED
      BY <1>1, <2>0, <3>1
  <2> QED
    BY <1>9, <2>0, <2>1, <2>2
<1>13. n.src + n.len <= End(s, l)
  BY <1>1, <1>4, <1>11, <1>12, SMTT(20)
<1> QED
  BY <1>5, <1>7, <1>8, <1>13 DEF p

\* A copy with its bytes.
LEMMA CopiedMeans ==
  ASSUME NEW s \in Streams, NEW k \in 1..Len(s.blocks), NEW n \in Copies(s, k),
         Start(s, k) <= n.dest, n.dest + n.len <= End(s, k),
         NEW o, IsBytes(o, n.dest - Start(s, k)), Holds(s, Start(s, k), o),
         NEW data, IsBytes(data, n.len), Holds(s, n.src, data)
  PROVE  IsBytes(o \o data, n.dest + n.len - Start(s, k)) /\ Holds(s, Start(s, k), o \o data)
<1> DEFINE L == Start(s, k)
           a == n.dest - L
           q == o \o data
<1>1. /\ L \in Nat /\ End(s, k) \in Nat /\ Len(s.blocks) \in Nat
      /\ n.src \in Nat /\ n.dest \in Nat /\ n.len \in Nat \ {0}
  <2>1. L \in Nat /\ End(s, k) \in Nat /\ Len(s.blocks) \in Nat
    BY StreamFacts, StartNext
  <2>2. PICK i \in 1..k : n \in ToSet(Decoded(s, i))
    BY DEF Copies
  <2>3. i \in 1..Len(s.blocks)
    BY <2>1
  <2>4. n.src \in Nat /\ n.dest \in Nat /\ n.len \in Nat \ {0}
    BY <2>2, <2>3, CopyFacts
  <2> QED
    BY <2>1, <2>4
<1>2. a \in Nat /\ a + n.len = n.dest + n.len - L /\ L + (a + n.len) = n.dest + n.len /\ a <= a + n.len
      /\ L + a = n.dest
  BY <1>1, SMTT(20)
<1>3. IsBytes(o, a) /\ Holds(s, L, o)
  OBVIOUS
<1> HIDE DEF L, a
<1>4. Joins(q, o, a, data, n.len)
  BY <1>3, JoinBytes
<1> HIDE DEF q
<1>5. ASSUME NEW l \in 1..Len(s.blocks), Valid(s, l), L + (a + n.len) <= End(s, l), NEW i \in 1..a + n.len, a < i
      PROVE  q[i] = Original(s, l)[L + i - 1]
  <2> DEFINE j == i - a - 1
  <2>1. j \in Nat /\ j < n.len /\ j + 1 \in 1..n.len /\ a + (j + 1) = i /\ L + i - 1 = n.dest + j
    BY <1>1, <1>2, <1>5, SMTT(20)
  <2> HIDE DEF j
  <2>2. End(s, l) \in Nat
    BY StartNext
  <2>3. n.dest + j < End(s, l)
    <3>1. n.dest + n.len <= End(s, l)
      BY <1>2, <1>5
    <3> QED
      BY <1>1, <2>1, <2>2, <3>1, SMTT(20)
  <2>4. Original(s, l)[n.dest + j] = Original(s, l)[n.src + j] /\ n.src + n.len <= End(s, l)
    BY <1>5, <2>1, <2>3, CopiedByte
  <2>5. q[i] = data[j + 1]
    BY <1>4, <2>1 DEF Joins
  <2>6. Len(data) = n.len
    BY BytesFacts
  <2>7. data[j + 1] = Original(s, l)[n.src + (j + 1) - 1]
    BY <1>5, <2>1, <2>4, <2>6 DEF Holds
  <2>8. n.src + (j + 1) - 1 = n.src + j
    BY <1>1, <2>1
  <2> QED
    BY <2>1, <2>4, <2>5, <2>7, <2>8
<1>6. Goes(s, L, q, a, a + n.len)
  BY <1>5 DEF Goes
<1>7. IsBytes(q, a + n.len) /\ \A i \in 1..a : q[i] = o[i]
  BY <1>4 DEF Joins
<1>8. Holds(s, L, q)
  BY <1>1, <1>2, <1>3, <1>6, <1>7, HoldsMore
<1> QED
  BY <1>2, <1>7, <1>8 DEF L, q

\* The bytes of a later copy, from the block that announces it.
LEMMA KeptMeans ==
  ASSUME NEW s \in Streams, NEW k \in 1..Len(s.blocks), GoodStats(s, k), NEW c \in ToSet(Decoded(s, k)),
         NEW q, IsBytes(q, s.blocks[k].size), Holds(s, Start(s, k), q)
  PROVE  LET data == [i \in 1..c.len |-> q[c.src - Start(s, k) + i]]
         IN IsBytes(data, c.len) /\ Holds(s, c.src, data)
<1> DEFINE L == Start(s, k)
           data == [i \in 1..c.len |-> q[c.src - L + i]]
<1>1. /\ L \in Nat /\ End(s, k) \in Nat /\ End(s, k) = L + s.blocks[k].size /\ s.blocks[k].size \in Nat
      /\ c.src \in Nat /\ c.len \in Nat \ {0} /\ L <= c.src /\ c.src + c.len <= End(s, k)
      /\ Len(s.blocks) \in Nat
  BY StartNext, CopyFacts, StreamFacts
<1>2. IsBytes(data, c.len) /\ Len(data) = c.len /\ \A i \in 1..c.len : data[i] = q[c.src - L + i]
  <2>1. IsBytes(data, c.len) /\ \A i \in 1..c.len : data[i] = q[c.src - L + i]
    BY <1>1 DEF IsBytes
  <2> QED
    BY <2>1, BytesFacts
<1> HIDE DEF data
<1>3. ASSUME NEW l \in 1..Len(s.blocks), Valid(s, l), c.src + c.len <= End(s, l), NEW i \in 1..c.len
      PROVE  data[i] = Original(s, l)[c.src + i - 1]
  <2> DEFINE j == c.src - L + i
  <2>1. j \in 1..s.blocks[k].size /\ L + j - 1 = c.src + i - 1
    <3> DEFINE z == s.blocks[k].size
    <3>1. /\ L \in Nat /\ z \in Nat /\ c.src \in Nat /\ c.len \in Nat
          /\ L <= c.src /\ c.src + c.len <= L + z
      BY <1>1
    <3> HIDE DEF L, z
    <3>3. i \in Nat /\ 1 <= i /\ i <= c.len
      BY <3>1
    <3>4. j \in Nat /\ 1 <= j /\ j <= z
      BY <3>1, <3>3, SMTT(20)
    <3>2. j \in 1..z /\ L + j - 1 = c.src + i - 1
      BY <3>1, <3>3, <3>4, SMTT(20)
    <3> QED
      BY <3>2 DEF z
  <2>2. data[i] = q[j]
    BY <1>2, <1>3
  <2> HIDE DEF j
  <2>3. End(s, l) \in Nat /\ End(s, k) <= End(s, l)
    <3>0. End(s, l) \in Nat
      BY StartNext
    <3>1. c.src < End(s, l)
      BY <1>1, <1>3, <3>0, SMTT(20)
    <3>2. k \in 1..l
      BY <1>1, <3>1, LaterBlock
    <3>3. CASE k = l
      BY <1>1, <3>3
    <3>4. CASE k < l
      <4>1. End(s, k) <= Start(s, l) /\ Start(s, l) \in Nat /\ Start(s, l) < End(s, l)
        BY <3>4, StartsAscend, StartNext
      <4> QED
        BY <1>1, <3>0, <4>1
    <3> QED
      BY <1>1, <3>0, <3>2, <3>3, <3>4
  <2>4. Len(q) = s.blocks[k].size
    BY BytesFacts
  <2>5. L + Len(q) <= End(s, l)
    BY <1>1, <2>3, <2>4
  <2>6. q[j] = Original(s, l)[L + j - 1]
    BY <1>3, <2>1, <2>4, <2>5 DEF Holds
  <2> QED
    BY <2>1, <2>2, <2>6
<1>4. Holds(s, c.src, data)
  BY <1>2, <1>3 DEF Holds
<1> QED
  BY <1>2, <1>4 DEF data, L

\* A whole block is what the stream means by it.
LEMMA WholeMeans ==
  ASSUME NEW s \in Streams, NEW k \in 1..Len(s.blocks), Valid(s, k),
         NEW q, IsBytes(q, s.blocks[k].size), Holds(s, Start(s, k), q)
  PROVE  q = Bytes(s, k)
<1>1. Len(q) = s.blocks[k].size /\ q = [i \in 1..s.blocks[k].size |-> q[i]]
  BY BytesFacts DEF IsBytes
<1>2. Start(s, k) + Len(q) <= End(s, k)
  BY <1>1, StartNext
<1>3. \A i \in 1..s.blocks[k].size : q[i] = Original(s, k)[Start(s, k) + i - 1]
  BY <1>1, <1>2 DEF Holds
<1> QED
  BY <1>1, <1>3 DEF Bytes

\* A copy inside the block goes byte by byte.
Copied(o, from, n, g) ==
  g = [i \in 0..n |-> IF i = 0 THEN o ELSE Append(g[i - 1], g[i - 1][from + i])]

LEMMA CopiedExists ==
  ASSUME NEW o, NEW from, NEW N \in Nat
  PROVE  \E g : Copied(o, from, N, g)
<1> DEFINE S == {n \in Nat : \E g : Copied(o, from, n, g)}
<1>1. 0 \in S
  <2> DEFINE g == [i \in 0..0 |-> o]
  <2>1. Copied(o, from, 0, g)
    BY DEF Copied
  <2> QED
    BY <2>1
<1>2. ASSUME NEW n \in Nat, n \in S
      PROVE  n + 1 \in S
  <2>1. PICK g : Copied(o, from, n, g)
    BY <1>2
  <2>2. \A i \in 0..n : g[i] = IF i = 0 THEN o ELSE Append(g[i - 1], g[i - 1][from + i])
    BY <2>1 DEF Copied
  <2> DEFINE h == [i \in 0..n + 1 |-> IF i = n + 1 THEN Append(g[n], g[n][from + (n + 1)]) ELSE g[i]]
  <2>3. h[n] = g[n]
    OBVIOUS
  <2>4. ASSUME NEW i \in 0..n + 1
        PROVE  h[i] = IF i = 0 THEN o ELSE Append(h[i - 1], h[i - 1][from + i])
    <3>1. CASE i = n + 1
      <4>1. i # 0 /\ i - 1 = n /\ h[i] = Append(g[n], g[n][from + i])
        BY <3>1
      <4> QED
        BY <2>3, <4>1
    <3>2. CASE i = 0
      <4>1. i \in 0..n /\ h[i] = g[i]
        BY <3>2
      <4> HIDE DEF h
      <4> QED
        BY <2>2, <3>2, <4>1
    <3>3. CASE i # 0 /\ i # n + 1
      <4>1. i \in 0..n /\ i - 1 \in 0..n
        BY <3>3
      <4>2. h[i] = g[i] /\ h[i - 1] = g[i - 1]
        BY <3>3, <4>1
      <4> HIDE DEF h
      <4>3. g[i] = Append(g[i - 1], g[i - 1][from + i])
        BY <2>2, <3>3, <4>1
      <4> QED
        BY <3>3, <4>2, <4>3
    <3> QED
      BY <3>1, <3>2, <3>3
  <2>5. h = [i \in 0..n + 1 |-> h[i]]
    OBVIOUS
  <2> HIDE DEF h
  <2>6. Copied(o, from, n + 1, h)
    BY <2>4, <2>5 DEF Copied
  <2> QED
    BY <2>6
<1>3. Nat \subseteq S
  <2> HIDE DEF S
  <2> QED
    BY <1>1, <1>2, SetInduction
<1> QED
  BY <1>3

LEMMA InsideMeans ==
  ASSUME NEW s \in Streams, NEW k \in 1..Len(s.blocks), NEW n \in Copies(s, k),
         Start(s, k) <= n.src, n.src < n.dest, n.dest + n.len <= End(s, k),
         NEW o, IsBytes(o, n.dest - Start(s, k)), Holds(s, Start(s, k), o),
         NEW g, Copied(o, n.src - Start(s, k), n.len, g)
  PROVE  IsBytes(g[n.len], n.dest + n.len - Start(s, k)) /\ Holds(s, Start(s, k), g[n.len])
<1> DEFINE L == Start(s, k)
           a == n.dest - L
           N == n.len
           from == n.src - L
           S == {i \in Nat : i <= N => IsBytes(g[i], a + i) /\ Holds(s, L, g[i])}
<1>1. /\ L \in Nat /\ End(s, k) \in Nat /\ Len(s.blocks) \in Nat
      /\ n.src \in Nat /\ n.dest \in Nat /\ N \in Nat /\ N \in Nat \ {0}
  <2>1. L \in Nat /\ End(s, k) \in Nat /\ Len(s.blocks) \in Nat
    BY StreamFacts, StartNext
  <2>2. PICK i \in 1..k : n \in ToSet(Decoded(s, i))
    BY DEF Copies
  <2>3. i \in 1..Len(s.blocks)
    BY <2>1
  <2>4. n.src \in Nat /\ n.dest \in Nat /\ n.len \in Nat \ {0}
    BY <2>2, <2>3, CopyFacts
  <2> QED
    BY <2>1, <2>4
<1>2. /\ a \in Nat /\ from \in Nat /\ from < a /\ L + a = n.dest /\ L + from = n.src
      /\ a + N = n.dest + n.len - L /\ L <= n.dest
  BY <1>1, SMTT(20)
<1>3. \A i \in 0..N : g[i] = IF i = 0 THEN o ELSE Append(g[i - 1], g[i - 1][from + i])
  BY DEF Copied
<1>4. IsBytes(o, a) /\ Holds(s, L, o) /\ n.dest + N <= End(s, k)
  OBVIOUS
<1> HIDE DEF L, a, from, N
<1>5. 0 \in S
  <2>1. g[0] = o /\ a + 0 = a
    BY <1>1, <1>2, <1>3
  <2> QED
    BY <1>4, <2>1
<1>6. ASSUME NEW i \in Nat, i \in S PROVE i + 1 \in S
  <2> SUFFICES ASSUME i + 1 <= N PROVE IsBytes(g[i + 1], a + (i + 1)) /\ Holds(s, L, g[i + 1])
    OBVIOUS
  <2> DEFINE f == g[i]
             h == g[i + 1]
             x == f[from + (i + 1)]
             b == a + i
  <2>1. i \in 0..N /\ i + 1 \in 0..N /\ (i + 1) - 1 = i /\ i + 1 # 0 /\ i <= N /\ i < N
    BY <1>1
  <2>2. h = Append(f, x)
    BY <1>3, <2>1
  <2>3. IsBytes(f, b) /\ Holds(s, L, f)
    BY <1>6, <2>1
  <2>4. b \in Nat /\ b + 1 = a + (i + 1) /\ from + (i + 1) \in 1..b /\ L + (b + 1) = n.dest + (i + 1)
        /\ L + (from + (i + 1)) - 1 = n.src + i
    BY <1>1, <1>2
  <2> HIDE DEF f, h, b
  <2>5. IsBytes(h, b + 1) /\ (\A j \in 1..b : h[j] = f[j]) /\ h[b + 1] = x
    <3> HIDE DEF x
    <3>1. Appends(Append(f, x), f, b, x)
      BY <2>3, AppendBytes
    <3>2. Appends(h, f, b, x)
      BY <2>2, <3>1
    <3> QED
      BY <3>2 DEF Appends
  <2>6. ASSUME NEW l \in 1..Len(s.blocks), Valid(s, l), L + (b + 1) <= End(s, l), NEW j \in 1..b + 1, b < j
        PROVE  h[j] = Original(s, l)[L + j - 1]
    <3>0. End(s, l) \in Nat
      BY StartNext
    <3>8. j = b + 1
      <4>1. b \in Nat /\ b < j /\ j \in 1..b + 1
        BY <2>4, <2>6
      <4> QED
        BY <4>1
    <3>9. L + (b + 1) - 1 = n.dest + i
      <4>1. L + (b + 1) = n.dest + (i + 1) /\ n.dest \in Nat /\ i \in Nat /\ b \in Nat /\ L \in Nat
        BY <1>1, <2>4
      <4> QED
        BY <4>1
    <3>1. j = b + 1 /\ L + j - 1 = n.dest + i
      BY <3>8, <3>9
    <3>2. n.dest + (i + 1) <= End(s, l)
      BY <2>4, <2>6
    <3>3. n.dest + i < End(s, l)
      BY <1>1, <3>0, <3>2
    <3>4. Original(s, l)[n.dest + i] = Original(s, l)[n.src + i]
      <4>1. i < n.len /\ Start(s, k) <= n.dest /\ n.dest + n.len <= End(s, k)
        BY <1>2, <1>4, <2>1 DEF N, L
      <4> QED
        BY <2>6, <3>3, <4>1, CopiedByte
    <3>5. Len(f) = b
      BY <2>3, BytesFacts
    <3>6. L + b <= End(s, l)
      BY <1>1, <2>4, <2>6, <3>0
    <3>7. f[from + (i + 1)] = Original(s, l)[L + (from + (i + 1)) - 1]
      BY <2>3, <2>4, <2>6, <3>5, <3>6 DEF Holds
    <3> QED
      BY <2>4, <2>5, <3>1, <3>4, <3>7
  <2>7. Goes(s, L, h, b, b + 1)
    BY <2>6 DEF Goes
  <2>8. b <= b + 1
    BY <2>4
  <2>10. b + 1 \in Nat
    BY <2>4
  <2> HIDE DEF x
  <2>9. Holds(s, L, h)
    BY <1>1, <2>3, <2>5, <2>7, <2>8, HoldsMore
  <2> QED
    BY <2>4, <2>5, <2>9 DEF h
<1>7. Nat \subseteq S
  <2> HIDE DEF S
  <2> QED
    BY <1>5, <1>6, SetInduction
<1>8. IsBytes(g[N], a + N) /\ Holds(s, L, g[N])
  BY <1>1, <1>7
<1> QED
  BY <1>2, <1>8 DEF N, L

LEMMA CopyInsideMeans ==
  ASSUME NEW n, NEW c, n.src = c.src, n.dest = c.dest, n.len = c.len,
         stream \in Streams, done + 1 \in 1..Len(stream.blocks), c \in Copies(stream, done + 1),
         Start(stream, done + 1) <= n.src, n.src < n.dest, n.dest + n.len <= Limit, n.len \in Nat,
         NEW o, IsBytes(o, n.dest - Start(stream, done + 1)), Holds(stream, Start(stream, done + 1), o)
  PROVE  /\ IsBytes(CopyInside(o, n), n.dest + n.len - Start(stream, done + 1))
         /\ Holds(stream, Start(stream, done + 1), CopyInside(o, n))
<1> DEFINE from == n.src - Start(stream, done + 1)
           g == CHOOSE g : Copied(o, from, n.len, g)
<1>1. CopyInside(o, n) = g[n.len]
  BY DEF CopyInside, Copied
<1>2. Copied(o, from, n.len, g)
  <2> HIDE DEF from
  <2> QED
    BY CopiedExists
<1> HIDE DEF g
<1>3. Copied(o, c.src - Start(stream, done + 1), c.len, g)
  BY <1>2
<1>4. /\ Start(stream, done + 1) <= c.src /\ c.src < c.dest
      /\ c.dest + c.len <= End(stream, done + 1) /\ IsBytes(o, c.dest - Start(stream, done + 1))
  BY DEF Limit
<1>5. /\ IsBytes(g[c.len], c.dest + c.len - Start(stream, done + 1))
      /\ Holds(stream, Start(stream, done + 1), g[c.len])
  BY <1>3, <1>4, InsideMeans
<1> QED
  BY <1>1, <1>5

-----------------------------------------------------------------------------
(* The account of the copies announced and not yet made.                   *)

\* What a copy is, wherever it is kept.
Plain(n) == [src |-> n.src, dest |-> n.dest, len |-> n.len]

\* The copies kept: with bytes (I), and in the heap without (N).
Kept(I, N) == {Plain(x) : x \in I} \cup {Plain(n) : n \in N}

\* The copies of block k that are still to be saved.
LaterOf(s, k, T) == {Decoded(s, k)[j] : j \in T}

\* No two copies kept have the same destination.
Apart(I, N) ==
  /\ \A x, y \in I : x.dest = y.dest => x = y
  /\ \A x \in I, n \in N : x.dest # n.dest
  /\ \A m, n \in N : m.dest = n.dest => m = n

LEMMA ItemsApart ==
  ASSUME NEW hp, IsHeap(hp), NEW m, NEW dk, Once(hp, dk), Whole(dk)
  PROVE  /\ Apart(Items(hp, m, dk), Inside(hp))
         /\ \A x \in Items(hp, m, dk) : IsBytes(x.data, x.len)
<1> DEFINE I == Items(hp, m, dk)
           FromHeap(x) == \E n \in InMem(hp) : x = Item(n, m)
           FromDisk(x) == \E b \in DOMAIN dk : \E i \in DOMAIN dk[b] : x = dk[b][i]
<1>1. \A x \in I : FromHeap(x) \/ FromDisk(x)
  BY DEF Items, Records
<1>2. \A n \in InMem(hp) : n \in Copying(hp) /\ n.len \in Nat /\ n.index # 0
  BY CopyingFacts
<1>3. \A n : Item(n, m).dest = n.dest /\ Item(n, m).len = n.len /\ Item(n, m).data = Stored(m, n.index, n.len)
  BY ItemFacts
<1> HIDE DEF I
<1>4. ASSUME NEW x \in I, NEW y \in I, x.dest = y.dest PROVE x = y
  <2>1. CASE FromHeap(x) /\ FromHeap(y)
    <3>1. PICK n \in InMem(hp) : x = Item(n, m)
      BY <2>1
    <3>2. PICK o \in InMem(hp) : y = Item(o, m)
      BY <2>1
    <3>3. n.dest = o.dest
      BY <1>3, <1>4, <3>1, <3>2
    <3>4. n = o
      BY <1>2, <3>3 DEF Once
    <3> QED
      BY <3>1, <3>2, <3>4
  <2>2. CASE FromDisk(x) /\ FromDisk(y)
    <3>1. PICK b \in DOMAIN dk : \E i \in DOMAIN dk[b] : x = dk[b][i]
      BY <2>2
    <3>2. PICK c \in DOMAIN dk : \E i \in DOMAIN dk[c] : y = dk[c][i]
      BY <2>2
    <3>3. PICK i \in DOMAIN dk[b] : x = dk[b][i]
      BY <3>1
    <3>4. PICK j \in DOMAIN dk[c] : y = dk[c][j]
      BY <3>2
    <3>5. b = c /\ i = j
      BY <1>4, <3>3, <3>4 DEF Once
    <3> QED
      BY <3>3, <3>4, <3>5
  <2>3. CASE FromHeap(x) /\ FromDisk(y)
    <3>1. PICK n \in InMem(hp) : x = Item(n, m)
      BY <2>3
    <3>2. n.dest = y.dest /\ n \in Copying(hp)
      BY <1>2, <1>3, <1>4, <3>1
    <3> QED
      BY <2>3, <3>2 DEF Once
  <2>4. CASE FromDisk(x) /\ FromHeap(y)
    <3>1. PICK n \in InMem(hp) : y = Item(n, m)
      BY <2>4
    <3>2. n.dest = x.dest /\ n \in Copying(hp)
      BY <1>2, <1>3, <1>4, <3>1
    <3> QED
      BY <2>4, <3>2 DEF Once
  <2> QED
    BY <1>1, <2>1, <2>2, <2>3, <2>4
<1>5. ASSUME NEW x \in I, NEW n \in Inside(hp) PROVE x.dest # n.dest
  <2>1. n \in Copying(hp) /\ n.index = 0
    BY DEF Inside
  <2>2. CASE FromHeap(x)
    <3>1. PICK o \in InMem(hp) : x = Item(o, m)
      BY <2>2
    <3>2. o # n /\ o \in Copying(hp) /\ x.dest = o.dest
      BY <1>2, <1>3, <2>1, <3>1
    <3> QED
      BY <2>1, <3>2 DEF Once
  <2>3. CASE FromDisk(x)
    BY <2>1, <2>3 DEF Once
  <2> QED
    BY <1>1, <2>2, <2>3
<1>6. \A o, n \in Inside(hp) : o.dest = n.dest => o = n
  BY DEF Inside, Once
<1>7. ASSUME NEW x \in I PROVE IsBytes(x.data, x.len)
  <2>1. CASE FromHeap(x)
    <3>1. PICK n \in InMem(hp) : x = Item(n, m)
      BY <2>1
    <3>2. IsBytes(Stored(m, n.index, n.len), n.len)
      BY <1>2, StoredIs
    <3> QED
      BY <1>3, <3>1, <3>2
  <2>2. CASE FromDisk(x)
    BY <2>2 DEF Whole, IsWhole
  <2> QED
    BY <1>1, <2>1, <2>2
<1>8. Apart(I, Inside(hp))
  BY <1>4, <1>5, <1>6 DEF Apart
<1> QED
  BY <1>7, <1>8 DEF I

LEMMA KeptLess ==
  ASSUME NEW I, NEW N, Apart(I, N)
  PROVE  /\ \A x \in I : Kept(I \ {x}, N) = Kept(I, N) \ {Plain(x)} /\ Plain(x) \in Kept(I, N)
         /\ \A n \in N : Kept(I, N \ {n}) = Kept(I, N) \ {Plain(n)} /\ Plain(n) \in Kept(I, N)
<1>1. \A x, y : Plain(x) = Plain(y) => x.dest = y.dest
  <2> SUFFICES ASSUME NEW x, NEW y, Plain(x) = Plain(y) PROVE x.dest = y.dest
    OBVIOUS
  <2>1. Plain(x).dest = x.dest /\ Plain(y).dest = y.dest
    BY DEF Plain
  <2> QED
    BY <2>1
<1>2. ASSUME NEW x \in I PROVE Kept(I \ {x}, N) = Kept(I, N) \ {Plain(x)} /\ Plain(x) \in Kept(I, N)
  <2>1. \A y \in I \ {x} : Plain(y) # Plain(x)
    BY <1>1 DEF Apart
  <2>2. \A n \in N : Plain(n) # Plain(x)
    BY <1>1 DEF Apart
  <2> QED
    BY <2>1, <2>2 DEF Kept
<1>3. ASSUME NEW n \in N PROVE Kept(I, N \ {n}) = Kept(I, N) \ {Plain(n)} /\ Plain(n) \in Kept(I, N)
  <2>1. \A o \in N \ {n} : Plain(o) # Plain(n)
    BY <1>1 DEF Apart
  <2>2. \A x \in I : Plain(x) # Plain(n)
    BY <1>1 DEF Apart
  <2> QED
    BY <2>1, <2>2 DEF Kept
<1> QED
  BY <1>2, <1>3

LEMMA PlainFacts ==
  ASSUME NEW n
  PROVE  Plain(n).src = n.src /\ Plain(n).dest = n.dest /\ Plain(n).len = n.len
BY DEF Plain

LEMMA KeptTaken ==
  ASSUME NEW hp, IsHeap(hp), NEW m, NEW dk, Once(hp, dk), Whole(dk), NEW n, NEW hq, NEW o,
         Taken(hp, m, dk, n, hq, o)
  PROVE  /\ Kept(Items(hq, o, dk), Inside(hq)) = Kept(Items(hp, m, dk), Inside(hp)) \ {Plain(n)}
         /\ Plain(n) \in Kept(Items(hp, m, dk), Inside(hp))
         /\ Items(hq, o, dk) \subseteq Items(hp, m, dk) /\ Inside(hq) \subseteq Inside(hp)
<1>1. Apart(Items(hp, m, dk), Inside(hp))
  BY ItemsApart
<1>2. Plain(Item(n, m)) = Plain(n)
  BY ItemFacts DEF Plain
<1>3. CASE n.index = 0
  BY <1>1, <1>3, KeptLess DEF Taken
<1>4. CASE n.index # 0
  BY <1>1, <1>2, <1>4, KeptLess DEF Taken
<1> QED
  BY <1>3, <1>4

\* The first in the heap is due before every copy kept, until a mark is astray.
LEMMA FirstOfKept ==
  ASSUME KernelInv, ~astray
  PROVE  \A c \in Kept(Items(heap, mm, disk), Inside(heap)) : First(heap).dest <= c.dest
<1> DEFINE f == First(heap)
<1>1. IsHeap(heap) /\ Disk(heap, disk, vacant, astray)
  BY KernelParts
<1>2. f \in heap /\ \A o \in heap : f.dest <= o.dest
  BY <1>1, FirstFacts
<1>3. f.dest \in Nat /\ \A o \in heap : o.dest \in Nat
  BY <1>1, <1>2, HeapFacts
<1> HIDE DEF f
<1>4. \A n \in InMem(heap) : f.dest <= n.dest
  BY <1>2 DEF InMem
<1>5. \A n \in Inside(heap) : f.dest <= n.dest
  BY <1>2 DEF Inside, Copying
<1>6. ASSUME NEW b \in DOMAIN disk, NEW i \in DOMAIN disk[b] PROVE f.dest <= disk[b][i].dest
  <2>1. IsBlock(disk[b]) /\ Marked(MarksOf(heap, b), disk[b], astray)
    BY <1>1 DEF Disk
  <2>2. disk[b][i].dest \in Nat
    BY <2>1, SrepAssumption DEF IsBlock, IsRecord
  <2>3. disk[b] # NoBlock
    <3>1. 1..0 = {}
      OBVIOUS
    <3> QED
      BY <2>1, <3>1 DEF IsBlock
  <2>4. PICK n : MarksOf(heap, b) = {n} /\ \A j \in DOMAIN disk[b] : n.dest <= disk[b][j].dest
    BY <2>1, <2>3 DEF Marked
  <2>5. n \in heap
    BY <2>4 DEF MarksOf
  <2>6. f.dest <= n.dest /\ n.dest <= disk[b][i].dest /\ n.dest \in Nat
    BY <1>2, <1>3, <2>4, <2>5
  <2> QED
    BY <1>3, <2>2, <2>6
<1>7. \A x \in Items(heap, mm, disk) : f.dest <= x.dest
  <2> SUFFICES ASSUME NEW x \in Items(heap, mm, disk) PROVE f.dest <= x.dest
    OBVIOUS
  <2>1. CASE \E n \in InMem(heap) : x = Item(n, mm)
    <3>1. PICK n \in InMem(heap) : x = Item(n, mm)
      BY <2>1
    <3>2. x.dest = n.dest
      BY <3>1, ItemFacts
    <3> QED
      BY <1>4, <3>2
  <2>2. CASE x \in Records(disk)
    BY <1>6, <2>2 DEF Records
  <2> QED
    BY <2>1, <2>2 DEF Items
<1>8. ASSUME NEW c \in Kept(Items(heap, mm, disk), Inside(heap)) PROVE f.dest <= c.dest
  <2>1. CASE \E x \in Items(heap, mm, disk) : c = Plain(x)
    <3>1. PICK x \in Items(heap, mm, disk) : c = Plain(x)
      BY <2>1
    <3> QED
      BY <1>7, <3>1, PlainFacts
  <2>2. CASE \E n \in Inside(heap) : c = Plain(n)
    <3>1. PICK n \in Inside(heap) : c = Plain(n)
      BY <2>2
    <3> QED
      BY <1>5, <3>1, PlainFacts
  <2> QED
    BY <2>1, <2>2 DEF Kept
<1> QED
  BY <1>8 DEF f

\* d blocks have been read, and P are the copies still to come.
Between(s, d, P) ==
  /\ s \in Streams /\ d \in 0..Len(s.blocks) /\ Valid(s, d) /\ P \subseteq Copies(s, d)
  /\ \A m \in P : Start(s, d + 1) <= m.dest
  /\ \A m \in Copies(s, d) \ P : m.dest + m.len <= Start(s, d + 1)

\* Copies of block k into later ones are still to be saved.
Waiting(s, k, K, T) ==
  /\ T \subseteq DOMAIN Decoded(s, k) /\ \A j \in T : End(s, k) <= Decoded(s, k)[j].dest
  /\ K \cap LaterOf(s, k, T) = {}

\* The copies without bytes in the heap stay inside block k.
StayInside(s, k, N) == \A n \in N : Plain(n) \in ToSet(Decoded(s, k)) /\ n.dest < End(s, k)

AllHold(s, I) == \A x \in I : Holds(s, x.src, x.data)

\* The copies kept, in the items I and the nodes N without bytes, have been
\* announced, and are none of those still to be saved.
Listed(I, N, s, d, st, p, T) ==
  st = "going" =>
    /\ p = "copy" => StayInside(s, d + 1, N)
    /\ p # "copy" => N = {}
    /\ p \in {"next", "decode", "stats"} => Kept(I, N) \subseteq Copies(s, d)
    /\ p \in {"copy", "save"} => /\ GoodStats(s, d + 1) /\ Kept(I, N) \subseteq Copies(s, d + 1)
                                /\ Waiting(s, d + 1, Kept(I, N), T)

ListInv == Listed(Items(heap, mm, disk), Inside(heap), stream, done, status, pc, todo)

\* The account of the copies and of the bytes of the block so far.
Account(I, N, s, d, st, p, c, l, T) ==
  st = "going" =>
    /\ AllHold(s, I)
    /\ p \in {"next", "decode", "stats"} => Between(s, d, Kept(I, N))
    /\ p = "copy" =>
         /\ Made(s, d + 1, Kept(I, N) \cup LaterOf(s, d + 1, T), Start(s, d + 1) + Len(c), l)
         /\ IsBytes(c, Len(c)) /\ Holds(s, Start(s, d + 1), c)
    /\ p = "save" =>
         /\ d + 1 \in 1..Len(s.blocks)
         /\ Between(s, d + 1, Kept(I, N) \cup LaterOf(s, d + 1, T))
         /\ IsBytes(c, s.blocks[d + 1].size) /\ Holds(s, Start(s, d + 1), c)

AccountInv == Account(Items(heap, mm, disk), Inside(heap), stream, done, status, pc, cur, lits, todo)

\* A block begins: its copies join those to come.
LEMMA Opens ==
  ASSUME NEW s, NEW d, NEW K, Between(s, d, K), d < Len(s.blocks), GoodStats(s, d + 1)
  PROVE  Made(s, d + 1, K \cup ToSet(Decoded(s, d + 1)), Start(s, d + 1), 0)
<1> DEFINE k == d + 1
           D == ToSet(Decoded(s, k))
           A == Copies(s, k)
           P == K \cup D
           L == Start(s, k)
<1>1. /\ s \in Streams /\ d \in Nat /\ Len(s.blocks) \in Nat /\ k \in 1..Len(s.blocks) /\ k \in Nat
      /\ k - 1 = d /\ K \subseteq Copies(s, d)
  <2>1. s \in Streams /\ d \in 0..Len(s.blocks) /\ K \subseteq Copies(s, d)
    BY DEF Between
  <2>2. Len(s.blocks) \in Nat
    BY <2>1, StreamFacts
  <2> QED
    BY <2>1, <2>2
<1>2. A = Copies(s, d) \cup D
  BY <1>1, CopiesNext
<1> HIDE DEF k
<1>3. L \in Nat /\ End(s, k) \in Nat /\ L < End(s, k)
  BY <1>1, StartNext
<1>4. Typed(A)
  <2> SUFFICES ASSUME NEW m \in A PROVE m.src \in Nat /\ m.dest \in Nat /\ m.len \in Nat \ {0}
    BY DEF Typed
  <2>1. PICK i \in 1..k : m \in ToSet(Decoded(s, i))
    BY DEF Copies
  <2>2. i \in 1..Len(s.blocks)
    BY <1>1, <2>1
  <2> QED
    BY <1>1, <2>1, <2>2, CopyFacts
<1>5. \A m \in D : L <= m.dest
  <2> SUFFICES ASSUME NEW m \in D PROVE L <= m.dest
    OBVIOUS
  <2>1. m.src \in Nat /\ m.dest \in Nat /\ L <= m.src /\ m.dest > m.src
    BY <1>1, CopyFacts DEF k
  <2> QED
    BY <1>3, <2>1
<1>6. (\A m \in K : L <= m.dest) /\ \A m \in Copies(s, d) \ K : m.dest + m.len <= L
  BY DEF Between, k
<1> HIDE DEF D, A
<1>7. L..L - 1 = {}
  BY <1>3
<1>8. L <= L /\ (\A m \in P : L <= m.dest) /\ \A m \in A \ P : m.dest + m.len <= L
  BY <1>2, <1>3, <1>5, <1>6
<1>9. P \subseteq A
  BY <1>1, <1>2
<1> HIDE DEF P, L
<1>10. Ledger(A, P, L, L)
  BY <1>3, <1>4, <1>7, <1>8, <1>9 DEF Ledger
<1>11. Uncovered(A \ P, L, L) = {} /\ Cardinality({}) = 0
  BY <1>7, FS_EmptySet DEF Uncovered
<1>12. GoodStats(s, k) /\ Valid(s, k - 1)
  BY <1>1 DEF Between, k
<1>13. Ledger(Copies(s, k), P, Start(s, k), L) /\ L <= End(s, k)
  BY <1>3, <1>10 DEF A, L
<1>14. 0 = Cardinality(Uncovered(Copies(s, k) \ P, Start(s, k), L))
  BY <1>11 DEF A, L
<1>15. Made(s, k, P, L, 0)
  BY <1>1, <1>12, <1>13, <1>14 DEF Made
<1> QED
  BY <1>15 DEF P, L, D, k

\* A block is complete when no copy to come lies in it and the rest is literals.
LEMMA Closes ==
  ASSUME NEW s, NEW k, NEW P, NEW at, NEW used, Made(s, k, P, at, used),
         \A m \in P : End(s, k) <= m.dest, s.blocks[k].lits - used = End(s, k) - at
  PROVE  Between(s, k, P)
<1>1. /\ s \in Streams /\ k \in 1..Len(s.blocks) /\ Len(s.blocks) \in Nat /\ P \subseteq Copies(s, k)
      /\ End(s, k) \in Nat /\ at \in Nat /\ at <= End(s, k)
  BY MadeFacts
<1>2. Valid(s, k)
  BY RestDecides
<1>3. Start(s, k + 1) = End(s, k)
  BY <1>1, StartNext
<1>4. ASSUME NEW m \in Copies(s, k) \ P PROVE m.dest + m.len <= End(s, k)
  <2>1. m.dest \in Nat /\ m.len \in Nat
    BY MadeFacts
  <2>2. m.dest + m.len <= at
    BY DEF Made, Ledger
  <2> QED
    BY <1>1, <2>1, <2>2
<1> QED
  BY <1>1, <1>2, <1>3, <1>4 DEF Between

\* The copy due first is made.
LEMMA Makes ==
  ASSUME NEW s, NEW k, NEW P, NEW at, NEW used, Made(s, k, P, at, used), NEW n \in P,
         \A m \in P : n.dest <= m.dest, at <= n.dest, n.dest + n.len <= End(s, k)
  PROVE  Made(s, k, P \ {n}, n.dest + n.len, used + (n.dest - at))
<1> DEFINE A == Copies(s, k)
           L == Start(s, k)
<1>1. Ledger(A, P, L, at)
  BY DEF Made
<1> HIDE DEF A, L
<1>2. Advances(A, P, L, at, n)
  BY <1>1, LedgerTakes
<1> QED
  BY <1>2 DEF Advances, Made, A, L

\* Nothing is changed for the account by what the copies are kept in.
LEMMA SameAccount ==
  ASSUME Items(heap', mm', disk') = Items(heap, mm, disk), Inside(heap') = Inside(heap),
         UNCHANGED <<stream, done, status, blockVars>>
  PROVE  (ListInv => ListInv') /\ (AccountInv => AccountInv')
BY DEF AccountInv, ListInv, blockVars

\* A reader that no longer goes on has nothing to account for.
LEMMA NoAccount ==
  ASSUME status' # "going"
  PROVE  ListInv' /\ AccountInv'
BY DEF AccountInv, Account, ListInv, Listed

\* What the reader is known to keep.  A mark that is astray upsets the account.
ReaderInv == Where /\ KernelInv /\ DataInv /\ ListInv /\ (~astray => AccountInv)

LEMMA Here ==
  ASSUME ReaderInv, status = "going", pc # "next"
  PROVE  /\ stream \in Streams /\ done \in Nat /\ done < Len(stream.blocks) /\ Len(stream.blocks) \in Nat
         /\ done + 1 \in 1..Len(stream.blocks) /\ done \in 0..Len(stream.blocks)
         /\ IsHeap(heap) /\ Once(heap, disk) /\ Whole(disk)
<1>1. stream \in Streams /\ done \in Nat /\ done < Len(stream.blocks)
  BY DEF ReaderInv, Where
<1>2. Len(stream.blocks) \in Nat
  BY <1>1, StreamFacts
<1>3. IsHeap(heap) /\ Once(heap, disk) /\ Whole(disk)
  BY KernelParts DEF ReaderInv, DataInv
<1> QED
  BY <1>1, <1>2, <1>3

\* A copy for which a block on the disk is too short has been announced.
LEMMA TooLongIsShort ==
  ASSUME ReaderInv, status = "going", pc # "next", NEW n \in InMem(heap), TooLong(n.len)
  PROVE  Short(stream)
<1> DEFINE K == Kept(Items(heap, mm, disk), Inside(heap))
<1>0. done \in Nat /\ pc \in {"decode", "stats", "copy", "save"}
  BY Here DEF ReaderInv, Where
<1>1. K \subseteq Copies(stream, done + 1)
  <2>1. Copies(stream, done) \subseteq Copies(stream, done + 1)
    BY <1>0, CopiesNext
  <2>2. K \subseteq Copies(stream, done) \/ K \subseteq Copies(stream, done + 1)
    BY <1>0 DEF ReaderInv, ListInv, Listed
  <2> HIDE DEF K
  <2> QED
    BY <2>1, <2>2
<1>2. Plain(n) \in K
  <2>1. Item(n, mm) \in Items(heap, mm, disk) /\ Plain(Item(n, mm)) = Plain(n)
    BY ItemFacts DEF Items, Plain
  <2> QED
    BY <2>1 DEF Kept
<1> HIDE DEF K
<1>3. PICK i \in 1..done + 1 : Plain(n) \in ToSet(Decoded(stream, i))
  BY <1>1, <1>2 DEF Copies
<1>4. i \in DOMAIN stream.blocks
  <2>1. stream \in Streams /\ done + 1 \in 1..Len(stream.blocks) /\ Len(stream.blocks) \in Nat
    BY Here
  <2>2. DOMAIN stream.blocks = 1..Len(stream.blocks)
    BY <2>1, StreamFacts
  <2> QED
    BY <1>0, <1>3, <2>1, <2>2
<1>5. TooLong(Plain(n).len)
  BY PlainFacts
<1> QED
  BY <1>3, <1>4, <1>5 DEF Short

\* A destination that no announced copy has is absent.
LEMMA KeptAbsent ==
  ASSUME NEW hp, NEW m, NEW dk, NEW dest, \A c \in Kept(Items(hp, m, dk), Inside(hp)) : c.dest # dest
  PROVE  Absent(hp, m, dk, dest)
<1>1. ASSUME NEW x \in Items(hp, m, dk) PROVE x.dest # dest
  <2>1. Plain(x) \in Kept(Items(hp, m, dk), Inside(hp))
    BY DEF Kept
  <2> QED
    BY <2>1, PlainFacts
<1>2. ASSUME NEW n \in Inside(hp) PROVE n.dest # dest
  <2>1. Plain(n) \in Kept(Items(hp, m, dk), Inside(hp))
    BY DEF Kept
  <2> QED
    BY <2>1, PlainFacts
<1> QED
  BY <1>1, <1>2 DEF Absent

LEMMA PlainCopy ==
  ASSUME NEW c \in CopyType
  PROVE  Plain(c) = c /\ Plain(Bytesless(c)) = c /\ Bytesless(c).dest = c.dest
BY DEF Plain, Bytesless, CopyType

LEMMA NoBytes ==
  ASSUME NEW s, NEW src
  PROVE  Len(<<>>) = 0 /\ IsBytes(<<>>, 0) /\ Holds(s, src, <<>>)
<1>1. Len(<<>>) = 0 /\ 1..0 = {}
  OBVIOUS
<1>2. <<>> = [i \in 1..0 |-> <<>>[i]]
  <2>1. <<>> \in Seq({0})
    OBVIOUS
  <2> QED
    BY <1>1, <2>1
<1> QED
  BY <1>1, <1>2 DEF IsBytes, Holds

\* A block begins.
LEMMA StartBlockLists ==
  ASSUME ReaderInv, StartBlock, ~Broken
  PROVE  /\ DataInv' /\ ListInv' /\ Items(heap', mm', disk') = Items(heap, mm, disk)
         /\ Kept(Items(heap, mm, disk), Inside(heap')) \cup LaterOf(stream, done + 1, todo')
            = Kept(Items(heap, mm, disk), Inside(heap)) \cup ToSet(Decoded(stream, done + 1))
<1> DEFINE s == stream
           k == done + 1
           I == Items(heap, mm, disk)
           N == Inside(heap)
           W == Within(stream, done + 1)
           D == ToSet(Decoded(stream, done + 1))
           T == {j \in DOMAIN Decoded(stream, done + 1) : Decoded(stream, done + 1)[j].dest >= Limit}
           M == {Bytesless(c) : c \in W}
<1>1. /\ Going("stats") /\ GoodStats(s, k) /\ todo' = T /\ pc' = "copy"
      /\ stream' = stream /\ done' = done /\ status' = status
  BY DEF StartBlock
<1>2. status = "going" /\ pc = "stats"
  BY <1>1 DEF Going
<1>3. /\ s \in Streams /\ done \in Nat /\ done < Len(s.blocks) /\ k \in 1..Len(s.blocks)
      /\ done \in 0..Len(s.blocks)
  BY <1>2, Here
<1>4. N = {} /\ Kept(I, N) \subseteq Copies(s, done)
  BY <1>2 DEF ReaderInv, ListInv, Listed
<1>6. \A c \in Kept(I, N), d \in D : c.dest # d.dest
  BY <1>3, <1>4, NewCopy
<1>7. W \subseteq D
  BY DEF Within
<1>8. \A c \in W : Absent(heap, mm, disk, c.dest)
  BY <1>6, <1>7, KeptAbsent
<1>0. Copies(s, k) = Copies(s, done) \cup D
  BY <1>3, CopiesNext
<1>9. \A c, d \in W : c.dest = d.dest => c = d
  <2> SUFFICES ASSUME NEW c \in W, NEW d \in W, c.dest = d.dest PROVE c = d
    OBVIOUS
  <2>1. c \in Copies(s, k) /\ d \in Copies(s, k)
    BY <1>0, <1>7
  <2>2. k \in 0..Len(s.blocks)
    BY <1>3
  <2> HIDE DEF k, W
  <2> QED
    BY <1>3, <2>1, <2>2, SameCopy
<1>10. /\ DataInv' /\ Items(heap', mm', disk') = I /\ Inside(heap') = N \cup M
  BY <1>8, <1>9, StartBlockKeeps DEF ReaderInv
<1>11. \A c \in D : c \in CopyType
  BY <1>3, CopyFacts
<1>12. Kept(I, N \cup M) = Kept(I, N) \cup W
  <2>1. {Plain(n) : n \in M} = W
    BY <1>7, <1>11, PlainCopy
  <2> HIDE DEF M, W
  <2> QED
    BY <1>4, <2>1 DEF Kept
<1>13. End(s, k) \in Nat /\ \A c \in D : c.dest \in Nat
  BY <1>3, StartNext, CopyFacts
<1>14. Limit = End(s, k)
  BY DEF Limit
<1>15. W \cup LaterOf(s, k, T) = D
  <2>1. D = {Decoded(s, k)[j] : j \in DOMAIN Decoded(s, k)}
    BY DEF ToSet
  <2>2. LaterOf(s, k, T) = {c \in D : c.dest >= Limit}
    BY <2>1 DEF LaterOf
  <2>3. \A c \in D : c.dest < End(s, k) \/ c.dest >= Limit
    BY <1>13, <1>14
  <2> QED
    BY <2>2, <2>3 DEF Within
<1>16. Kept(I, N \cup M) \cup LaterOf(s, k, T) = Kept(I, N) \cup D
  BY <1>12, <1>15
<1>17. Waiting(s, k, Kept(I, N \cup M), T)
  <2>1. T \subseteq DOMAIN Decoded(s, k) /\ \A j \in T : End(s, k) <= Decoded(s, k)[j].dest
    <3>1. \A j \in DOMAIN Decoded(s, k) : Decoded(s, k)[j] \in D
      BY DEF ToSet
    <3> QED
      BY <1>13, <1>14, <3>1
  <2>2. \A c \in LaterOf(s, k, T) : c \in D /\ End(s, k) <= c.dest
    <3>1. \A j \in T : Decoded(s, k)[j] \in D
      BY DEF ToSet
    <3> HIDE DEF T, D
    <3> QED
      BY <2>1, <3>1 DEF LaterOf
  <2>3. \A c \in Kept(I, N) : c \notin LaterOf(s, k, T)
    BY <1>6, <2>2
  <2>4. \A c \in W : c \notin LaterOf(s, k, T)
    <3>1. \A c \in W : c.dest < End(s, k) /\ c.dest \in Nat
      BY <1>7, <1>13 DEF Within
    <3> QED
      BY <1>13, <2>2, <3>1
  <2>5. Kept(I, N \cup M) \cap LaterOf(s, k, T) = {}
    BY <1>12, <2>3, <2>4
  <2> QED
    BY <2>1, <2>5 DEF Waiting
<1>18. StayInside(s, k, N \cup M)
  <2> SUFFICES ASSUME NEW n \in M PROVE Plain(n) \in D /\ n.dest < End(s, k)
    BY <1>4 DEF StayInside
  <2>1. PICK c \in W : n = Bytesless(c)
    OBVIOUS
  <2>2. c \in D /\ c.dest < End(s, k)
    BY <1>7 DEF Within
  <2> QED
    BY <1>11, <2>1, <2>2, PlainCopy
<1>19. Kept(I, N \cup M) \subseteq Copies(s, k)
  BY <1>0, <1>4, <1>7, <1>12
<1> HIDE DEF k, I, N, W, D, T, M
<1>20. Listed(I, N \cup M, s, done, "going", "copy", T)
  BY <1>1, <1>17, <1>18, <1>19 DEF Listed, k
<1>21. ListInv' = Listed(Items(heap', mm', disk'), Inside(heap'), stream', done', status', pc', todo')
  BY DEF ListInv
<1>22. ListInv'
  BY <1>1, <1>2, <1>10, <1>20, <1>21
<1>23. Kept(I, Inside(heap')) \cup LaterOf(stream, done + 1, todo') = Kept(I, N) \cup D
  BY <1>1, <1>10, <1>16 DEF k
<1> QED
  BY <1>10, <1>22, <1>23 DEF I, N, D

LEMMA StartBlockAccount ==
  ASSUME ReaderInv, ~astray, StartBlock, ~Broken
  PROVE  AccountInv'
<1> DEFINE k == done + 1
           I == Items(heap, mm, disk)
           O == Inside(heap')
           K == Kept(Items(heap, mm, disk), Inside(heap))
           D == ToSet(Decoded(stream, done + 1))
<1>1. /\ Going("stats") /\ GoodStats(stream, k) /\ pc' = "copy" /\ cur' = <<>> /\ lits' = 0
      /\ stream' = stream /\ done' = done /\ status' = status
  BY DEF StartBlock
<1>2. status = "going" /\ pc = "stats"
  BY <1>1 DEF Going
<1>3. /\ stream \in Streams /\ done < Len(stream.blocks) /\ k \in 1..Len(stream.blocks)
  BY <1>2, Here
<1>4. AllHold(stream, I) /\ Between(stream, done, K)
  BY <1>2 DEF ReaderInv, AccountInv, Account
<1>5. /\ Items(heap', mm', disk') = I
      /\ Kept(I, O) \cup LaterOf(stream, k, todo') = K \cup D
  BY StartBlockLists
<1> HIDE DEF k, I, O, K, D
<1>6. Made(stream, k, K \cup D, Start(stream, k), 0)
  BY <1>1, <1>3, <1>4, Opens DEF k, D
<1>7. Start(stream, k) + 0 = Start(stream, k)
  BY <1>3, StartNext
<1>8. Len(<<>>) = 0 /\ IsBytes(<<>>, 0) /\ Holds(stream, Start(stream, k), <<>>)
  BY NoBytes
<1>9. Made(stream, k, Kept(I, O) \cup LaterOf(stream, k, todo'), Start(stream, k) + Len(<<>>), 0)
  BY <1>5, <1>6, <1>7, <1>8
<1>10. Account(I, O, stream, done, "going", "copy", <<>>, 0, todo')
  BY <1>4, <1>8, <1>9 DEF Account, k
<1>11. AccountInv' = Account(Items(heap', mm', disk'), O, stream', done', status', pc', cur', lits', todo')
  BY DEF AccountInv, O
<1> QED
  BY <1>1, <1>2, <1>5, <1>10, <1>11

\* The copies to come, in a block.
Pending == Kept(Items(heap, mm, disk), Inside(heap)) \cup LaterOf(stream, done + 1, todo)

\* The reader's loop, and what the first in the heap is in it.
LEMMA InLoop ==
  ASSUME ReaderInv, Going("copy")
  PROVE  /\ Waiting(stream, done + 1, Kept(Items(heap, mm, disk), Inside(heap)), todo)
         /\ StayInside(stream, done + 1, Inside(heap)) /\ GoodStats(stream, done + 1)
         /\ Kept(Items(heap, mm, disk), Inside(heap)) \subseteq Copies(stream, done + 1)
BY DEF ReaderInv, ListInv, Listed, Going

LEMMA AtLoop ==
  ASSUME ReaderInv, ~astray, Going("copy")
  PROVE  /\ Made(stream, done + 1, Pending, Position, lits)
         /\ AllHold(stream, Items(heap, mm, disk))
         /\ IsBytes(cur, Len(cur)) /\ Holds(stream, Start(stream, done + 1), cur)
BY DEF ReaderInv, AccountInv, Account, Pending, Position, Going

LEMMA FirstOfPending ==
  ASSUME ReaderInv, ~astray, Going("copy")
  PROVE  /\ First(heap).dest < Limit => \A m \in Pending : First(heap).dest <= m.dest
         /\ First(heap).dest >= Limit => \A m \in Pending : End(stream, done + 1) <= m.dest
         /\ First(heap).dest \in Nat /\ Limit \in Nat /\ Limit = End(stream, done + 1)
<1> DEFINE f == First(heap)
           K == Kept(Items(heap, mm, disk), Inside(heap))
           J == LaterOf(stream, done + 1, todo)
<1>1. IsHeap(heap) /\ stream \in Streams /\ done + 1 \in 1..Len(stream.blocks)
  BY Here DEF Going
<1>2. f \in heap /\ f.dest \in Nat
  BY <1>1, FirstFacts, HeapFacts
<1>3. Limit = End(stream, done + 1) /\ Limit \in Nat
  BY <1>1, StartNext DEF Limit
<1>4. \A m \in K : f.dest <= m.dest
  BY FirstOfKept DEF ReaderInv
<1>5. \A m \in J : Limit <= m.dest
  BY <1>3, InLoop DEF Waiting, LaterOf
<1>6. \A m \in Pending : m.dest \in Nat
  <2>1. Made(stream, done + 1, Pending, Position, lits)
    BY AtLoop
  <2> QED
    BY <2>1, MadeFacts
<1>7. Pending = K \cup J
  BY DEF Pending
<1> HIDE DEF f, K, J
<1>8. f.dest < Limit => \A m \in Pending : f.dest <= m.dest
  BY <1>2, <1>3, <1>4, <1>5, <1>6, <1>7
<1>9. f.dest >= Limit => \A m \in Pending : End(stream, done + 1) <= m.dest
  BY <1>2, <1>3, <1>4, <1>5, <1>6, <1>7
<1> QED
  BY <1>2, <1>3, <1>8, <1>9 DEF f

\* A copy in the heap that is due is one to come.
LEMMA DueIsPending ==
  ASSUME ReaderInv, Going("copy"), First(heap).dest < Limit, ~IsMark(First(heap))
  PROVE  Plain(First(heap)) \in Pending /\ First(heap) \in Copying(heap)
<1> DEFINE n == First(heap)
<1>1. IsHeap(heap)
  BY Here DEF Going
<1>2. n \in heap
  BY <1>1, FirstFacts
<1>3. n # Barrier
  <2>1. Limit < Far /\ Limit \in Nat /\ Far \in Nat
    BY WhereFacts DEF ReaderInv, Going
  <2>2. Barrier.dest = Far
    BY DEF Barrier
  <2> QED
    BY <2>1, <2>2
<1>4. n \in Copying(heap)
  BY <1>2, <1>3 DEF Copying
<1> HIDE DEF n
<1>5. n \in InMem(heap) \/ n \in Inside(heap)
  BY <1>1, <1>4, CopyingFacts
<1>6. CASE n \in Inside(heap)
  BY <1>4, <1>6 DEF Pending, Kept, n
<1>7. CASE n \in InMem(heap)
  <2>1. Item(n, mm) \in Items(heap, mm, disk) /\ Plain(Item(n, mm)) = Plain(n)
    BY <1>7, ItemFacts DEF Items, Plain
  <2> QED
    BY <1>4, <2>1 DEF Pending, Kept, n
<1> QED
  BY <1>5, <1>6, <1>7

\* The block breaks at a copy only when it does not fit.
LEMMA CopyRefuses ==
  ASSUME ReaderInv, ~astray, Copy, Broken
  PROVE  ~Valid(stream, done + 1)
<1> DEFINE n == First(heap)
           k == done + 1
<1>1. Going("copy") /\ n.dest < Limit /\ ~IsMark(n)
  BY DEF Copy
<1>2. n.dest < Position \/ n.dest - Position > Literals - lits \/ n.dest + n.len > Limit
  <2> SUFFICES ASSUME ~(n.dest < Position \/ n.dest - Position > Literals - lits \/ n.dest + n.len > Limit)
               PROVE  FALSE
    OBVIOUS
  <2>1. status' = status
    BY DEF Copy
  <2> QED
    BY <1>1, <2>1 DEF Broken, Going
<1>3. Plain(n) \in Pending
  BY <1>1, DueIsPending
<1>4. Made(stream, k, Pending, Position, lits)
  BY <1>1, AtLoop
<1>5. \A m \in Pending : Plain(n).dest <= m.dest
  BY <1>1, FirstOfPending, PlainFacts
<1>6. /\ Plain(n).dest < End(stream, k)
      /\ \/ Plain(n).dest < Position
         \/ Plain(n).dest - Position > stream.blocks[k].lits - lits
         \/ Plain(n).dest + Plain(n).len > End(stream, k)
  BY <1>1, <1>2, PlainFacts DEF Limit, Literals
<1> HIDE DEF n, k
<1>7. ~Valid(stream, k)
  BY <1>3, <1>4, <1>5, <1>6, CopyBreaks
<1> QED
  BY <1>7 DEF k

\* The rest of the block is literals, or it does not fit.
LEMMA RestRefuses ==
  ASSUME ReaderInv, ~astray, LastLiterals, Broken
  PROVE  ~Valid(stream, done + 1)
<1> DEFINE k == done + 1
<1>1. Going("copy") /\ First(heap).dest >= Limit
  BY DEF LastLiterals
<1>2. Literals - lits # Limit - Position
  <2> SUFFICES ASSUME Literals - lits = Limit - Position PROVE FALSE
    OBVIOUS
  <2>1. status' = status
    BY DEF LastLiterals
  <2> QED
    BY <1>1, <2>1 DEF Broken, Going
<1>3. Made(stream, k, Pending, Position, lits)
  BY <1>1, AtLoop
<1>4. \A m \in Pending : End(stream, k) <= m.dest
  BY <1>1, FirstOfPending
<1>5. stream.blocks[k].lits - lits # End(stream, k) - Position
  BY <1>2 DEF Literals, Limit
<1> HIDE DEF k
<1>6. ~Valid(stream, k)
  BY <1>3, <1>4, <1>5, RestDecides
<1> QED
  BY <1>6 DEF k

\* The bytes of a copy that is made.
LEMMA MadeBytes ==
  ASSUME ReaderInv, ~astray, Copy, ~Broken
  PROVE  /\ IsBytes(cur', First(heap).dest + First(heap).len - Start(stream, done + 1))
         /\ Holds(stream, Start(stream, done + 1), cur')
<1> DEFINE n == First(heap)
           c == Plain(n)
           k == done + 1
           L == Start(stream, done + 1)
           gap == n.dest - Position
           o == cur \o Upto(gap)
<1>1. /\ Going("copy") /\ n.dest < Limit /\ ~IsMark(n)
      /\ ~(n.dest < Position \/ gap > Literals - lits \/ n.dest + n.len > Limit)
      /\ cur' = IF n.index = 0 THEN CopyInside(o, n) ELSE o \o Stored(mm, n.index, n.len)
  BY DEF Copy
<1>2. stream \in Streams /\ k \in 1..Len(stream.blocks) /\ IsHeap(heap) /\ Once(heap, disk) /\ Whole(disk)
  BY <1>1, Here DEF Going
<1>3. /\ Made(stream, k, Pending, Position, lits)
      /\ StayInside(stream, k, Inside(heap)) /\ AllHold(stream, Items(heap, mm, disk))
      /\ IsBytes(cur, Len(cur)) /\ Holds(stream, L, cur)
  BY <1>1, AtLoop, InLoop
<1>4. /\ c \in Pending /\ n \in Copying(heap) /\ \A m \in Pending : n.dest <= m.dest
      /\ Limit \in Nat /\ Limit = End(stream, k)
  BY <1>1, DueIsPending, FirstOfPending
<1>5. c.src = n.src /\ c.dest = n.dest /\ c.len = n.len
  BY PlainFacts
<1>6. /\ L \in Nat /\ End(stream, k) \in Nat /\ Position \in Nat /\ L <= Position /\ lits \in Nat
      /\ c \in Copies(stream, k) /\ n.src \in Nat /\ n.dest \in Nat /\ n.len \in Nat \ {0} /\ L <= n.dest
  BY <1>3, <1>4, <1>5, MadeFacts
<1>7. Position <= n.dest /\ n.dest + n.len <= Limit /\ n.dest <= End(stream, k)
  <2>1. ~(n.dest < Position) /\ ~(n.dest + n.len > Limit) /\ n.dest < Limit
    BY <1>1
  <2> HIDE DEF n
  <2> QED
    BY <1>4, <1>6, <2>1
<1>8. IsBytes(o, n.dest - L) /\ Holds(stream, L, o)
  <2>1. Position = L + Len(cur)
    BY DEF Position
  <2>2. Len(cur) \in Nat
    BY <1>3 DEF IsBytes
  <2>3. Position - L = Len(cur)
    BY <1>6, <2>1, <2>2
  <2>4. o = cur \o [i \in 1..n.dest - Position |-> <<k, lits + i>>]
    BY DEF Upto
  <2> DEFINE x == n.dest
  <2> HIDE DEF k, o
  <2>5. /\ IsBytes(cur, Position - Start(stream, k)) /\ Holds(stream, Start(stream, k), cur)
        /\ x \in Nat /\ Position <= x /\ x <= End(stream, k) /\ \A m \in Pending : x <= m.dest
    BY <1>3, <1>4, <1>6, <1>7, <2>3 DEF k
  <2>6. o = cur \o NextLiterals(k, lits, x - Position)
    BY <2>4 DEF NextLiterals
  <2> HIDE DEF x, L
  <2>7. Built(stream, k, x, cur \o NextLiterals(k, lits, x - Position))
    BY <1>3, <2>5, LiteralsMean
  <2> QED
    BY <2>6, <2>7 DEF Built, x, k, L
<1> HIDE DEF o
<1>9. CASE n.index = 0
  <2>1. n \in Inside(heap)
    BY <1>4, <1>9 DEF Inside
  <2>2. c \in ToSet(Decoded(stream, k))
    BY <1>3, <2>1 DEF StayInside
  <2>3. GoodStats(stream, k)
    BY <1>3 DEF Made
  <2>4. L <= n.src /\ n.src < n.dest
    <3>1. Start(stream, k) <= c.src /\ c.dest > c.src
      BY <1>2, <2>2, <2>3, CopyFacts
    <3> QED
      BY <1>5, <1>6, <3>1
  <2>5. cur' = CopyInside(o, n)
    BY <1>1, <1>9
  <2> HIDE DEF n, c
  <2>6. /\ IsBytes(CopyInside(o, n), n.dest + n.len - Start(stream, done + 1))
        /\ Holds(stream, Start(stream, done + 1), CopyInside(o, n))
    BY <1>2, <1>5, <1>6, <1>7, <1>8, <2>4, CopyInsideMeans
  <2> QED
    BY <2>5, <2>6 DEF n
<1>10. CASE n.index # 0
  <2> DEFINE data == Stored(mm, n.index, n.len)
  <2>1. n \in InMem(heap)
    BY <1>4, <1>10 DEF InMem, Copying
  <2>2. Item(n, mm) \in Items(heap, mm, disk)
    BY <2>1 DEF Items
  <2>3. Holds(stream, n.src, data)
    BY <1>3, <2>2, ItemFacts DEF AllHold
  <2>4. IsBytes(data, n.len)
    BY <1>6, StoredIs
  <2>5. cur' = o \o data
    BY <1>1, <1>10
  <2> HIDE DEF n, c, data, L, k
  <2>6. /\ Start(stream, k) <= c.dest /\ c.dest + c.len <= End(stream, k)
        /\ IsBytes(o, c.dest - Start(stream, k)) /\ Holds(stream, Start(stream, k), o)
        /\ IsBytes(data, c.len) /\ Holds(stream, c.src, data) /\ c \in Copies(stream, k)
    BY <1>4, <1>5, <1>6, <1>7, <1>8, <2>3, <2>4 DEF L, k
  <2>7. IsBytes(o \o data, c.dest + c.len - Start(stream, k)) /\ Holds(stream, Start(stream, k), o \o data)
    BY <1>2, <2>6, CopiedMeans
  <2> QED
    BY <1>5, <2>5, <2>7 DEF n, k
<1> QED
  BY <1>9, <1>10

\* A copy is made.
LEMMA CopyLists ==
  ASSUME ReaderInv, Copy, ~Broken
  PROVE  /\ DataInv' /\ ListInv'
         /\ Items(heap', mm', disk') \subseteq Items(heap, mm, disk)
         /\ Kept(Items(heap', mm', disk'), Inside(heap'))
            = Kept(Items(heap, mm, disk), Inside(heap)) \ {Plain(First(heap))}
<1> DEFINE n == First(heap)
           c == Plain(First(heap))
           k == done + 1
           I == Items(heap, mm, disk)
           N == Inside(heap)
           J == Items(heap', mm', disk')
           O == Inside(heap')
<1>1. /\ Going("copy") /\ ~IsMark(n)
      /\ stream' = stream /\ done' = done /\ status' = status /\ pc' = pc /\ todo' = todo
  BY DEF Copy
<1>2. IsHeap(heap) /\ Once(heap, disk) /\ Whole(disk)
  BY <1>1, Here DEF Going
<1>3. DataInv' /\ disk' = disk /\ Taken(heap, mm, disk, n, heap', mm')
  BY CopyKeeps DEF ReaderInv
<1>4. Kept(J, O) = Kept(I, N) \ {c} /\ J \subseteq I /\ O \subseteq N
  <2> DEFINE hq == heap'
             m2 == mm'
  <2>1. Taken(heap, mm, disk, n, hq, m2)
    BY <1>3
  <2> HIDE DEF n, hq, m2
  <2>2. /\ Kept(Items(hq, m2, disk), Inside(hq)) = Kept(Items(heap, mm, disk), Inside(heap)) \ {Plain(n)}
        /\ Items(hq, m2, disk) \subseteq Items(heap, mm, disk) /\ Inside(hq) \subseteq Inside(heap)
    BY <1>2, <2>1, KeptTaken
  <2> QED
    BY <1>3, <2>2 DEF hq, m2, n
<1>5. /\ Waiting(stream, k, Kept(I, N), todo) /\ StayInside(stream, k, N) /\ GoodStats(stream, k)
      /\ Kept(I, N) \subseteq Copies(stream, k)
  BY <1>1, InLoop
<1> HIDE DEF n, c, k, I, N, J, O
<1>6. /\ Waiting(stream, k, Kept(J, O), todo) /\ StayInside(stream, k, O)
      /\ Kept(J, O) \subseteq Copies(stream, k)
  BY <1>4, <1>5 DEF Waiting, StayInside
<1>7. Listed(J, O, stream, done, "going", "copy", todo)
  BY <1>5, <1>6 DEF Listed, k
<1>8. ListInv' = Listed(J, O, stream', done', status', pc', todo')
  BY DEF ListInv, J, O
<1>9. ListInv'
  BY <1>1, <1>7, <1>8 DEF Going
<1> QED
  BY <1>3, <1>4, <1>9 DEF I, N, J, O, c

LEMMA CopyAccount ==
  ASSUME ReaderInv, ~astray, Copy, ~Broken
  PROVE  AccountInv'
<1> DEFINE n == First(heap)
           c == Plain(First(heap))
           k == done + 1
           L == Start(stream, done + 1)
           I == Items(heap, mm, disk)
           N == Inside(heap)
           J == Items(heap', mm', disk')
           O == Inside(heap')
           T == LaterOf(stream, done + 1, todo)
           gap == n.dest - Position
           to == n.dest + n.len
<1>1. /\ Going("copy") /\ n.dest < Limit /\ ~IsMark(n)
      /\ ~(n.dest < Position \/ gap > Literals - lits \/ n.dest + n.len > Limit)
      /\ lits' = lits + gap
      /\ stream' = stream /\ done' = done /\ status' = status /\ pc' = pc /\ todo' = todo
  BY DEF Copy
<1>2. stream \in Streams /\ k \in 1..Len(stream.blocks) /\ k \in Nat
  BY <1>1, Here DEF Going
<1>4. /\ Made(stream, k, Pending, Position, lits)
      /\ Waiting(stream, k, Kept(I, N), todo) /\ AllHold(stream, I)
  BY <1>1, AtLoop, InLoop
<1>5. /\ c \in Pending /\ (\A m \in Pending : c.dest <= m.dest)
      /\ Limit \in Nat /\ Limit = End(stream, k) /\ c.src = n.src /\ c.dest = n.dest /\ c.len = n.len
  BY <1>1, DueIsPending, FirstOfPending, PlainFacts
<1>6. /\ L \in Nat /\ Position \in Nat
      /\ n.src \in Nat /\ n.dest \in Nat /\ n.len \in Nat \ {0} /\ L <= n.dest
  BY <1>4, <1>5, MadeFacts
<1>7. Kept(J, O) = Kept(I, N) \ {c} /\ J \subseteq I
  BY CopyLists
<1>8. c \notin T
  <2> SUFFICES ASSUME c \in T PROVE FALSE
    OBVIOUS
  <2>1. PICK j \in todo : c = Decoded(stream, k)[j]
    BY DEF LaterOf
  <2>2. End(stream, k) <= c.dest
    BY <1>4, <2>1 DEF Waiting
  <2>3. n.dest < Limit
    BY <1>1
  <2> HIDE DEF c, n
  <2> QED
    BY <1>5, <1>6, <2>2, <2>3
<1>9. Kept(J, O) \cup T = Pending \ {c}
  BY <1>7, <1>8 DEF Pending
<1>10. Position <= n.dest /\ n.dest + n.len <= Limit
  <2>1. ~(n.dest < Position) /\ ~(n.dest + n.len > Limit)
    BY <1>1
  <2> HIDE DEF n
  <2> QED
    BY <1>5, <1>6, <2>1
<1>11. /\ IsBytes(cur', to - L) /\ Holds(stream, L, cur')
  <2> HIDE DEF n, L, to
  <2>1. /\ IsBytes(cur', First(heap).dest + First(heap).len - Start(stream, done + 1))
        /\ Holds(stream, Start(stream, done + 1), cur')
    BY MadeBytes
  <2>2. n.dest + n.len - L = to - L
    BY <1>6 DEF to
  <2>3. IsBytes(cur', n.dest + n.len - L)
    BY <2>1 DEF n, L
  <2> QED
    BY <2>1, <2>2, <2>3 DEF L
<1>12. Len(cur') = to - L /\ L + Len(cur') = to
  <2>1. Len(cur') = to - L
    <3> DEFINE q == cur'
               a == to - L
    <3>1. IsBytes(q, a)
      BY <1>11
    <3> HIDE DEF q, a
    <3>2. Len(q) = a
      BY <3>1, BytesFacts
    <3> QED
      BY <3>2 DEF q, a
  <2>2. to \in Nat
    BY <1>6
  <2> HIDE DEF to
  <2> QED
    BY <1>6, <2>1, <2>2
<1>13. AllHold(stream, J)
  BY <1>4, <1>7 DEF AllHold
<1>14. IsBytes(cur', Len(cur'))
  BY <1>11, <1>12
<1>15. Made(stream, k, Pending \ {c}, c.dest + c.len, lits + (c.dest - Position))
  <2>1. c.dest + c.len <= End(stream, k) /\ Position <= c.dest
    BY <1>5, <1>10
  <2> HIDE DEF c, k
  <2> QED
    BY <1>4, <1>5, <2>1, Makes
<1>16. Made(stream, k, Kept(J, O) \cup T, L + Len(cur'), lits')
  BY <1>1, <1>5, <1>9, <1>12, <1>15
<1> HIDE DEF n, c, k, L, I, N, J, O, T, gap, to
<1>17. Account(J, O, stream, done, "going", "copy", cur', lits', todo)
  BY <1>11, <1>13, <1>14, <1>16 DEF Account, k, L, T
<1>18. AccountInv' = Account(J, O, stream', done', status', pc', cur', lits', todo')
  BY DEF AccountInv, J, O
<1> QED
  BY <1>1, <1>17, <1>18 DEF Going

\* The rest of the block.
LEMMA RestLists ==
  ASSUME ReaderInv, LastLiterals, ~Broken
  PROVE  DataInv' /\ ListInv' /\ Inside(heap) = {}
<1> DEFINE k == done + 1
           I == Items(heap, mm, disk)
           N == Inside(heap)
<1>1. /\ Going("copy") /\ First(heap).dest >= Limit /\ pc' = "save"
      /\ stream' = stream /\ done' = done /\ status' = status /\ todo' = todo
      /\ heap' = heap /\ mm' = mm /\ disk' = disk
  BY DEF LastLiterals, kernelVars
<1>2. stream \in Streams /\ k \in 1..Len(stream.blocks) /\ IsHeap(heap)
  BY <1>1, Here DEF Going
<1>3. /\ Waiting(stream, k, Kept(I, N), todo) /\ StayInside(stream, k, N) /\ GoodStats(stream, k)
      /\ Kept(I, N) \subseteq Copies(stream, k)
  BY <1>1, InLoop
<1>4. Limit \in Nat /\ Limit = End(stream, k)
  BY <1>2, StartNext DEF Limit
<1>5. N = {}
  <2> SUFFICES ASSUME NEW n \in N PROVE FALSE
    OBVIOUS
  <2>1. n.dest < End(stream, k) /\ n \in heap
    BY <1>3 DEF StayInside, Inside, Copying
  <2>2. First(heap).dest <= n.dest /\ First(heap).dest \in Nat /\ n.dest \in Nat
    BY <1>2, <2>1, FirstFacts, HeapFacts
  <2> QED
    BY <1>1, <1>4, <2>1, <2>2
<1> HIDE DEF I, N, k
<1>6. Listed(I, N, stream, done, "going", "save", todo)
  BY <1>3, <1>5 DEF Listed, k
<1>7. ListInv' = Listed(Items(heap', mm', disk'), Inside(heap'), stream', done', status', pc', todo')
  BY DEF ListInv
<1>8. DataInv'
  BY <1>1 DEF ReaderInv, DataInv
<1> QED
  BY <1>1, <1>5, <1>6, <1>7, <1>8 DEF Going, I, N

LEMMA RestAccount ==
  ASSUME ReaderInv, ~astray, LastLiterals, ~Broken
  PROVE  AccountInv'
<1> DEFINE k == done + 1
           L == Start(stream, done + 1)
           I == Items(heap, mm, disk)
           N == Inside(heap)
<1>1. /\ Going("copy") /\ First(heap).dest >= Limit /\ ~(Literals - lits # Limit - Position)
      /\ cur' = cur \o Upto(Literals - lits) /\ pc' = "save"
      /\ stream' = stream /\ done' = done /\ status' = status /\ todo' = todo
      /\ heap' = heap /\ mm' = mm /\ disk' = disk
  BY DEF LastLiterals, kernelVars
<1>2. stream \in Streams /\ k \in 1..Len(stream.blocks)
  BY <1>1, Here DEF Going
<1>3. /\ Made(stream, k, Pending, Position, lits)
      /\ AllHold(stream, I)
      /\ IsBytes(cur, Len(cur)) /\ Holds(stream, L, cur)
  BY <1>1, AtLoop
<1>4. /\ (\A m \in Pending : End(stream, k) <= m.dest)
      /\ Limit \in Nat /\ Limit = End(stream, k)
  BY <1>1, FirstOfPending
<1>5. Between(stream, k, Pending)
  <2>1. stream.blocks[k].lits - lits = End(stream, k) - Position
    BY <1>1 DEF Literals, Limit
  <2> HIDE DEF k
  <2> QED
    BY <1>3, <1>4, <2>1, Closes
<1>7. /\ L \in Nat /\ End(stream, k) \in Nat /\ Position \in Nat /\ L <= Position /\ Position <= End(stream, k)
      /\ lits \in Nat
  BY <1>3, MadeFacts
<1>8. Built(stream, k, End(stream, k), cur \o NextLiterals(k, lits, End(stream, k) - Position))
  <2>1. Len(cur) \in Nat
    BY <1>3 DEF IsBytes
  <2>2. Position - L = Len(cur)
    BY <1>7, <2>1 DEF Position
  <2> DEFINE x == End(stream, k)
  <2>3. /\ IsBytes(cur, Position - Start(stream, k)) /\ Holds(stream, Start(stream, k), cur)
        /\ x \in Nat /\ Position <= x /\ x <= End(stream, k) /\ \A m \in Pending : x <= m.dest
    BY <1>3, <1>4, <1>7, <2>2
  <2> HIDE DEF x, L, k
  <2>4. Built(stream, k, x, cur \o NextLiterals(k, lits, x - Position))
    BY <1>3, <2>3, LiteralsMean
  <2> QED
    BY <2>4 DEF x
<1>9. cur' = cur \o NextLiterals(k, lits, End(stream, k) - Position)
  BY <1>1, <1>4 DEF Upto, NextLiterals
<1>10. IsBytes(cur', End(stream, k) - L) /\ Holds(stream, L, cur')
  BY <1>8, <1>9 DEF Built
<1>11. End(stream, k) - L = stream.blocks[k].size
  <2>1. End(stream, k) = L + stream.blocks[k].size /\ stream.blocks[k].size \in Nat
    BY <1>2, StartNext
  <2> QED
    BY <1>7, <2>1
<1>12. IsBytes(cur', stream.blocks[k].size)
  BY <1>10, <1>11
<1>13. Between(stream, k, Kept(I, N) \cup LaterOf(stream, k, todo))
  BY <1>5 DEF Pending
<1> HIDE DEF I, N, k, L
<1>14. Account(I, N, stream, done, "going", "save", cur', lits', todo)
  BY <1>2, <1>3, <1>10, <1>12, <1>13 DEF Account, k, L
<1>15. AccountInv' = Account(Items(heap', mm', disk'), Inside(heap'), stream', done', status', pc', cur', lits', todo')
  BY DEF AccountInv
<1> QED
  BY <1>1, <1>14, <1>15 DEF Going, I, N

\* A block is delivered.
LEMMA DeliverLists ==
  ASSUME ReaderInv, Deliver
  PROVE  DataInv' /\ ListInv'
<1> DEFINE k == done + 1
           I == Items(heap, mm, disk)
           N == Inside(heap)
<1>1. /\ Going("save") /\ done' = k /\ pc' = "next" /\ stream' = stream /\ status' = status
      /\ heap' = heap /\ mm' = mm /\ disk' = disk
  BY DEF Deliver, kernelVars
<1>2. N = {} /\ Kept(I, N) \subseteq Copies(stream, k)
  BY <1>1 DEF Going, ReaderInv, ListInv, Listed
<1> HIDE DEF k, I, N
<1>3. Listed(I, N, stream, k, "going", "next", todo')
  BY <1>2 DEF Listed
<1>4. ListInv' = Listed(Items(heap', mm', disk'), Inside(heap'), stream', done', status', pc', todo')
  BY DEF ListInv
<1>5. DataInv'
  BY <1>1 DEF ReaderInv, DataInv
<1> QED
  BY <1>1, <1>3, <1>4, <1>5 DEF Going, I, N

LEMMA DeliverAccount ==
  ASSUME ReaderInv, ~astray, Deliver
  PROVE  AccountInv' /\ Valid(stream, done + 1) /\ cur = Bytes(stream, done + 1)
<1> DEFINE k == done + 1
           I == Items(heap, mm, disk)
           N == Inside(heap)
<1>1. /\ Going("save") /\ todo = {} /\ done' = done + 1 /\ pc' = "next" /\ stream' = stream /\ status' = status
      /\ heap' = heap /\ mm' = mm /\ disk' = disk
  BY DEF Deliver, kernelVars
<1>2. /\ AllHold(stream, I) /\ k \in 1..Len(stream.blocks)
      /\ Between(stream, k, Kept(I, N) \cup LaterOf(stream, k, todo))
      /\ IsBytes(cur, stream.blocks[k].size) /\ Holds(stream, Start(stream, k), cur)
  BY <1>1 DEF Going, ReaderInv, AccountInv, Account
<1>3. LaterOf(stream, k, todo) = {}
  BY <1>1 DEF LaterOf
<1>4. Between(stream, k, Kept(I, N))
  BY <1>2, <1>3
<1>5. stream \in Streams /\ Valid(stream, k)
  BY <1>4 DEF Between
<1> HIDE DEF k, I, N
<1>6. cur = Bytes(stream, k)
  BY <1>2, <1>5, WholeMeans
<1>7. Account(I, N, stream, k, "going", "next", cur', lits', todo')
  BY <1>2, <1>4 DEF Account
<1>8. AccountInv' = Account(Items(heap', mm', disk'), Inside(heap'), stream', done', status', pc', cur', lits', todo')
  BY DEF AccountInv
<1> QED
  BY <1>1, <1>5, <1>6, <1>7, <1>8 DEF Going, I, N, k

\* A copy into a later block is saved.
KeptItem ==
  [src |-> ToSave.src, dest |-> ToSave.dest, len |-> ToSave.len,
   data |-> [i \in 1..ToSave.len |-> cur[ToSave.src - Start(stream, done + 1) + i]]]

\* The copy that is saved next.
LEMMA ToSaveFacts ==
  ASSUME ReaderInv, Going("save"), todo # {}
  PROVE  /\ Min(todo) \in todo /\ Min(todo) \in DOMAIN Decoded(stream, done + 1)
         /\ ToSave = Decoded(stream, done + 1)[Min(todo)]
         /\ ToSave \in ToSet(Decoded(stream, done + 1)) /\ ToSave \in LaterOf(stream, done + 1, todo)
         /\ ToSave \in CopyType
         /\ GoodStats(stream, done + 1) /\ Inside(heap) = {}
         /\ Kept(Items(heap, mm, disk), Inside(heap)) \subseteq Copies(stream, done + 1)
         /\ Waiting(stream, done + 1, Kept(Items(heap, mm, disk), Inside(heap)), todo)
<1> DEFINE k == done + 1
<1>1. stream \in Streams /\ k \in 1..Len(stream.blocks)
  BY Here DEF Going
<1>2. /\ GoodStats(stream, k) /\ Inside(heap) = {}
      /\ Kept(Items(heap, mm, disk), Inside(heap)) \subseteq Copies(stream, k)
      /\ Waiting(stream, k, Kept(Items(heap, mm, disk), Inside(heap)), todo)
  BY DEF ReaderInv, ListInv, Listed, Going
<1>3. todo \subseteq DOMAIN Decoded(stream, k)
  BY <1>2 DEF Waiting
<1>4. DOMAIN Decoded(stream, k) = 1..Len(Decoded(stream, k)) /\ Len(Decoded(stream, k)) \in Nat
  BY <1>1, DecodedFacts
<1>5. todo \subseteq Nat
  BY <1>3, <1>4
<1>6. Min(todo) \in todo
  BY <1>5, MinFacts
<1>7. ToSave = Decoded(stream, k)[Min(todo)]
  BY DEF ToSave
<1>8. ToSave \in ToSet(Decoded(stream, k)) /\ ToSave \in LaterOf(stream, k, todo)
  BY <1>3, <1>6, <1>7 DEF ToSet, LaterOf
<1>9. ToSave \in CopyType
  <2> HIDE DEF k
  <2> QED
    BY <1>1, <1>8, CopyFacts
<1> QED
  BY <1>2, <1>3, <1>6, <1>7, <1>8, <1>9

LEMMA KeepCopyLists ==
  ASSUME ReaderInv, KeepCopy
  PROVE  /\ DataInv' /\ ListInv'
         /\ Items(heap', mm', disk') = Items(heap, mm, disk) \cup {KeptItem} /\ Inside(heap') = Inside(heap)
         /\ Kept(Items(heap, mm, disk) \cup {KeptItem}, Inside(heap))
            = Kept(Items(heap, mm, disk), Inside(heap)) \cup {ToSave}
         /\ LaterOf(stream, done + 1, todo) = LaterOf(stream, done + 1, todo') \cup {ToSave}
<1> DEFINE k == done + 1
           c == ToSave
           j == Min(todo)
           I == Items(heap, mm, disk)
           N == Inside(heap)
           K == Kept(Items(heap, mm, disk), Inside(heap))
           x == KeptItem
           rest == todo \ {Min(todo)}
<1>1. /\ Going("save") /\ todo # {} /\ todo' = rest /\ pc' = pc
      /\ stream' = stream /\ done' = done /\ status' = status
  BY DEF KeepCopy
<1>2. /\ stream \in Streams /\ k \in 1..Len(stream.blocks) /\ k \in 0..Len(stream.blocks)
      /\ done \in Nat
  BY <1>1, Here DEF Going
<1>3. /\ j \in todo /\ j \in DOMAIN Decoded(stream, k) /\ c = Decoded(stream, k)[j]
      /\ c \in ToSet(Decoded(stream, k)) /\ c \in LaterOf(stream, k, todo) /\ c \in CopyType
      /\ GoodStats(stream, k) /\ N = {} /\ K \subseteq Copies(stream, k) /\ Waiting(stream, k, K, todo)
  BY <1>1, ToSaveFacts
<1> HIDE DEF c, j
<1>4. c \in Copies(stream, k)
  BY <1>2, <1>3, CopiesNext
<1>5. Absent(heap, mm, disk, c.dest)
  <2> SUFFICES ASSUME NEW y \in K, y.dest = c.dest PROVE FALSE
    BY KeptAbsent
  <2>1. y \in Copies(stream, k)
    BY <1>3
  <2> HIDE DEF k, K
  <2>2. y = c
    BY <1>2, <1>4, <2>1, SameCopy
  <2> QED
    BY <1>3, <2>2 DEF Waiting
<1>6. /\ DataInv' /\ Items(heap', mm', disk') = I \cup {x} /\ Inside(heap') = N
  <2>1. Absent(heap, mm, disk, ToSave.dest)
    BY <1>5 DEF c
  <2> QED
    BY <2>1, KeepCopyKeeps DEF ReaderInv, KeptItem
<1>7. Kept(I \cup {x}, N) = K \cup {c}
  <2>1. Plain(x) = Plain(c)
    BY DEF Plain, KeptItem, c
  <2>2. Plain(x) = c
    BY <1>3, <2>1, PlainCopy
  <2> HIDE DEF x
  <2> QED
    BY <2>2 DEF Kept
<1>8. LaterOf(stream, k, todo) = LaterOf(stream, k, rest) \cup {c}
  BY <1>3 DEF LaterOf, j
<1>9. c \notin LaterOf(stream, k, rest)
  <2> SUFFICES ASSUME NEW i \in rest, c = Decoded(stream, k)[i] PROVE FALSE
    BY DEF LaterOf
  <2>1. i \in DOMAIN Decoded(stream, k) /\ i # j
    BY <1>3 DEF j, Waiting
  <2>2. Decoded(stream, k)[i].dest = Decoded(stream, k)[j].dest
    BY <1>3
  <2> HIDE DEF k
  <2>3. i = j
    BY <1>2, <1>3, <2>1, <2>2, CopiesOnce
  <2> QED
    BY <2>1, <2>3
<1>10. Waiting(stream, k, K \cup {c}, rest)
  <2>1. rest \subseteq DOMAIN Decoded(stream, k) /\ \A i \in rest : End(stream, k) <= Decoded(stream, k)[i].dest
    BY <1>3 DEF Waiting
  <2>2. (K \cup {c}) \cap LaterOf(stream, k, rest) = {}
    BY <1>3, <1>8, <1>9 DEF Waiting
  <2> QED
    BY <2>1, <2>2 DEF Waiting
<1>11. K \cup {c} \subseteq Copies(stream, k)
  BY <1>3, <1>4
<1> HIDE DEF k, I, N, K, x, rest
<1>12. Listed(I \cup {x}, N, stream, done, "going", "save", rest)
  BY <1>3, <1>7, <1>10, <1>11 DEF Listed, k
<1>13. ListInv' = Listed(Items(heap', mm', disk'), Inside(heap'), stream', done', status', pc', todo')
  BY DEF ListInv
<1>14. ListInv'
  BY <1>1, <1>6, <1>12, <1>13 DEF Going
<1> QED
  BY <1>1, <1>6, <1>7, <1>8, <1>14 DEF I, N, K, x, c, k

LEMMA KeepCopyAccount ==
  ASSUME ReaderInv, ~astray, KeepCopy
  PROVE  AccountInv'
<1> DEFINE k == done + 1
           c == ToSave
           I == Items(heap, mm, disk)
           N == Inside(heap)
           K == Kept(Items(heap, mm, disk), Inside(heap))
           x == KeptItem
<1>1. /\ Going("save") /\ todo # {} /\ pc' = pc /\ cur' = cur
      /\ stream' = stream /\ done' = done /\ status' = status
  BY DEF KeepCopy
<1>2. stream \in Streams /\ k \in 1..Len(stream.blocks)
  BY <1>1, Here DEF Going
<1>3. /\ AllHold(stream, I)
      /\ Between(stream, k, K \cup LaterOf(stream, k, todo))
      /\ IsBytes(cur, stream.blocks[k].size) /\ Holds(stream, Start(stream, k), cur)
  BY <1>1 DEF Going, ReaderInv, AccountInv, Account
<1>4. c \in ToSet(Decoded(stream, k)) /\ GoodStats(stream, k)
  BY <1>1, ToSaveFacts
<1>5. /\ Items(heap', mm', disk') = I \cup {x} /\ Inside(heap') = N
      /\ Kept(I \cup {x}, N) = K \cup {c}
      /\ LaterOf(stream, k, todo) = LaterOf(stream, k, todo') \cup {c}
  BY KeepCopyLists
<1>6. AllHold(stream, I \cup {x})
  <2> DEFINE data == [i \in 1..c.len |-> cur[c.src - Start(stream, k) + i]]
  <2>1. x.src = c.src /\ x.data = data
    BY DEF KeptItem
  <2> HIDE DEF c, k, x
  <2>2. Holds(stream, c.src, data)
    BY <1>2, <1>3, <1>4, KeptMeans
  <2> HIDE DEF data
  <2> QED
    BY <1>3, <2>1, <2>2 DEF AllHold
<1> HIDE DEF k, c, I, N, K, x
<1>7. Kept(I \cup {x}, N) \cup LaterOf(stream, k, todo') = K \cup LaterOf(stream, k, todo)
  BY <1>5
<1>8. Between(stream, k, Kept(I \cup {x}, N) \cup LaterOf(stream, k, todo'))
  BY <1>3, <1>7
<1>9. Account(I \cup {x}, N, stream, done, "going", "save", cur, lits', todo')
  BY <1>2, <1>3, <1>6, <1>8 DEF Account, k
<1>10. AccountInv' = Account(Items(heap', mm', disk'), Inside(heap'), stream', done', status', pc', cur', lits', todo')
  BY DEF AccountInv
<1> QED
  BY <1>1, <1>5, <1>9, <1>10 DEF Going

-----------------------------------------------------------------------------
\* What the reader keeps track of.
LEMMA ReaderInit == Init => ReaderInv
<1> SUFFICES ASSUME Init PROVE ReaderInv
  OBVIOUS
<1>1. Where /\ KernelInv /\ DataInv /\ Items(heap, mm, disk) = {} /\ Inside(heap) = {}
  BY KernelInit, DataInit
<1>2. stream \in Streams /\ done = 0 /\ status = "going" /\ pc = "next"
  BY DEF Init
<1>3. Kept({}, {}) = {}
  BY DEF Kept
<1>4. 1..0 = {} /\ 0 \in 0..Len(stream.blocks)
  BY <1>2, StreamFacts
<1>5. Copies(stream, 0) = {} /\ Valid(stream, 0)
  BY <1>4, CopiesNext DEF Valid
<1>6. Between(stream, 0, {})
  BY <1>2, <1>4, <1>5 DEF Between
<1>7. AllHold(stream, {})
  BY DEF AllHold
<1>8. Account({}, {}, stream, 0, "going", "next", cur, lits, todo)
  BY <1>3, <1>6, <1>7 DEF Account
<1>9. Listed({}, {}, stream, 0, "going", "next", todo)
  BY <1>3, <1>5 DEF Listed
<1> QED
  BY <1>1, <1>2, <1>8, <1>9 DEF ReaderInv, AccountInv, ListInv

LEMMA ReaderStep == ReaderInv /\ [Next]_vars => ReaderInv'
<1> SUFFICES ASSUME ReaderInv, [Next]_vars PROVE ReaderInv'
  OBVIOUS
<1>1. Where' /\ KernelInv'
  BY WhereStep, KernelStep DEF ReaderInv
<1> SUFFICES DataInv' /\ ListInv' /\ (~astray' => AccountInv')
  BY <1>1 DEF ReaderInv
<1>2. ASSUME UNCHANGED kernelVars PROVE /\ DataInv' /\ astray' = astray
                                        /\ Items(heap', mm', disk') = Items(heap, mm, disk)
                                        /\ Inside(heap') = Inside(heap)
  <2>1. heap' = heap /\ mm' = mm /\ disk' = disk /\ astray' = astray
    BY <1>2 DEF kernelVars
  <2> QED
    BY <2>1 DEF ReaderInv, DataInv
<1>3. CASE Broken
  <2>1. status' = "broken" /\ UNCHANGED kernelVars
    BY <1>3 DEF Broken
  <2> QED
    BY <1>2, <2>1, NoAccount
<1>4. CASE EndOfInput
  <2>1. status' # "going" /\ UNCHANGED kernelVars
    BY <1>4 DEF EndOfInput
  <2> QED
    BY <1>2, <2>1, NoAccount
<1>5. CASE Cancel \/ Close
  <2>1. status' # "going" /\ UNCHANGED kernelVars
    BY <1>5 DEF Cancel, Close
  <2> QED
    BY <1>2, <2>1, NoAccount
<1>6. CASE ReadBlock \/ Decode
  <2>1. /\ UNCHANGED kernelVars /\ pc \in {"next", "decode"} /\ pc' \in {"decode", "stats"}
        /\ UNCHANGED <<stream, done, status, cur, lits, todo>>
    BY <1>6 DEF ReadBlock, Decode, Going
  <2>2. ~astray => Account(Items(heap, mm, disk), Inside(heap), stream, done, status, pc', cur, lits, todo)
    BY <2>1 DEF ReaderInv, AccountInv, Account
  <2>3. Listed(Items(heap, mm, disk), Inside(heap), stream, done, status, pc', todo)
    BY <2>1 DEF ReaderInv, ListInv, Listed
  <2>4. AccountInv' = Account(Items(heap', mm', disk'), Inside(heap'), stream', done', status', pc', cur', lits', todo')
    BY DEF AccountInv
  <2>5. ListInv' = Listed(Items(heap', mm', disk'), Inside(heap'), stream', done', status', pc', todo')
    BY DEF ListInv
  <2> QED
    BY <1>2, <2>1, <2>2, <2>3, <2>4, <2>5
<1>7. CASE StartBlock /\ ~Broken
  <2>1. astray' = astray
    BY <1>7 DEF StartBlock
  <2> QED
    BY <1>7, <2>1, StartBlockLists, StartBlockAccount
<1>8. CASE Copy /\ ~Broken
  <2>1. astray' = astray
    BY <1>8 DEF Copy
  <2> QED
    BY <1>8, <2>1, CopyLists, CopyAccount
<1>9. CASE LastLiterals /\ ~Broken
  <2>1. astray' = astray
    BY <1>9 DEF LastLiterals, kernelVars
  <2> QED
    BY <1>9, <2>1, RestLists, RestAccount
<1>10. CASE (MakeRoom \/ SpillForCopy) /\ ~Broken
  <2>1. Spill /\ UNCHANGED <<stream, done, status, blockVars>>
    BY <1>10 DEF MakeRoom, SpillForCopy
  <2>2. /\ DataInv' /\ Items(heap', mm', disk') = Items(heap, mm, disk)
        /\ Inside(heap') = Inside(heap)
    BY <2>1, SpillKeeps DEF ReaderInv
  <2>3. ~astray' => ~astray
    BY <2>1 DEF Spill
  <2> QED
    BY <2>1, <2>2, <2>3, SameAccount DEF ReaderInv
<1>11. CASE BringBack
  <2>1. UNCHANGED <<stream, done, status, blockVars>> /\ astray' = astray
    BY <1>11 DEF BringBack, Unspill
  <2>2. /\ DataInv' /\ Items(heap', mm', disk') = Items(heap, mm, disk)
        /\ Inside(heap') = Inside(heap)
    BY <1>11, BringBackKeeps DEF ReaderInv
  <2> QED
    BY <2>1, <2>2, SameAccount DEF ReaderInv
<1>12. CASE KeepCopy
  <2>1. astray' = astray
    BY <1>12 DEF KeepCopy
  <2> QED
    BY <1>12, <2>1, KeepCopyLists, KeepCopyAccount
<1>13. CASE Deliver
  <2>1. astray' = astray
    BY <1>13 DEF Deliver, kernelVars
  <2> QED
    BY <1>13, <2>1, DeliverLists, DeliverAccount
<1>14. CASE UNCHANGED vars
  <2>1. UNCHANGED kernelVars /\ UNCHANGED <<stream, done, status, blockVars>>
    BY <1>14 DEF vars
  <2> QED
    BY <1>2, <2>1, SameAccount DEF ReaderInv
<1>15. CASE CloseAgain
  BY <1>14, <1>15 DEF CloseAgain
<1> QED
  BY <1>3, <1>4, <1>5, <1>6, <1>7, <1>8, <1>9, <1>10, <1>11, <1>12, <1>13, <1>14, <1>15 DEF Next, Read

LEMMA ReaderSafe == Spec => []ReaderInv
BY ReaderInit, ReaderStep, PTL DEF Spec

-----------------------------------------------------------------------------
(* The reader keeps its promise.                                           *)

\* When there is no room for a copy there is none for a whole block.
LEMMA NoRoomForBlock ==
  ASSUME ReaderInv, MakeRoom \/ SpillForCopy
  PROVE  Available(mm) < DiskBlock
<1>1. CASE MakeRoom
  BY <1>1 DEF MakeRoom, NoRoomForMark
<1>2. CASE SpillForCopy
  <2> DEFINE k == done + 1
             c == ToSave
             size == stream.blocks[done + 1].size
  <2>1. Going("save") /\ todo # {} /\ c.len > Available(mm)
    BY <1>2 DEF SpillForCopy, NoRoomForCopy
  <2>2. stream \in Streams /\ k \in 1..Len(stream.blocks) /\ k \in DOMAIN stream.blocks
    BY <2>1, Here, StreamFacts DEF Going
  <2>3. c \in ToSet(Decoded(stream, k)) /\ GoodStats(stream, k)
    BY <2>1, ToSaveFacts
  <2> HIDE DEF c, k
  <2>4. /\ c.src \in Nat /\ c.len \in Nat /\ Start(stream, k) <= c.src
        /\ c.src + c.len <= End(stream, k)
    BY <2>2, <2>3, CopyFacts
  <2>5. /\ Start(stream, k) \in Nat /\ size \in Nat /\ End(stream, k) = Start(stream, k) + size
    BY <2>2, StartNext DEF k
  <2>6. size <= DiskBlock /\ DiskBlock \in Nat
    BY <2>2, SrepAssumption DEF k
  <2>7. Available(mm) \in Nat
    <3> DEFINE u == mm.used * Room
    <3>0. Stores(mm, InMem(heap))
      BY KernelParts DEF ReaderInv
    <3>1. mm.used \in Nat
      BY <3>0, StoresFacts
    <3>2. u \in Nat /\ Useful \in Nat
      <4>1. Room \in Nat /\ Useful \in Nat
        BY SrepAssumption
      <4> QED
        BY <3>1, <4>1, Monotone
    <3>3. Available(mm) = IF Useful > u THEN Useful - u ELSE 0
      BY DEF Available
    <3> HIDE DEF u
    <3> QED
      BY <3>2, <3>3
  <2> HIDE DEF size
  <2>8. c.len <= size
    BY <2>4, <2>5
  <2> QED
    BY <2>1, <2>4, <2>5, <2>6, <2>7, <2>8
<1> QED
  BY <1>1, <1>2

\* Room can be made unless a copy in memory is too long for the disk.
LEMMA RoomIsMade ==
  ASSUME ReaderInv, MakeRoom \/ SpillForCopy, Broken
  PROVE  \E n \in InMemory : TooLong(n.len)
<1> SUFFICES ASSUME \A n \in InMemory : ~TooLong(n.len) PROVE FALSE
  OBVIOUS
<1>1. status = "going"
  BY DEF MakeRoom, SpillForCopy, NoRoomForMark, NoRoomForCopy, Going
<1>2. FitOnDisk(heap)
  <2> SUFFICES ASSUME NEW n \in InMem(heap) PROVE n.len + RecordHead + RecordTail <= DiskBlock
    BY DEF FitOnDisk
  <2>1. ~TooLong(n.len)
    BY DEF InMem, InMemory
  <2>2. n.len \in Nat
    BY KernelParts, CopyingFacts DEF ReaderInv
  <2> QED
    BY <2>1, <2>2, SrepAssumption DEF TooLong
<1>3. ~SpillFails(heap)
  BY <1>2, NoRoomForBlock, SpillsAlways DEF ReaderInv
<1>4. status' = status
  BY <1>3 DEF MakeRoom, SpillForCopy
<1> QED
  BY <1>1, <1>4 DEF Broken

\* Room is always made for a mark's block and for a copy, unless a copy in memory
\* is so long that no block on the disk holds it and its framing: virtMem.save
\* finds nothing to spill then, and only then, and block returns its error.
THEOREM SpillingSucceeds ==
  Spec => [][(MakeRoom \/ SpillForCopy) /\ Broken => \E n \in InMemory : TooLong(n.len)]_vars
<1>1. ReaderInv /\ [Next]_vars
      => [(MakeRoom \/ SpillForCopy) /\ Broken => \E n \in InMemory : TooLong(n.len)]_vars
  BY RoomIsMade
<1> QED
  BY <1>1, ReaderSafe, PTL DEF Spec

\* A valid block's statistics are within their bounds.
LEMMA ValidBefore ==
  ASSUME NEW s, NEW k \in Nat \ {0}, Valid(s, k)
  PROVE  GoodStats(s, k)
BY DEF Valid

PromisedStep == Promise!Next \/ UNCHANGED Promise!futureVars

\* A block that breaks is not well-formed, or the stream has a copy too long.
LEMMA BrokenBlock ==
  ASSUME ReaderInv, status = "going", pc # "next", Broken,
         ~Valid(stream, done + 1) \/ Short(stream)
  PROVE  PromisedStep
<1>1. done < Len(stream.blocks) /\ done \in Nat /\ Len(stream.blocks) \in Nat
  BY Here
<1>2. ~Promise!AllRead
  BY <1>1 DEF Promise!AllRead
<1>3. status' = "broken" /\ UNCHANGED <<stream, done, out, astray>>
  BY DEF Broken, kernelVars
<1> HIDE DEF Valid, Short
<1>4. Promise!Break
  BY <1>2, <1>3 DEF Promise!Break
<1> QED
  BY <1>4 DEF Promise!Next, PromisedStep

\* A step of the reader on track is one of the promise, or none.
LEMMA PromiseStep ==
  ASSUME ReaderInv, ~astray, [Next]_vars
  PROVE  PromisedStep
<1> DEFINE Still == UNCHANGED <<stream, done, out, status, astray>>
<1>1. Still => PromisedStep
  BY DEF Promise!futureVars, PromisedStep
<1>2. CASE EndOfInput
  <2>1. /\ status = "going" /\ done = Len(stream.blocks) /\ UNCHANGED <<stream, done, out, astray>>
        /\ status' = IF stream.end = "cut" \/ (stream.end = "trailer" /\ done = 0) THEN "failed" ELSE "end"
    BY <1>2 DEF EndOfInput, Going, kernelVars
  <2>2. stream.end \in Endings /\ Len(stream.blocks) \in Nat
    BY StreamAssumption, StreamFacts DEF ReaderInv, Where
  <2>3. Promise!AllRead
    BY <2>1 DEF Promise!AllRead
  <2>4. CASE stream.end = "cut" \/ (stream.end = "trailer" /\ done = 0)
    BY <2>1, <2>3, <2>4 DEF Promise!InputFails, Promise!Next, PromisedStep
  <2>5. CASE ~(stream.end = "cut" \/ (stream.end = "trailer" /\ done = 0))
    <3>1. stream.end \in {"eof", "zero"} \/ (stream.end = "trailer" /\ done > 0)
      BY <2>1, <2>2, <2>5 DEF Endings
    <3> QED
      BY <2>1, <2>3, <2>5, <3>1 DEF Promise!Finish, Promise!Next, PromisedStep
  <2> QED
    BY <2>4, <2>5
<1>3. CASE StartBlock
  <2>1. status = "going" /\ pc = "stats"
    BY <1>3 DEF StartBlock, Going
  <2>2. CASE GoodStats(stream, done + 1)
    BY <1>1, <1>3, <2>2 DEF StartBlock
  <2>3. CASE ~GoodStats(stream, done + 1)
    <3>1. Broken
      BY <1>3, <2>3 DEF StartBlock
    <3>2. done + 1 \in Nat \ {0}
      BY <2>1, Here
    <3>3. ~Valid(stream, done + 1)
      BY <2>3, <3>2, ValidBefore
    <3> QED
      BY <2>1, <3>1, <3>3, BrokenBlock
  <2> QED
    BY <2>2, <2>3
<1>4. CASE Copy
  <2>1. status = "going" /\ pc = "copy"
    BY <1>4 DEF Copy, Going
  <2>2. CASE Broken
    BY <1>4, <2>1, <2>2, CopyRefuses, BrokenBlock
  <2>3. CASE ~Broken
    BY <1>1, <1>4, <2>3 DEF Copy
  <2> QED
    BY <2>2, <2>3
<1>5. CASE LastLiterals
  <2>1. status = "going" /\ pc = "copy"
    BY <1>5 DEF LastLiterals, Going
  <2>2. CASE Broken
    BY <1>5, <2>1, <2>2, RestRefuses, BrokenBlock
  <2>3. CASE ~Broken
    BY <1>1, <1>5, <2>3 DEF LastLiterals, kernelVars
  <2> QED
    BY <2>2, <2>3
<1>6. CASE MakeRoom \/ SpillForCopy
  <2>1. status = "going" /\ pc # "next"
    BY <1>6 DEF MakeRoom, SpillForCopy, NoRoomForMark, NoRoomForCopy, Going
  <2>2. CASE Broken
    <3>1. PICK n \in InMemory : TooLong(n.len)
      BY <1>6, <2>2, RoomIsMade
    <3>2. n \in InMem(heap)
      BY DEF InMem, InMemory
    <3>3. Short(stream)
      BY <2>1, <3>1, <3>2, TooLongIsShort
    <3> QED
      BY <2>1, <2>2, <3>3, BrokenBlock
  <2>3. CASE ~Broken
    <3>1. UNCHANGED <<stream, done, out, status>> /\ Spill
      BY <1>6, <2>3 DEF MakeRoom, SpillForCopy
    <3>2. astray' \in BOOLEAN
      <4>1. KernelInv'
        BY KernelStep DEF ReaderInv
      <4> QED
        BY <4>1 DEF KernelInv, Kernel
    <3>3. CASE astray' = FALSE
      <4>1. astray = FALSE
        BY KernelParts DEF ReaderInv
      <4> QED
        BY <1>1, <3>1, <3>3, <4>1
    <3>4. CASE astray' = TRUE
      BY <2>1, <3>1, <3>4 DEF Promise!LoseTrack, Promise!Next, PromisedStep
    <3> QED
      BY <3>2, <3>3, <3>4
  <2> QED
    BY <2>2, <2>3
<1>7. CASE Deliver
  <2>1. /\ status = "going" /\ pc = "save" /\ done' = done + 1 /\ out' = out \o cur
        /\ UNCHANGED <<stream, status, astray>>
    BY <1>7 DEF Deliver, Going, kernelVars
  <2>2. Valid(stream, done + 1) /\ cur = Bytes(stream, done + 1)
    BY <1>7, DeliverAccount
  <2>3. done < Len(stream.blocks) /\ done \in Nat /\ Len(stream.blocks) \in Nat
    BY <2>1, Here
  <2>4. ~Promise!AllRead
    BY <2>3 DEF Promise!AllRead
  <2> HIDE DEF Valid, Bytes
  <2> QED
    BY <2>1, <2>2, <2>4 DEF Promise!NextBlock, Promise!Next, PromisedStep
<1>8. CASE Cancel \/ Close
  <2>1. /\ status' = "closed" \/ (status = "going" /\ status' = "canceled")
        /\ UNCHANGED <<stream, done, out, astray>>
    BY <1>8 DEF Cancel, Close, Going, kernelVars
  <2> QED
    BY <2>1 DEF Promise!GiveUp, Promise!Next, PromisedStep
<1>9. CASE ReadBlock \/ Decode \/ BringBack \/ KeepCopy
  BY <1>1, <1>9 DEF ReadBlock, Decode, BringBack, Unspill, KeepCopy, kernelVars
<1>10. CASE UNCHANGED vars
  BY <1>1, <1>10 DEF vars, kernelVars
<1> QED
  BY <1>2, <1>3, <1>4, <1>5, <1>6, <1>7, <1>8, <1>9, <1>10 DEF Next, Read, CloseAgain

\* Until a mark is astray every step of the reader is one of the promise's: it
\* delivers, block after block, the bytes the stream means, breaks only where the
\* stream is malformed or has a copy too long for the disk, and ends only behind
\* the last block, whatever it has spilled and brought back in between.
THEOREM PromiseKept == Spec => Promise!Init /\ [][~astray => PromisedStep]_vars
<1>1. Init => Promise!Init
  BY DEF Init, Promise!Init
<1>2. ReaderInv /\ [Next]_vars => [~astray => PromisedStep]_vars
  BY PromiseStep
<1> QED
  BY <1>1, <1>2, ReaderSafe, PTL DEF Spec

=============================================================================
