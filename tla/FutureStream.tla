---------------------------- MODULE FutureStream ----------------------------
(***************************************************************************)
(* What an SREP future-LZ stream means (stream/srep): a sequence of        *)
(* blocks, each with its literal bytes and with statistics that announce   *)
(* copies.  A copy takes len bytes at src, in the block that announces     *)
(* it, to a later position dest, in that block or in any later one.        *)
(*                                                                         *)
(* A stream is a record: blocks, and how its input ends after them (end).  *)
(* A block is a record: its size, the number of its literal bytes, and its *)
(* stats, each a record lit, off, len as decodeStats finds them.  A byte   *)
(* is named by where it came from: <<k, i>> is the i-th literal byte of    *)
(* block k.                                                                *)
(***************************************************************************)
EXTENDS SequencesExt

CONSTANT Streams  \* the streams considered

\* How the input goes on after its blocks: nothing, a header of zeros, bytes
\* whose sizes no block can have, or a block that breaks off.
Endings == {"eof", "zero", "trailer", "cut"}

Stat  == [lit : Nat, off : Nat, len : Nat \ {0}]
Block == [size : Nat \ {0}, lits : Nat, stats : Seq(Stat)]

ASSUME StreamAssumption ==
  \A s \in Streams : s.blocks \in Seq(Block) /\ s.end \in Endings

-----------------------------------------------------------------------------
\* The position of the first byte of block k.
Start(s, k) ==
  LET upTo[i \in 0..Len(s.blocks)] ==
        IF i = 0 THEN 0 ELSE upTo[i - 1] + s.blocks[i].size
  IN upTo[k - 1]

End(s, k) == Start(s, k) + s.blocks[k].size

Positions(s, k) == Start(s, k)..End(s, k) - 1

\* decodeStats: a source is lit bytes after the one before, its destination
\* off bytes further on.
Decoded(s, k) ==
  LET st == s.blocks[k].stats
      src[j \in 0..Len(st)] == IF j = 0 THEN Start(s, k) ELSE src[j - 1] + st[j].lit
  IN [j \in DOMAIN st |-> [src |-> src[j], dest |-> src[j] + st[j].off, len |-> st[j].len]]

\* The bounds decodeStats checks: the source lies in its block, the
\* destination behind it.
GoodStats(s, k) ==
  \A m \in ToSet(Decoded(s, k)) : m.src + m.len <= End(s, k) /\ m.dest > m.src

\* The copies announced by the blocks up to k.
Copies(s, k) == UNION {ToSet(Decoded(s, i)) : i \in 1..k}

\* No two copies have the same destination.
Distinct(s) ==
  \A k, l \in DOMAIN s.blocks : \A i \in DOMAIN s.blocks[k].stats, j \in DOMAIN s.blocks[l].stats :
    Decoded(s, k)[i].dest = Decoded(s, l)[j].dest => k = l /\ i = j

Covers(m, p) == m.dest <= p /\ p < m.dest + m.len

\* The copies into block k lie in it, do not overlap, and leave as many bytes
\* as it has literals.
Fits(s, k) ==
  LET into == {m \in Copies(s, k) : \E p \in Positions(s, k) : Covers(m, p)}
      bare == {p \in Positions(s, k) : \A m \in into : ~Covers(m, p)}
  IN /\ \A m \in into : Start(s, k) <= m.dest /\ m.dest + m.len <= End(s, k)
     /\ \A m, n \in into : m = n \/ \A p \in Positions(s, k) : ~Covers(m, p) \/ ~Covers(n, p)
     /\ Cardinality(bare) = s.blocks[k].lits

\* Blocks 1 to k are well-formed.
Valid(s, k) == \A i \in 1..k : GoodStats(s, i) /\ Fits(s, i)

\* The byte at each position of blocks 1 to k, by definition: a copy is the
\* byte at its source, the others are the literals in order.
Original(s, k) ==
  LET copies == Copies(s, k)
      bare(i) == {p \in Positions(s, i) : \A m \in copies : ~Covers(m, p)}
      byte[p \in 0..End(s, k) - 1] ==
        IF \E m \in copies : Covers(m, p)
        THEN LET m == CHOOSE m \in copies : Covers(m, p) IN byte[m.src + (p - m.dest)]
        ELSE LET i == CHOOSE i \in 1..k : p \in Positions(s, i) IN
             <<i, Cardinality({q \in bare(i) : q <= p})>>
  IN byte

\* The bytes of block k.
Bytes(s, k) == [i \in 1..s.blocks[k].size |-> Original(s, k)[Start(s, k) + i - 1]]

=============================================================================
