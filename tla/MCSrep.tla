------------------------------- MODULE MCSrep -------------------------------
EXTENDS SrepReader

Lit(a, o, n) == [lit |-> a, off |-> o, len |-> n]

\* The statistics of a first block that announces copies of the lengths len
\* from its positions src, in order, to the destinations dest.
Announce(src, dest, len) ==
  [j \in DOMAIN dest |->
     Lit(src[j] - (IF j = 1 THEN 0 ELSE src[j - 1]), dest[j] - src[j], len[j])]

\* Up to four copies from a first block of four bytes into two more blocks, of
\* four and of seven, the first of which may announce one, too.
Dests == UNION {{d \in [1..n -> {5, 6, 8, 9, 12, 13}] : \A i, j \in 1..n : i = j \/ d[i] # d[j]} : n \in 3..4}

Spilling ==
  LET byCopies(d, len, second) ==
        LET one == Announce(<<0, 1, 2, 2>>, d, len)
            bare(a, b) == Cardinality({p \in a..b :
                         /\ \A j \in DOMAIN d : ~(d[j] <= p /\ p < d[j] + len[j])
                         /\ second = <<>> \/ ~(10 <= p /\ p < 12)})
        IN [blocks |-> <<[size |-> 4, lits |-> 4, stats |-> one],
                         [size |-> 4, lits |-> bare(4, 7), stats |-> second],
                         [size |-> 7, lits |-> bare(8, 14), stats |-> <<>>]>>,
            end |-> "eof"]
  IN {byCopies(d, len, second) :
        d \in Dests, len \in {<<1, 1, 1, 2>>, <<1, 1, 2, 2>>, <<3, 1, 2, 1>>},
        second \in {<<>>, <<Lit(1, 5, 2)>>}}

\* Streams with something wrong, and with other endings.
Odd ==
  LET one(n, stats, end) == [blocks |-> <<[size |-> 4, lits |-> n, stats |-> stats]>>, end |-> end]
  IN {one(4, <<>>, e) : e \in Endings}
     \cup {[blocks |-> <<>>, end |-> e] : e \in Endings}
     \cup {one(n, <<Lit(0, 1, 3)>>, "eof") : n \in 0..4}
     \cup UNION {{one(3, <<Lit(0, o, 1), Lit(a, 1, n)>>, "zero") : o \in 0..3 \ {a + 1}, n \in 1..2} :
                  a \in 0..4}

\* A copy of five to seven bytes into the third block, for which a copy of the
\* second block leaves no room in memory; on the disk there is room for five.
Large ==
  LET block(n, stats) == [size |-> 7, lits |-> n, stats |-> stats]
  IN {[blocks |-> <<block(7, <<Lit(0, 14, n)>>), block(7, <<Lit(0, 14, 2)>>),
                    block(7 - n, <<>>), block(5, <<>>)>>, end |-> "eof"] : n \in 5..7}

const_Streams == Spilling \cup Odd \cup Large

=============================================================================
