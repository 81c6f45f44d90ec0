----------------------------- MODULE MCStaging -----------------------------
EXTENDS StagingStore, SequencesExt

CONSTANTS a1, a2, hasher

const_Actors == {a1, a2, hasher}
const_Names  == {"a", "A", "b", "a/b"}
const_Key    == [n \in const_Names |-> IF n = "A" THEN "a" ELSE n]
const_Dir    == [n \in const_Names |-> IF n = "a/b" THEN "a" ELSE "."]

Act(do, name, ver) == [do |-> do, name |-> name, ver |-> ver]

\* Leaves over two spellings of one file and a file in a directory of that name.
LeafOps ==
  {Act("put", n, "v1") : n \in {"a", "A", "a/b"}} \cup {Act("put", "a", "v2")}
  \cup {Act("read", "A", "v1"), Act("open", "a", "v1"), Act("remove", "A", "v1"),
        Act("removeTree", "a", "v1"), Act("matches", "a", "v1")}

\* The main goroutine, or a leaf that everything waits for.
MainOps ==
  {Act("ingest", n, "v2") : n \in {"a", "A", "a/b"}}
  \cup {Act("create", n, "v2") : n \in {"a", "A"}}
  \cup {Act("remove", "a", "v1"), Act("read", "a", "v1")}

Staged(x, y) == [n \in const_Names |-> CASE n = x -> "v0" [] n = y -> "v0" [] OTHER -> "gone"]

Hash(n) == <<Act("hash", n, "v1")>>

Scenario(staged, one, two, hash) ==
  [staged |-> staged, script |-> a1 :> one @@ a2 :> two @@ hasher :> hash]

const_Scenarios ==
  {Scenario(Staged("a", "b"), s, t, h) :
     s \in {q \in SeqOf(LeafOps, 2) : q # <<>>},
     t \in {<<Act("put", "b", "v1"), Act("remove", "b", "v1")>>}, h \in {<<>>}}
  \cup {Scenario(Staged("a", "b"), s, <<Act("open", "b", "v1")>>, Hash("b")) :
          s \in SeqOf(LeafOps, 1)}
  \cup {Scenario(Staged("A", "b"), s, <<>>, Hash("b")) :
          s \in {q \in SeqOf(MainOps, 2) : q # <<>>}}
  \cup {Scenario(Staged("b", "b"), s, <<>>, Hash("b")) : s \in SeqOf(LeafOps, 2)}
  \cup {Scenario(Staged("a", "b"), s, <<>>, <<>>) : s \in SeqOf(LeafOps, 3)}
  \cup {Scenario(Staged("a", "a/b"), <<Act("removeTree", "a", "v1"), Act("put", n, "v1")>>, <<>>, <<>>) :
          n \in {"a", "a/b"}}

=============================================================================
