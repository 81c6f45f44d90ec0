------------------------- MODULE StagingStoreProofs -------------------------
(***************************************************************************)
(* Proofs about a staging directory, for any names, any number of actors   *)
(* and any scripts that the scheduler lets run beside each other.          *)
(*                                                                         *)
(* The two locks do not protect the index against every pair of actors     *)
(* (Locked says what they do).  What keeps the store right is that actors  *)
(* which run side by side are about different files (Ordered), and that a  *)
(* step of one leaves the index entries, the disk and the bytes of every   *)
(* other file as they were (StepKeeps), for which no two names may share   *)
(* an inode (OneName).                                                     *)
(***************************************************************************)
EXTENDS StagingStore, FiniteSetTheorems, TLAPS

\* What an actor in the middle of an operation is doing.
AtWork(a) ==
  /\ at[a] \in DOMAIN script[a]
  /\ step[a] \in {"wantDrop", "drop"} => Do(a).do = "put"
  /\ step[a] = "unlink" => Do(a).do = "ingest"
  /\ step[a] \in {"make", "write", "wantEnter", "enter"} => Do(a).do \in Writing
  /\ step[a] \in {"wantLook", "look"} => Do(a).do \in {"read", "open", "hash"}
  /\ step[a] \in {"open", "readOpen"} => Do(a).do \in {"open", "hash"}
  /\ step[a] = "delete" => Do(a).do \in Removing
  /\ step[a] = "list" => Do(a).do = "matches"

Steps == {"idle", "wantDrop", "drop", "unlink", "make", "write", "wantEnter", "enter",
          "wantLook", "look", "open", "readOpen", "delete", "list"}

Types ==
  /\ script \in [Actors -> Seq(Op)]
  /\ at \in [Actors -> Nat \ {0}]
  /\ step \in [Actors -> Steps]
  /\ \A a \in Actors : step[a] # "idle" => AtWork(a)
  /\ files \subseteq Names
  /\ content \in Seq(Versions \cup {Torn})
  /\ disk \in [Names -> 0..Len(content)]
  /\ planLock \in Actors \cup {None} /\ storeLock \in Actors \cup {None}
  /\ found \in [Actors -> Names \cup {None}]
  /\ open \in [Actors -> 0..Len(content)]
  /\ failed \in [Actors -> {"", "missing", "clash", "disk"}]
  /\ expect \in [Keys -> Versions \cup {None}]
  /\ DOMAIN seen = Actors
  /\ marred \subseteq Keys

\* The scheduler keeps what conflicts apart (StagingAssumption).
Ordered ==
  \A a, b \in Actors : a # b =>
    \A i \in DOMAIN script[a], j \in DOMAIN script[b] :
      /\ script[a][i].do \in Writing \cup Removing =>
           Touched(script[a][i]) \cap Touched(script[b][j]) = {}
      /\ script[a][i].do \in {"ingest", "create"} => script[b][j].do = "hash"

\* Planned operations hold the plan's lock until their file is open; the
\* sections that LockStore begins hold the store's.
Locked ==
  /\ \A a \in Actors :
       step[a] \notin {"idle", "readOpen"} /\ Do(a).do \in Planned => planLock = a
  /\ \A a \in Actors : step[a] \in {"drop", "look", "enter"} => storeLock = a

\* No two names share an inode.
OneName == \A m, n \in Names : disk[m] = disk[n] /\ disk[m] # 0 => m = n

Named(k) == {m \in files : Key[m] = k}

\* The index and the disk have what the scripts have made of key k.
Agreed(k) ==
  /\ expect[k] = None => Named(k) = {}
  /\ expect[k] # None =>
       \E m \in Named(k) : Named(k) = {m} /\ disk[m] # 0 /\ content[disk[m]] = expect[k]

Agreeing == \A k \in Keys \ marred : Quiet(k) => Agreed(k)

\* How far a write has got.
UnderWay ==
  \A a \in Actors :
    /\ step[a] \in {"make", "write", "wantEnter", "enter"} /\ Do(a).do = "put" =>
         \A m \in files : Key[m] # KeyOf(a)
    /\ step[a] \in {"write", "wantEnter", "enter"} => disk[Name(a)] # 0
    /\ step[a] = "write" => content[disk[Name(a)]] = Torn
    /\ step[a] \in {"wantEnter", "enter"} =>
         \/ content[disk[Name(a)]] = Do(a).ver
         \/ Do(a).do = "create" /\ content[disk[Name(a)]] = Torn

\* What a reader has found belongs to the file it is about.
Reading ==
  \A a \in Actors :
    /\ step[a] = "open" => found[a] \in files /\ Key[found[a]] = KeyOf(a)
    /\ step[a] = "readOpen" =>
         \E m \in files : Key[m] = KeyOf(a) /\ open[a] = disk[m] /\ disk[m] # 0

IInv ==
  Types /\ Ordered /\ Locked /\ OneName /\ Agreeing /\ UnderWay /\ Reading /\ ReadsRight

-----------------------------------------------------------------------------
(* Actors.                                                                 *)

\* An operation and the files it is about.
LEMMA OpFacts ==
  ASSUME Types, NEW a \in Actors, step[a] # "idle"
  PROVE  /\ at[a] \in DOMAIN script[a] /\ Do(a) \in Op
         /\ Name(a) \in Names /\ KeyOf(a) \in Keys /\ Do(a).ver \in Versions
         /\ KeyOf(a) = Key[Name(a)] /\ KeyOf(a) \in Touched(Do(a))
<1>1. at[a] \in DOMAIN script[a] /\ script[a] \in Seq(Op)
  BY DEF Types, AtWork
<1>2. Do(a) \in Op
  BY <1>1 DEF Do
<1>3. Name(a) \in Names /\ Do(a).ver \in Versions
  BY <1>2 DEF Op, Name
<1>4. KeyOf(a) = Key[Name(a)] /\ KeyOf(a) \in Keys
  BY <1>3 DEF KeyOf, Keys
<1>5. KeyOf(a) \in Touched(Do(a))
  BY DEF KeyOf, Name, Touched
<1> QED
  BY <1>1, <1>2, <1>3, <1>4, <1>5

\* Two actors at work are about different files if one of them changes its own.
LEMMA Apart ==
  ASSUME Types, Ordered, NEW a \in Actors, NEW b \in Actors, a # b,
         step[a] # "idle", step[b] # "idle"
  PROVE  /\ Do(a).do \in Writing \cup Removing => Touched(Do(a)) \cap Touched(Do(b)) = {}
         /\ Do(a).do \in Writing \cup Removing => KeyOf(b) \notin Touched(Do(a))
         /\ Do(a).do \in {"ingest", "create"} => Do(b).do = "hash"
<1>1. at[a] \in DOMAIN script[a] /\ at[b] \in DOMAIN script[b]
  BY OpFacts
<1>2. /\ Do(a).do \in Writing \cup Removing => Touched(Do(a)) \cap Touched(Do(b)) = {}
      /\ Do(a).do \in {"ingest", "create"} => Do(b).do = "hash"
  BY <1>1 DEF Ordered, Do
<1>3. KeyOf(b) \in Touched(Do(b))
  BY OpFacts
<1> QED
  BY <1>2, <1>3

\* A step of one actor leaves the others where they are.
LEMMA Others ==
  ASSUME Types, NEW a \in Actors, Step(a), NEW b \in Actors, b # a
  PROVE  /\ script' = script /\ step'[b] = step[b] /\ at'[b] = at[b] /\ failed'[b] = failed[b]
         /\ found'[b] = found[b] /\ open'[b] = open[b] /\ seen'[b] = seen[b]
<1>0. /\ step \in [Actors -> Steps] /\ at \in [Actors -> Nat \ {0}]
      /\ failed \in [Actors -> {"", "missing", "clash", "disk"}]
      /\ found \in [Actors -> Names \cup {None}] /\ open \in [Actors -> 0..Len(content)]
      /\ DOMAIN seen = Actors
  BY DEF Types
<1> USE DEF Goto, Return, Fail, Spoiled, Saw, SawFile, historyVars, readVars, storeVars
<1>1. CASE Begin(a)
  BY <1>0, <1>1 DEF Begin
<1>2. CASE LockStore(a)
  BY <1>0, <1>2 DEF LockStore
<1>3. CASE Drop(a)
  BY <1>0, <1>3 DEF Drop
<1>4. CASE Unlink(a)
  BY <1>0, <1>4 DEF Unlink
<1>5. CASE Make(a)
  BY <1>0, <1>5 DEF Make
<1>6. CASE Write(a)
  BY <1>0, <1>6 DEF Write
<1>7. CASE WriteFails(a)
  BY <1>0, <1>7 DEF WriteFails
<1>8. CASE Enter(a)
  BY <1>0, <1>8 DEF Enter
<1>9. CASE Look(a)
  BY <1>0, <1>9 DEF Look
<1>10. CASE OpenFile(a)
  BY <1>0, <1>10 DEF OpenFile
<1>11. CASE ReadOpen(a)
  BY <1>0, <1>11 DEF ReadOpen
<1>12. CASE Delete(a)
  BY <1>0, <1>12 DEF Delete
<1>13. CASE List(a)
  BY <1>0, <1>13 DEF List
<1> QED
  BY <1>1, <1>2, <1>3, <1>4, <1>5, <1>6, <1>7, <1>8, <1>9, <1>10, <1>11, <1>12, <1>13 DEF Step

-----------------------------------------------------------------------------
(* What a step does to the store.                                          *)

\* Key k is as it was: its index entries, its files and their bytes.
Kept(k) ==
  /\ Named(k)' = Named(k) /\ expect'[k] = expect[k] /\ (k \in marred' <=> k \in marred)
  /\ \A m \in Names : Key[m] = k =>
       disk'[m] = disk[m] /\ (disk[m] # 0 => content'[disk[m]] = content[disk[m]])

\* A step that leaves the store alone keeps every key.
LEMMA StoreKept ==
  ASSUME UNCHANGED <<files, disk, content, expect, marred>>, NEW k
  PROVE  Kept(k)
  BY DEF Kept, Named

\* One that changes names and inodes of other keys only keeps this one.
LEMMA OthersChange ==
  ASSUME Types, OneName, NEW n \in Names, NEW k \in Keys, Key[n] # k,
         \A m \in Names : Key[m] # Key[n] => disk'[m] = disk[m] /\ (m \in files' <=> m \in files),
         files' \subseteq Names,
         \A i \in 1..Len(content) : content'[i] = content[i] \/ i = disk[n],
         expect'[k] = expect[k], k \in marred' <=> k \in marred
  PROVE  Kept(k)
<1>1. ASSUME NEW m \in Names, Key[m] = k
      PROVE  disk'[m] = disk[m] /\ (disk[m] # 0 => content'[disk[m]] = content[disk[m]])
  <2>0. content \in Seq(Versions \cup {Torn}) /\ disk[m] \in 0..Len(content)
    BY DEF Types
  <2>1. disk[m] \in 0..Len(content) /\ Len(content) \in Nat
    BY <2>0
  <2>2. m # n /\ (disk[m] # 0 => disk[m] # disk[n])
    BY <1>1 DEF OneName
  <2> QED
    BY <1>1, <2>1, <2>2
<1>2. Named(k)' = Named(k)
  BY DEF Named, Types
<1> QED
  BY <1>1, <1>2 DEF Kept

\* A step is felt only by the keys of its operation, and by those only if it
\* writes or removes.
LEMMA StepKeeps ==
  ASSUME Types, OneName, NEW a \in Actors, Step(a), NEW k \in Keys,
         k \notin Touched(Do(a)) \/ Do(a).do \notin Writing \cup Removing
  PROVE  Kept(k)
<1> USE DEF Goto, Return, Fail, Saw, SawFile, historyVars, readVars, storeVars
<1>1. CASE Begin(a)
  BY <1>1, StoreKept DEF Begin
<1>2. CASE LockStore(a)
  BY <1>2, StoreKept DEF LockStore
<1>3. CASE Look(a)
  BY <1>3, StoreKept DEF Look
<1>4. CASE OpenFile(a)
  BY <1>4, StoreKept DEF OpenFile
<1>5. CASE ReadOpen(a)
  BY <1>5, StoreKept DEF ReadOpen
<1>6. CASE List(a)
  BY <1>6, StoreKept DEF List
<1>7. ASSUME step[a] # "idle", Do(a).do \in Writing
      PROVE  Name(a) \in Names /\ Key[Name(a)] # k /\ Key[Name(a)] = KeyOf(a)
  BY <1>7, OpFacts
<1>8. CASE Drop(a)
  <2>1. step[a] = "drop" /\ Do(a).do \in Writing
    BY <1>8 DEF Drop, Doing, Types, AtWork, Writing
  <2>2. /\ files' = files \ Same(Name(a)) /\ disk' = [n \in Names |-> IF n \in Same(Name(a)) THEN 0 ELSE disk[n]]
        /\ UNCHANGED <<content, expect, marred>>
    BY <1>8 DEF Drop
  <2>3. \A m \in Names : Key[m] # Key[Name(a)] => m \notin Same(Name(a))
    BY DEF Same
  <2>4. files \subseteq Names
    BY DEF Types
  <2> QED
    BY <1>7, <2>1, <2>2, <2>3, <2>4, OthersChange
<1>9. CASE Unlink(a)
  <2>1. step[a] = "unlink" /\ Do(a).do \in Writing
    BY <1>9 DEF Unlink, Doing, Types, AtWork, Writing
  <2>2. disk' = [disk EXCEPT ![Name(a)] = 0] /\ UNCHANGED <<files, content, expect, marred>>
    BY <1>9 DEF Unlink
  <2>3. disk \in [Names -> 0..Len(content)] /\ files \subseteq Names
    BY DEF Types
  <2> QED
    BY <1>7, <2>1, <2>2, <2>3, OthersChange
<1>10. CASE Make(a)
  <2>1. step[a] = "make" /\ Do(a).do \in Writing
    BY <1>10 DEF Make, Doing, Types, AtWork, Writing
  <2>2. /\ files' = files
        /\ \/ disk' = disk /\ content' = content
           \/ disk' = [disk EXCEPT ![Name(a)] = Len(content) + 1] /\ content' = Append(content, Torn)
           \/ disk' = disk /\ content' = [content EXCEPT ![disk[Name(a)]] = Torn]
    BY <1>10 DEF Make
  <2>3. disk \in [Names -> 0..Len(content)] /\ files \subseteq Names /\ content \in Seq(Versions \cup {Torn})
        /\ expect \in [Keys -> Versions \cup {None}]
    BY DEF Types
  <2>4. \A i \in 1..Len(content) : content'[i] = content[i] \/ i = disk[Name(a)]
    <3>1. content \in [1..Len(content) -> Versions \cup {Torn}]
      BY <2>3
    <3>2. CASE content' = Append(content, Torn)
      BY <2>3, <3>2
    <3>3. CASE content' = [content EXCEPT ![disk[Name(a)]] = Torn]
      BY <3>1, <3>3
    <3> QED
      BY <2>2, <3>2, <3>3
  <2>5. \A m \in Names : Key[m] # Key[Name(a)] => disk'[m] = disk[m]
    BY <2>2, <2>3
  <2>6. expect'[k] = expect[k] /\ (k \in marred' <=> k \in marred)
    BY <1>7, <1>10, <2>1, <2>3 DEF Make, Spoiled
  <2> QED
    BY <1>7, <2>1, <2>2, <2>3, <2>4, <2>5, <2>6, OthersChange
<1>11. CASE Write(a)
  <2>1. step[a] = "write" /\ Do(a).do \in Writing
    BY <1>11 DEF Write, Doing, Types, AtWork, Writing
  <2>2. content' = [content EXCEPT ![disk[Name(a)]] = Do(a).ver] /\ UNCHANGED <<files, disk, expect, marred>>
    BY <1>11 DEF Write
  <2>3. files \subseteq Names /\ content \in Seq(Versions \cup {Torn})
    BY DEF Types
  <2> QED
    BY <1>7, <2>1, <2>2, <2>3, OthersChange
<1>12. CASE WriteFails(a)
  <2>1. step[a] = "write" /\ Do(a).do \in Writing
    BY <1>12 DEF WriteFails, Doing, Types, AtWork, Writing
  <2>2. UNCHANGED <<files, disk, content>> /\ expect \in [Keys -> Versions \cup {None}] /\ files \subseteq Names
    BY <1>12 DEF WriteFails, Types
  <2>3. expect'[k] = expect[k] /\ (k \in marred' <=> k \in marred)
    BY <1>7, <1>12, <2>1, <2>2 DEF WriteFails, Spoiled
  <2> QED
    BY <1>7, <2>1, <2>2, <2>3, OthersChange
<1>13. CASE Enter(a)
  <2>1. step[a] = "enter" /\ Do(a).do \in Writing
    BY <1>13 DEF Enter, Doing, Types, AtWork, Writing
  <2>2. /\ files' = files \cup {Name(a)} /\ UNCHANGED <<disk, content>>
        /\ expect \in [Keys -> Versions \cup {None}] /\ files \subseteq Names
    BY <1>13 DEF Enter, Types
  <2>3. expect'[k] = expect[k] /\ (k \in marred' <=> k \in marred)
    BY <1>7, <1>13, <2>1, <2>2 DEF Enter, Spoiled
  <2> QED
    BY <1>7, <2>1, <2>2, <2>3, OthersChange
<1>14. CASE Delete(a)
  <2>1. step[a] = "delete" /\ Do(a).do \in Removing
    BY <1>14 DEF Delete, Doing, Types, AtWork
  <2>2. /\ files' = files \ Deleted(Do(a)) /\ UNCHANGED <<disk, content>>
        /\ expect' = [j \in Keys |-> IF j \in Touched(Do(a)) THEN None ELSE expect[j]]
        /\ marred' = marred \ Touched(Do(a))
    BY <1>14 DEF Delete
  <2>3. \A n \in files : Key[n] = k => n \notin Deleted(Do(a))
    BY <2>1 DEF Deleted, Touched, Types
  <2> QED
    BY <2>1, <2>2, <2>3 DEF Kept, Named
<1> QED
  BY <1>1, <1>2, <1>3, <1>4, <1>5, <1>6, <1>8, <1>9, <1>10, <1>11, <1>12, <1>13, <1>14 DEF Step

-----------------------------------------------------------------------------
(* Types and locks.                                                        *)

\* The operation that begins, and its first step.
LEMMA FirstStep ==
  ASSUME Types, NEW a \in Actors, ~Ended(a)
  PROVE  /\ at[a] \in DOMAIN script[a] /\ Do(a).do \in Planned \cup Writing \cup {"hash"}
         /\ First(Do(a).do) \in {"wantDrop", "wantLook", "delete", "list", "unlink", "make"}
<1>1. script[a] \in Seq(Op) /\ at[a] \in Nat \ {0} /\ ~(at[a] > Len(script[a]))
  BY DEF Types, Ended
<1>2. at[a] \in DOMAIN script[a] /\ Do(a) \in Op
  BY <1>1 DEF Do
<1>3. Do(a).do \in Planned \cup Writing \cup {"hash"}
  BY <1>2 DEF Op, Does
<1> QED
  BY <1>2, <1>3 DEF First, Planned, Writing, Removing

\* An actor moves on, returns or fails.
LEMMA ActorEffect ==
  ASSUME Types, NEW a \in Actors, Step(a)
  PROVE  /\ script' = script
         /\ step' = [step EXCEPT ![a] = step'[a]] /\ step'[a] \in Steps
         /\ at' = at \/ (at' = [at EXCEPT ![a] = at[a] + 1] /\ step'[a] = "idle")
         /\ failed' = failed \/ failed' = [failed EXCEPT ![a] = "missing"]
            \/ failed' = [failed EXCEPT ![a] = "clash"] \/ failed' = [failed EXCEPT ![a] = "disk"]
<1>0. step \in [Actors -> Steps] /\ step[a] \in Steps
  BY DEF Types
<1> USE DEF Goto, Return, Fail, Steps
<1>1. CASE Begin(a)
  BY <1>0, <1>1, FirstStep DEF Begin
<1>2. CASE LockStore(a)
  BY <1>0, <1>2 DEF LockStore, Guarded
<1>3. CASE Drop(a)
  BY <1>0, <1>3 DEF Drop
<1>4. CASE Unlink(a)
  BY <1>0, <1>4 DEF Unlink
<1>5. CASE Make(a)
  BY <1>0, <1>5 DEF Make
<1>6. CASE Write(a)
  BY <1>0, <1>6 DEF Write
<1>7. CASE WriteFails(a)
  BY <1>0, <1>7 DEF WriteFails
<1>8. CASE Enter(a)
  BY <1>0, <1>8 DEF Enter
<1>9. CASE Look(a)
  BY <1>0, <1>9 DEF Look
<1>10. CASE OpenFile(a)
  BY <1>0, <1>10 DEF OpenFile
<1>11. CASE ReadOpen(a)
  BY <1>0, <1>11 DEF ReadOpen
<1>12. CASE Delete(a)
  BY <1>0, <1>12 DEF Delete
<1>13. CASE List(a)
  BY <1>0, <1>13 DEF List
<1> QED
  BY <1>1, <1>2, <1>3, <1>4, <1>5, <1>6, <1>7, <1>8, <1>9, <1>10, <1>11, <1>12, <1>13 DEF Step

\* The files: inodes only ever come to be.
LEMMA FilesStep ==
  ASSUME Types, NEW a \in Actors, Step(a)
  PROVE  /\ files' \subseteq Names /\ content' \in Seq(Versions \cup {Torn})
         /\ Len(content) \in Nat /\ Len(content') \in Nat /\ Len(content) <= Len(content')
         /\ disk' \in [Names -> 0..Len(content')]
<1>0. files \subseteq Names /\ content \in Seq(Versions \cup {Torn}) /\ disk \in [Names -> 0..Len(content)]
  BY DEF Types
<1>1. Len(content) \in Nat
  BY <1>0
<1>2. step[a] # "idle" => Name(a) \in Names /\ Do(a).ver \in Versions
  BY OpFacts
<1>3. ASSUME UNCHANGED content, disk' \in [Names -> 0..Len(content)], files' \subseteq Names
      PROVE  /\ files' \subseteq Names /\ content' \in Seq(Versions \cup {Torn})
             /\ Len(content) \in Nat /\ Len(content') \in Nat /\ Len(content) <= Len(content')
             /\ disk' \in [Names -> 0..Len(content')]
  BY <1>0, <1>1, <1>3
<1>4. ASSUME NEW i \in Nat, NEW v \in Versions \cup {Torn}, content' = [content EXCEPT ![i] = v]
      PROVE  /\ content' \in Seq(Versions \cup {Torn}) /\ Len(content') = Len(content)
  <2>1. content \in [1..Len(content) -> Versions \cup {Torn}]
    BY <1>0
  <2>2. content' \in [1..Len(content) -> Versions \cup {Torn}]
    BY <1>4, <2>1
  <2> QED
    BY <1>1, <2>2
<1>5. CASE Drop(a)
  <2>1. disk' \in [Names -> 0..Len(content)]
    BY <1>0, <1>1, <1>5 DEF Drop
  <2> QED
    BY <1>0, <1>3, <1>5, <2>1 DEF Drop
<1>6. CASE Unlink(a)
  <2>1. disk' \in [Names -> 0..Len(content)]
    <3>1. 0 \in 0..Len(content) /\ disk' = [disk EXCEPT ![Name(a)] = 0]
      BY <1>1, <1>6 DEF Unlink
    <3> QED
      BY <1>0, <3>1
  <2> QED
    BY <1>0, <1>3, <1>6, <2>1 DEF Unlink
<1>7. CASE Make(a)
  <2>1. Name(a) \in Names /\ files' = files
    BY <1>2, <1>7 DEF Make, Doing, storeVars
  <2>2. CASE UNCHANGED <<disk, content>>
    BY <1>0, <1>3, <2>1, <2>2
  <2>3. CASE content' = Append(content, Torn) /\ disk' = [disk EXCEPT ![Name(a)] = Len(content) + 1]
    <3>1. content' \in Seq(Versions \cup {Torn}) /\ Len(content') = Len(content) + 1
      BY <1>0, <2>3
    <3>2. 0..Len(content) \subseteq 0..Len(content') /\ Len(content) + 1 \in 0..Len(content')
      BY <1>1, <3>1
    <3>3. disk' \in [Names -> 0..Len(content')]
      BY <1>0, <2>3, <3>2
    <3> QED
      BY <1>0, <1>1, <2>1, <3>1, <3>3
  <2>4. CASE content' = [content EXCEPT ![disk[Name(a)]] = Torn] /\ disk' = disk
    <3>1. disk[Name(a)] \in Nat
      BY <1>0, <1>1, <2>1
    <3>2. content' \in Seq(Versions \cup {Torn}) /\ Len(content') = Len(content)
      BY <1>4, <2>4, <3>1
    <3> QED
      BY <1>0, <1>1, <2>1, <2>4, <3>2
  <2> QED
    BY <1>7, <2>2, <2>3, <2>4 DEF Make, storeVars
<1>8. CASE Write(a)
  <2>1. /\ content' = [content EXCEPT ![disk[Name(a)]] = Do(a).ver] /\ disk' = disk /\ files' = files
        /\ Do(a).ver \in Versions /\ Name(a) \in Names
    BY <1>2, <1>8 DEF Write, Doing
  <2>2. disk[Name(a)] \in Nat
    BY <1>0, <1>1, <2>1
  <2>3. content' \in Seq(Versions \cup {Torn}) /\ Len(content') = Len(content)
    BY <1>4, <2>1, <2>2
  <2> QED
    BY <1>0, <1>1, <2>1, <2>3
<1>9. CASE Enter(a)
  <2>1. files' \subseteq Names /\ UNCHANGED <<disk, content>>
    BY <1>0, <1>2, <1>9 DEF Enter, Doing
  <2> QED
    BY <1>0, <1>3, <2>1
<1>10. CASE Delete(a)
  <2>1. files' \subseteq Names /\ UNCHANGED <<disk, content>>
    BY <1>0, <1>10 DEF Delete
  <2> QED
    BY <1>0, <1>3, <2>1
<1>11. CASE Begin(a) \/ LockStore(a) \/ WriteFails(a) \/ Look(a) \/ OpenFile(a) \/ ReadOpen(a) \/ List(a)
  <2>1. UNCHANGED <<files, disk, content>>
    BY <1>11 DEF Begin, LockStore, WriteFails, Look, OpenFile, ReadOpen, List, storeVars
  <2> QED
    BY <1>0, <1>3, <2>1
<1> QED
  BY <1>5, <1>6, <1>7, <1>8, <1>9, <1>10, <1>11 DEF Step

\* The steps of an operation are those of what it does.
LEMMA WorkStep ==
  ASSUME Types, NEW a \in Actors, Step(a), step'[a] # "idle"
  PROVE  AtWork(a)'
<1>0. step \in [Actors -> Steps] /\ (step[a] # "idle" => AtWork(a))
  BY DEF Types
<1>1. script' = script /\ at' = at
  BY ActorEffect
\* It is enough that the next step is one of the operation.
<1>2. ASSUME at[a] \in DOMAIN script[a],
             step'[a] \in {"wantDrop", "drop"} => Do(a).do = "put",
             step'[a] = "unlink" => Do(a).do = "ingest",
             step'[a] \in {"make", "write", "wantEnter", "enter"} => Do(a).do \in Writing,
             step'[a] \in {"wantLook", "look"} => Do(a).do \in {"read", "open", "hash"},
             step'[a] \in {"open", "readOpen"} => Do(a).do \in {"open", "hash"},
             step'[a] = "delete" => Do(a).do \in Removing,
             step'[a] = "list" => Do(a).do = "matches"
      PROVE  AtWork(a)'
  BY <1>1, <1>2 DEF AtWork, Do
<1>3. CASE Begin(a)
  <2>1. ~Ended(a) /\ step'[a] = First(Do(a).do)
    BY <1>0, <1>3 DEF Begin, Goto
  <2>3. at[a] \in DOMAIN script[a]
    BY <2>1, FirstStep
  <2>4. Do(a).do \in Planned \cup Writing \cup {"hash"}
    BY <2>1, FirstStep
  <2>5. First(Do(a).do) = "wantDrop" => Do(a).do = "put"
    BY <2>4 DEF First, Planned, Writing, Removing
  <2>6. First(Do(a).do) \notin {"drop", "write", "wantEnter", "enter", "look", "open", "readOpen"}
    BY <2>4 DEF First, Planned, Writing, Removing
  <2>7. /\ First(Do(a).do) = "unlink" => Do(a).do = "ingest"
        /\ First(Do(a).do) = "make" => Do(a).do \in Writing
        /\ First(Do(a).do) = "wantLook" => Do(a).do \in {"read", "open", "hash"}
    BY <2>4 DEF First, Planned, Writing, Removing
  <2>8. /\ First(Do(a).do) = "delete" => Do(a).do \in Removing
        /\ First(Do(a).do) = "list" => Do(a).do = "matches"
    BY <2>4 DEF First, Planned, Writing, Removing
  <2> QED
    BY <1>2, <2>1, <2>3, <2>5, <2>6, <2>7, <2>8
<1>4. CASE LockStore(a)
  <2>1. \/ step[a] = "wantDrop" /\ step'[a] = "drop"
        \/ step[a] = "wantLook" /\ step'[a] = "look"
        \/ step[a] = "wantEnter" /\ step'[a] = "enter"
    BY <1>0, <1>4 DEF LockStore, Guarded, Goto
  <2> QED
    BY <1>0, <1>2, <2>1 DEF AtWork
<1>5. CASE Drop(a) \/ Unlink(a)
  <2>1. step[a] \in {"drop", "unlink"} /\ step'[a] = "make"
    BY <1>0, <1>5 DEF Drop, Unlink, Doing, Goto
  <2> QED
    BY <1>0, <1>2, <2>1 DEF AtWork, Writing
<1>6. CASE Make(a) \/ Write(a) \/ WriteFails(a)
  <2>1. step[a] \in {"make", "write"} /\ step'[a] \in {"write", "wantEnter"}
    BY <1>0, <1>6 DEF Make, Write, WriteFails, Doing, Goto, Fail
  <2> QED
    BY <1>0, <1>2, <2>1 DEF AtWork
<1>7. CASE Look(a)
  <2>1. step[a] = "look" /\ step'[a] = "open" /\ Do(a).do # "read"
    BY <1>0, <1>7 DEF Look, Doing, Goto, Fail, Return
  <2> QED
    BY <1>0, <1>2, <2>1 DEF AtWork
<1>8. CASE OpenFile(a)
  <2>1. step[a] = "open" /\ step'[a] = "readOpen"
    BY <1>0, <1>8 DEF OpenFile, Doing, Goto, Fail
  <2> QED
    BY <1>0, <1>2, <2>1 DEF AtWork
<1>9. CASE Enter(a) \/ ReadOpen(a) \/ Delete(a) \/ List(a)
  BY <1>0, <1>9 DEF Enter, ReadOpen, Delete, List, Goto, Fail, Return
<1> QED
  BY <1>3, <1>4, <1>5, <1>6, <1>7, <1>8, <1>9 DEF Step

LEMMA TypesStep == Types /\ OneName /\ UnderWay /\ Reading /\ [Next]_vars => Types'
<1> SUFFICES ASSUME Types, OneName, UnderWay, Reading, [Next]_vars PROVE Types'
  OBVIOUS
<1>0. /\ script \in [Actors -> Seq(Op)] /\ at \in [Actors -> Nat \ {0}] /\ step \in [Actors -> Steps]
      /\ content \in Seq(Versions \cup {Torn})
      /\ disk \in [Names -> 0..Len(content)] /\ files \subseteq Names
      /\ found \in [Actors -> Names \cup {None}] /\ open \in [Actors -> 0..Len(content)]
      /\ failed \in [Actors -> {"", "missing", "clash", "disk"}]
      /\ expect \in [Keys -> Versions \cup {None}] /\ DOMAIN seen = Actors /\ marred \subseteq Keys
      /\ planLock \in Actors \cup {None} /\ storeLock \in Actors \cup {None}
  BY DEF Types
<1>1. ASSUME NEW a \in Actors, Step(a) PROVE Types'
  <2>0. step[a] # "idle" => /\ AtWork(a) /\ Name(a) \in Names /\ KeyOf(a) \in Keys
                            /\ Do(a).ver \in Versions
    BY OpFacts DEF Types
  \* Where the actors are.
  <2>1. /\ script' \in [Actors -> Seq(Op)] /\ step' \in [Actors -> Steps]
        /\ at' \in [Actors -> Nat \ {0}]
        /\ failed' \in [Actors -> {"", "missing", "clash", "disk"}]
    <3>1. step' \in [Actors -> Steps]
      BY <1>1, ActorEffect DEF Types
    <3>2. at' \in [Actors -> Nat \ {0}]
      <4>0. at[a] \in Nat \ {0}
        BY DEF Types
      <4>1. at[a] + 1 \in Nat \ {0}
        BY <4>0
      <4>2. at \in [Actors -> Nat \ {0}]
        BY DEF Types
      <4> QED
        BY <1>1, <4>1, <4>2, ActorEffect
    <3>3. failed' \in [Actors -> {"", "missing", "clash", "disk"}]
      <4>1. failed \in [Actors -> {"", "missing", "clash", "disk"}]
        BY DEF Types
      <4> QED
        BY <1>1, <4>1, ActorEffect
    <3> QED
      BY <1>0, <1>1, <3>1, <3>2, <3>3, ActorEffect
  <2>2. /\ planLock' \in Actors \cup {None} /\ storeLock' \in Actors \cup {None}
        /\ DOMAIN seen' = Actors
    <3>0. /\ planLock \in Actors \cup {None} /\ storeLock \in Actors \cup {None}
          /\ DOMAIN seen = Actors
      BY DEF Types
    <3>1. DOMAIN seen' = Actors
      BY <1>1, <3>0 DEF Step, Begin, LockStore, Drop, Unlink, Make, Write, WriteFails, Enter, Look,
        OpenFile, ReadOpen, Delete, List, Saw, SawFile, Spoiled, historyVars
    <3>2. storeLock' \in Actors \cup {None}
      BY <1>1, <3>0 DEF Step, Begin, LockStore, Drop, Unlink, Make, Write, WriteFails, Enter, Look,
        OpenFile, ReadOpen, Delete, List
    <3>3. planLock' \in Actors \cup {None}
      BY <1>1, <3>0 DEF Step, Begin, LockStore, Drop, Unlink, Make, Write, WriteFails, Enter, Look,
        OpenFile, ReadOpen, Delete, List, Return, Fail, FreePlan
    <3> QED
      BY <3>1, <3>2, <3>3
  <2>3. \A b \in Actors : step'[b] # "idle" => AtWork(b)'
    <3>1. ASSUME NEW b \in Actors, b # a, step'[b] # "idle" PROVE AtWork(b)'
      <4>1. step'[b] = step[b] /\ at'[b] = at[b] /\ script' = script
        BY <1>1, <3>1, Others
      <4>2. AtWork(b)
        BY <3>1, <4>1 DEF Types
      <4> QED
        BY <4>1, <4>2 DEF AtWork, Do
    <3>2. ASSUME step'[a] # "idle" PROVE AtWork(a)'
      BY <1>1, <3>2, WorkStep
    <3> QED
      BY <3>1, <3>2
  \* The store.
  <2>4. /\ files' \subseteq Names /\ content' \in Seq(Versions \cup {Torn})
        /\ disk' \in [Names -> 0..Len(content')]
    BY <1>1, FilesStep
  <2>5. found' \in [Actors -> Names \cup {None}]
    <3>1. CASE Look(a)
      <4>1. Found(Name(a)) \subseteq Names
        BY <1>0 DEF Found, Same
      <4>2. found' = found \/ \E n \in Names : found' = [found EXCEPT ![a] = n]
        BY <3>1, <4>1 DEF Look
      <4> QED
        BY <1>0, <4>2
    <3>2. CASE OpenFile(a)
      BY <1>0, <3>2 DEF OpenFile
    <3> QED
      BY <1>0, <1>1, <3>1, <3>2 DEF Step, Begin, LockStore, Drop, Unlink, Make, Write, WriteFails, Enter,
        ReadOpen, Delete, List, readVars
  <2>6. open' \in [Actors -> 0..Len(content')]
    <3>0. open \in [Actors -> 0..Len(content)] /\ disk \in [Names -> 0..Len(content)]
      BY DEF Types
    <3>1. 0..Len(content) \subseteq 0..Len(content') /\ 0 \in 0..Len(content')
      BY <1>1, FilesStep
    <3>2. CASE open' = open
      BY <3>0, <3>1, <3>2
    <3>3. CASE OpenFile(a)
      <4>1. found[a] \in Names
        BY <3>3 DEF OpenFile, Reading, Doing, Types
      <4>2. open' = open \/ open' = [open EXCEPT ![a] = disk[found[a]]]
        BY <3>3 DEF OpenFile
      <4> QED
        BY <3>0, <3>1, <4>1, <4>2
    <3>4. CASE ReadOpen(a)
      BY <3>0, <3>1, <3>4 DEF ReadOpen
    <3> QED
      BY <1>1, <3>2, <3>3, <3>4 DEF Step, Begin, LockStore, Drop, Unlink, Make, Write, WriteFails, Enter,
        Look, Delete, List, readVars
  <2>7. expect' \in [Keys -> Versions \cup {None}] /\ marred' \subseteq Keys
    <3> USE DEF Spoiled, Saw, SawFile, historyVars
    <3>1. CASE Make(a) \/ WriteFails(a)
      <4>1. KeyOf(a) \in Keys
        BY <2>0, <3>1 DEF Make, WriteFails, Doing
      <4> QED
        BY <1>0, <3>1, <4>1 DEF Make, WriteFails
    <3>2. CASE Enter(a)
      <4>1. KeyOf(a) \in Keys /\ Do(a).ver \in Versions
        BY <2>0, <3>2 DEF Enter, Doing
      <4> QED
        BY <1>0, <3>2, <4>1 DEF Enter
    <3>3. CASE Delete(a)
      BY <1>0, <3>3 DEF Delete
    <3> QED
      BY <1>0, <1>1, <3>1, <3>2, <3>3 DEF Step, Begin, LockStore, Drop, Unlink, Write,
        Look, OpenFile, ReadOpen, List
  <2> QED
    BY <2>1, <2>2, <2>3, <2>4, <2>5, <2>6, <2>7 DEF Types
<1>2. CASE Throw \/ UNCHANGED vars
  BY <1>2 DEF Throw, vars, storeVars, readVars, historyVars, Types, AtWork, Do
<1> QED
  BY <1>1, <1>2 DEF Next

\* Who holds the locks after a step.
LEMMA LockEffect ==
  ASSUME Types, Locked, NEW a \in Actors, Step(a)
  PROVE  /\ \/ planLock' = planLock
            \/ planLock = None /\ planLock' = a
            \/ planLock = a /\ planLock' = None
         /\ \/ storeLock' = storeLock
            \/ storeLock = None /\ storeLock' = a
            \/ storeLock = a /\ storeLock' = None
         /\ step'[a] \notin {"idle", "readOpen"} /\ Do(a).do \in Planned => planLock' = a
         /\ step'[a] \in {"drop", "look", "enter"} => storeLock' = a
<1>0. /\ step \in [Actors -> Steps] /\ step'[a] \in Steps /\ step' = [step EXCEPT ![a] = step'[a]]
      /\ step[a] \notin {"idle", "readOpen"} /\ Do(a).do \in Planned => planLock = a
      /\ step[a] \in {"drop", "look", "enter"} => storeLock = a
  BY ActorEffect DEF Types, Locked
<1> USE DEF Goto, Return, Fail, FreePlan
<1>1. CASE Begin(a)
  <2>1. step'[a] \notin {"drop", "look", "enter"}
    BY <1>0, <1>1, FirstStep DEF Begin
  <2> QED
    BY <1>0, <1>1, <2>1 DEF Begin, Doing
<1>2. CASE LockStore(a)
  <2>1. step[a] \in {"wantDrop", "wantLook", "wantEnter"}
    BY <1>2 DEF LockStore, Guarded
  <2> QED
    BY <1>0, <1>2, <2>1 DEF LockStore
<1>3. CASE Drop(a)
  BY <1>0, <1>3 DEF Drop, Doing
<1>4. CASE Unlink(a)
  BY <1>0, <1>4 DEF Unlink, Doing
<1>5. CASE Make(a)
  BY <1>0, <1>5 DEF Make, Doing
<1>6. CASE Write(a)
  BY <1>0, <1>6 DEF Write, Doing
<1>7. CASE WriteFails(a)
  BY <1>0, <1>7 DEF WriteFails, Doing
<1>8. CASE Enter(a)
  BY <1>0, <1>8 DEF Enter, Doing
<1>9. CASE Look(a)
  BY <1>0, <1>9 DEF Look, Doing
<1>10. CASE OpenFile(a)
  BY <1>0, <1>10 DEF OpenFile, Doing
<1>11. CASE ReadOpen(a)
  BY <1>0, <1>11 DEF ReadOpen, Doing
<1>12. CASE Delete(a)
  BY <1>0, <1>12 DEF Delete, Doing
<1>13. CASE List(a)
  BY <1>0, <1>13 DEF List, Doing
<1> QED
  BY <1>1, <1>2, <1>3, <1>4, <1>5, <1>6, <1>7, <1>8, <1>9, <1>10, <1>11, <1>12, <1>13 DEF Step

\* An actor that is at work after its step is at the same operation.
LEMMA SameWork ==
  ASSUME Types, NEW a \in Actors, Step(a), NEW b \in Actors, step'[b] # "idle" \/ b # a
  PROVE  Do(b)' = Do(b) /\ Name(b)' = Name(b) /\ KeyOf(b)' = KeyOf(b)
<1>1. script' = script /\ at'[b] = at[b]
  <2>1. CASE b # a
    BY <2>1, Others
  <2>2. CASE b = a
    BY <2>2, ActorEffect
  <2> QED
    BY <2>1, <2>2
<1>2. Do(b)' = Do(b)
  BY <1>1 DEF Do
<1> QED
  BY <1>2 DEF Name, KeyOf

LEMMA LockedStep ==
  ASSUME Types, Locked, NEW a \in Actors, Step(a)
  PROVE  Locked'
<1>1. ASSUME NEW b \in Actors
      PROVE  /\ step'[b] \notin {"idle", "readOpen"} /\ Do(b)'.do \in Planned => planLock' = b
             /\ step'[b] \in {"drop", "look", "enter"} => storeLock' = b
  <2>1. CASE b = a
    BY <2>1, LockEffect, SameWork
  <2>2. CASE b # a
    <3>1. step'[b] = step[b] /\ Do(b)' = Do(b)
      BY <2>2, Others, SameWork
    <3>2. /\ step[b] \notin {"idle", "readOpen"} /\ Do(b).do \in Planned => planLock = b
          /\ step[b] \in {"drop", "look", "enter"} => storeLock = b
      BY DEF Locked
    <3>3. b # None
      BY StagingAssumption
    <3> QED
      BY <2>2, <3>1, <3>2, <3>3, LockEffect
  <2> QED
    BY <2>1, <2>2
<1> QED
  BY <1>1 DEF Locked

LEMMA OrderedStep == Ordered /\ [Next]_vars => Ordered'
<1> SUFFICES ASSUME Ordered, [Next]_vars PROVE Ordered'
  OBVIOUS
<1>1. script' = script
  BY DEF Next, Step, Begin, LockStore, Drop, Unlink, Make, Write, WriteFails, Enter, Look, OpenFile,
    ReadOpen, Delete, List, Throw, vars
<1> QED
  BY <1>1 DEF Ordered

LEMMA OneNameStep ==
  ASSUME Types, OneName, NEW a \in Actors, Step(a)
  PROVE  OneName'
<1>0. disk \in [Names -> 0..Len(content)] /\ content \in Seq(Versions \cup {Torn}) /\ Len(content) \in Nat
  <2>1. disk \in [Names -> 0..Len(content)] /\ content \in Seq(Versions \cup {Torn})
    BY DEF Types
  <2> QED
    BY <2>1
<1>1. CASE disk' = disk
  BY <1>1 DEF OneName
<1>2. CASE Drop(a)
  BY <1>2 DEF Drop, OneName
<1>3. CASE Unlink(a)
  BY <1>0, <1>3 DEF Unlink, OneName
<1>4. CASE Make(a)
  <2>1. disk' = disk \/ disk' = [disk EXCEPT ![Name(a)] = Len(content) + 1]
    BY <1>4 DEF Make, storeVars
  <2>2. \A m \in Names : disk[m] \in 0..Len(content)
    BY <1>0
  <2>3. \A m \in Names : disk[m] # Len(content) + 1
    BY <1>0, <2>2
  <2> QED
    BY <1>0, <1>1, <2>1, <2>3 DEF OneName
<1> QED
  BY <1>1, <1>2, <1>3, <1>4 DEF Step, Begin, LockStore, Write, WriteFails, Enter, Look, OpenFile, ReadOpen,
    Delete, List, storeVars

\* No two actors are in the index at once, one of them writing, unless one
\* removes and the other is a hash task.
LEMMA RaceCases == Types /\ Ordered /\ Locked => RaceOnlyWithRemove
<1> SUFFICES ASSUME Types, Ordered, Locked, NEW a \in Actors, NEW b \in Actors, Race(a, b)
             PROVE  step[a] = "delete" /\ Do(b).do = "hash"
  BY DEF RaceOnlyWithRemove
<1>1. a # b /\ step[a] \in {"drop", "enter", "delete"} /\ step[b] \in {"drop", "enter", "delete", "look", "list"}
  BY DEF Race, Writes, Uses
<1>2. AtWork(a) /\ AtWork(b)
  BY <1>1 DEF Types
\* Both locks are for one.
<1>3. ~(step[a] \in {"drop", "look", "enter"} /\ step[b] \in {"drop", "look", "enter"})
  BY <1>1 DEF Locked
<1>4. ~(Do(a).do \in Planned /\ Do(b).do \in Planned)
  BY <1>1 DEF Locked
<1>5. CASE step[a] = "delete"
  <2>1. Do(a).do \in Planned
    BY <1>2, <1>5 DEF AtWork, Removing, Planned
  <2>2. /\ step[b] \in {"drop", "delete", "list"} => Do(b).do \in Planned
        /\ step[b] = "enter" => Do(b).do \in Planned \cup {"ingest", "create"}
        /\ step[b] = "look" => Do(b).do \in Planned \cup {"hash"}
    BY <1>2 DEF AtWork, Writing, Removing, Planned
  <2>3. Do(b).do \in {"ingest", "create"} => Do(a).do = "hash"
    BY <1>1, Apart
  <2>4. "hash" \notin Planned
    BY DEF Planned
  <2> QED
    BY <1>1, <1>4, <1>5, <2>1, <2>2, <2>3, <2>4
<1>6. CASE step[a] # "delete"
  <2>1. step[a] \in {"drop", "enter"} /\ step[b] \in {"delete", "list"}
    BY <1>1, <1>3, <1>6
  <2>2. Do(b).do \in Planned /\ Do(b).do # "hash"
    BY <1>2, <2>1 DEF AtWork, Planned, Removing
  <2>3. Do(a).do \in {"ingest", "create"}
    BY <1>2, <1>4, <2>1, <2>2 DEF AtWork, Writing, Planned
  <2> QED
    BY <1>1, <2>2, <2>3, Apart
<1> QED
  BY <1>5, <1>6

-----------------------------------------------------------------------------
(* Writers and readers.                                                    *)

\* A step of one actor keeps the file that another is at work on.
LEMMA OtherKept ==
  ASSUME Types, Ordered, OneName, NEW a \in Actors, Step(a), NEW b \in Actors, b # a,
         step[b] # "idle"
  PROVE  /\ Kept(KeyOf(b)) /\ KeyOf(b)' = KeyOf(b) /\ Name(b)' = Name(b) /\ Do(b)' = Do(b)
         /\ KeyOf(b) \in Keys /\ Name(b) \in Names /\ Key[Name(b)] = KeyOf(b)
<1>1. KeyOf(b) \in Keys /\ Name(b) \in Names /\ Key[Name(b)] = KeyOf(b)
  BY OpFacts
<1>2. KeyOf(b)' = KeyOf(b) /\ Name(b)' = Name(b) /\ Do(b)' = Do(b)
  BY SameWork
<1>3. CASE step[a] = "idle"
  <2>1. UNCHANGED <<files, disk, content, expect, marred>>
    BY <1>3 DEF Step, Begin, LockStore, Guarded, Drop, Unlink, Make, Write, WriteFails, Enter, Look,
      OpenFile, ReadOpen, Delete, List, Doing, storeVars, historyVars
  <2> QED
    BY <1>1, <1>2, <2>1, StoreKept
<1>4. CASE step[a] # "idle"
  <2>1. KeyOf(b) \notin Touched(Do(a)) \/ Do(a).do \notin Writing \cup Removing
    BY <1>4, Apart
  <2> QED
    BY <1>1, <1>2, <2>1, StepKeeps
<1> QED
  BY <1>3, <1>4

LEMMA UnderWayStep ==
  ASSUME Types, Ordered, OneName, UnderWay, NEW a \in Actors, Step(a)
  PROVE  UnderWay'
<1>1. ASSUME NEW b \in Actors, b # a, step'[b] \in {"make", "write", "wantEnter", "enter"}
      PROVE  /\ Do(b)'.do = "put" => \A m \in files' : Key[m] # KeyOf(b)'
             /\ step'[b] # "make" => disk'[Name(b)'] # 0
             /\ step'[b] = "write" => content'[disk'[Name(b)']] = Torn
             /\ step'[b] \in {"wantEnter", "enter"} =>
                  \/ content'[disk'[Name(b)']] = Do(b)'.ver
                  \/ Do(b)'.do = "create" /\ content'[disk'[Name(b)']] = Torn
  <2>1. step'[b] = step[b]
    BY <1>1, Others
  <2>2. /\ Kept(KeyOf(b)) /\ KeyOf(b)' = KeyOf(b) /\ Name(b)' = Name(b) /\ Do(b)' = Do(b)
        /\ Name(b) \in Names /\ Key[Name(b)] = KeyOf(b)
    BY <1>1, <2>1, OtherKept
  <2>3. /\ Named(KeyOf(b))' = Named(KeyOf(b))
        /\ disk'[Name(b)] = disk[Name(b)]
        /\ disk[Name(b)] # 0 => content'[disk[Name(b)]] = content[disk[Name(b)]]
    BY <2>2 DEF Kept
  <2>4. Do(b).do = "put" => \A m \in files' : Key[m] # KeyOf(b)
    <3>1. Do(b).do = "put" => \A m \in files : Key[m] # KeyOf(b)
      BY <1>1, <2>1 DEF UnderWay
    <3>2. {m \in files' : Key[m] = KeyOf(b)} = {m \in files : Key[m] = KeyOf(b)}
      BY <2>2, <2>3 DEF Named
    <3> QED
      BY <3>1, <3>2
  <2>5. /\ step[b] # "make" => disk[Name(b)] # 0
        /\ step[b] = "write" => content[disk[Name(b)]] = Torn
        /\ step[b] \in {"wantEnter", "enter"} =>
             \/ content[disk[Name(b)]] = Do(b).ver
             \/ Do(b).do = "create" /\ content[disk[Name(b)]] = Torn
    BY <1>1, <2>1 DEF UnderWay
  <2> QED
    BY <1>1, <2>1, <2>2, <2>3, <2>4, <2>5
<1>2. ASSUME step'[a] \in {"make", "write", "wantEnter", "enter"}
      PROVE  /\ Do(a)'.do = "put" => \A m \in files' : Key[m] # KeyOf(a)'
             /\ step'[a] # "make" => disk'[Name(a)'] # 0
             /\ step'[a] = "write" => content'[disk'[Name(a)']] = Torn
             /\ step'[a] \in {"wantEnter", "enter"} =>
                  \/ content'[disk'[Name(a)']] = Do(a)'.ver
                  \/ Do(a)'.do = "create" /\ content'[disk'[Name(a)']] = Torn
  <2>1. Do(a)' = Do(a) /\ Name(a)' = Name(a) /\ KeyOf(a)' = KeyOf(a)
    BY <1>2, SameWork
  <2>2. step \in [Actors -> Steps] /\ (step[a] # "idle" => AtWork(a))
    BY DEF Types
  <2>3. step[a] # "idle" => Name(a) \in Names /\ Key[Name(a)] = KeyOf(a)
    BY OpFacts
  <2>4. /\ step[a] \in {"make", "write", "wantEnter", "enter"} /\ Do(a).do = "put" =>
             \A m \in files : Key[m] # KeyOf(a)
        /\ step[a] \in {"write", "wantEnter", "enter"} => disk[Name(a)] # 0
        /\ step[a] = "write" => content[disk[Name(a)]] = Torn
        /\ step[a] \in {"wantEnter", "enter"} =>
             \/ content[disk[Name(a)]] = Do(a).ver
             \/ Do(a).do = "create" /\ content[disk[Name(a)]] = Torn
    BY DEF UnderWay
  <2> USE DEF Goto, Fail, Return
  <2>5. CASE Begin(a)
    <3>1. ~Ended(a) /\ step'[a] = First(Do(a).do)
      BY <2>2, <2>5 DEF Begin
    <3>2. Do(a).do \in Planned \cup Writing \cup {"hash"} /\ step'[a] = "make"
      BY <1>2, <3>1, FirstStep
    <3>3. Do(a).do # "put"
      BY <3>1, <3>2 DEF First
    <3> QED
      BY <2>1, <3>2, <3>3
  <2>6. CASE LockStore(a)
    <3>1. step[a] = "wantEnter" /\ step'[a] = "enter" /\ UNCHANGED <<files, disk, content>>
      BY <1>2, <2>2, <2>6 DEF LockStore, Guarded, storeVars
    <3> QED
      BY <2>1, <2>4, <3>1
  <2>7. CASE Drop(a) \/ Unlink(a)
    <3>1. step'[a] = "make"
      BY <2>2, <2>7 DEF Drop, Unlink
    <3>2. CASE Drop(a)
      <4>1. files' = files \ Same(Name(a)) /\ Key[Name(a)] = KeyOf(a)
        BY <2>3, <3>2 DEF Drop, Doing
      <4> QED
        BY <2>1, <3>1, <4>1 DEF Same
    <3>3. CASE Unlink(a)
      <4>1. Do(a).do = "ingest"
        BY <2>2, <3>3 DEF Unlink, Doing, AtWork
      <4> QED
        BY <2>1, <3>1, <4>1
    <3> QED
      BY <2>7, <3>2, <3>3
  <2>8. CASE Make(a)
    <3>0. /\ content \in Seq(Versions \cup {Torn}) /\ disk \in [Names -> 0..Len(content)]
          /\ Name(a) \in Names
      BY <2>3, <2>8 DEF Types, Make, Doing
    <3>1. Len(content) \in Nat /\ disk[Name(a)] \in 0..Len(content)
      BY <3>0
    <3>2. step[a] = "make" /\ step'[a] = "write" /\ files' = files
      BY <1>2, <2>2, <2>8 DEF Make, Doing
    <3>3. \/ /\ disk[Name(a)] = 0 /\ content' = Append(content, Torn)
             /\ disk' = [disk EXCEPT ![Name(a)] = Len(content) + 1]
          \/ /\ disk[Name(a)] # 0 /\ content' = [content EXCEPT ![disk[Name(a)]] = Torn] /\ disk' = disk
      BY <3>2, <2>2, <2>8 DEF Make
    <3>4. disk'[Name(a)] # 0 /\ content'[disk'[Name(a)]] = Torn
      BY <3>0, <3>1, <3>3
    <3> QED
      BY <2>1, <2>4, <3>2, <3>4
  <2>9. CASE Write(a)
    <3>0. /\ content \in Seq(Versions \cup {Torn}) /\ disk \in [Names -> 0..Len(content)]
          /\ Name(a) \in Names /\ step[a] = "write"
      BY <2>3, <2>9 DEF Types, Write, Doing
    <3>1. disk[Name(a)] \in 1..Len(content)
      BY <2>4, <3>0
    <3>2. /\ step'[a] = "wantEnter" /\ UNCHANGED <<files, disk>>
          /\ content' = [content EXCEPT ![disk[Name(a)]] = Do(a).ver]
      BY <2>2, <2>9 DEF Write
    <3>3. content'[disk'[Name(a)]] = Do(a).ver
      BY <3>0, <3>1, <3>2
    <3> QED
      BY <2>1, <2>4, <3>0, <3>2, <3>3
  <2>10. CASE WriteFails(a)
    <3>1. step[a] = "write" /\ step'[a] = "wantEnter" /\ Do(a).do = "create" /\ UNCHANGED <<files, disk, content>>
      BY <1>2, <2>2, <2>10 DEF WriteFails, Doing, storeVars
    <3> QED
      BY <2>1, <2>4, <3>1
  <2> QED
    BY <1>2, <2>2, <2>5, <2>6, <2>7, <2>8, <2>9, <2>10 DEF Step, Enter, Look, OpenFile, ReadOpen, Delete, List
<1> QED
  BY <1>1, <1>2 DEF UnderWay

LEMMA ReadingStep ==
  ASSUME Types, Ordered, OneName, Reading, NEW a \in Actors, Step(a)
  PROVE  Reading'
<1>1. ASSUME NEW b \in Actors, b # a
      PROVE  /\ step'[b] = "open" => found'[b] \in files' /\ Key[found'[b]] = KeyOf(b)'
             /\ step'[b] = "readOpen" =>
                  \E m \in files' : Key[m] = KeyOf(b)' /\ open'[b] = disk'[m] /\ disk'[m] # 0
  <2>1. step'[b] = step[b] /\ found'[b] = found[b] /\ open'[b] = open[b]
    BY <1>1, Others
  <2>2. step[b] # "idle" =>
          /\ KeyOf(b)' = KeyOf(b)
          /\ {m \in files' : Key[m] = KeyOf(b)} = {m \in files : Key[m] = KeyOf(b)}
          /\ \A m \in Names : Key[m] = KeyOf(b) => disk'[m] = disk[m]
    BY <1>1, OtherKept DEF Kept, Named
  <2>3. /\ step[b] = "open" => found[b] \in files /\ Key[found[b]] = KeyOf(b)
        /\ step[b] = "readOpen" =>
             \E m \in files : Key[m] = KeyOf(b) /\ open[b] = disk[m] /\ disk[m] # 0
    BY DEF Reading
  <2>4. files \subseteq Names
    BY DEF Types
  <2>5. CASE step[b] = "readOpen"
    <3>1. PICK m \in files : Key[m] = KeyOf(b) /\ open[b] = disk[m] /\ disk[m] # 0
      BY <2>3, <2>5
    <3>2. m \in files' /\ disk'[m] = disk[m] /\ KeyOf(b)' = KeyOf(b)
      BY <2>2, <2>4, <2>5, <3>1
    <3> QED
      BY <2>1, <2>5, <3>1, <3>2
  <2>6. CASE step[b] = "open"
    <3>1. found[b] \in files' /\ Key[found[b]] = KeyOf(b) /\ KeyOf(b)' = KeyOf(b)
      BY <2>2, <2>3, <2>6
    <3> QED
      BY <2>1, <2>6, <3>1
  <2> QED
    BY <2>1, <2>5, <2>6
<1>2. /\ step'[a] = "open" => found'[a] \in files' /\ Key[found'[a]] = KeyOf(a)'
      /\ step'[a] = "readOpen" =>
           \E m \in files' : Key[m] = KeyOf(a)' /\ open'[a] = disk'[m] /\ disk'[m] # 0
  <2>0. /\ step \in [Actors -> Steps] /\ found \in [Actors -> Names \cup {None}]
        /\ open \in [Actors -> 0..Len(content)] /\ files \subseteq Names
    BY DEF Types
  <2>1. step'[a] # "idle" => KeyOf(a)' = KeyOf(a)
    BY SameWork
  <2>2. CASE Look(a) /\ step'[a] = "open"
    <3>1. /\ Found(Name(a)) # {} /\ files' = files
          /\ found' = [found EXCEPT ![a] = CHOOSE n \in Found(Name(a)) : TRUE]
      BY <2>0, <2>2 DEF Look, Fail, Return, Goto, storeVars
    <3>2. found'[a] \in Found(Name(a))
      BY <2>0, <3>1
    <3>3. \A n \in Found(Name(a)) : n \in files /\ Key[n] = KeyOf(a)
      BY DEF Found, Same, KeyOf
    <3> QED
      BY <2>1, <2>2, <3>1, <3>2, <3>3
  <2>3. CASE OpenFile(a) /\ step'[a] = "readOpen"
    <3>1. /\ step[a] = "open" /\ disk[found[a]] # 0 /\ open' = [open EXCEPT ![a] = disk[found[a]]]
          /\ files' = files /\ disk' = disk
      BY <2>0, <2>3 DEF OpenFile, Doing, Fail, Goto, storeVars
    <3>2. found[a] \in files /\ Key[found[a]] = KeyOf(a)
      BY <3>1 DEF Reading
    <3> QED
      BY <2>0, <2>1, <2>3, <3>1, <3>2
  <2>4. step'[a] = "open" => Look(a)
    <3>1. CASE Begin(a)
      BY <2>0, <3>1, FirstStep DEF Begin, Goto
    <3>2. CASE LockStore(a)
      BY <2>0, <3>2 DEF LockStore, Guarded, Goto
    <3> QED
      BY <2>0, <3>1, <3>2 DEF Step, Drop, Unlink, Make, Write, WriteFails, Enter, OpenFile, ReadOpen,
        Delete, List, Goto, Fail, Return, Doing
  <2>5. step'[a] = "readOpen" => OpenFile(a)
    <3>1. CASE Begin(a)
      BY <2>0, <3>1, FirstStep DEF Begin, Goto
    <3>2. CASE LockStore(a)
      BY <2>0, <3>2 DEF LockStore, Guarded, Goto
    <3> QED
      BY <2>0, <3>1, <3>2 DEF Step, Drop, Unlink, Make, Write, WriteFails, Enter, Look, ReadOpen,
        Delete, List, Goto, Fail, Return, Doing
  <2> QED
    BY <2>2, <2>3, <2>4, <2>5
<1> QED
  BY <1>1, <1>2 DEF Reading

\* Nobody writes to a file that is being read.
LEMMA ReaderQuiet ==
  ASSUME Types, Ordered, NEW a \in Actors, step[a] \in {"look", "open", "readOpen", "list"}
  PROVE  Quiet(KeyOf(a)) /\ KeyOf(a) \in Keys
<1>1. Do(a).do \notin Writing
  BY DEF Types, AtWork, Writing
<1>2. ASSUME NEW b \in Actors, b # a, step[b] # "idle", Do(b).do \in Writing
      PROVE  KeyOf(a) \notin Touched(Do(b))
  BY <1>2, Apart
<1> QED
  BY <1>1, <1>2, OpFacts DEF Quiet

\* What a reader finds in the index, in whatever spelling, is what the scripts
\* have made of it.
LEMMA Finds ==
  ASSUME Types, Ordered, Agreeing, NEW a \in Actors, KeyOf(a) \notin marred,
         step[a] \in {"look", "open", "readOpen", "list"}
  PROVE  /\ expect[KeyOf(a)] = None => Same(Name(a)) = {}
         /\ expect[KeyOf(a)] # None =>
              \E m \in files : /\ Same(Name(a)) = {m} /\ Found(Name(a)) = {m}
                               /\ disk[m] # 0 /\ content[disk[m]] = expect[KeyOf(a)]
<1>1. Agreed(KeyOf(a))
  BY ReaderQuiet DEF Agreeing
<1>2. Same(Name(a)) = Named(KeyOf(a))
  BY DEF Same, Named, KeyOf
<1>3. ASSUME expect[KeyOf(a)] # None
      PROVE  \E m \in files : /\ Same(Name(a)) = {m} /\ Found(Name(a)) = {m}
                              /\ disk[m] # 0 /\ content[disk[m]] = expect[KeyOf(a)]
  <2>1. PICK m \in files : Same(Name(a)) = {m} /\ disk[m] # 0 /\ content[disk[m]] = expect[KeyOf(a)]
    BY <1>1, <1>2, <1>3 DEF Agreed, Named
  <2>2. Cardinality(Same(Name(a))) = 1
    BY <2>1, FS_Singleton
  <2>3. Name(a) \in files => Name(a) \in Same(Name(a))
    BY DEF Same
  <2>4. Found(Name(a)) = {m}
    BY <2>1, <2>2, <2>3 DEF Found
  <2> QED
    BY <2>1, <2>4
<1> QED
  BY <1>1, <1>2, <1>3 DEF Agreed

LEMMA ReadsStep ==
  ASSUME Types, Ordered, Agreeing, Reading, ReadsRight, NEW a \in Actors, Step(a)
  PROVE  ReadsRight'
<1>0. /\ DOMAIN seen = Actors /\ \A b \in Actors : seen[b][1] = seen[b][2]
  BY DEF Types, ReadsRight
<1>1. CASE seen' = seen
  BY <1>0, <1>1 DEF ReadsRight
\* It is enough that what was read is what should be.
<1>2. ASSUME NEW got, NEW should, Saw(a, got, should), KeyOf(a) \notin marred => got = should
      PROVE  ReadsRight'
  <2>1. seen'[a][1] = seen'[a][2]
    BY <1>0, <1>2 DEF Saw
  <2>2. \A b \in Actors : b # a => seen'[b] = seen[b]
    BY Others
  <2> QED
    BY <1>0, <2>1, <2>2 DEF ReadsRight
<1>3. CASE Look(a)
  <2>1. step[a] = "look"
    BY <1>3 DEF Look, Doing
  <2>2. CASE Found(Name(a)) = {}
    <3>1. Saw(a, None, expect[KeyOf(a)])
      BY <1>3, <2>2 DEF Look, SawFile
    <3>2. KeyOf(a) \notin marred => None = expect[KeyOf(a)]
      BY <2>1, <2>2, Finds
    <3> QED
      BY <1>2, <3>1, <3>2
  <2>3. CASE Found(Name(a)) # {}
    <3> DEFINE n == CHOOSE m \in Found(Name(a)) : TRUE
    <3>1. n \in Found(Name(a)) /\ n \in Same(Name(a))
      BY <2>3 DEF Found, Same
    <3>2. \/ seen' = seen
          \/ disk[n] = 0 /\ Saw(a, None, expect[KeyOf(a)])
          \/ disk[n] # 0 /\ Saw(a, content[disk[n]], expect[KeyOf(a)])
      BY <1>3, <2>3 DEF Look, SawFile, historyVars
    <3>3. KeyOf(a) \notin marred => disk[n] # 0 /\ content[disk[n]] = expect[KeyOf(a)]
      BY <2>1, <3>1, Finds
    <3> HIDE DEF n
    <3> QED
      BY <1>1, <1>2, <3>2, <3>3
  <2> QED
    BY <2>2, <2>3
<1>4. CASE OpenFile(a)
  <2>1. step[a] = "open"
    BY <1>4 DEF OpenFile, Doing
  <2>2. found[a] \in Same(Name(a))
    BY <2>1 DEF Reading, Same, KeyOf
  <2>3. KeyOf(a) \notin marred => disk[found[a]] # 0
    BY <2>1, <2>2, Finds
  <2>4. seen' = seen \/ (disk[found[a]] = 0 /\ Saw(a, None, expect[KeyOf(a)]))
    BY <1>4 DEF OpenFile, SawFile, historyVars
  <2> QED
    BY <1>1, <1>2, <2>3, <2>4
<1>5. CASE ReadOpen(a)
  <2>1. step[a] = "readOpen" /\ Saw(a, content[open[a]], expect[KeyOf(a)])
    BY <1>5 DEF ReadOpen, Doing, SawFile
  <2>2. PICK m \in Same(Name(a)) : open[a] = disk[m]
    BY <2>1 DEF Reading, Same, KeyOf
  <2>3. KeyOf(a) \notin marred => content[open[a]] = expect[KeyOf(a)]
    BY <2>1, <2>2, Finds
  <2> QED
    BY <1>2, <2>1, <2>3
<1>6. CASE List(a)
  <2>1. step[a] = "list" /\ Saw(a, Same(Name(a)) # {}, expect[KeyOf(a)] # None)
    BY <1>6 DEF List, Doing
  <2>2. KeyOf(a) \notin marred => (Same(Name(a)) # {} <=> expect[KeyOf(a)] # None)
    BY <2>1, Finds
  <2>3. KeyOf(a) \notin marred => (Same(Name(a)) # {}) = (expect[KeyOf(a)] # None)
    BY <2>2
  <2> QED
    BY <1>2, <2>1, <2>3
<1> QED
  BY <1>1, <1>3, <1>4, <1>5, <1>6 DEF Step, Begin, LockStore, Drop, Unlink, Make, Write, WriteFails,
    Enter, Delete, Spoiled, historyVars

-----------------------------------------------------------------------------
(* The index, the disk and the scripts.                                    *)

\* The files of a name are all it touches, but for removeTree.
LEMMA TouchedByWriter ==
  ASSUME NEW a \in Actors, Do(a).do \in Writing
  PROVE  Touched(Do(a)) = {KeyOf(a)}
  BY DEF Touched, KeyOf, Name, Writing

\* A file stays as the scripts have it while nobody changes it.
LEMMA KeptAgrees ==
  ASSUME Types, NEW k \in Keys, Kept(k), Agreed(k)
  PROVE  Agreed(k)'
<1>1. Named(k)' = Named(k) /\ expect'[k] = expect[k]
  BY DEF Kept
<1>2. CASE expect[k] = None
  BY <1>1, <1>2 DEF Agreed
<1>3. CASE expect[k] # None
  <2>1. PICK m \in Named(k) : Named(k) = {m} /\ disk[m] # 0 /\ content[disk[m]] = expect[k]
    BY <1>3 DEF Agreed
  <2>2. m \in Names /\ Key[m] = k
    BY DEF Named, Types
  <2>3. disk'[m] = disk[m] /\ content'[disk[m]] = content[disk[m]]
    BY <2>1, <2>2 DEF Kept
  <2> QED
    BY <1>1, <1>3, <2>1, <2>3 DEF Agreed
<1> QED
  BY <1>2, <1>3

LEMMA AgreeingStep ==
  ASSUME Types, OneName, UnderWay, Agreeing, NEW a \in Actors, Step(a)
  PROVE  Agreeing'
<1> SUFFICES ASSUME NEW k \in Keys, k \notin marred', Quiet(k)' PROVE Agreed(k)'
  BY DEF Agreeing
<1>0. /\ step \in [Actors -> Steps] /\ expect \in [Keys -> Versions \cup {None}]
      /\ files \subseteq Names /\ (step[a] # "idle" => AtWork(a))
  BY DEF Types
\* The other writers are where they were.
<1>1. ASSUME k \notin Touched(Do(a)) \/ Do(a).do \notin Writing \/ step[a] = "idle"
      PROVE  Quiet(k)
  <2>1. ASSUME NEW b \in Actors, b # a, step[b] # "idle"
        PROVE  k \notin Touched(Do(b)) \/ Do(b).do \notin Writing
    <3>1. step'[b] = step[b] /\ Do(b)' = Do(b)
      BY <2>1, Others, SameWork
    <3>2. step'[b] # "idle" => k \notin Touched(Do(b)') \/ Do(b)'.do \notin Writing
      BY DEF Quiet
    <3> QED
      BY <2>1, <3>1, <3>2
  <2> QED
    BY <1>1, <2>1 DEF Quiet
<1>2. CASE k \notin Touched(Do(a)) \/ Do(a).do \notin Writing \cup Removing
  <2>1. Kept(k) /\ Quiet(k)
    BY <1>1, <1>2, StepKeeps
  <2>2. Agreed(k)
    BY <2>1 DEF Agreeing, Kept
  <2> QED
    BY <2>1, <2>2, KeptAgrees
<1>3. CASE step[a] = "idle"
  <2>1. UNCHANGED <<files, disk, content, expect, marred>>
    BY <1>3 DEF Step, Begin, LockStore, Guarded, Drop, Unlink, Make, Write, WriteFails, Enter, Look,
      OpenFile, ReadOpen, Delete, List, Doing, storeVars, historyVars
  <2>2. Kept(k) /\ Quiet(k)
    BY <1>1, <1>3, <2>1, StoreKept
  <2>3. Agreed(k)
    BY <2>2 DEF Agreeing, Kept
  <2> QED
    BY <2>2, <2>3, KeptAgrees
<1>4. CASE k \in Touched(Do(a)) /\ Do(a).do \in Writing /\ step[a] # "idle"
  <2>1. k = KeyOf(a) /\ Name(a) \in Names /\ Key[Name(a)] = k /\ Do(a).ver \in Versions
    BY <1>4, TouchedByWriter, OpFacts
  <2>2. step'[a] = "idle"
    <3>1. step'[a] # "idle" => Do(a)' = Do(a)
      BY SameWork
    <3>2. step'[a] # "idle" => k \notin Touched(Do(a)') \/ Do(a)'.do \notin Writing
      BY DEF Quiet
    <3> QED
      BY <1>4, <3>1, <3>2
  <2>3. CASE Make(a) \/ WriteFails(a)
    <3>1. step[a] \in {"make", "write"} /\ Spoiled(a) /\ files' = files
      BY <1>0, <2>2, <2>3 DEF Make, WriteFails, Doing, Goto, storeVars
    <3>2. expect'[k] = None /\ (Do(a).do = "put" \/ k \in marred')
      BY <1>0, <2>1, <3>1 DEF Spoiled
    <3>3. \A m \in files : Key[m] # k
      BY <2>1, <3>1, <3>2 DEF UnderWay
    <3> QED
      BY <3>1, <3>2, <3>3 DEF Agreed, Named
  <2>4. CASE Enter(a)
    <3>1. step[a] = "enter" /\ files' = files \cup {Name(a)} /\ UNCHANGED <<disk, content>>
      BY <2>4 DEF Enter, Doing
    <3>2. disk[Name(a)] # 0
      BY <3>1 DEF UnderWay
    <3>3. \/ content[disk[Name(a)]] = Do(a).ver
          \/ Do(a).do = "create" /\ content[disk[Name(a)]] = Torn
      BY <3>1 DEF UnderWay
    <3>4. CASE content[disk[Name(a)]] = Torn
      <4>1. Do(a).do # "put"
        BY <2>1, <3>3, <3>4, StagingAssumption
      <4>2. k \in marred'
        BY <2>1, <2>4, <3>4, <4>1 DEF Enter, Spoiled
      <4> QED
        BY <4>2
    <3>5. CASE content[disk[Name(a)]] # Torn
      <4>1. /\ expect' = [expect EXCEPT ![KeyOf(a)] = Do(a).ver]
            /\ marred' = IF Same(Name(a)) \ {Name(a)} = {} THEN marred ELSE marred \cup {KeyOf(a)}
        BY <2>4, <3>5 DEF Enter
      <4>2. expect'[k] = Do(a).ver /\ Do(a).ver # None
        BY <1>0, <2>1, <4>1, StagingAssumption
      <4>3. Same(Name(a)) \ {Name(a)} = {}
        BY <2>1, <4>1
      <4>4. {m \in files' : Key[m] = k} = {Name(a)}
        BY <2>1, <3>1, <4>3 DEF Same
      <4> QED
        BY <3>1, <3>2, <3>3, <3>5, <4>2, <4>4 DEF Agreed, Named
    <3> QED
      BY <3>4, <3>5
  <2>5. Make(a) \/ WriteFails(a) \/ Enter(a)
    <3>1. step[a] \notin {"look", "open", "readOpen", "delete", "list"}
      BY <1>0, <1>4 DEF AtWork, Writing, Removing
    <3> QED
      BY <1>0, <1>4, <2>2, <3>1 DEF Step, Begin, LockStore, Guarded, Drop, Unlink, Write, Look, OpenFile,
        ReadOpen, Delete, List, Goto, Doing
  <2> QED
    BY <2>3, <2>4, <2>5
<1>5. CASE k \in Touched(Do(a)) /\ Do(a).do \in Removing /\ step[a] # "idle"
  <2>1. Delete(a)
    <3>1. step[a] = "delete"
      BY <1>0, <1>5 DEF AtWork, Removing, Writing, Steps
    <3> QED
      BY <3>1 DEF Step, Begin, LockStore, Guarded, Drop, Unlink, Make, Write, WriteFails, Enter, Look, OpenFile,
        ReadOpen, List, Doing
  <2>2. /\ files' = files \ Deleted(Do(a))
        /\ expect' = [j \in Keys |-> IF j \in Touched(Do(a)) THEN None ELSE expect[j]]
    BY <2>1 DEF Delete
  <2>3. ASSUME NEW m \in files, Key[m] = k PROVE m \in Deleted(Do(a))
    <3>1. m \in Names /\ Do(a).name \in Names /\ KeyOf(a) = Key[Do(a).name]
      BY <1>0, <1>5, OpFacts DEF Name
    <3>2. CASE k = KeyOf(a)
      BY <2>3, <3>1, <3>2 DEF Deleted
    <3>3. CASE k # KeyOf(a)
      <4>1. PICK n \in Names : Do(a).do = "removeTree" /\ Under(n, Do(a).name) /\ Key[n] = k
        BY <1>5, <3>1, <3>3 DEF Touched
      <4>2. Under(m, Do(a).name)
        BY <2>3, <3>1, <4>1, StagingAssumption
      <4> QED
        BY <4>1, <4>2 DEF Deleted
    <3> QED
      BY <3>2, <3>3
  <2> QED
    BY <1>5, <2>2, <2>3 DEF Agreed, Named
<1> QED
  BY <1>2, <1>3, <1>4, <1>5

-----------------------------------------------------------------------------
(* The initial states.                                                     *)

\* The files that are staged at first can be given inodes.
LEMMA Enumerated ==
  ASSUME NEW S, S \subseteq Names
  PROVE  /\ Cardinality(S) \in Nat
         /\ \E f \in [1..Cardinality(S) -> S] : \A n \in S : \E i \in DOMAIN f : f[i] = n
<1>1. IsFiniteSet(S)
  BY FS_Subset, StagingAssumption
<1>2. Cardinality(S) \in Nat /\ ExistsBijection(1..Cardinality(S), S)
  BY <1>1, FS_CardinalityType
<1> QED
  BY <1>2 DEF ExistsBijection, Bijection, Surjection, Injection

LEMMA InitInv == Init => IInv
<1> SUFFICES ASSUME Init PROVE IInv
  OBVIOUS
<1>1. PICK s \in Scenarios :
    LET staged == {n \in Names : s.staged[n] # None}
        named  == CHOOSE f \in [1..Cardinality(staged) -> staged] :
                    \A n \in staged : \E i \in DOMAIN f : f[i] = n
    IN /\ script = s.script
       /\ files = staged
       /\ disk = [n \in Names |-> IF n \in staged
                                  THEN CHOOSE i \in DOMAIN named : named[i] = n ELSE 0]
       /\ dirs = {Dir[n] : n \in staged} \ {Top}
       /\ content = [i \in DOMAIN named |-> s.staged[named[i]]]
       /\ expect = [k \in Keys |->
                      IF \E n \in staged : Key[n] = k
                      THEN s.staged[CHOOSE n \in staged : Key[n] = k] ELSE None]
       /\ at = [a \in Actors |-> 1] /\ step = [a \in Actors |-> "idle"]
       /\ planLock = None /\ storeLock = None
       /\ found = [a \in Actors |-> None] /\ open = [a \in Actors |-> 0]
       /\ failed = [a \in Actors |-> ""] /\ faulty = FALSE /\ fatal = FALSE
       /\ seen = [a \in Actors |-> <<None, None>>]
       /\ marred = {k \in Keys : \E m, n \in staged : m # n /\ Key[m] = k /\ Key[n] = k}
  BY DEF Init
<1>2. /\ at = [a \in Actors |-> 1] /\ step = [a \in Actors |-> "idle"]
      /\ planLock = None /\ storeLock = None
      /\ found = [a \in Actors |-> None] /\ open = [a \in Actors |-> 0]
      /\ failed = [a \in Actors |-> ""]
      /\ seen = [a \in Actors |-> <<None, None>>]
  BY <1>1
<1> DEFINE staged == {n \in Names : s.staged[n] # None}
           C == Cardinality(staged)
           named == CHOOSE f \in [1..C -> staged] : \A n \in staged : \E i \in DOMAIN f : f[i] = n
<1>3. /\ script = s.script /\ files = staged
      /\ disk = [n \in Names |-> IF n \in staged
                                 THEN CHOOSE i \in DOMAIN named : named[i] = n ELSE 0]
      /\ content = [i \in DOMAIN named |-> s.staged[named[i]]]
      /\ expect = [k \in Keys |-> IF \E n \in staged : Key[n] = k
                                  THEN s.staged[CHOOSE n \in staged : Key[n] = k] ELSE None]
      /\ marred = {k \in Keys : \E m, n \in staged : m # n /\ Key[m] = k /\ Key[n] = k}
  BY <1>1
<1>4. C \in Nat /\ named \in [1..C -> staged] /\ \A n \in staged : \E i \in DOMAIN named : named[i] = n
  <2>1. staged \subseteq Names
    OBVIOUS
  <2>2. /\ C \in Nat
        /\ \E f \in [1..C -> staged] : \A n \in staged : \E i \in DOMAIN f : f[i] = n
    BY <2>1, Enumerated
  <2> HIDE DEF staged, C
  <2> QED
    BY <2>2
<1>5. /\ s.staged \in [Names -> Versions \cup {None}] /\ s.script \in [Actors -> Seq(Op)]
      /\ \A n \in staged : n \in Names /\ s.staged[n] \in Versions
      /\ \A n \in staged : s.staged[n] # None
      /\ staged \subseteq Names
  BY StagingAssumption
<1> HIDE DEF staged, C, named
<1>6. DOMAIN named = 1..C /\ \A i \in 1..C : named[i] \in staged
  BY <1>4
<1>7. content \in [1..C -> Versions \cup {Torn}]
  BY <1>3, <1>5, <1>6
<1>8. content \in Seq(Versions \cup {Torn}) /\ Len(content) = C
  BY <1>4, <1>7
<1>9. \A n \in staged : disk[n] \in 1..C /\ named[disk[n]] = n
  BY <1>3, <1>4, <1>5, <1>6
<1>10. \A n \in Names : n \notin staged => disk[n] = 0
  BY <1>3
<1>11. \A n \in Names : disk[n] \in 0..C
  <2>1. \A n \in staged : disk[n] \in 0..C
    BY <1>4, <1>9
  <2>2. 0 \in 0..C
    BY <1>4
  <2> QED
    BY <1>10, <2>1, <2>2
<1>12. disk \in [Names -> 0..Len(content)]
  BY <1>3, <1>8, <1>11
<1>13. \A k \in Keys : expect[k] \in Versions \cup {None}
  <2> SUFFICES ASSUME NEW k \in Keys PROVE expect[k] \in Versions \cup {None}
    OBVIOUS
  <2>1. CASE \E n \in staged : Key[n] = k
    BY <1>3, <1>5, <2>1
  <2>2. CASE ~\E n \in staged : Key[n] = k
    BY <1>3, <2>2
  <2> QED
    BY <2>1, <2>2
<1>14. Types
  <2>1. at \in [Actors -> Nat \ {0}]
    <3>1. 1 \in Nat \ {0}
      OBVIOUS
    <3> QED
      BY <1>2, <3>1
  <2>2. step \in [Actors -> Steps] /\ \A a \in Actors : step[a] = "idle"
    BY <1>2 DEF Steps
  <2>3. open \in [Actors -> 0..Len(content)]
    <3>1. 0 \in 0..Len(content)
      BY <1>4, <1>8
    <3> QED
      BY <1>2, <3>1
  <2>4. expect \in [Keys -> Versions \cup {None}] /\ marred \subseteq Keys
    BY <1>3, <1>13
  <2>5. /\ found \in [Actors -> Names \cup {None}] /\ DOMAIN seen = Actors
        /\ failed \in [Actors -> {"", "missing", "clash", "disk"}]
    BY <1>2
  <2> QED
    BY <1>2, <1>3, <1>5, <1>8, <1>12, <2>1, <2>2, <2>3, <2>4, <2>5 DEF Types
<1>15. Ordered
  <2> SUFFICES ASSUME NEW a \in Actors, NEW b \in Actors, a # b,
                      NEW i \in DOMAIN s.script[a], NEW j \in DOMAIN s.script[b]
               PROVE  /\ s.script[a][i].do \in Writing \cup Removing =>
                           Touched(s.script[a][i]) \cap Touched(s.script[b][j]) = {}
                      /\ s.script[a][i].do \in {"ingest", "create"} => s.script[b][j].do = "hash"
    <3>1. script = s.script
      BY <1>3
    <3> QED
      BY <3>1 DEF Ordered
  <2>1. s.script[a][i].do \in Writing \cup Removing =>
          Touched(s.script[a][i]) \cap Touched(s.script[b][j]) = {}
    BY StagingAssumption
  <2>2. s.script[a][i].do \in {"ingest", "create"} => s.script[b][j].do = "hash"
    BY StagingAssumption
  <2> QED
    BY <2>1, <2>2
<1>16. OneName
  BY <1>9, <1>10 DEF OneName
<1>17. Agreeing
  <2> SUFFICES ASSUME NEW k \in Keys, k \notin marred PROVE Agreed(k)
    BY DEF Agreeing
  <2>1. CASE \E n \in staged : Key[n] = k
    <3> DEFINE m == CHOOSE n \in staged : Key[n] = k
    <3>1. m \in staged /\ Key[m] = k /\ expect[k] = s.staged[m]
      BY <1>3, <2>1
    <3> HIDE DEF m
    <3>2. \A n \in staged : Key[n] = k => n = m
      BY <1>3, <3>1
    <3>3. Named(k) = {m}
      BY <1>3, <3>1, <3>2 DEF Named
    <3>4. disk[m] \in 1..C /\ named[disk[m]] = m
      BY <1>9, <3>1
    <3>5. content[disk[m]] = s.staged[m]
      BY <1>3, <1>6, <3>4
    <3>6. disk[m] # 0
      BY <1>4, <3>4
    <3> QED
      BY <1>5, <3>1, <3>3, <3>5, <3>6 DEF Agreed
  <2>2. CASE ~\E n \in staged : Key[n] = k
    <3>1. expect[k] = None /\ Named(k) = {}
      BY <1>3, <2>2 DEF Named
    <3> QED
      BY <3>1 DEF Agreed
  <2> QED
    BY <2>1, <2>2
<1>18. Locked /\ UnderWay /\ Reading
  BY <1>2 DEF Locked, UnderWay, Reading
<1>19. ReadsRight
  BY <1>2 DEF ReadsRight
<1> QED
  BY <1>14, <1>15, <1>16, <1>17, <1>18, <1>19 DEF IInv

-----------------------------------------------------------------------------
LEMMA Inductive == IInv /\ [Next]_vars => IInv'
<1> SUFFICES ASSUME IInv, [Next]_vars PROVE IInv'
  OBVIOUS
<1>0. /\ Types /\ Ordered /\ Locked /\ OneName /\ Agreeing /\ UnderWay /\ Reading /\ ReadsRight
      /\ Types' /\ Ordered'
  BY TypesStep, OrderedStep DEF IInv
<1>1. CASE \E a \in Actors : Step(a)
  <2>1. PICK a \in Actors : Step(a)
    BY <1>1
  <2> QED
    BY <1>0, <2>1, LockedStep, OneNameStep, AgreeingStep, UnderWayStep, ReadingStep, ReadsStep DEF IInv
<1>2. CASE Throw \/ UNCHANGED vars
  <2>1. UNCHANGED <<script, at, step, files, disk, content, planLock, storeLock, found, open, expect,
                    seen, marred>>
    BY <1>2 DEF Throw, vars, storeVars, readVars, historyVars
  <2>2. \A a : Do(a)' = Do(a) /\ Name(a)' = Name(a) /\ KeyOf(a)' = KeyOf(a)
    BY <2>1 DEF Do, Name, KeyOf
  <2>3. Locked' /\ OneName' /\ UnderWay' /\ Reading' /\ ReadsRight'
    BY <1>0, <2>1, <2>2 DEF Locked, OneName, UnderWay, Reading, ReadsRight
  <2>4. Agreeing'
    BY <1>0, <2>1, <2>2 DEF Agreeing, Quiet, Agreed, Named
  <2> QED
    BY <1>0, <2>3, <2>4 DEF IInv
<1> QED
  BY <1>1, <1>2 DEF Next

LEMMA Invariance == Spec => []IInv
<1> QED
  BY InitInv, Inductive, PTL DEF Spec

\* The index has each file under one spelling, with the version last written, or
\* not at all, whenever nobody is writing to it: put, remove, removeTree and
\* ingest never leave it with what the command meant to replace.
THEOREM StoreConsistent == Spec => []StoreAgrees
<1>1. IInv => StoreAgrees
  <2> SUFFICES ASSUME IInv, NEW k \in Keys \ marred, Quiet(k)
               PROVE  IF expect[k] = None THEN {m \in files : Key[m] = k} = {}
                      ELSE \E m \in {m \in files : Key[m] = k} :
                             {n \in files : Key[n] = k} = {m} /\ disk[m] # 0 /\ content[disk[m]] = expect[k]
    BY DEF StoreAgrees
  <2>1. Agreed(k)
    BY DEF IInv, Agreeing
  <2> QED
    BY <2>1 DEF Agreed, Named
<1> QED
  BY <1>1, Invariance, PTL

\* Every read finds the version that the scripts have made of the file, though
\* openRead looks the name up under the lock of the store and opens the file
\* and reads it without.
THEOREM ReadersServed == Spec => []ReadsRight
<1>1. IInv => ReadsRight
  BY DEF IInv
<1> QED
  BY <1>1, Invariance, PTL

\* Of all pairs of operations only a remove and a hash task can be in the map of
\* the index at once, one of them writing.
THEOREM OnlyRemoveRaces == Spec => []RaceOnlyWithRemove
<1>1. IInv => RaceOnlyWithRemove
  BY RaceCases DEF IInv
<1> QED
  BY <1>1, Invariance, PTL

=============================================================================
