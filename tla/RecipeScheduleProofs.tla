------------------------ MODULE RecipeScheduleProofs ------------------------
(***************************************************************************)
(* Proofs about the recipe scheduler, for every recipe: its types, the     *)
(* order its stamps enforce, the serializability of tame recipes, and that *)
(* the recipe command shows the waits the scheduler gives its tasks where  *)
(* both resolve the paths of a recipe alike.                               *)
(*                                                                         *)
(* The argument.  The dependencies of a leaf do not name every earlier     *)
(* leaf it conflicts with; they name the last writer, the last reader and  *)
(* the globs.  What makes them enough is a chain: an earlier conflicting   *)
(* leaf is a dependency, or conflicts with a dependency in between         *)
(* (DepsSound, OverSound).  Since a leaf starts only when its dependencies *)
(* have finished, and those started only when theirs had, the chain ends   *)
(* at the earlier leaf.  The store then holds, file by file, the highest   *)
(* numbered leaf that wrote it (StoreSound), which is what the sequential  *)
(* run would have left there.                                              *)
(*                                                                         *)
(* The recipe command computes its stamps by a recursion over the lines    *)
(* (StampsRecursive).  Lines that come to no task leave them as they are   *)
(* (IdleLines), so that behind the line of each leaf they are the          *)
(* scheduler's, with lines for leaves and files under other names (Mirror).*)
(***************************************************************************)
EXTENDS RecipeInspect, WellFoundedInduction, TLAPS

-----------------------------------------------------------------------------
(* Induction over the natural numbers: a property of numbers is given as   *)
(* the set of those that have it, so that the lemma can be cited for any   *)
(* property without an operator as its parameter.                          *)

\* A set with 0 and the successor of each of its numbers has all of them: the
\* least one that it does not have would be the successor of one that it has.
LEMMA SetInduction ==
  ASSUME NEW S, 0 \in S, \A n \in Nat : n \in S => n + 1 \in S
  PROVE  Nat \subseteq S
<1> DEFINE R == {ss \in Nat \X Nat : ss[1] < ss[2]}
           T == Nat \ S
<1>1. IsWellFoundedOn(R, Nat)
  BY NatLessThanWellFounded DEF OpToRel
<1>2. \A y, x \in Nat : y < x => <<y, x>> \in R
  OBVIOUS
<1>3. T \subseteq Nat
  OBVIOUS
<1> SUFFICES ASSUME T # {} PROVE FALSE
  OBVIOUS
<1> HIDE DEF R
<1>4. PICK x \in T : \A y \in T : ~(<<y, x>> \in R)
  <2> HIDE DEF T
  <2> QED
    BY <1>1, <1>3, WFMin
<1>5. x \in Nat /\ x # 0 /\ x - 1 \in Nat /\ x - 1 < x /\ (x - 1) + 1 = x
  BY <1>4
<1>6. x - 1 \in T
  BY <1>4, <1>5
<1> QED
  BY <1>2, <1>4, <1>5, <1>6

-----------------------------------------------------------------------------
\* What the task sets and the two lists hold.
Past ==
  /\ finished \subseteq started
  /\ started \subseteq 1..sched
  /\ prior = 1..sched
  /\ unknown = {i \in 1..sched : prog[i].glob}

\* lastWrite holds the latest writer of each path.
StampW ==
  \A f \in Files :
    /\ lastWrite[f] \in 0..sched
    /\ lastWrite[f] # 0 => ~prog[lastWrite[f]].glob /\ f \in prog[lastWrite[f]].writes
    /\ \A i \in 1..sched : ~prog[i].glob /\ f \in prog[i].writes => i <= lastWrite[f]

\* lastUse holds the latest reader since the latest writer.
StampR ==
  \A f \in Files :
    /\ lastUse[f] \in 0..sched
    /\ lastUse[f] # 0 =>
         ~prog[lastUse[f]].glob /\ f \in prog[lastUse[f]].reads \ prog[lastUse[f]].writes
    /\ \A i \in 1..sched :
         (~prog[i].glob /\ f \in prog[i].reads \ prog[i].writes /\ lastWrite[f] < i)
           => i <= lastUse[f]

\* A leaf i that j must not overtake is a dependency of j or is followed by one.
DepsSound ==
  \A i, j \in 1..sched : i < j /\ Follows(prog, i, j) =>
    \/ i \in deps[j]
    \/ \E k \in deps[j] : i < k /\ k < j /\ Follows(prog, i, k)

\* A reader i that j overwrites is a dependency of j or is followed or
\* overwritten by one.
OverSound ==
  SingleReader(prog) =>
    \A i, j \in 1..sched : i < j /\ Overwrites(prog, i, j) =>
      \/ Follows(prog, i, j)
      \/ i \in deps[j]
      \/ \E k \in deps[j] : i < k /\ k < j
                            /\ (Follows(prog, i, k) \/ Overwrites(prog, i, k))

\* Dependencies are earlier leaves.
DepsEarlier == \A j \in 1..sched : deps[j] \subseteq 1..(j - 1)

StampInv == Past /\ StampW /\ StampR /\ DepsEarlier /\ DepsSound /\ OverSound

\* ReadOrder without the footprint part of Tame, which it does not need.
ReadersFirst ==
  SingleReader(prog) =>
    \A i, j \in Ids : (i < j /\ Overwrites(prog, i, j) /\ j \in started) => i \in finished

OrderInv ==
  /\ \A j \in started : deps[j] \subseteq finished
  /\ WriteOrder
  /\ ReadersFirst

-----------------------------------------------------------------------------
(* The type of the state.                                                  *)

\* The programs are sequences of leaves (RecipeAssumption), so Init types prog.
LEMMA ProgType == Init => prog \in Seq(Leaf)
  BY RecipeAssumption DEF Init

\* The fields of a leaf have their types.
LEMMA LeafType ==
  ASSUME NEW p \in Seq(Leaf), NEW i \in 1..Len(p)
  PROVE  /\ p[i] \in Leaf
         /\ p[i].reads \subseteq Files /\ p[i].writes \subseteq Files
         /\ p[i].uses \subseteq Files /\ p[i].puts \subseteq Files
<1>1. p[i] \in Leaf
  OBVIOUS
<1> QED
  BY <1>1 DEF Leaf

\* fileDeps returns only leaves it has already spawned.
LEMMA FileDepsType ==
  ASSUME TypeOK, NEW l \in Leaf
  PROVE  FileDeps(l) \subseteq Ids
<1>1. /\ lastWrite \in [Files -> 0..Len(prog)] /\ lastUse \in [Files -> 0..Len(prog)]
      /\ prior \subseteq Ids /\ unknown \subseteq Ids
  BY DEF TypeOK
<1>2. l.reads \subseteq Files /\ l.writes \subseteq Files
  BY DEF Leaf
<1>3. {lastWrite[f] : f \in l.reads \cup l.writes} \subseteq 0..Len(prog)
  BY <1>1, <1>2
<1>4. {lastUse[f] : f \in l.writes} \subseteq 0..Len(prog)
  BY <1>1, <1>2
<1>5. Len(prog) \in Nat
  BY DEF TypeOK
<1>6. CASE l.glob
  BY <1>1, <1>6 DEF FileDeps
<1>7. CASE ~l.glob
  <2>1. FileDeps(l) = (({lastWrite[f] : f \in l.reads \cup l.writes}
                         \cup {lastUse[f] : f \in l.writes}) \ {0}) \cup unknown
    BY <1>7 DEF FileDeps
  <2>2. ASSUME NEW d \in 0..Len(prog), d # 0 PROVE d \in Ids
    BY <1>5, <2>2 DEF Ids
  <2> QED
    BY <1>1, <1>3, <1>4, <2>1, <2>2, Zenon
<1> QED
  BY <1>6, <1>7

\* The state keeps its types in every step of the scheduler (TypeOK).
THEOREM TypeCorrect == Spec => []TypeOK
<1>1. Init => TypeOK
  <2>1. Init => prog \in Seq(Leaf) /\ present \subseteq Files
    BY RecipeAssumption DEF Init
  <2>2. Init => Len(prog) \in Nat
    BY <2>1
  <2>3. ASSUME Init
        PROVE  got \in [Ids -> [Files -> {Unread} \cup 0..Len(prog)]]
    <3>1. [f \in Files |-> Unread] \in [Files -> {Unread} \cup 0..Len(prog)]
      OBVIOUS
    <3> QED
      BY <2>3, <3>1 DEF Init
  <2>4. ASSUME Init
        PROVE  /\ lastWrite \in [Files -> 0..Len(prog)]
               /\ lastUse \in [Files -> 0..Len(prog)]
               /\ store \in [Files -> 0..Len(prog)]
               /\ deps \in [Ids -> SUBSET Ids]
               /\ wrote \in [Ids -> SUBSET Files]
               /\ sched \in 0..Len(prog)
    BY <2>2, <2>4 DEF Init
  <2>5. ASSUME Init
        PROVE  /\ prior \subseteq Ids /\ unknown \subseteq Ids
               /\ started \subseteq Ids /\ finished \subseteq Ids
               /\ failed \subseteq Ids /\ canceled \in BOOLEAN
               /\ result \in {"none", "ok", "error"}
    BY <2>5 DEF Init
  <2> QED
    BY <2>1, <2>3, <2>4, <2>5 DEF TypeOK
<1>2. TypeOK /\ [Next]_vars => TypeOK'
  <2> SUFFICES ASSUME TypeOK, [Next]_vars PROVE TypeOK'
    OBVIOUS
  <2> USE DEF TypeOK, Ids
  <2>1. CASE ScheduleLeaf
    <3>1. prog[sched + 1] \in Leaf
      BY <2>1, LeafType DEF ScheduleLeaf
    <3>2. FileDeps(prog[sched + 1]) \subseteq Ids
      BY <3>1, FileDepsType
    <3>3. /\ lastWrite' \in [Files -> 0..Len(prog)]
          /\ lastUse' \in [Files -> 0..Len(prog)]
          /\ prior' \subseteq Ids /\ unknown' \subseteq Ids
      BY <2>1 DEF ScheduleLeaf, RecordLeaf
    <3>4. deps' \in [Ids -> SUBSET Ids]
      BY <2>1, <3>2 DEF ScheduleLeaf
    <3> QED
      BY <2>1, <3>3, <3>4 DEF ScheduleLeaf
  <2>2. CASE ScheduleError
    BY <2>2 DEF ScheduleError, stamps
  <2>3. ASSUME NEW i \in Ids, StartLeaf(i) PROVE TypeOK'
    BY <2>3 DEF StartLeaf, stamps
  <2>4. ASSUME NEW i \in Ids, NEW f \in Files, ReadFile(i, f) PROVE TypeOK'
    <3>1. got' \in [Ids -> [Files -> {Unread} \cup 0..Len(prog)]]
      BY <2>4 DEF ReadFile
    <3>2. failed' \subseteq Ids /\ canceled' \in BOOLEAN
      BY <2>4 DEF ReadFile
    <3> QED
      BY <2>4, <3>1, <3>2 DEF ReadFile, stamps
  <2>5. ASSUME NEW i \in Ids, NEW f \in Files, WriteFile(i, f) PROVE TypeOK'
    <3>1. store' \in [Files -> 0..Len(prog)]
      BY <2>5 DEF WriteFile
    <3>2. wrote' \in [Ids -> SUBSET Files]
      BY <2>5 DEF WriteFile
    <3>3. present' \subseteq Files
      BY <2>5 DEF WriteFile
    <3> QED
      BY <2>5, <3>1, <3>2, <3>3 DEF WriteFile, stamps
  <2>6. ASSUME NEW i \in Ids, FinishLeaf(i) PROVE TypeOK'
    BY <2>6 DEF FinishLeaf, stamps
  <2>7. ASSUME NEW i \in Ids, ToolError(i) PROVE TypeOK'
    BY <2>7 DEF ToolError, stamps
  <2>8. CASE CancelSession
    BY <2>8 DEF CancelSession, stamps
  <2>9. CASE RunScheduledReturns
    BY <2>9 DEF RunScheduledReturns, stamps
  <2>10. CASE UNCHANGED vars
    BY <2>10 DEF vars
  <2> QED
    BY <2>1, <2>2, <2>3, <2>4, <2>5, <2>6, <2>7, <2>8, <2>9, <2>10 DEF Next, Returned
<1> QED
  BY <1>1, <1>2, PTL DEF Spec

-----------------------------------------------------------------------------
(* The stamps.                                                             *)

\* What fileDeps returns, element by element.
LEMMA FileDepsMembers ==
  ASSUME TypeOK, NEW l \in Leaf
  PROVE  /\ prior \cup unknown \subseteq FileDeps(l) \/ ~l.glob
         /\ unknown \subseteq FileDeps(l)
         /\ ~l.glob => \A f \in l.reads \cup l.writes :
              lastWrite[f] # 0 => lastWrite[f] \in FileDeps(l)
         /\ ~l.glob => \A f \in l.writes :
              lastUse[f] # 0 => lastUse[f] \in FileDeps(l)
<1>1. CASE l.glob
  BY <1>1 DEF FileDeps
<1>2. CASE ~l.glob
  BY <1>2 DEF FileDeps
<1> QED
  BY <1>1, <1>2

\* Scheduling a leaf keeps the stamps of the paths accurate.
LEMMA StampWStep ==
  ASSUME TypeOK, StampW, ScheduleLeaf
  PROVE  StampW'
<1> DEFINE n == sched + 1
<1>1. /\ sched \in Nat /\ n \in 1..Len(prog) /\ prog' = prog /\ sched' = n
      /\ \A f \in Files : lastWrite'[f] =
           IF ~prog[n].glob /\ f \in prog[n].writes THEN n ELSE lastWrite[f]
  BY DEF TypeOK, ScheduleLeaf, RecordLeaf
<1> HIDE DEF n
<1> SUFFICES ASSUME NEW f \in Files
             PROVE  /\ lastWrite'[f] \in 0..n
                    /\ lastWrite'[f] # 0 => ~prog[lastWrite'[f]].glob
                                            /\ f \in prog[lastWrite'[f]].writes
                    /\ \A i \in 1..n : ~prog[i].glob /\ f \in prog[i].writes
                                         => i <= lastWrite'[f]
  BY <1>1 DEF StampW
<1>2. /\ lastWrite[f] \in 0..sched
      /\ lastWrite[f] # 0 => ~prog[lastWrite[f]].glob /\ f \in prog[lastWrite[f]].writes
      /\ \A i \in 1..sched : ~prog[i].glob /\ f \in prog[i].writes => i <= lastWrite[f]
  BY DEF StampW
<1>3. n = sched + 1
  BY DEF n
<1>4. CASE ~prog[n].glob /\ f \in prog[n].writes
  BY <1>1, <1>2, <1>3, <1>4
<1>5. CASE ~(~prog[n].glob /\ f \in prog[n].writes)
  BY <1>1, <1>2, <1>3, <1>5
<1> QED
  BY <1>4, <1>5

LEMMA StampRStep ==
  ASSUME TypeOK, StampW, StampR, ScheduleLeaf
  PROVE  StampR'
<1> DEFINE n == sched + 1
           Pure(i, f) == ~prog[i].glob /\ f \in prog[i].reads \ prog[i].writes
<1>1. /\ sched \in Nat /\ n \in 1..Len(prog) /\ prog' = prog /\ sched' = n
      /\ \A f \in Files : lastWrite'[f] =
           IF ~prog[n].glob /\ f \in prog[n].writes THEN n ELSE lastWrite[f]
      /\ \A f \in Files : lastUse'[f] =
           IF prog[n].glob THEN lastUse[f]
           ELSE IF f \in prog[n].writes THEN 0
           ELSE IF f \in prog[n].reads THEN n ELSE lastUse[f]
  BY DEF TypeOK, ScheduleLeaf, RecordLeaf
<1>2. n = sched + 1
  OBVIOUS
<1> HIDE DEF n
<1> SUFFICES ASSUME NEW f \in Files
             PROVE  /\ lastUse'[f] \in 0..n
                    /\ lastUse'[f] # 0 => Pure(lastUse'[f], f)
                    /\ \A i \in 1..n : Pure(i, f) /\ lastWrite'[f] < i => i <= lastUse'[f]
  BY <1>1 DEF StampR
<1>3. /\ lastUse[f] \in 0..sched /\ lastWrite[f] \in 0..sched
      /\ lastUse[f] # 0 => Pure(lastUse[f], f)
      /\ \A i \in 1..sched : Pure(i, f) /\ lastWrite[f] < i => i <= lastUse[f]
  BY DEF StampR, StampW
<1>4. CASE prog[n].glob
  BY <1>1, <1>2, <1>3, <1>4
<1>5. CASE ~prog[n].glob /\ f \in prog[n].writes
  BY <1>1, <1>2, <1>3, <1>5
<1>6. CASE ~prog[n].glob /\ f \notin prog[n].writes /\ f \in prog[n].reads
  BY <1>1, <1>2, <1>3, <1>6
<1>7. CASE ~prog[n].glob /\ f \notin prog[n].writes /\ f \notin prog[n].reads
  BY <1>1, <1>2, <1>3, <1>7
<1> QED
  BY <1>4, <1>5, <1>6, <1>7

\* What spawning a leaf does to the dependency table.
LEMMA DepsAfter ==
  ASSUME TypeOK, ScheduleLeaf
  PROVE  /\ sched \in Nat /\ sched + 1 \in 1..Len(prog)
         /\ prog' = prog /\ sched' = sched + 1 /\ prog[sched + 1] \in Leaf
         /\ deps'[sched + 1] = FileDeps(prog[sched + 1])
         /\ \A j \in 1..sched : deps'[j] = deps[j]
  BY LeafType DEF TypeOK, ScheduleLeaf, Ids

\* fileDeps names earlier leaves only.
LEMMA DepsEarlierStep ==
  ASSUME TypeOK, Past, StampW, StampR, DepsEarlier, ScheduleLeaf
  PROVE  DepsEarlier'
<1> DEFINE n == sched + 1
<1>1. ASSUME NEW d \in FileDeps(prog[n]) PROVE d \in 1..sched
  <2>1. sched \in Nat /\ prior \subseteq 1..sched /\ unknown \subseteq 1..sched
    BY DEF TypeOK, Past
  <2>2. CASE prog[n].glob
    BY <1>1, <2>1, <2>2 DEF FileDeps
  <2>3. CASE ~prog[n].glob
    <3>1. prog[n].reads \subseteq Files /\ prog[n].writes \subseteq Files
      BY DepsAfter, LeafType DEF TypeOK
    <3>2. \/ d \in unknown
          \/ \E f \in prog[n].reads \cup prog[n].writes : d = lastWrite[f] /\ d # 0
          \/ \E f \in prog[n].writes : d = lastUse[f] /\ d # 0
      BY <1>1, <2>3 DEF FileDeps
    <3>3. \A f \in Files : lastWrite[f] \in 0..sched /\ lastUse[f] \in 0..sched
      BY DEF StampW, StampR
    <3>4. d \in unknown \/ (d \in 0..sched /\ d # 0)
      BY <3>1, <3>2, <3>3
    <3>5. \A e \in 0..sched : e # 0 => e \in 1..sched
      BY <2>1
    <3> QED
      BY <2>1, <3>4, <3>5, Zenon
  <2> QED
    BY <2>2, <2>3
<1>2. ASSUME NEW j \in 1..n PROVE deps'[j] \subseteq 1..(j - 1)
  <2>1. CASE j = n
    BY <1>1, <2>1, DepsAfter
  <2>2. CASE j # n
    BY <2>2, DepsAfter DEF DepsEarlier
  <2> QED
    BY <2>1, <2>2
<1> QED
  BY <1>2, DepsAfter DEF DepsEarlier

\* A leaf that must not be overtaken is a dependency or is followed by one.
LEMMA DepsSoundStep ==
  ASSUME TypeOK, Past, StampW, DepsSound, ScheduleLeaf
  PROVE  DepsSound'
<1> DEFINE n == sched + 1
<1> USE DepsAfter
<1>1. ASSUME NEW i \in 1..sched, Follows(prog, i, n)
      PROVE  \/ i \in FileDeps(prog[n])
             \/ \E k \in FileDeps(prog[n]) : i < k /\ k < n /\ Follows(prog, i, k)
  <2>1. CASE prog[n].glob
    BY <2>1, FileDepsMembers DEF Past
  <2>2. CASE prog[i].glob
    BY <2>2, FileDepsMembers DEF Past
  <2>3. CASE ~prog[i].glob /\ ~prog[n].glob
    <3>1. PICK f \in Files : f \in prog[i].writes /\ f \in prog[n].reads \cup prog[n].writes
      <4>1. i \in 1..Len(prog) /\ prog \in Seq(Leaf)
        BY DEF TypeOK
      <4>2. prog[i].writes \subseteq Files
        BY <4>1, LeafType
      <4> QED
        BY <1>1, <2>3, <4>2 DEF Follows
    <3>2. /\ i <= lastWrite[f] /\ lastWrite[f] \in 0..sched
          /\ lastWrite[f] # 0 => f \in prog[lastWrite[f]].writes
      BY <2>3, <3>1 DEF StampW
    <3>3. lastWrite[f] # 0
      BY <3>2
    <3>4. lastWrite[f] \in FileDeps(prog[n])
      BY <2>3, <3>1, <3>3, FileDepsMembers
    <3>5. Follows(prog, i, lastWrite[f])
      BY <3>1, <3>2, <3>3 DEF Follows
    <3> QED
      BY <3>2, <3>4, <3>5
  <2> QED
    BY <2>1, <2>2, <2>3
<1>2. ASSUME NEW i \in 1..n, NEW j \in 1..n, i < j, Follows(prog, i, j)
      PROVE  \/ i \in deps'[j]
             \/ \E k \in deps'[j] : i < k /\ k < j /\ Follows(prog, i, k)
  <2>1. CASE j = n
    BY <1>1, <1>2, <2>1
  <2>2. CASE j # n
    BY <1>2, <2>2 DEF DepsSound
  <2> QED
    BY <2>1, <2>2
<1> QED
  BY <1>2 DEF DepsSound, Follows

\* With one reader per version, a reader to be overwritten is one too.
LEMMA OverSoundStep ==
  ASSUME TypeOK, Past, StampW, StampR, OverSound, ScheduleLeaf
  PROVE  OverSound'
<1> DEFINE n == sched + 1
           Hit(i, j, D) == \/ Follows(prog, i, j)
                           \/ i \in D
                           \/ \E k \in D : i < k /\ k < j
                                /\ (Follows(prog, i, k) \/ Overwrites(prog, i, k))
<1> USE DepsAfter
<1>1. ASSUME SingleReader(prog), NEW i \in 1..sched, Overwrites(prog, i, n)
      PROVE  Hit(i, n, FileDeps(prog[n]))
  <2>1. CASE Follows(prog, i, n)
    BY <2>1
  <2>2. CASE ~Follows(prog, i, n)
    <3>1. ~prog[i].glob /\ ~prog[n].glob /\ prog[i].writes \cap prog[n].writes = {}
      BY <2>2 DEF Follows
    <3>2. PICK f \in Files : f \in prog[i].reads \ prog[i].writes /\ f \in prog[n].writes
      <4>1. i \in 1..Len(prog) /\ prog \in Seq(Leaf)
        BY DEF TypeOK
      <4>2. prog[i].reads \subseteq Files
        BY <4>1, LeafType
      <4> QED
        BY <1>1, <3>1, <4>2 DEF Overwrites
    <3>3. /\ lastWrite[f] \in 0..sched /\ lastUse[f] \in 0..sched
          /\ lastWrite[f] # 0 => f \in prog[lastWrite[f]].writes
          /\ lastUse[f] # 0 => ~prog[lastUse[f]].glob
               /\ f \in prog[lastUse[f]].reads \ prog[lastUse[f]].writes
      BY DEF StampW, StampR
    <3>4. CASE i < lastWrite[f]
      <4>1. lastWrite[f] \in FileDeps(prog[n])
        BY <3>1, <3>2, <3>3, <3>4, FileDepsMembers
      <4>2. Overwrites(prog, i, lastWrite[f])
        BY <3>2, <3>3, <3>4 DEF Overwrites
      <4> QED
        BY <3>3, <3>4, <4>1, <4>2
    <3>5. CASE lastWrite[f] <= i
      <4>1. lastWrite[f] # i
        BY <3>2, <3>3
      <4>2. i <= lastUse[f]
        BY <3>1, <3>2, <3>3, <3>5, <4>1 DEF StampR
      <4>3. lastUse[f] \in FileDeps(prog[n])
        BY <3>1, <3>2, <3>3, <4>2, FileDepsMembers
      <4>4. CASE i = lastUse[f]
        BY <4>3, <4>4
      <4>5. CASE i # lastUse[f]
        <5>1. PICK m \in i..n : prog[m].glob \/ (m # n /\ f \in prog[m].writes)
          <6>1. /\ i \in DOMAIN prog /\ lastUse[f] \in DOMAIN prog /\ n \in DOMAIN prog
                /\ i < lastUse[f] /\ lastUse[f] < n
            <7>1. prog \in Seq(Leaf) /\ sched \in Nat /\ n \in 1..Len(prog)
              BY DEF TypeOK
            <7>2. i < lastUse[f] /\ lastUse[f] \in 1..sched
              BY <3>3, <4>2, <4>5, <7>1
            <7> QED
              BY <7>1, <7>2
          <6>2. f \in prog[lastUse[f]].reads \ prog[lastUse[f]].writes
            BY <3>3, <6>1
          <6> QED
            BY <1>1, <3>2, <6>1, <6>2 DEF SingleReader
        <5>2. m # i /\ m # n /\ m \in 1..sched
          BY <3>1, <3>2, <5>1
        <5>3. CASE prog[m].glob
          <6>1. m \in FileDeps(prog[n])
            BY <5>2, <5>3, FileDepsMembers DEF Past
          <6> QED
            BY <5>1, <5>2, <5>3, <6>1 DEF Follows
        <5>4. CASE ~prog[m].glob /\ f \in prog[m].writes
          <6>1. m <= lastWrite[f]
            BY <5>2, <5>4 DEF StampW
          <6> QED
            BY <3>3, <3>5, <4>1, <5>1, <5>2, <6>1
        <5> QED
          BY <5>1, <5>2, <5>3, <5>4
      <4> QED
        BY <4>4, <4>5
    <3> QED
      BY <3>3, <3>4, <3>5
  <2> QED
    BY <2>1, <2>2
<1>2. ASSUME SingleReader(prog), NEW i \in 1..n, NEW j \in 1..n, i < j,
             Overwrites(prog, i, j)
      PROVE  Hit(i, j, deps'[j])
  <2>1. CASE j = n
    BY <1>1, <1>2, <2>1
  <2>2. CASE j # n
    BY <1>2, <2>2 DEF OverSound
  <2> QED
    BY <2>1, <2>2
<1> SUFFICES ASSUME SingleReader(prog'), NEW i \in 1..n, NEW j \in 1..n, i < j,
                    Overwrites(prog', i, j)
             PROVE  Hit(i, j, deps'[j])
  BY DEF OverSound, Follows, Overwrites
<1> QED
  BY <1>2

-----------------------------------------------------------------------------
(* The order.                                                              *)

\* Steps that leave the recipe, the stamps and the dependencies alone.
Quiet == UNCHANGED <<prog, sched, stamps, deps>>

\* Every step but ScheduleLeaf is quiet.
LEMMA QuietSteps ==
  ASSUME [Next]_vars
  PROVE  ScheduleLeaf \/ Quiet
<1>1. CASE ScheduleError
  BY <1>1 DEF ScheduleError, Quiet, stamps
<1>2. ASSUME NEW i \in Ids, StartLeaf(i) PROVE Quiet
  BY <1>2 DEF StartLeaf, Quiet, stamps
<1>3. ASSUME NEW i \in Ids, NEW f \in Files, ReadFile(i, f) PROVE Quiet
  BY <1>3 DEF ReadFile, Quiet, stamps
<1>4. ASSUME NEW i \in Ids, NEW f \in Files, WriteFile(i, f) PROVE Quiet
  BY <1>4 DEF WriteFile, Quiet, stamps
<1>5. ASSUME NEW i \in Ids, FinishLeaf(i) PROVE Quiet
  BY <1>5 DEF FinishLeaf, Quiet, stamps
<1>6. ASSUME NEW i \in Ids, ToolError(i) PROVE Quiet
  BY <1>6 DEF ToolError, Quiet, stamps
<1>7. CASE CancelSession
  BY <1>7 DEF CancelSession, Quiet, stamps
<1>8. CASE RunScheduledReturns
  BY <1>8 DEF RunScheduledReturns, Quiet, stamps
<1>9. CASE UNCHANGED vars
  BY <1>9 DEF vars, Quiet, stamps
<1> QED
  BY <1>1, <1>2, <1>3, <1>4, <1>5, <1>6, <1>7, <1>8, <1>9 DEF Next, Returned

\* The tasks: who starts and who finishes in a step.
LEMMA TaskSteps ==
  ASSUME [Next]_vars
  PROVE  \/ started' = started /\ finished' = finished
         \/ \E i \in Ids : /\ StartLeaf(i)
                           /\ started' = started \cup {i} /\ finished' = finished
         \/ \E i \in Ids : /\ FinishLeaf(i) /\ i \in started
                           /\ started' = started /\ finished' = finished \cup {i}
<1> DEFINE Same == started' = started /\ finished' = finished
<1>1. CASE ScheduleLeaf \/ ScheduleError
  BY <1>1 DEF ScheduleLeaf, ScheduleError
<1>2. ASSUME NEW i \in Ids, StartLeaf(i)
      PROVE  started' = started \cup {i} /\ finished' = finished
  BY <1>2 DEF StartLeaf
<1>3. ASSUME NEW i \in Ids, NEW f \in Files, ReadFile(i, f) PROVE Same
  BY <1>3 DEF ReadFile
<1>4. ASSUME NEW i \in Ids, NEW f \in Files, WriteFile(i, f) PROVE Same
  BY <1>4 DEF WriteFile
<1>5. ASSUME NEW i \in Ids, FinishLeaf(i)
      PROVE  i \in started /\ started' = started /\ finished' = finished \cup {i}
  BY <1>5 DEF FinishLeaf, Running
<1>6. ASSUME NEW i \in Ids, ToolError(i) PROVE Same
  BY <1>6 DEF ToolError
<1>7. CASE CancelSession \/ RunScheduledReturns
  BY <1>7 DEF CancelSession, RunScheduledReturns
<1>8. CASE UNCHANGED vars
  BY <1>8 DEF vars
<1> HIDE DEF Same
<1>9. Same => started' = started /\ finished' = finished
  BY DEF Same
<1> QED
  BY <1>1, <1>2, <1>3, <1>4, <1>5, <1>6, <1>7, <1>8, <1>9 DEF Next, Returned, Same

\* The stamp invariant survives every step.
LEMMA StampStep ==
  ASSUME TypeOK, StampInv, [Next]_vars
  PROVE  StampInv'
<1>1. CASE ScheduleLeaf
  <2>1. Past'
    <3>1. /\ sched \in Nat /\ sched' = sched + 1 /\ prog' = prog
          /\ prior' = prior \cup {sched + 1}
          /\ unknown' = IF prog[sched + 1].glob THEN unknown \cup {sched + 1} ELSE unknown
          /\ started' = started /\ finished' = finished
      BY <1>1 DEF TypeOK, ScheduleLeaf, RecordLeaf
    <3>2. 1..(sched + 1) = (1..sched) \cup {sched + 1}
      BY <3>1
    <3> QED
      BY <3>1, <3>2 DEF StampInv, Past
  <2> QED
    BY <1>1, <2>1, StampWStep, StampRStep, DepsEarlierStep, DepsSoundStep, OverSoundStep
    DEF StampInv
<1>2. CASE Quiet
  <2>1. Past'
    <3>1. finished' \subseteq started'
      BY TaskSteps DEF StampInv, Past
    <3>2. started' \subseteq 1..sched
      <4>1. \A i \in Ids : StartLeaf(i) => i \in 1..sched
        BY DEF StartLeaf, Ids, TypeOK
      <4> QED
        BY <4>1, TaskSteps DEF StampInv, Past
    <3> QED
      BY <1>2, <3>1, <3>2 DEF StampInv, Past, Quiet, stamps
  <2>2. /\ prog' = prog /\ sched' = sched /\ deps' = deps
        /\ lastWrite' = lastWrite /\ lastUse' = lastUse
    BY <1>2 DEF Quiet, stamps
  <2>3. StampW' /\ StampR'
    BY <2>2 DEF StampInv, StampW, StampR
  <2>4. DepsEarlier' /\ DepsSound'
    BY <2>2 DEF StampInv, DepsEarlier, DepsSound, Follows
  <2>5. OverSound'
    BY <2>2 DEF StampInv, OverSound, Follows, Overwrites, SingleReader
  <2> QED
    BY <2>1, <2>3, <2>4, <2>5 DEF StampInv
<1> QED
  BY <1>1, <1>2, QuietSteps

\* A leaf that starts has no unfinished leaf it must come after.
LEMMA StartIsOrdered ==
  ASSUME TypeOK, StampInv, OrderInv, NEW j \in Ids, StartLeaf(j)
  PROVE  /\ \A i \in Ids : i < j /\ Follows(prog, i, j) => i \in finished
         /\ SingleReader(prog) =>
              \A i \in Ids : i < j /\ Overwrites(prog, i, j) => i \in finished
<1>1. /\ j \in 1..sched /\ deps[j] \subseteq finished /\ finished \subseteq started
      /\ finished \subseteq Ids
  BY DEF StartLeaf, StampInv, Past, TypeOK, Ids
<1>2. ASSUME NEW i \in Ids, i < j, Follows(prog, i, j) PROVE i \in finished
  <2>1. i \in 1..sched
    BY <1>1, <1>2 DEF Ids, TypeOK
  <2>2. CASE i \in deps[j]
    BY <1>1, <2>2
  <2>3. CASE \E k \in deps[j] : i < k /\ k < j /\ Follows(prog, i, k)
    BY <1>1, <2>3 DEF OrderInv, WriteOrder
  <2> QED
    BY <1>1, <1>2, <2>1, <2>2, <2>3 DEF StampInv, DepsSound
<1>3. ASSUME SingleReader(prog), NEW i \in Ids, i < j, Overwrites(prog, i, j)
      PROVE  i \in finished
  <2>1. i \in 1..sched
    BY <1>1, <1>3 DEF Ids, TypeOK
  <2>2. CASE i \in deps[j]
    BY <1>1, <2>2
  <2>3. CASE \E k \in deps[j] : i < k /\ k < j
                                /\ (Follows(prog, i, k) \/ Overwrites(prog, i, k))
    BY <1>1, <1>3, <2>3 DEF OrderInv, WriteOrder, ReadersFirst
  <2> QED
    BY <1>1, <1>2, <1>3, <2>1, <2>2, <2>3 DEF StampInv, OverSound
<1> QED
  BY <1>2, <1>3

LEMMA OrderStep ==
  ASSUME TypeOK, StampInv, OrderInv, [Next]_vars
  PROVE  OrderInv'
<1>1. prog' = prog /\ Ids' = Ids
  BY QuietSteps DEF ScheduleLeaf, Quiet, Ids
<1>2. \A j \in started : deps'[j] = deps[j]
  <2>1. CASE ScheduleLeaf
    BY <2>1, DepsAfter DEF StampInv, Past
  <2>2. CASE Quiet
    BY <2>2 DEF Quiet
  <2> QED
    BY <2>1, <2>2, QuietSteps
<1>3. CASE started' = started /\ finished \subseteq finished'
  BY <1>1, <1>2, <1>3 DEF OrderInv, WriteOrder, ReadersFirst, Follows, Overwrites, SingleReader
<1>4. ASSUME NEW j \in Ids, StartLeaf(j), started' = started \cup {j}, finished' = finished
      PROVE  OrderInv'
  <2>1. \A k \in started' : deps'[k] \subseteq finished'
    BY <1>2, <1>4 DEF OrderInv, StartLeaf
  <2>2. WriteOrder'
    BY <1>1, <1>4, StartIsOrdered DEF OrderInv, WriteOrder, Follows
  <2>3. ReadersFirst'
    BY <1>1, <1>4, StartIsOrdered DEF OrderInv, ReadersFirst, Overwrites, SingleReader
  <2> QED
    BY <2>1, <2>2, <2>3 DEF OrderInv
<1> QED
  BY <1>3, <1>4, TaskSteps

\* Nothing is scheduled and nothing runs when the recipe starts.
LEMMA InitOrder == Init => StampInv /\ OrderInv
<1> SUFFICES ASSUME Init PROVE StampInv /\ OrderInv
  OBVIOUS
<1>1. Past
  BY DEF Init, Past
<1>2. StampW /\ StampR
  BY DEF Init, StampW, StampR
<1>3. DepsEarlier /\ DepsSound /\ OverSound
  BY DEF Init, DepsEarlier, DepsSound, OverSound
<1>4. OrderInv
  BY DEF Init, OrderInv, WriteOrder, ReadersFirst
<1> QED
  BY <1>1, <1>2, <1>3, <1>4 DEF StampInv

\* For every recipe, a task never starts before every earlier leaf that
\* writes what it declares, nor before or past a glob (WriteOrder), and in a
\* tame recipe a writer never starts before an earlier reader (ReadOrder).
THEOREM OrderCorrect == Spec => [](WriteOrder /\ ReadOrder)
<1>1. Init => StampInv /\ OrderInv
  BY InitOrder
<1>2. TypeOK /\ StampInv /\ OrderInv /\ [Next]_vars => (StampInv /\ OrderInv)'
  BY StampStep, OrderStep
<1>3. OrderInv => WriteOrder /\ ReadOrder
  BY DEF OrderInv, ReadersFirst, ReadOrder, Tame
<1> QED
  BY <1>1, <1>2, <1>3, TypeCorrect, PTL DEF Spec

\* The readers' half of it alone: in a tame recipe a leaf that overwrites a
\* path does not start before every earlier leaf that reads it (lastUse).
THEOREM ReadersBefore == Spec => []ReadOrder
<1> QED
  BY OrderCorrect, PTL

-----------------------------------------------------------------------------
(* The store.                                                              *)

\* What running tasks have written, and that every file holds what its
\* highest numbered writer put there.
StoreSound ==
  /\ \A i \in Ids : wrote[i] \subseteq prog[i].puts
  /\ \A i \in Ids : wrote[i] # {} => i \in started
  /\ \A i \in finished : wrote[i] = prog[i].puts
  /\ \A f \in Files : store[f] # 0 => f \in wrote[store[f]]
  /\ \A i \in Ids : \A f \in wrote[i] : i <= store[f]
  /\ result = "ok" => finished = Ids

TameInv == Tame(prog) => StoreSound /\ SerialReads

\* In a tame recipe two leaves that touch a file one of them writes are
\* ordered: the later one starts after the earlier one has finished.
LEMMA Ordered ==
  ASSUME TypeOK, OrderInv, Tame(prog),
         NEW i \in Ids, NEW j \in Ids, i < j, j \in started, NEW f \in Files,
         \/ f \in prog[i].puts /\ f \in prog[j].puts \cup prog[j].uses
         \/ f \in prog[i].uses /\ f \in prog[j].puts
  PROVE  i \in finished
<1>1. i \in DOMAIN prog /\ j \in DOMAIN prog
  BY DEF TypeOK, Ids
<1>2. CASE prog[i].glob \/ prog[j].glob
  BY <1>2 DEF OrderInv, WriteOrder, Follows
<1>3. CASE ~prog[i].glob /\ ~prog[j].glob
  <2>1. /\ prog[i].puts \subseteq prog[i].writes /\ prog[j].puts \subseteq prog[j].writes
        /\ f \in prog[i].puts \cup prog[j].puts =>
             /\ f \in prog[i].uses => f \in prog[i].reads \cup prog[i].writes
             /\ f \in prog[j].uses => f \in prog[j].reads \cup prog[j].writes
    BY <1>1, <1>3 DEF Tame, Covered
  <2>2. Follows(prog, i, j) \/ Overwrites(prog, i, j)
    BY <2>1 DEF Follows, Overwrites
  <2> QED
    BY <2>2 DEF OrderInv, WriteOrder, ReadersFirst, Tame
<1> QED
  BY <1>2, <1>3

\* What a leaf finds in the store is what the sequential run would show it.
LEMMA ReadIsSerial ==
  ASSUME TypeOK, StampInv, OrderInv, Tame(prog), StoreSound,
         NEW j \in Ids, NEW f \in Files, ReadFile(j, f)
  PROVE  IsSerial(prog, store[f], j, f)
<1>1. /\ Running(j) /\ f \in prog[j].uses /\ wrote[j] = {}
      /\ store[f] \in 0..Len(prog) /\ Len(prog) \in Nat
  BY DEF ReadFile, TypeOK
<1>2. DOMAIN prog = Ids
  BY DEF TypeOK, Ids
<1>3. ASSUME NEW i \in Ids, i < j, f \in prog[i].puts PROVE i <= store[f]
  <2>1. i \in finished
    BY <1>1, <1>3, Ordered DEF Running
  <2> QED
    BY <1>3, <2>1 DEF StoreSound
<1>4. CASE store[f] = 0
  BY <1>2, <1>3, <1>4 DEF IsSerial, Ids
<1>5. CASE store[f] # 0
  <2> DEFINE v == store[f]
  <2>1. v \in Ids /\ f \in wrote[v] /\ v \in started /\ f \in prog[v].puts
    BY <1>1, <1>5 DEF StoreSound, Ids
  <2>2. v # j
    BY <1>1, <2>1
  <2>3. ~(j < v)
    <3> SUFFICES ASSUME j < v PROVE FALSE
      OBVIOUS
    <3>1. j \in finished
      BY <1>1, <2>1, Ordered
    <3> QED
      BY <1>1, <3>1 DEF Running
  <2>4. v < j
    BY <1>1, <2>1, <2>2, <2>3 DEF Ids
  <2>5. ASSUME NEW i \in Ids, v < i, i < j PROVE f \notin prog[i].puts
    BY <1>1, <1>3, <2>5 DEF Ids
  <2> QED
    BY <1>2, <2>1, <2>4, <2>5 DEF IsSerial
<1> QED
  BY <1>4, <1>5

\* A write puts a higher number into the store than any before it.
LEMMA WriteKeepsStore ==
  ASSUME TypeOK, StampInv, OrderInv, Tame(prog), StoreSound,
         NEW i \in Ids, NEW f \in Files, WriteFile(i, f)
  PROVE  StoreSound'
<1>1. /\ Running(i) /\ f \in prog[i].puts
      /\ store' = [store EXCEPT ![f] = i]
      /\ wrote' = [wrote EXCEPT ![i] = @ \cup {f}]
      /\ UNCHANGED <<prog, started, finished, result>>
  BY DEF WriteFile
<1>2. /\ wrote \in [Ids -> SUBSET Files] /\ store \in [Files -> 0..Len(prog)]
      /\ Len(prog) \in Nat /\ Ids' = Ids /\ i \in started /\ i \notin finished
      /\ i \in 1..Len(prog)
  BY <1>1 DEF TypeOK, Ids, Running
<1>3. ASSUME NEW k \in Ids, f \in wrote[k] PROVE k <= i
  <2> SUFFICES ASSUME i < k PROVE FALSE
    BY <1>2 DEF Ids
  <2>1. k \in started /\ f \in prog[k].puts
    BY <1>3 DEF StoreSound
  <2>2. i \in finished
    BY <1>1, <2>1, Ordered
  <2> QED
    BY <1>2, <2>2
<1>4. \A k \in Ids : wrote'[k] \subseteq prog[k].puts
  BY <1>1, <1>2 DEF StoreSound
<1>5. \A k \in Ids : wrote'[k] # {} => k \in started
  BY <1>1, <1>2 DEF StoreSound
<1>6. \A k \in finished : wrote'[k] = prog[k].puts
  <2>1. finished \subseteq Ids
    BY DEF TypeOK
  <2> QED
    BY <1>1, <1>2, <2>1 DEF StoreSound
<1>7. \A g \in Files : store'[g] # 0 => g \in wrote'[store'[g]]
  <2> SUFFICES ASSUME NEW g \in Files, store'[g] # 0 PROVE g \in wrote'[store'[g]]
    OBVIOUS
  <2>1. CASE g = f
    BY <1>1, <1>2, <2>1
  <2>2. CASE g # f
    BY <1>1, <1>2, <2>2 DEF StoreSound, Ids
  <2> QED
    BY <2>1, <2>2
<1>8. \A k \in Ids : \A g \in wrote'[k] : k <= store'[g]
  <2> SUFFICES ASSUME NEW k \in Ids, NEW g \in wrote'[k] PROVE k <= store'[g]
    OBVIOUS
  <2>0. g \in Files /\ (g # f => g \in wrote[k]) /\ (k # i => g \in wrote[k])
    BY <1>1, <1>2
  <2>1. CASE g = f
    BY <1>1, <1>2, <1>3, <2>0, <2>1 DEF Ids
  <2>2. CASE g # f
    BY <1>1, <1>2, <2>0, <2>2 DEF StoreSound
  <2> QED
    BY <2>1, <2>2
<1> QED
  BY <1>1, <1>2, <1>4, <1>5, <1>6, <1>7, <1>8 DEF StoreSound

\* The other steps: what they change of the store, the reads and the result.
LEMMA StoreSteps ==
  ASSUME TypeOK, [Next]_vars
  PROVE  \/ \E i \in Ids, f \in Files : ReadFile(i, f)
         \/ \E i \in Ids, f \in Files : WriteFile(i, f)
         \/ \E i \in Ids : FinishLeaf(i)
         \/ RunScheduledReturns
         \/ /\ UNCHANGED <<prog, wrote, store, got, finished, result>>
            /\ started \subseteq started'
<1> DEFINE Rest == UNCHANGED <<prog, wrote, store, got, finished, result>>
                   /\ started \subseteq started'
<1>1. CASE ScheduleLeaf
  BY <1>1 DEF ScheduleLeaf
<1>2. CASE ScheduleError
  BY <1>2 DEF ScheduleError
<1>3. ASSUME NEW i \in Ids, StartLeaf(i) PROVE Rest
  BY <1>3 DEF StartLeaf
<1>4. ASSUME NEW i \in Ids, ToolError(i) PROVE Rest
  BY <1>4 DEF ToolError
<1>5. CASE CancelSession
  BY <1>5 DEF CancelSession
<1>6. CASE UNCHANGED vars
  BY <1>6 DEF vars
<1> QED
  BY <1>1, <1>2, <1>3, <1>4, <1>5, <1>6 DEF Next, Returned

LEMMA TameStep ==
  ASSUME TypeOK, StampInv, OrderInv, TameInv, [Next]_vars
  PROVE  TameInv'
<1> SUFFICES ASSUME Tame(prog) PROVE StoreSound' /\ SerialReads'
  <2>1. prog' = prog
    BY QuietSteps DEF ScheduleLeaf, Quiet
  <2> QED
    BY <2>1 DEF TameInv, Tame, Covered, SingleReader
<1>1. StoreSound /\ SerialReads
  BY DEF TameInv
<1>2. prog' = prog /\ Ids' = Ids
  BY QuietSteps DEF ScheduleLeaf, Quiet, Ids
<1>3. ASSUME NEW i \in Ids, NEW f \in Files, ReadFile(i, f)
      PROVE  StoreSound' /\ SerialReads'
  <2>1. UNCHANGED <<wrote, store, started, finished, result>>
        /\ got' = [got EXCEPT ![i][f] = store[f]]
    BY <1>3 DEF ReadFile
  <2>2. StoreSound'
    BY <1>1, <1>2, <2>1 DEF StoreSound
  <2>3. IsSerial(prog, store[f], i, f)
    BY <1>1, <1>3, ReadIsSerial
  <2>4. SerialReads'
    <3> SUFFICES ASSUME NEW j \in Ids, NEW g \in Files, got'[j][g] # Unread
                 PROVE  IsSerial(prog, got'[j][g], j, g)
      BY <1>2 DEF SerialReads, IsSerial
    <3>1. CASE j = i /\ g = f
      <4>1. got'[j][g] = store[f]
        BY <2>1, <3>1 DEF TypeOK
      <4> QED
        BY <2>3, <3>1, <4>1
    <3>2. CASE ~(j = i /\ g = f)
      <4>1. got'[j][g] = got[j][g]
        BY <2>1, <3>2 DEF TypeOK
      <4> QED
        BY <1>1, <4>1 DEF SerialReads
    <3> QED
      BY <3>1, <3>2
  <2> QED
    BY <2>2, <2>4
<1>4. ASSUME NEW i \in Ids, NEW f \in Files, WriteFile(i, f)
      PROVE  StoreSound' /\ SerialReads'
  <2>1. got' = got
    BY <1>4 DEF WriteFile
  <2>2. SerialReads'
    BY <1>1, <1>2, <2>1 DEF SerialReads, IsSerial
  <2> QED
    BY <1>1, <1>4, <2>2, WriteKeepsStore
<1>5. ASSUME NEW i \in Ids, FinishLeaf(i) PROVE StoreSound' /\ SerialReads'
  <2>1. /\ UNCHANGED <<got, wrote, store, started, result>>
        /\ finished' = finished \cup {i} /\ wrote[i] = prog[i].puts
        /\ i \notin finished
    BY <1>5 DEF FinishLeaf, Running
  <2>2. SerialReads'
    BY <1>1, <1>2, <2>1 DEF SerialReads, IsSerial
  <2>3. StoreSound'
    BY <1>1, <1>2, <2>1 DEF StoreSound
  <2> QED
    BY <2>2, <2>3
<1>6. CASE RunScheduledReturns
  <2>1. /\ UNCHANGED <<got, wrote, store, started, finished>>
        /\ result' = "ok" => finished = Ids
    BY <1>6 DEF RunScheduledReturns
  <2>2. SerialReads'
    BY <1>1, <1>2, <2>1 DEF SerialReads, IsSerial
  <2>3. StoreSound'
    BY <1>1, <1>2, <2>1 DEF StoreSound
  <2> QED
    BY <2>2, <2>3
<1>7. CASE /\ UNCHANGED <<prog, wrote, store, got, finished, result>>
           /\ started \subseteq started'
  <2>1. SerialReads'
    BY <1>1, <1>2, <1>7 DEF SerialReads, IsSerial
  <2>2. StoreSound'
    BY <1>1, <1>2, <1>7 DEF StoreSound
  <2> QED
    BY <2>1, <2>2
<1> QED
  BY <1>3, <1>4, <1>5, <1>6, <1>7, StoreSteps

LEMMA InitTame == Init => TameInv
<1> SUFFICES ASSUME Init PROVE StoreSound /\ SerialReads
  BY DEF TameInv
<1>1. StoreSound
  BY DEF Init, StoreSound
<1>2. SerialReads
  BY DEF Init, SerialReads
<1> QED
  BY <1>1, <1>2

\* When the recipe has succeeded, the files are those of the sequential run.
LEMMA FinalSerial ==
  ASSUME TypeOK, StoreSound, result = "ok", NEW f \in Files
  PROVE  IsSerial(prog, store[f], Len(prog) + 1, f)
<1>1. /\ DOMAIN prog = Ids /\ finished = Ids /\ Len(prog) \in Nat
      /\ store[f] \in 0..Len(prog)
  BY DEF TypeOK, StoreSound, Ids
<1>2. \A i \in Ids : f \in prog[i].puts => i <= store[f]
  BY <1>1 DEF StoreSound
<1>3. CASE store[f] = 0
  BY <1>1, <1>2, <1>3 DEF IsSerial, Ids
<1>4. CASE store[f] # 0
  <2>1. store[f] \in Ids /\ f \in prog[store[f]].puts
    BY <1>1, <1>4 DEF StoreSound, Ids
  <2>2. \A i \in Ids : store[f] < i => f \notin prog[i].puts
    BY <1>1, <1>2 DEF Ids
  <2> QED
    BY <1>1, <2>1, <2>2 DEF IsSerial, Ids
<1> QED
  BY <1>3, <1>4

\* For every tame recipe the concurrent execution is serializable: each read
\* is the sequential one and a successful run leaves the sequential files
\* (fileDeps, recordLeaf and words together).
THEOREM Serializable == Spec => []TameSerial
<1>1. Init => StampInv /\ OrderInv /\ TameInv
  BY InitOrder, InitTame
<1>2. TypeOK /\ StampInv /\ OrderInv /\ TameInv /\ [Next]_vars
        => (StampInv /\ OrderInv /\ TameInv)'
  BY StampStep, OrderStep, TameStep
<1>3. TypeOK /\ TameInv => TameSerial
  BY FinalSerial DEF TameInv, TameSerial
<1> QED
  BY <1>1, <1>2, <1>3, TypeCorrect, PTL DEF Spec

-----------------------------------------------------------------------------
(* The waits that the recipe command shows.                                *)

StampRecords == [lastWrite : [Files -> Nat], lastUse : [Files -> Nat], unknown : SUBSET Nat]

\* StampsAfter is the stamps of its recursion: there is a function that obeys
\* the recursion up to each length.
LEMMA StampsRecursive ==
  ASSUME NEW lines, Len(lines) \in Nat
  PROVE  StampsAfter(lines) = [n \in 0..Len(lines) |-> IF n = 0 THEN Stamped
                                              ELSE AfterStep(StampsAfter(lines)[n - 1], n, lines[n])]
<1> DEFINE Obeys(g, n) == g = [m \in 0..n |-> IF m = 0 THEN Stamped ELSE AfterStep(g[m - 1], m, lines[m])]
           S == {n \in Nat : \E g : Obeys(g, n)}
<1>1. 0 \in S
  <2> DEFINE g == [m \in 0..0 |-> Stamped]
  <2>1. g = [m \in 0..0 |-> IF m = 0 THEN Stamped ELSE AfterStep(g[m - 1], m, lines[m])]
    OBVIOUS
  <2> QED
    BY <2>1
<1>2. ASSUME NEW n \in Nat, n \in S
      PROVE  n + 1 \in S
  <2>1. PICK g : Obeys(g, n)
    BY <1>2
  <2> DEFINE h == [m \in 0..n + 1 |-> IF m = n + 1 THEN AfterStep(g[n], n + 1, lines[n + 1]) ELSE g[m]]
  <2>2. h[n] = g[n]
    OBVIOUS
  <2>3. ASSUME NEW m \in 0..n + 1
        PROVE  h[m] = IF m = 0 THEN Stamped ELSE AfterStep(h[m - 1], m, lines[m])
    <3>1. CASE m = n + 1
      BY <2>2, <3>1
    <3>2. CASE m = 0
      BY <2>1, <3>2
    <3>3. CASE m # 0 /\ m # n + 1
      <4>1. m \in 1..n /\ m - 1 \in 0..n
        BY <3>3
      <4>2. h[m] = g[m] /\ h[m - 1] = g[m - 1]
        BY <4>1
      <4> QED
        BY <2>1, <3>3, <4>1, <4>2
    <3> QED
      BY <3>1, <3>2, <3>3
  <2>4. h = [m \in 0..n + 1 |-> h[m]]
    OBVIOUS
  <2> HIDE DEF h
  <2>5. Obeys(h, n + 1)
    BY <2>3, <2>4
  <2> QED
    BY <2>5
<1>3. Nat \subseteq S
  <2> HIDE DEF S
  <2> QED
    BY <1>1, <1>2, SetInduction
<1>4. PICK g : Obeys(g, Len(lines))
  BY <1>3
<1>5. StampsAfter(lines) = CHOOSE h : Obeys(h, Len(lines))
  BY DEF StampsAfter
<1> QED
  BY <1>4, <1>5

LEMMA AfterStepType ==
  ASSUME NEW s \in StampRecords, NEW n \in Nat, NEW l \in Line
  PROVE  AfterStep(s, n, l) \in StampRecords
<1>1. l.glob \in BOOLEAN
  BY DEF Line
<1>2. CASE l.glob
  BY <1>2 DEF AfterStep, StampRecords
<1>3. CASE ~l.glob
  BY <1>3 DEF AfterStep, StampRecords
<1> QED
  BY <1>1, <1>2, <1>3

LEMMA AfterGlob ==
  ASSUME NEW s \in StampRecords, NEW n \in Nat, NEW l \in Line, l.glob
  PROVE  /\ AfterStep(s, n, l).unknown = s.unknown \cup {n}
         /\ AfterStep(s, n, l).lastWrite = s.lastWrite
         /\ AfterStep(s, n, l).lastUse = s.lastUse
  BY DEF AfterStep, StampRecords

LEMMA AfterPlain ==
  ASSUME NEW s \in StampRecords, NEW n \in Nat, NEW l \in Line, ~l.glob
  PROVE  /\ AfterStep(s, n, l).unknown = s.unknown
         /\ \A f \in Files :
              /\ AfterStep(s, n, l).lastWrite[f] = IF f \in l.writes THEN n ELSE s.lastWrite[f]
              /\ AfterStep(s, n, l).lastUse[f] = IF f \in l.writes THEN 0
                                                ELSE IF f \in l.reads THEN n ELSE s.lastUse[f]
  BY DEF AfterStep, StampRecords

LEMMA StampsType ==
  ASSUME NEW lines \in Seq(Line)
  PROVE  /\ StampsAfter(lines)[0] = Stamped
         /\ \A n \in 0..Len(lines) : StampsAfter(lines)[n] \in StampRecords
         /\ \A n \in 1..Len(lines) :
              StampsAfter(lines)[n] = AfterStep(StampsAfter(lines)[n - 1], n, lines[n])
<1> DEFINE S == {n \in Nat : n <= Len(lines) => StampsAfter(lines)[n] \in StampRecords}
<1>0. Len(lines) \in Nat
  OBVIOUS
<1>1. StampsAfter(lines)[0] = Stamped
  BY <1>0, StampsRecursive
<1>2. \A n \in 1..Len(lines) :
        StampsAfter(lines)[n] = AfterStep(StampsAfter(lines)[n - 1], n, lines[n])
  <2> TAKE n \in 1..Len(lines)
  <2>1. n \in 0..Len(lines) /\ n # 0
    OBVIOUS
  <2> QED
    BY <1>0, <2>1, StampsRecursive
<1>3. 0 \in S
  BY <1>1 DEF Stamped, StampRecords
<1>4. ASSUME NEW n \in Nat, n \in S PROVE n + 1 \in S
  <2> SUFFICES ASSUME n + 1 <= Len(lines) PROVE StampsAfter(lines)[n + 1] \in StampRecords
    OBVIOUS
  <2>1. n + 1 \in 1..Len(lines) /\ (n + 1) - 1 = n /\ StampsAfter(lines)[n] \in StampRecords
    BY <1>4
  <2>2. StampsAfter(lines)[n + 1] = AfterStep(StampsAfter(lines)[n], n + 1, lines[n + 1])
    BY <1>2, <2>1
  <2> QED
    <3>1. lines[n + 1] \in Line /\ n + 1 \in Nat
      BY <2>1
    <3> QED
      BY <2>1, <2>2, <3>1, AfterStepType
<1>5. Nat \subseteq S
  <2> HIDE DEF S
  <2> QED
    BY <1>3, <1>4, SetInduction
<1> QED
  BY <1>1, <1>2, <1>5

\* The line of leaf d, and 0 for no leaf.
LineOf(d) == IF d = 0 THEN 0 ELSE text.of[d]

AlignedBy(t, r) ==
  \A i \in DOMAIN t.of :
    LET l == t.lines[t.of[i]]
        k == t.leaves[i]
    IN /\ l.glob = k.glob
       /\ l.reads = {r[f] : f \in k.reads}
       /\ l.writes = {r[f] : f \in k.writes}

\* The stamps s are the scheduler's, under other names.
Agrees(s, r) ==
  /\ \A f \in Files : /\ s.lastWrite[r[f]] = LineOf(lastWrite[f])
                      /\ s.lastUse[r[f]] = LineOf(lastUse[f])
  /\ s.unknown = {text.of[d] : d \in unknown}

\* The text read, and the stamps behind the line of the last leaf.
IsText == text \in Texts /\ prog = text.leaves

Mirror ==
  \A r \in Renamings : AlignedBy(text, r) => Agrees(StampsAfter(text.lines)[LineOf(sched)], r)

LEMMA TextFacts ==
  ASSUME IsText
  PROVE  /\ text.lines \in Seq(Line) /\ Len(text.lines) \in Nat /\ Len(prog) \in Nat
         /\ DOMAIN text.lines = 1..Len(text.lines) /\ DOMAIN text.of = Ids
         /\ \A i \in Ids : text.of[i] \in 1..Len(text.lines) /\ text.of[i] # 0
         /\ \A i, j \in Ids : i < j => text.of[i] < text.of[j]
         /\ \A n \in 1..Len(text.lines) : (\A i \in Ids : text.of[i] # n) =>
              text.lines[n] = [reads |-> {}, writes |-> {}, glob |-> FALSE]
<1>1. /\ text.lines \in Seq(Line) /\ text.of \in Seq(DOMAIN text.lines)
      /\ Len(text.of) = Len(prog)
  BY InspectAssumption DEF IsText
<1>2. DOMAIN text.lines = 1..Len(text.lines) /\ DOMAIN text.of = Ids
  BY <1>1 DEF Ids
<1>3. /\ \A i, j \in DOMAIN text.of : i < j => text.of[i] < text.of[j]
      /\ \A n \in DOMAIN text.lines : (\A i \in DOMAIN text.of : text.of[i] # n) =>
           text.lines[n] = [reads |-> {}, writes |-> {}, glob |-> FALSE]
  BY InspectAssumption DEF IsText
<1>4. \A i \in Ids : text.of[i] \in 1..Len(text.lines)
  BY <1>1, <1>2
<1>5. /\ Len(text.lines) \in Nat /\ Len(prog) \in Nat
      /\ \A i \in Ids : text.of[i] # 0
  BY <1>1, <1>4
<1> QED
  BY <1>1, <1>2, <1>3, <1>4, <1>5

\* A line that comes to no task leaves the stamps as they are.
LEMMA IdleLines ==
  ASSUME TypeOK, IsText, sched < Len(prog), NEW r \in Renamings,
         Agrees(StampsAfter(text.lines)[LineOf(sched)], r)
  PROVE  Agrees(StampsAfter(text.lines)[text.of[sched + 1] - 1], r)
<1> DEFINE a == LineOf(sched)
           m == text.of[sched + 1]
           g == StampsAfter(text.lines)
           S == {k \in Nat : a + k < m => Agrees(g[a + k], r)}
<1>1. /\ sched \in Nat /\ sched + 1 \in Ids /\ Len(prog) \in Nat /\ (sched # 0 => sched \in Ids)
      /\ \A i \in Ids : i <= sched \/ sched + 1 <= i
  BY TextFacts DEF TypeOK, Ids
<1>2. a \in Nat /\ m \in 1..Len(text.lines) /\ a < m /\ Len(text.lines) \in Nat
  <2>1. m \in 1..Len(text.lines) /\ Len(text.lines) \in Nat
    BY <1>1, TextFacts
  <2>2. CASE sched = 0
    BY <2>1, <2>2 DEF LineOf
  <2>3. CASE sched # 0
    <3>1. a = text.of[sched] /\ sched < sched + 1
      BY <1>1, <2>3 DEF LineOf
    <3>2. text.of[sched] < m /\ text.of[sched] \in 1..Len(text.lines)
      BY <1>1, <2>3, <3>1, TextFacts
    <3> QED
      BY <2>1, <3>1, <3>2
  <2> QED
    BY <2>2, <2>3
<1>3. \A n \in Nat : a < n /\ n < m => \A i \in Ids : text.of[i] # n
  <2> SUFFICES ASSUME NEW n \in Nat, a < n, n < m, NEW i \in Ids PROVE text.of[i] # n
    OBVIOUS
  <2>0. i \in Nat /\ i # 0 /\ text.of[i] \in Nat
    BY <1>1, TextFacts DEF Ids
  <2>1. CASE i <= sched
    <3>1. sched # 0 /\ a = text.of[sched] /\ sched \in Ids
      BY <1>1, <2>0, <2>1 DEF LineOf
    <3>2. text.of[i] <= a
      BY <1>1, <2>0, <2>1, <3>1, <1>2, TextFacts
    <3> HIDE DEF a, m
    <3> QED
      BY <1>2, <2>0, <3>2
  <2>2. CASE sched + 1 <= i
    <3>1. m <= text.of[i]
      BY <1>1, <1>2, <2>0, <2>2, TextFacts
    <3> HIDE DEF a, m
    <3> QED
      BY <1>2, <2>0, <3>1
  <2> QED
    BY <1>1, <2>1, <2>2
<1>4. \A f \in Files : r[f] \in Files
  BY InspectAssumption
<1> HIDE DEF a, m
<1>5. 0 \in S
  <2>1. a + 0 = a
    BY <1>2
  <2> QED
    BY <2>1 DEF a
<1>6. ASSUME NEW k \in Nat, k \in S PROVE k + 1 \in S
  <2> SUFFICES ASSUME a + (k + 1) < m PROVE Agrees(g[a + (k + 1)], r)
    OBVIOUS
  <2> DEFINE n == a + (k + 1)
  <2>1. /\ n \in 1..Len(text.lines) /\ n - 1 = a + k /\ a + k < m /\ a < n /\ n < m
        /\ a + k \in 0..Len(text.lines)
    BY <1>2
  <2>2. text.lines[n] = [reads |-> {}, writes |-> {}, glob |-> FALSE]
    BY <1>3, <2>1, TextFacts
  <2>3. /\ g[n] = AfterStep(g[a + k], n, text.lines[n]) /\ g[a + k] \in StampRecords /\ n \in Nat
        /\ text.lines[n] \in Line
    BY <1>2, <2>1, TextFacts, StampsType
  <2> HIDE DEF g, n
  <2>4. /\ g[n].unknown = g[a + k].unknown
        /\ \A f \in Files : /\ g[n].lastWrite[f] = g[a + k].lastWrite[f]
                            /\ g[n].lastUse[f] = g[a + k].lastUse[f]
    BY <2>2, <2>3, AfterPlain
  <2>5. Agrees(g[a + k], r)
    BY <1>6, <2>1
  <2>6. Agrees(g[n], r)
    BY <1>4, <2>4, <2>5 DEF Agrees
  <2> QED
    BY <2>6 DEF n
<1>7. (m - 1) - a \in Nat /\ a + ((m - 1) - a) = m - 1 /\ m - 1 < m
  BY <1>2
<1>8. Nat \subseteq S
  <2> HIDE DEF S
  <2> QED
    BY <1>5, <1>6, SetInduction
<1>9. Agrees(g[a + ((m - 1) - a)], r)
  BY <1>7, <1>8
<1> QED
  BY <1>7, <1>9 DEF m

\* What the line of the next leaf declares.
LEMMA NextLine ==
  ASSUME TypeOK, IsText, sched < Len(prog), NEW r \in Renamings, AlignedBy(text, r)
  PROVE  LET l == text.lines[text.of[sched + 1]]
             k == prog[sched + 1]
         IN /\ k.reads \subseteq Files /\ k.writes \subseteq Files
            /\ l.glob = k.glob
            /\ l.reads = {r[f] : f \in k.reads} /\ l.writes = {r[f] : f \in k.writes}
            /\ \A f \in Files : /\ r[f] \in Files
                                /\ r[f] \in l.reads <=> f \in k.reads
                                /\ r[f] \in l.writes <=> f \in k.writes
<1>1. sched + 1 \in Ids /\ sched + 1 \in DOMAIN text.of /\ prog \in Seq(Leaf) /\ prog = text.leaves
  BY TextFacts DEF TypeOK, Ids, IsText
<1>2. prog[sched + 1].reads \subseteq Files /\ prog[sched + 1].writes \subseteq Files
  BY <1>1, LeafType DEF Ids
<1>3. r \in [Files -> Files] /\ \A f, g \in Files : r[f] = r[g] => f = g
  BY InspectAssumption
<1> DEFINE l == text.lines[text.of[sched + 1]]
           k == prog[sched + 1]
<1>4. l.glob = k.glob /\ l.reads = {r[f] : f \in k.reads} /\ l.writes = {r[f] : f \in k.writes}
  BY <1>1 DEF AlignedBy
<1> HIDE DEF l, k
<1>5. \A f \in Files : r[f] \in Files
  BY <1>3
<1>6. k.reads \subseteq Files /\ k.writes \subseteq Files
  BY <1>2 DEF k
<1>7. \A f \in Files : r[f] \in l.reads <=> f \in k.reads
  BY <1>3, <1>4, <1>6
<1>8. \A f \in Files : r[f] \in l.writes <=> f \in k.writes
  BY <1>3, <1>4, <1>6
<1> QED
  BY <1>4, <1>5, <1>6, <1>7, <1>8 DEF l, k

LEMMA MirrorStep ==
  ASSUME TypeOK, IsText, Mirror, ScheduleLeaf, UNCHANGED text
  PROVE  Mirror'
<1> SUFFICES ASSUME NEW r \in Renamings, AlignedBy(text, r)
             PROVE  Agrees(StampsAfter(text.lines)[LineOf(sched)], r)'
  BY DEF Mirror, LineOf
<1> DEFINE n == sched + 1
           l == prog[n]
           m == text.of[n]
           s == StampsAfter(text.lines)[m - 1]
           k == text.lines[m]
<1>1. /\ sched \in Nat /\ sched < Len(prog) /\ n \in Ids /\ n # 0
      /\ lastWrite \in [Files -> 0..Len(prog)] /\ lastUse \in [Files -> 0..Len(prog)]
  BY TextFacts DEF TypeOK, ScheduleLeaf, Ids
<1>2. sched' = n /\ prog' = prog /\ RecordLeaf(n, l) /\ text' = text
  BY DEF ScheduleLeaf
<1>3. Agrees(s, r)
  BY <1>1, IdleLines DEF Mirror
<1>4. m \in 1..Len(text.lines) /\ m - 1 \in 0..Len(text.lines) /\ m \in Nat /\ LineOf(n) = m
      /\ Len(text.lines) \in Nat
  BY <1>1, TextFacts DEF LineOf
<1>5. s \in StampRecords /\ StampsAfter(text.lines)[m] = AfterStep(s, m, k) /\ k \in Line
  BY <1>4, TextFacts, StampsType
<1>6. /\ k.glob = l.glob
      /\ \A f \in Files : /\ r[f] \in Files
                          /\ r[f] \in k.reads <=> f \in l.reads
                          /\ r[f] \in k.writes <=> f \in l.writes
  BY <1>1, NextLine
<1> HIDE DEF s, k, l, n, m
<1>7. /\ unknown' = IF l.glob THEN unknown \cup {n} ELSE unknown
      /\ \A f \in Files :
           /\ lastWrite'[f] = IF ~l.glob /\ f \in l.writes THEN n ELSE lastWrite[f]
           /\ lastUse'[f] = IF l.glob THEN lastUse[f]
                            ELSE IF f \in l.writes THEN 0
                            ELSE IF f \in l.reads THEN n ELSE lastUse[f]
  BY <1>2 DEF RecordLeaf
<1>8. \A d : (LineOf(d))' = LineOf(d)
  BY <1>2 DEF LineOf
<1>9. text.of[n] = m /\ LineOf(0) = 0
  BY DEF LineOf, m
<1>10. AfterStep(s, m, k).unknown = {text.of[d] : d \in unknown'}
  <2>1. s.unknown = {text.of[d] : d \in unknown}
    BY <1>3 DEF Agrees
  <2>2. AfterStep(s, m, k).unknown = IF k.glob THEN s.unknown \cup {m} ELSE s.unknown
    <3>1. CASE k.glob
      BY <1>4, <1>5, <3>1, AfterGlob
    <3>2. CASE ~k.glob
      BY <1>4, <1>5, <3>2, AfterPlain
    <3> QED
      BY <3>1, <3>2
  <2> QED
    BY <1>6, <1>7, <1>9, <2>1, <2>2
<1>11. ASSUME NEW f \in Files
       PROVE  /\ AfterStep(s, m, k).lastWrite[r[f]] = LineOf(lastWrite'[f])
              /\ AfterStep(s, m, k).lastUse[r[f]] = LineOf(lastUse'[f])
  <2>1. s.lastWrite[r[f]] = LineOf(lastWrite[f]) /\ s.lastUse[r[f]] = LineOf(lastUse[f])
    BY <1>3 DEF Agrees
  <2>2. /\ AfterStep(s, m, k).lastWrite[r[f]] =
             IF ~k.glob /\ r[f] \in k.writes THEN m ELSE s.lastWrite[r[f]]
        /\ AfterStep(s, m, k).lastUse[r[f]] =
             IF k.glob THEN s.lastUse[r[f]]
             ELSE IF r[f] \in k.writes THEN 0
             ELSE IF r[f] \in k.reads THEN m ELSE s.lastUse[r[f]]
    <3>1. CASE k.glob
      BY <1>4, <1>5, <3>1, AfterGlob
    <3>2. CASE ~k.glob
      BY <1>4, <1>5, <1>6, <3>2, AfterPlain
    <3> QED
      BY <3>1, <3>2
  <2> QED
    BY <1>4, <1>6, <1>7, <1>9, <2>1, <2>2
<1>12. StampsAfter(text.lines)[LineOf(sched')] = AfterStep(s, m, k)
  BY <1>2, <1>4, <1>5
<1> HIDE DEF StampRecords
<1> QED
  BY <1>2, <1>8, <1>10, <1>11, <1>12 DEF Agrees, LineOf

\* A leaf's dependencies are what the command shows for its line.
LEMMA ShownLeaf ==
  ASSUME TypeOK, Past, StampW, StampR, IsText, Mirror, sched < Len(prog), Aligned(text)
  PROVE  {text.of[d] : d \in FileDeps(prog[sched + 1])} =
           ShownWait(text.lines, text.of[sched + 1]) \cap {text.of[j] : j \in Ids}
<1> DEFINE n == sched + 1
           l == prog[n]
           m == text.of[n]
           s == StampsAfter(text.lines)[m - 1]
           k == text.lines[m]
<1>1. PICK r \in Renamings : AlignedBy(text, r)
  BY DEF Aligned, AlignedBy
<1>2. /\ sched \in Nat /\ n \in Ids /\ 1..sched \subseteq Ids /\ Len(prog) \in Nat
      /\ lastWrite \in [Files -> 0..Len(prog)] /\ lastUse \in [Files -> 0..Len(prog)]
      /\ prior = 1..sched /\ unknown \subseteq 1..sched
  BY TextFacts DEF TypeOK, Past, Ids
<1>3. Agrees(s, r)
  BY <1>1, IdleLines DEF Mirror
<1>4. m \in Nat /\ m # 0 /\ \A d \in Ids : text.of[d] \in Nat /\ text.of[d] # 0
  BY <1>2, TextFacts
<1>5. \A d \in 1..sched : d \in Ids /\ text.of[d] < m
  <2> SUFFICES ASSUME NEW d \in 1..sched PROVE text.of[d] < m
    BY <1>2
  <2>1. d \in Ids /\ d < n
    BY <1>2
  <2> QED
    BY <1>2, <2>1, TextFacts
<1>6. /\ k.glob = l.glob /\ l.reads \subseteq Files /\ l.writes \subseteq Files
      /\ k.reads = {r[f] : f \in l.reads} /\ k.writes = {r[f] : f \in l.writes}
  BY <1>1, NextLine
<1>7. CASE l.glob
  <2>1. FileDeps(l) = 1..sched /\ ShownWait(text.lines, m) = 1..m - 1
    BY <1>2, <1>6, <1>7 DEF FileDeps, ShownWait
  <2>2. ASSUME NEW j \in Ids, text.of[j] \in 1..m - 1 PROVE j \in 1..sched
    <3>1. text.of[j] < m /\ j \in Nat /\ j # 0
      BY <1>4, <2>2 DEF Ids
    <3>2. CASE j = n
      <4> HIDE DEF n
      <4> QED
        BY <1>4, <3>1, <3>2 DEF m
    <3>3. CASE n < j
      <4>1. m < text.of[j]
        BY <1>2, <3>3, TextFacts
      <4> HIDE DEF m
      <4> QED
        BY <1>4, <3>1, <4>1
    <3> QED
      BY <1>2, <3>1, <3>2, <3>3
  <2>3. \A d \in 1..sched : text.of[d] \in 1..m - 1
    <3> HIDE DEF m
    <3> QED
      BY <1>4, <1>5
  <2> HIDE DEF m, l
  <2> QED
    BY <1>2, <2>1, <2>2, <2>3 DEF l, m
<1>8. CASE ~l.glob
  <2> DEFINE X == {lastWrite[f] : f \in l.reads \cup l.writes} \cup {lastUse[f] : f \in l.writes}
  <2>1. FileDeps(l) = (X \ {0}) \cup unknown
    BY <1>8 DEF FileDeps
  <2>2. ShownWait(text.lines, m) =
          (({s.lastWrite[f] : f \in k.reads \cup k.writes} \cup {s.lastUse[f] : f \in k.writes})
             \cup s.unknown) \ {0, m}
    BY <1>6, <1>8 DEF ShownWait, InspectFileDeps
  <2> HIDE DEF s, k, l, m, n
  <2>3. /\ {s.lastWrite[f] : f \in k.reads \cup k.writes} = {LineOf(lastWrite[f]) : f \in l.reads \cup l.writes}
        /\ {s.lastUse[f] : f \in k.writes} = {LineOf(lastUse[f]) : f \in l.writes}
        /\ s.unknown = {text.of[d] : d \in unknown}
    <3>1. \A f \in Files : s.lastWrite[r[f]] = LineOf(lastWrite[f]) /\ s.lastUse[r[f]] = LineOf(lastUse[f])
      BY <1>3 DEF Agrees
    <3>2. k.reads \cup k.writes = {r[f] : f \in l.reads \cup l.writes}
      BY <1>6
    <3>3. {s.lastWrite[f] : f \in k.reads \cup k.writes} = {LineOf(lastWrite[f]) : f \in l.reads \cup l.writes}
      BY <1>6, <3>1, <3>2
    <3>4. {s.lastUse[f] : f \in k.writes} = {LineOf(lastUse[f]) : f \in l.writes}
      BY <1>6, <3>1
    <3> QED
      BY <1>3, <3>3, <3>4 DEF Agrees
  <2>4. ShownWait(text.lines, m) = ({LineOf(x) : x \in X} \cup {text.of[d] : d \in unknown}) \ {0, m}
    <3>1. {LineOf(x) : x \in X} = {LineOf(lastWrite[f]) : f \in l.reads \cup l.writes}
                                  \cup {LineOf(lastUse[f]) : f \in l.writes}
      OBVIOUS
    <3> HIDE DEF X
    <3> QED
      BY <2>2, <2>3, <3>1
  \* No stamp names the leaf itself.
  <2>5. X \subseteq 0..sched
    <3>1. \A f \in Files : lastWrite[f] \in 0..sched /\ lastUse[f] \in 0..sched
      BY DEF StampW, StampR
    <3> QED
      BY <1>6, <3>1
  <2> HIDE DEF X
  <2>6. \A x \in X \ {0} : x \in 1..sched /\ LineOf(x) = text.of[x]
    BY <1>2, <2>5 DEF LineOf
  <2>7. LineOf(0) = 0
    BY DEF LineOf
  <2>8. \A d \in 1..sched : text.of[d] \notin {0, m}
    <3>1. \A d \in 1..sched : text.of[d] < m /\ text.of[d] \in Nat /\ text.of[d] # 0
      BY <1>4, <1>5
    <3> QED
      BY <1>4, <3>1
  <2>9. ShownWait(text.lines, m) = {text.of[d] : d \in (X \ {0}) \cup unknown}
    BY <1>2, <2>4, <2>6, <2>7, <2>8
  <2>10. {text.of[d] : d \in (X \ {0}) \cup unknown} \subseteq {text.of[j] : j \in Ids}
    BY <1>2, <1>5, <2>6
  <2> QED
    BY <2>1, <2>9, <2>10 DEF m, l, n
<1> QED
  BY <1>7, <1>8

LEMMA ShownStep ==
  ASSUME TypeOK, Past, StampW, StampR, IsText, Mirror, AlikeShown, ScheduleLeaf, UNCHANGED text
  PROVE  AlikeShown'
<1> SUFFICES ASSUME Aligned(text), NEW i \in 1..sched'
             PROVE  {text.of[d] : d \in deps'[i]} =
                      ShownWait(text.lines, text.of[i]) \cap {text.of[j] : j \in DOMAIN text.of}
  <2>1. text' = text /\ (Aligned(text))' = Aligned(text)
    BY DEF Aligned
  <2> QED
    BY <2>1 DEF AlikeShown, WaitsShown
<1> DEFINE n == sched + 1
<1>1. /\ sched \in Nat /\ n \in Ids /\ DOMAIN text.of = Ids /\ deps \in [Ids -> SUBSET Ids]
      /\ 1..sched \subseteq Ids
  BY TextFacts DEF TypeOK, ScheduleLeaf, Ids
<1>2. sched' = n /\ sched < Len(prog) /\ deps' = [deps EXCEPT ![n] = FileDeps(prog[n])]
  BY DEF ScheduleLeaf
<1>3. CASE i = n
  BY <1>1, <1>2, <1>3, ShownLeaf
<1>4. CASE i # n
  <2>1. i \in 1..sched /\ deps'[i] = deps[i]
    BY <1>1, <1>2, <1>4
  <2> QED
    BY <2>1 DEF AlikeShown, WaitsShown
<1> QED
  BY <1>3, <1>4

\* The recipe command shows the truth about a text whose paths mean the same in
\* both directories: every task of a reconstruction waits for exactly the
\* commands that inspectRecipeGraph prints beside its own, for recipes of any
\* length and wherever lines are dropped.
THEOREM ShownTrue == InspectSpec => []AlikeShown
<1> DEFINE Inv == IsText /\ StampInv /\ OrderInv /\ Mirror /\ AlikeShown
<1>1. InspectInit => Inv
  <2> SUFFICES ASSUME InspectInit PROVE IsText /\ Mirror /\ AlikeShown
    BY InitOrder DEF InspectInit
  <2>1. IsText /\ sched = 0 /\ 1..sched = {} /\ LineOf(sched) = 0 /\ unknown = {}
    BY DEF InspectInit, Init, IsText, LineOf
  <2>2. StampsAfter(text.lines)[0] = Stamped
    BY <2>1, TextFacts, StampsType
  <2>3. \A f \in Files : /\ lastWrite[f] = 0 /\ lastUse[f] = 0
                         /\ Stamped.lastWrite[f] = 0 /\ Stamped.lastUse[f] = 0
    BY DEF InspectInit, Init, Stamped
  <2>4. \A r \in Renamings, f \in Files : r[f] \in Files
    BY InspectAssumption
  <2>5. Stamped.unknown = {text.of[d] : d \in unknown}
    BY <2>1 DEF Stamped
  <2> QED
    BY <2>1, <2>2, <2>3, <2>4, <2>5 DEF Mirror, Agrees, AlikeShown, WaitsShown, LineOf
<1>2. TypeOK /\ Inv /\ [Next /\ UNCHANGED text]_<<vars, text>> => Inv'
  <2> SUFFICES ASSUME IsText, TypeOK, StampInv, OrderInv, Mirror, AlikeShown, [Next]_vars,
                      UNCHANGED text
               PROVE  IsText' /\ Mirror' /\ AlikeShown'
    BY StampStep, OrderStep
  <2>0. IsText'
    <3>1. prog' = prog
      BY DEF Next, ScheduleLeaf, ScheduleError, StartLeaf, ReadFile, WriteFile, FinishLeaf,
             ToolError, CancelSession, RunScheduledReturns, Returned, vars
    <3> QED
      BY <3>1 DEF IsText
  <2>1. CASE ScheduleLeaf
    BY <2>0, <2>1, MirrorStep, ShownStep DEF StampInv
  <2>2. CASE ~ScheduleLeaf
    <3>1. UNCHANGED <<prog, sched, stamps, deps, text>>
      <4>1. CASE ScheduleError
        BY <4>1 DEF ScheduleError
      <4>2. CASE \E i \in Ids : StartLeaf(i) \/ FinishLeaf(i) \/ ToolError(i)
        BY <4>2 DEF StartLeaf, FinishLeaf, ToolError
      <4>3. CASE \E i \in Ids, f \in Files : ReadFile(i, f) \/ WriteFile(i, f)
        BY <4>3 DEF ReadFile, WriteFile
      <4>4. CASE CancelSession \/ RunScheduledReturns
        BY <4>4 DEF CancelSession, RunScheduledReturns
      <4>5. CASE UNCHANGED vars \/ Returned
        BY <4>5 DEF Returned, vars, stamps
      <4> QED
        BY <2>2, <4>1, <4>2, <4>3, <4>4, <4>5 DEF Next
    <3>2. UNCHANGED <<prog, sched, deps, text, lastWrite, lastUse, unknown>>
      BY <3>1 DEF stamps
    <3>3. Mirror'
      <4> SUFFICES ASSUME NEW r \in Renamings, AlignedBy(text, r)
                   PROVE  Agrees(StampsAfter(text.lines)[LineOf(sched)], r)'
        BY <3>2 DEF Mirror, AlignedBy
      <4>1. Agrees(StampsAfter(text.lines)[LineOf(sched)], r)
        BY DEF Mirror
      <4>2. (StampsAfter(text.lines)[LineOf(sched)])' = StampsAfter(text.lines)[LineOf(sched)]
        BY <3>2 DEF LineOf
      <4>3. \A d : (LineOf(d))' = LineOf(d)
        BY <3>2 DEF LineOf
      <4> QED
        BY <3>2, <4>1, <4>2, <4>3 DEF Agrees, LineOf
    <3>4. AlikeShown'
      <4>1. (Aligned(text))' = Aligned(text) /\ Ids' = Ids
        BY <3>2 DEF Aligned, Ids
      <4>2. (WaitsShown)' = WaitsShown
        BY <3>2 DEF WaitsShown
      <4> QED
        BY <4>1, <4>2 DEF AlikeShown
    <3> QED
      BY <2>0, <3>3, <3>4
  <2> QED
    BY <2>1, <2>2
<1>3. InspectInit => Init
  BY DEF InspectInit
<1>4. [Next /\ UNCHANGED text]_<<vars, text>> => [Next]_vars
  OBVIOUS
<1> HIDE DEF Inv
<1>5. Inv => AlikeShown
  BY DEF Inv
<1> QED
  BY <1>1, <1>2, <1>3, <1>4, <1>5, TypeCorrect, PTL DEF InspectSpec, Spec

=============================================================================
