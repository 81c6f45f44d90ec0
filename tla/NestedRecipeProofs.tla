------------------------- MODULE NestedRecipeProofs -------------------------
(***************************************************************************)
(* Proofs about recipes that call recipes, for every recipe and whatever   *)
(* it calls: when a second goroutine uses the stamps, which no lock        *)
(* protects (StampsUnshared), and that the commands of nested recipes run  *)
(* as one batch file would (NestedSerializable).                           *)
(*                                                                         *)
(* A goroutine beside the scheduling one is a Control leaf at work, and a  *)
(* call becomes a Control leaf only if the recipe is not there when its    *)
(* caller is scheduled: it never was, or a leaf that has already run moved *)
(* it away.                                                                *)
(*                                                                         *)
(* Serializability is the argument of RecipeScheduleProofs, once the       *)
(* leaves have been put in the order of the text.  When nothing follows a  *)
(* Control leaf but what it calls, only the goroutine that began last      *)
(* spawns, and each leaf it spawns comes after all others in the text      *)
(* (TextOrder).  At that moment every command has been recorded, and what  *)
(* an older goroutine has yet to record is a Control leaf (Stamping).  So  *)
(* a Control leaf may be missing among the dependencies of what it spawns; *)
(* it has started itself, and therefore all commands before it are over    *)
(* (NestedOver, NestedStart).                                              *)
(***************************************************************************)
EXTENDS NestedRecipe, FiniteSetTheorems, SequenceTheorems, TLAPS

\* Leaves are only ever added, and each has its set of written files.
Grows == (\E S : prog \in Seq(S)) /\ wrote \in Seq(SUBSET Files) /\ Len(wrote) = Len(prog)

\* A leaf has removed file f.
Removed(f) == \E j \in Ids : f \in prog[j].drops \cap wrote[j]

\* What was there and is gone has been removed.
GoneRemoved == \A f \in script.there : f \in present \/ Removed(f)

\* Who stamps beside the scheduling goroutine, and why.
ControlMissing == \A i \in Control : Called(prog[i]) \notin script.there \/ Removed(Called(prog[i]))

SchedulersControl == Schedulers \subseteq Control \cup {0}

RacedControl == raced => Control # {}

OneInv == Grows /\ GoneRemoved /\ ControlMissing /\ SchedulersControl /\ RacedControl

-----------------------------------------------------------------------------
\* Leaves stay, and so does what they have removed.
Kept ==
  /\ script' = script
  /\ Ids \subseteq Ids'
  /\ \A i \in Ids : prog'[i] = prog[i] /\ wrote[i] \subseteq wrote'[i]

\* What leaves and removals that stay entail.
LEMMA KeptFacts ==
  ASSUME Kept
  PROVE  /\ Control \subseteq Control'
         /\ \A f : Removed(f) => Removed(f)'
  BY DEF Kept, Control, Removed

\* A step that adds no leaf.
LEMMA SameLeaves ==
  ASSUME OneInv, prog' = prog, script' = script,
         wrote' = wrote \/ \E i \in Ids, f \in Files : wrote' = [wrote EXCEPT ![i] = @ \cup {f}],
         \A f \in script.there : f \in present /\ f \notin present' => Removed(f)',
         Schedulers' \subseteq Control \cup {0},
         raced' => raced \/ \E g, h \in Schedulers : g # h
  PROVE  OneInv'
<1>1. PICK S : prog \in Seq(S)
  BY DEF OneInv, Grows
<1>2. Len(prog) \in Nat /\ wrote \in Seq(SUBSET Files) /\ Len(wrote) = Len(prog) /\ Ids' = Ids
      /\ Ids = 1..Len(prog)
  BY <1>1 DEF OneInv, Grows, Ids
<1>3. wrote \in [1..Len(prog) -> SUBSET Files]
  BY <1>2
<1>4. wrote' \in [1..Len(prog) -> SUBSET Files] /\ \A i \in Ids : wrote[i] \subseteq wrote'[i]
  BY <1>2, <1>3
<1>5. Grows'
  <2>1. wrote' \in Seq(SUBSET Files) /\ Len(wrote') = Len(prog)
    BY <1>2, <1>4
  <2> QED
    BY <1>1, <2>1 DEF Grows
<1>6. Kept /\ Control' = Control
  BY <1>2, <1>4 DEF Kept, Control
<1>7. GoneRemoved'
  BY <1>6, KeptFacts DEF OneInv, GoneRemoved
<1>8. ControlMissing'
  BY <1>6, KeptFacts DEF OneInv, ControlMissing
<1>9. SchedulersControl' /\ RacedControl'
  BY <1>6 DEF OneInv, SchedulersControl, RacedControl
<1> QED
  BY <1>5, <1>7, <1>8, <1>9 DEF OneInv

\* The call of a recipe that is not there becomes a leaf.
LEMMA SpawnStep ==
  ASSUME OneInv, NEW g \in Schedulers, Spawn(g)
  PROVE  OneInv'
<1>1. PICK S : prog \in Seq(S)
  BY DEF OneInv, Grows
<1> DEFINE line == Here(g)
           n == Len(prog) + 1
<1>2. /\ prog' = Append(prog, line) /\ wrote' = Append(wrote, {}) /\ script' = script
      /\ present' = present /\ ~Exists(line) /\ Schedulers' = Schedulers
      /\ raced' = (raced \/ \E h \in Schedulers \ {g} : at[h] = "stamping")
  BY DEF Spawn, MustSpawn, Touches, Schedulers
<1>3. Len(prog) \in Nat /\ wrote \in Seq(SUBSET Files) /\ Len(wrote) = Len(prog) /\ Ids = 1..Len(prog)
  BY <1>1 DEF OneInv, Grows, Ids
<1> HIDE DEF line
<1>4. prog' \in Seq(S \cup {line}) /\ Len(prog') = n /\ prog'[n] = line
      /\ \A i \in Ids : prog'[i] = prog[i]
  <2>1. prog \in Seq(S \cup {line})
    BY <1>1
  <2> QED
    BY <1>2, <1>3, <2>1
<1>5. wrote' \in Seq(SUBSET Files) /\ Len(wrote') = n /\ \A i \in Ids : wrote'[i] = wrote[i]
  BY <1>2, <1>3
<1>6. Ids' = Ids \cup {n}
  BY <1>3, <1>4 DEF Ids
<1>7. Grows'
  BY <1>4, <1>5 DEF Grows
<1>8. Kept
  BY <1>2, <1>4, <1>5, <1>6 DEF Kept
<1>9. GoneRemoved'
  BY <1>2, <1>8, KeptFacts DEF OneInv, GoneRemoved
<1>10. Control' \subseteq Control \cup {n} /\ (n \in Control' => line.recipe)
  BY <1>4, <1>6 DEF Control
<1>11. ControlMissing'
  <2>1. ASSUME n \in Control'
        PROVE  Called(line) \notin script.there \/ Removed(Called(line))
    BY <1>2, <1>10, <2>1 DEF Exists, OneInv, GoneRemoved
  <2>2. ASSUME NEW i \in Control
        PROVE  /\ prog'[i] = prog[i]
               /\ Called(prog[i]) \notin script.there \/ Removed(Called(prog[i]))
    BY <1>4 DEF Control, OneInv, ControlMissing
  <2> QED
    BY <1>2, <1>4, <1>8, <1>10, <2>1, <2>2, KeptFacts DEF ControlMissing
<1>12. SchedulersControl' /\ RacedControl'
  BY <1>2, <1>8, KeptFacts DEF OneInv, SchedulersControl, RacedControl
<1> QED
  BY <1>7, <1>9, <1>11, <1>12 DEF OneInv

\* Every step keeps who stamps, and why.
LEMMA OneStep == OneInv /\ [NestedNext]_all => OneInv'
<1> SUFFICES ASSUME OneInv, [NestedNext]_all PROVE OneInv'
  OBVIOUS
<1>0. Schedulers \subseteq Control \cup {0}
  BY DEF OneInv, SchedulersControl
<1>1. CASE \E g \in Schedulers : Spawn(g)
  BY <1>1, SpawnStep
<1>2. CASE \E g \in Schedulers : ReadCalled(g) \/ LoadStamps(g) \/ StoreStamps(g) \/ ScheduleFails(g)
  <2>1. PICK g \in Schedulers : ReadCalled(g) \/ LoadStamps(g) \/ StoreStamps(g) \/ ScheduleFails(g)
    BY <1>2
  <2>2. prog' = prog /\ wrote' = wrote /\ script' = script /\ present' = present
    BY <2>1 DEF ReadCalled, LoadStamps, StoreStamps, ScheduleFails, vars, stamps
  <2>5. raced' => raced \/ \E h \in Schedulers \ {g} : at[h] = "stamping"
    <3>1. raced' = raced \/ Touches(g)
      BY <2>1 DEF ReadCalled, LoadStamps, StoreStamps, ScheduleFails
    <3> QED
      BY <3>1, Zenon DEF Touches
  <2>3. todo' = todo \/ Inline(g)
    BY <2>1 DEF ReadCalled, LoadStamps, StoreStamps, ScheduleFails
  <2>4. Schedulers' = Schedulers
    BY <2>3 DEF Inline, Schedulers
  <2> QED
    BY <1>0, <2>2, <2>4, <2>5, SameLeaves
<1>3. CASE \E i \in Ids : ExpandRecipe(i)
  <2>1. PICK i \in Ids : ExpandRecipe(i)
    BY <1>3
  <2>2. /\ prog' = prog /\ wrote' = wrote /\ script' = script /\ present' = present /\ raced' = raced
        /\ i \in Control
    BY <2>1 DEF ExpandRecipe, stamps
  <2>3. Schedulers' \subseteq Schedulers \cup {i}
    BY <2>1 DEF ExpandRecipe, Schedulers, Joined
  <2> QED
    BY <1>0, <2>2, <2>3, SameLeaves
<1>4. CASE \E i \in Ids : RunCommand(i)
  <2>1. PICK i \in Ids : RunCommand(i)
    BY <1>4
  <2>2. script' = script /\ todo' = todo /\ raced' = raced
    BY <2>1 DEF RunCommand
  <2>3. CASE \E f \in Files : WriteFile(i, f)
    <3>1. PICK f \in Files : WriteFile(i, f)
      BY <2>3
    <3>2. /\ prog' = prog /\ wrote' = [wrote EXCEPT ![i] = @ \cup {f}]
          /\ f \in prog[i].drops \/ present \subseteq present'
          /\ present \ {f} \subseteq present'
      BY <3>1 DEF WriteFile
    <3>3. f \in wrote'[i] /\ Ids' = Ids
      <4>1. PICK S : prog \in Seq(S)
        BY DEF OneInv, Grows
      <4>2. wrote \in Seq(SUBSET Files) /\ i \in 1..Len(wrote)
        BY DEF OneInv, Grows, Ids
      <4>3. i \in DOMAIN wrote
        BY <4>2
      <4> QED
        BY <3>2, <4>3 DEF Ids
    <3>4. \A h \in script.there : h \in present /\ h \notin present' => Removed(h)'
      BY <3>2, <3>3 DEF Removed
    <3> QED
      BY <1>0, <2>2, <3>2, <3>4, SameLeaves DEF Schedulers
  <2>4. CASE FinishLeaf(i) \/ \E f \in Files : ReadFile(i, f)
    <3>1. prog' = prog /\ wrote' = wrote /\ present' = present
      BY <2>4 DEF FinishLeaf, ReadFile
    <3> QED
      BY <1>0, <2>2, <3>1, SameLeaves DEF Schedulers
  <2> QED
    BY <2>1, <2>3, <2>4 DEF RunCommand
<1>5. CASE Throw
  <2>1. /\ prog' = prog /\ wrote' = wrote /\ script' = script /\ present' = present /\ todo' = todo
        /\ \E g, h \in Schedulers : g # h
    BY <1>5 DEF Throw, stamps
  <2> QED
    BY <1>0, <2>1, SameLeaves DEF Schedulers
<1>6. CASE \/ \E i \in Ids : StartTask(i) \/ FinishExpanded(i)
           \/ RecipeReturns \/ Fault \/ Over \/ UNCHANGED all
  <2>1. /\ prog' = prog /\ wrote' = wrote /\ script' = script /\ present' = present /\ todo' = todo
        /\ raced' = raced
    BY <1>6 DEF StartTask, StartLeaf, FinishExpanded, FinishLeaf, RecipeReturns, Fault, CancelSession,
      ToolError, Over, all, vars
  <2> QED
    BY <1>0, <2>1, SameLeaves DEF Schedulers
<1> QED
  BY <1>1, <1>2, <1>3, <1>4, <1>5, <1>6 DEF NestedNext, Progress, Schedule, Task

\* At the start one goroutine is alone with the stamps.
LEMMA OneInit == NestedInit => OneInv
<1> SUFFICES ASSUME NestedInit PROVE OneInv
  OBVIOUS
<1>1. prog = <<>> /\ wrote = <<>> /\ present = script.there /\ raced = FALSE /\ Ids = {}
  BY DEF NestedInit, Ids
<1>2. Schedulers = {0}
  BY DEF NestedInit, Schedulers
<1> QED
  BY <1>1, <1>2 DEF OneInv, Grows, GoneRemoved, ControlMissing, SchedulersControl, RacedControl, Control

\* Two goroutines use the stamps at once only if a recipe was called that did
\* not exist from the start, or that a leaf had already moved away: scheduling
\* alone never races with itself, whatever is nested in what.
THEOREM StampsUnshared == NestedSpec => []OneScheduler
<1>1. OneInv => OneScheduler
  <2> SUFFICES ASSUME OneInv, raced PROVE \E i \in Control :
                 LET f == Called(prog[i])
                 IN f \notin script.there \/ \E j \in Ids : f \in prog[j].drops \cap wrote[j]
    BY DEF OneScheduler
  <2>1. PICK i \in Control : TRUE
    BY DEF OneInv, RacedControl
  <2> QED
    BY <2>1 DEF OneInv, ControlMissing, Removed
<1> QED
  BY <1>1, OneInit, OneStep, PTL DEF NestedSpec

-----------------------------------------------------------------------------
(* Places in the text.                                                     *)

\* A place is before another one in the text, without being above it.
Left(p, q) ==
  \E k \in 1..Len(p) : /\ k <= Len(q)
                       /\ p[k] < q[k]
                       /\ \A j \in 1..k - 1 : p[j] = q[j]

\* Before, in its two parts.
LEMMA BeforeMeans == \A p, q : Before(p, q) <=> IsStrictPrefix(p, q) \/ Left(p, q)
  BY DEF Before, Left

\* A prefix, element by element.
LEMMA PrefixMeans ==
  ASSUME NEW p \in Seq(Nat), NEW q \in Seq(Nat)
  PROVE  IsPrefix(p, q) <=> Len(p) <= Len(q) /\ \A k \in 1..Len(p) : p[k] = q[k]
<1>1. Len(p) \in Nat /\ Len(q) \in Nat
  OBVIOUS
<1>2. ASSUME Len(p) <= Len(q)
      PROVE  /\ Len(SubSeq(p, 1, Len(p))) = Len(p) /\ Len(SubSeq(q, 1, Len(p))) = Len(p)
             /\ SubSeq(p, 1, Len(p)) \in Seq(Nat) /\ SubSeq(q, 1, Len(p)) \in Seq(Nat)
             /\ \A k \in 1..Len(p) : SubSeq(p, 1, Len(p))[k] = p[k] /\ SubSeq(q, 1, Len(p))[k] = q[k]
  BY <1>1, <1>2
<1>3. ASSUME Len(p) <= Len(q), \A k \in 1..Len(p) : p[k] = q[k]
      PROVE  SubSeq(p, 1, Len(p)) = SubSeq(q, 1, Len(p))
  <2> DEFINE s == SubSeq(p, 1, Len(p))
             t == SubSeq(q, 1, Len(p))
  <2>1. s \in Seq(Nat) /\ t \in Seq(Nat) /\ Len(s) = Len(t) /\ \A k \in 1..Len(s) : s[k] = t[k]
    BY <1>2, <1>3
  <2> HIDE DEF s, t
  <2>2. s = t
    BY <2>1, SeqEqual
  <2> QED
    BY <2>2 DEF s, t
<1> QED
  BY <1>2, <1>3 DEF IsPrefix

\* The next place down.
LEMMA AppendBelow ==
  ASSUME NEW p \in Seq(Nat), NEW k \in Nat
  PROVE  /\ Append(p, k) \in Seq(Nat) /\ Append(p, k) # <<>>
         /\ IsStrictPrefix(p, Append(p, k)) /\ Before(p, Append(p, k))
         /\ p # <<>> => Append(p, k)[1] = p[1]
         /\ p = <<>> => Append(p, k)[1] = k
         /\ \A m \in Nat : k < m => Left(Append(p, k), Append(p, m))
<1>1. /\ Append(p, k) \in Seq(Nat) /\ Len(Append(p, k)) = Len(p) + 1 /\ Len(p) \in Nat
      /\ \A j \in 1..Len(p) : Append(p, k)[j] = p[j]
      /\ Append(p, k)[Len(p) + 1] = k
  OBVIOUS
<1>2. IsStrictPrefix(p, Append(p, k))
  <2> DEFINE q == Append(p, k)
  <2>1. q \in Seq(Nat) /\ Len(p) <= Len(q) /\ (\A j \in 1..Len(p) : p[j] = q[j]) /\ p # q
    BY <1>1
  <2> HIDE DEF q
  <2>2. IsStrictPrefix(p, q)
    BY <2>1, PrefixMeans DEF IsStrictPrefix
  <2> QED
    BY <2>2 DEF q
<1>3. ASSUME NEW m \in Nat, k < m
      PROVE  Left(Append(p, k), Append(p, m))
  <2>1. /\ Append(p, m) \in Seq(Nat) /\ Len(Append(p, m)) = Len(p) + 1
        /\ \A j \in 1..Len(p) : Append(p, m)[j] = p[j]
        /\ Append(p, m)[Len(p) + 1] = m
    OBVIOUS
  <2>2. Len(p) + 1 \in 1..Len(Append(p, k))
    BY <1>1
  <2> QED
    BY <1>1, <1>3, <2>1, <2>2 DEF Left
<1> QED
  BY <1>1, <1>2, <1>3, BeforeMeans

\* What is left of a place is left of everything below it.
LEMMA LeftOfBelow ==
  ASSUME NEW p \in Seq(Nat), NEW q \in Seq(Nat), NEW r \in Seq(Nat),
         Left(p, q), IsPrefix(q, r)
  PROVE  Left(p, r)
<1>1. Len(p) \in Nat /\ Len(q) \in Nat /\ Len(r) \in Nat
  OBVIOUS
<1>2. Len(q) <= Len(r) /\ \A k \in 1..Len(q) : q[k] = r[k]
  BY PrefixMeans
<1>3. PICK k \in 1..Len(p) : k <= Len(q) /\ p[k] < q[k] /\ \A j \in 1..k - 1 : p[j] = q[j]
  BY DEF Left
<1>4. k <= Len(r) /\ p[k] < r[k] /\ \A j \in 1..k - 1 : p[j] = r[j]
  BY <1>1, <1>2, <1>3
<1> QED
  BY <1>4 DEF Left

\* What is below a place that is to the left is to the left.
LEMMA BelowLeft ==
  ASSUME NEW p \in Seq(Nat), NEW q \in Seq(Nat), NEW r \in Seq(Nat),
         Left(p, q), IsPrefix(p, r)
  PROVE  Left(r, q)
<1>1. Len(p) \in Nat /\ Len(q) \in Nat /\ Len(r) \in Nat
  OBVIOUS
<1>2. Len(p) <= Len(r) /\ \A k \in 1..Len(p) : p[k] = r[k]
  BY PrefixMeans
<1>3. PICK k \in 1..Len(p) : k <= Len(q) /\ p[k] < q[k] /\ \A j \in 1..k - 1 : p[j] = q[j]
  BY DEF Left
<1>4. k \in 1..Len(r) /\ r[k] < q[k] /\ \A j \in 1..k - 1 : r[j] = q[j]
  BY <1>1, <1>2, <1>3
<1> QED
  BY <1>3, <1>4 DEF Left

\* A place to the left is not above.
LEMMA LeftNotAbove ==
  ASSUME NEW p \in Seq(Nat), NEW q \in Seq(Nat), Left(p, q)
  PROVE  ~IsPrefix(p, q)
<1>1. PICK k \in 1..Len(p) : k <= Len(q) /\ p[k] < q[k]
  BY DEF Left
<1> QED
  BY <1>1, PrefixMeans

\* Left is transitive.
LEMMA LeftTransitive ==
  ASSUME NEW p \in Seq(Nat), NEW q \in Seq(Nat), NEW r \in Seq(Nat),
         Left(p, q), Left(q, r)
  PROVE  Left(p, r)
<1>1. PICK k \in 1..Len(p) : k <= Len(q) /\ p[k] < q[k] /\ \A j \in 1..k - 1 : p[j] = q[j]
  BY DEF Left
<1>2. PICK m \in 1..Len(q) : m <= Len(r) /\ q[m] < r[m] /\ \A j \in 1..m - 1 : q[j] = r[j]
  BY DEF Left
<1> DEFINE n == IF k < m THEN k ELSE m
<1>3. Len(p) \in Nat /\ Len(q) \in Nat /\ Len(r) \in Nat
  OBVIOUS
<1>4. n \in 1..Len(p) /\ n <= Len(r) /\ \A j \in 1..n - 1 : p[j] = r[j]
  <2>1. n \in 1..Len(p) /\ n <= Len(r) /\ n <= k /\ n <= m
    BY <1>1, <1>2, <1>3
  <2>2. ASSUME NEW j \in 1..n - 1 PROVE p[j] = r[j]
    <3>1. j \in 1..k - 1 /\ j \in 1..m - 1
      BY <1>1, <1>2, <2>1, <2>2
    <3> QED
      BY <1>1, <1>2, <3>1
  <2> QED
    BY <2>1, <2>2
<1>5. p[n] < r[n]
  <2>1. CASE k < m
    <3>1. n = k /\ k \in 1..m - 1
      BY <1>1, <1>2, <2>1
    <3> QED
      BY <1>1, <1>2, <3>1
  <2>2. CASE m < k
    <3>1. n = m /\ m \in 1..k - 1
      BY <1>1, <1>2, <2>2
    <3> QED
      BY <1>1, <1>2, <3>1
  <2>3. CASE k = m
    <3>1. n = k /\ k \in 1..Len(p) /\ k \in 1..Len(q) /\ k \in 1..Len(r)
      BY <1>1, <1>2, <1>3, <2>3
    <3>2. p[k] \in Nat /\ q[k] \in Nat /\ r[k] \in Nat
      <4>1. \A s \in Seq(Nat) : \A x \in 1..Len(s) : s[x] \in Nat
        OBVIOUS
      <4> QED
        BY <3>1, <4>1
    <3> QED
      BY <1>1, <1>2, <2>3, <3>1, <3>2
  <2> QED
    BY <1>3, <2>1, <2>2, <2>3
<1> HIDE DEF n
<1> QED
  BY <1>4, <1>5 DEF Left

\* Prefixes of prefixes.
LEMMA PrefixTransitive ==
  ASSUME NEW p \in Seq(Nat), NEW q \in Seq(Nat), NEW r \in Seq(Nat),
         IsPrefix(p, q), IsPrefix(q, r)
  PROVE  IsPrefix(p, r)
<1>1. Len(p) \in Nat /\ Len(q) \in Nat /\ Len(r) \in Nat
  OBVIOUS
<1> QED
  BY <1>1, PrefixMeans

\* The order of the text is a strict order.
LEMMA BeforeOrder ==
  ASSUME NEW p \in Seq(Nat), NEW q \in Seq(Nat)
  PROVE  /\ ~Before(p, p)
         /\ \A r \in Seq(Nat) : Before(p, q) /\ Before(q, r) => Before(p, r)
         /\ ~(Before(p, q) /\ Before(q, p))
<1>1. ASSUME NEW s \in Seq(Nat) PROVE ~Before(s, s)
  <2>1. ~Left(s, s)
    <3>1. \A k \in 1..Len(s) : ~(s[k] < s[k])
      OBVIOUS
    <3> QED
      BY <3>1 DEF Left
  <2> QED
    BY <2>1, BeforeMeans DEF IsStrictPrefix
<1>2. ASSUME NEW s \in Seq(Nat), NEW t \in Seq(Nat), NEW r \in Seq(Nat), Before(s, t), Before(t, r)
      PROVE  Before(s, r)
  <2>1. CASE Left(s, t)
    <3>1. CASE Left(t, r)
      BY <2>1, <3>1, LeftTransitive, BeforeMeans
    <3>2. CASE IsStrictPrefix(t, r)
      BY <2>1, <3>2, LeftOfBelow, BeforeMeans DEF IsStrictPrefix
    <3> QED
      BY <1>2, <3>1, <3>2, BeforeMeans
  <2>2. CASE IsStrictPrefix(s, t)
    <3>1. CASE IsStrictPrefix(t, r)
      <4>1. IsPrefix(s, r)
        BY <2>2, <3>1, PrefixTransitive DEF IsStrictPrefix
      <4>2. s # r
        <5> SUFFICES ASSUME s = r PROVE FALSE
          OBVIOUS
        <5>1. Len(s) = Len(t) /\ \A k \in 1..Len(s) : s[k] = t[k]
          BY <2>2, <3>1, PrefixMeans DEF IsStrictPrefix
        <5>2. s = t
          BY <5>1, SeqEqual
        <5> QED
          BY <2>2, <5>2 DEF IsStrictPrefix
      <4> QED
        BY <4>1, <4>2, BeforeMeans DEF IsStrictPrefix
    <3>2. CASE Left(t, r)
      <4>1. PICK k \in 1..Len(t) : k <= Len(r) /\ t[k] < r[k] /\ \A j \in 1..k - 1 : t[j] = r[j]
        BY <3>2 DEF Left
      <4>2. Len(s) <= Len(t) /\ \A j \in 1..Len(s) : s[j] = t[j]
        BY <2>2, PrefixMeans DEF IsStrictPrefix
      <4>3. Len(s) \in Nat /\ Len(t) \in Nat /\ Len(r) \in Nat
        OBVIOUS
      <4>4. CASE k <= Len(s)
        <5>1. k \in 1..Len(s) /\ s[k] < r[k] /\ \A j \in 1..k - 1 : s[j] = r[j]
          BY <4>1, <4>2, <4>3, <4>4
        <5>2. Left(s, r)
          BY <4>1, <5>1 DEF Left
        <5> QED
          BY <5>2, BeforeMeans
      <4>5. CASE Len(s) < k
        <5>1. Len(s) < Len(r) /\ \A j \in 1..Len(s) : s[j] = r[j]
          BY <4>1, <4>2, <4>3, <4>5
        <5>2. IsPrefix(s, r)
          BY <4>3, <5>1, PrefixMeans
        <5>3. s # r
          BY <4>3, <5>1
        <5> QED
          BY <5>2, <5>3, BeforeMeans DEF IsStrictPrefix
      <4> QED
        BY <4>3, <4>4, <4>5
    <3> QED
      BY <1>2, <3>1, <3>2, BeforeMeans
  <2> QED
    BY <1>2, <2>1, <2>2, BeforeMeans
<1> QED
  BY <1>1, <1>2

-----------------------------------------------------------------------------
(* The invariant.                                                          *)

\* What a line has, wherever it stands.
IsLine(l) ==
  /\ l.reads \subseteq Files /\ l.writes \subseteq Files
  /\ l.uses \subseteq Files /\ l.puts \subseteq Files
  /\ l.glob \in BOOLEAN
  /\ l.recipe \in BOOLEAN
  /\ l.recipe => IsCall(l)
  /\ l.pos \in Seq(Nat) /\ l.pos # <<>> /\ l.pos[1] <= Len(script.main)

\* The lines of a goroutine come one after the other in the text.
Sorted(lines) ==
  \A j, k \in DOMAIN lines : j < k => Left(lines[j].pos, lines[k].pos)

\* A sequence with an element for every leaf.
Tracks(s, S) == s \in Seq(S) /\ Len(s) = Len(prog)

LeavesTyped ==
  /\ \E S : prog \in Seq(S)
  /\ \A i \in Ids : IsLine(prog[i])
  /\ sched = Len(prog)
  /\ Tracks(deps, SUBSET Nat) /\ \A i \in Ids : deps[i] \subseteq 1..i - 1
  /\ Tracks(got, [Files -> Int]) /\ Tracks(wrote, SUBSET Files)
  /\ store \in [Files -> 0..Len(prog)]
  /\ lastWrite \in [Files -> 0..Len(prog)] /\ lastUse \in [Files -> 0..Len(prog)]
  /\ prior \subseteq Ids /\ unknown \subseteq Ids
  /\ finished \subseteq started /\ started \subseteq Ids

SchedulersTyped ==
  /\ script \in Script /\ script \in Scripts
  /\ 0 \in Schedulers
  /\ Schedulers \subseteq (Control \cap started) \cup {0}
  /\ at \in [Schedulers -> {"line", "spawned", "stamping"}]
  /\ loaded \in [Schedulers -> [prior : SUBSET Ids, unknown : SUBSET Ids]]
  /\ last \in [Schedulers -> 0..Len(prog)]
  /\ \A g \in Schedulers :
       /\ at[g] # "line" => last[g] \in Ids
       /\ \E S : todo[g] \in Seq(S)
       /\ \A k \in DOMAIN todo[g] : IsLine(todo[g][k])
       /\ Sorted(todo[g])
       /\ g # 0 => \A k \in DOMAIN todo[g] : IsStrictPrefix(prog[g].pos, todo[g][k].pos)

Typed == LeavesTyped /\ SchedulersTyped

\* The leaves are spawned in the order of the text, by the goroutine that
\* began last.
TextOrder ==
  /\ \A i, j \in Ids : i < j => Before(prog[i].pos, prog[j].pos)
  /\ \A g \in Schedulers : \A k \in DOMAIN todo[g] :
       \A i \in Ids : Before(prog[i].pos, todo[g][k].pos)
  /\ \A g \in Schedulers, c \in Control : g < c =>
       /\ last[g] <= c
       /\ \A k \in DOMAIN todo[g] : Left(prog[c].pos, todo[g][k].pos)
  /\ \A c \in Control \ Schedulers : c = Len(prog)

TextInv == ControlLast => TextOrder

\* Nobody else uses the stamps while they are being updated, and of the leaves
\* that are yet to be recorded only the last one can be a command.
Stamping ==
  /\ \A g \in Schedulers : at[g] = "stamping" =>
       /\ loaded[g].prior = prior /\ loaded[g].unknown = unknown
       /\ \A h \in Schedulers : at[h] = "stamping" => h = g
  /\ \A g \in Schedulers : at[g] # "line" => last[g] \in Control \cup {Len(prog)}
  /\ \A i \in Ids \ prior : \E g \in Schedulers : at[g] # "line" /\ last[g] = i
  /\ unknown = {i \in prior : prog[i].glob}

StampedWrites ==
  \A f \in Files :
    /\ lastWrite[f] # 0 => ~prog[lastWrite[f]].glob /\ f \in prog[lastWrite[f]].writes
    /\ \A i \in prior : ~prog[i].glob /\ f \in prog[i].writes => i <= lastWrite[f]

StampedReads ==
  \A f \in Files :
    /\ lastUse[f] # 0 =>
         ~prog[lastUse[f]].glob /\ f \in prog[lastUse[f]].reads \ prog[lastUse[f]].writes
    /\ \A i \in prior :
         (~prog[i].glob /\ f \in prog[i].reads \ prog[i].writes /\ lastWrite[f] < i)
           => i <= lastUse[f]

\* A command that leaf j must not overtake is a dependency of j or is followed
\* by one.
NestedDeps ==
  \A i \in Ids \ Control, j \in Ids : i < j /\ Follows(prog, i, j) =>
    \/ i \in deps[j]
    \/ \E k \in deps[j] : i < k /\ k < j /\ Follows(prog, i, k)

\* A reader that j overwrites too, unless a Control leaf came in between: it
\* has started, so the reader has finished.
NestedOver ==
  SingleReader(prog) =>
    \A i \in Ids \ Control, j \in Ids : i < j /\ Overwrites(prog, i, j) =>
      \/ Follows(prog, i, j)
      \/ i \in deps[j]
      \/ \E k \in deps[j] : i < k /\ k < j
                            /\ (Follows(prog, i, k) \/ Overwrites(prog, i, k))
      \/ \E k \in Control : i < k /\ k < j

NestedStamps ==
  ~raced /\ ControlLast =>
    Stamping /\ StampedWrites /\ StampedReads /\ NestedDeps /\ NestedOver

DepsFinished == \A j \in started : deps[j] \subseteq finished

NestedOrder ==
  ~raced /\ ControlLast =>
    /\ \A i \in Ids \ Control, j \in started : i < j /\ Follows(prog, i, j) => i \in finished
    /\ SingleReader(prog) =>
         \A i \in Ids \ Control, j \in started : i < j /\ Overwrites(prog, i, j) => i \in finished

\* What the tasks have written so far.
Written ==
  /\ \A i \in Ids : wrote[i] \subseteq prog[i].puts
  /\ \A i \in Ids : wrote[i] # {} => i \in started
  /\ \A i \in finished : wrote[i] = prog[i].puts
  /\ \A f \in Files : store[f] # 0 => f \in wrote[store[f]]
  /\ result = "ok" => finished = Ids

NestedStore ==
  ~raced /\ ControlLast /\ Tame(prog) =>
    /\ \A i \in Ids : \A f \in wrote[i] : i <= store[f]
    /\ SerialReads

\* The calls of recipes that nothing rewrites before read what was there.
CallsFirst ==
  ControlLast /\ NoneStale => \A c \in calls : c.got = 0

CallsTyped == \A c \in calls : c.file \in Files /\ c.pos \in Seq(Nat)

NestedInv ==
  /\ Typed /\ TextInv /\ NestedStamps
  /\ DepsFinished /\ NestedOrder /\ Written /\ NestedStore /\ CallsFirst /\ CallsTyped

-----------------------------------------------------------------------------
(* The steps.                                                              *)

\* What the tasks leave alone.
TaskFrame == UNCHANGED <<script, todo, at, loaded, last, calls, raced>>

\* The task of a Control leaf has read its recipe and schedules it.
Expands(c) ==
  /\ Running(c) /\ c \in Control \ Schedulers
  /\ LET f == Called(prog[c]) IN
       /\ got' = [got EXCEPT ![c][f] = store[f]]
       /\ todo' = Joined(todo, c, Lines(f, prog[c].pos))
       /\ at' = Joined(at, c, "line")
       /\ loaded' = Joined(loaded, c, Nothing)
       /\ last' = Joined(last, c, 0)
  /\ UNCHANGED <<prog, sched, stamps, deps, started, finished, wrote, store, result, script,
                 calls, raced>>

\* Nothing of what the invariant is about happens, but a race or the end.
Rests ==
  /\ UNCHANGED <<prog, sched, stamps, deps, started, finished, got, wrote, store, script, todo,
                 at, loaded, last, calls>>
  /\ raced => raced'
  /\ result' = result \/ (result' = "ok" => finished = Ids)

\* The steps as the proofs take them apart.
LEMMA NestedSteps ==
  ASSUME [NestedNext]_all
  PROVE  \/ \E g \in Schedulers : Spawn(g) \/ ReadCalled(g) \/ LoadStamps(g) \/ StoreStamps(g)
         \/ \E c \in Ids : Expands(c)
         \/ \E i \in Ids : StartTask(i)
         \/ \E i \in Ids \ Control, f \in Files : (ReadFile(i, f) \/ WriteFile(i, f)) /\ TaskFrame
         \/ \E i \in Ids : FinishLeaf(i) /\ TaskFrame
         \/ Rests
<1>1. ASSUME NEW g \in Schedulers, ScheduleFails(g) PROVE Rests
  BY <1>1 DEF ScheduleFails, Rests, stamps
<1>2. ASSUME NEW c \in Ids, ExpandRecipe(c) PROVE Expands(c) \/ Rests
  BY <1>2 DEF ExpandRecipe, Expands, Rests, stamps
<1>3. ASSUME NEW i \in Ids, RunCommand(i)
      PROVE  \/ i \in Ids \ Control /\ \E f \in Files : (ReadFile(i, f) \/ WriteFile(i, f)) /\ TaskFrame
             \/ FinishLeaf(i) /\ TaskFrame
  BY <1>3 DEF RunCommand, TaskFrame
<1>4. ASSUME NEW i \in Ids, FinishExpanded(i) PROVE FinishLeaf(i) /\ TaskFrame
  BY <1>4 DEF FinishExpanded, TaskFrame
<1>5. CASE RecipeReturns
  BY <1>5 DEF RecipeReturns, Rests, stamps
<1>6. CASE Fault
  <2>1. CASE CancelSession
    BY <1>6, <2>1 DEF Fault, CancelSession, Rests, stamps
  <2>2. CASE \E i \in Ids : ToolError(i)
    BY <1>6, <2>2 DEF Fault, ToolError, Rests, stamps
  <2> QED
    BY <1>6, <2>1, <2>2 DEF Fault
<1>7. CASE Throw
  BY <1>7 DEF Throw, Rests, stamps
<1>8. CASE Over \/ UNCHANGED all
  BY <1>8 DEF Over, all, vars, Rests, stamps
<1>9. CASE Progress
  BY <1>1, <1>2, <1>3, <1>4, <1>5, <1>9, Zenon DEF Progress, Schedule, Task
<1> QED
  BY <1>6, <1>7, <1>8, <1>9 DEF NestedNext

\* The fields of a line that has its place.
LEMMA PlacedFields ==
  ASSUME NEW l \in Line, NEW q
  PROVE  /\ Joined(l, "pos", q).pos = q
         /\ Joined(l, "pos", q).reads = l.reads /\ Joined(l, "pos", q).writes = l.writes
         /\ Joined(l, "pos", q).uses = l.uses /\ Joined(l, "pos", q).puts = l.puts
         /\ Joined(l, "pos", q).glob = l.glob /\ Joined(l, "pos", q).recipe = l.recipe
<1>1. DOMAIN l = {"reads", "writes", "glob", "bad", "uses", "needs", "puts", "drops", "keeps",
                  "recipe"}
  BY DEF Line
<1> QED
  BY <1>1 DEF Joined

\* The lines of a recipe at the place of its call.
LEMMA PlacedLines ==
  ASSUME NEW lines \in Seq(Line), CallsOnly(lines), NEW place \in Seq(Nat),
         IF place = <<>> THEN Len(lines) <= Len(script.main) ELSE place[1] <= Len(script.main)
  PROVE  /\ \E S : Placed(lines, place) \in Seq(S)
         /\ Sorted(Placed(lines, place))
         /\ \A k \in DOMAIN Placed(lines, place) :
              /\ IsLine(Placed(lines, place)[k])
              /\ IsStrictPrefix(place, Placed(lines, place)[k].pos)
<1> DEFINE P == Placed(lines, place)
<1>1. DOMAIN P = 1..Len(lines) /\ Len(lines) \in Nat
      /\ \A k \in 1..Len(lines) : P[k] = Joined(lines[k], "pos", Append(place, k)) /\ lines[k] \in Line
  BY DEF Placed
<1>2. \E S : P \in Seq(S)
  <2>1. P \in [1..Len(lines) -> {P[k] : k \in 1..Len(lines)}]
    BY <1>1 DEF Placed
  <2> HIDE DEF P
  <2>2. P \in Seq({P[k] : k \in 1..Len(lines)})
    BY <1>1, <2>1
  <2> QED
    BY <2>2
<1>3. ASSUME NEW k \in 1..Len(lines)
      PROVE  /\ P[k].pos = Append(place, k) /\ P[k].recipe = lines[k].recipe
             /\ P[k].reads = lines[k].reads /\ P[k].writes = lines[k].writes
             /\ P[k].uses = lines[k].uses /\ P[k].puts = lines[k].puts
             /\ P[k].glob = lines[k].glob
  <2> DEFINE a == Append(place, k)
  <2>1. P[k] = Joined(lines[k], "pos", a) /\ lines[k] \in Line
    BY <1>1
  <2> HIDE DEF P, a
  <2>2. /\ P[k].pos = a /\ P[k].recipe = lines[k].recipe
        /\ P[k].reads = lines[k].reads /\ P[k].writes = lines[k].writes
        /\ P[k].uses = lines[k].uses /\ P[k].puts = lines[k].puts
        /\ P[k].glob = lines[k].glob
    BY <2>1, PlacedFields
  <2> QED
    BY <2>2 DEF a
<1> HIDE DEF P
<1>4. Sorted(P)
  <2> SUFFICES ASSUME NEW j \in DOMAIN P, NEW k \in DOMAIN P, j < k
               PROVE  Left(P[j].pos, P[k].pos)
    BY DEF Sorted
  <2>1. j \in 1..Len(lines) /\ k \in 1..Len(lines) /\ j \in Nat /\ k \in Nat
    BY <1>1
  <2>2. Left(Append(place, j), Append(place, k))
    BY <2>1, AppendBelow
  <2> QED
    BY <1>3, <2>1, <2>2
<1>5. ASSUME NEW k \in DOMAIN P
      PROVE  IsLine(P[k]) /\ IsStrictPrefix(place, P[k].pos)
  <2>1. k \in 1..Len(lines) /\ k \in Nat /\ lines[k] \in Line /\ k <= Len(lines) /\ k \in DOMAIN lines
    BY <1>1
  <2>2. /\ Append(place, k) \in Seq(Nat) /\ Append(place, k) # <<>>
        /\ IsStrictPrefix(place, Append(place, k))
        /\ Append(place, k)[1] <= Len(script.main)
    <3>1. place = <<>> => Append(place, k)[1] = k
      BY <2>1, AppendBelow
    <3>2. place # <<>> => Append(place, k)[1] = place[1]
      BY <2>1, AppendBelow
    <3> QED
      BY <1>1, <2>1, <3>1, <3>2, AppendBelow
  <2>3. lines[k].recipe => IsCall(lines[k])
    BY <2>1 DEF CallsOnly
  <2>4. P[k].recipe => IsCall(P[k])
    BY <1>3, <2>1, <2>3 DEF IsCall
  <2>5. /\ lines[k].reads \subseteq Files /\ lines[k].writes \subseteq Files
        /\ lines[k].uses \subseteq Files /\ lines[k].puts \subseteq Files
        /\ lines[k].glob \in BOOLEAN /\ lines[k].recipe \in BOOLEAN
    BY <2>1 DEF Line
  <2> QED
    BY <1>3, <2>1, <2>2, <2>4, <2>5 DEF IsLine
<1> QED
  BY <1>2, <1>4, <1>5 DEF P

\* The recipe that a call names, and its lines.
LEMMA CalledLines ==
  ASSUME Typed, NEW l, IsLine(l), l.recipe
  PROVE  /\ Called(l) \in Files /\ l.reads = {Called(l)} /\ l.uses = {Called(l)}
         /\ \E S : Lines(Called(l), l.pos) \in Seq(S)
         /\ Sorted(Lines(Called(l), l.pos))
         /\ \A k \in DOMAIN Lines(Called(l), l.pos) :
              /\ IsLine(Lines(Called(l), l.pos)[k])
              /\ IsStrictPrefix(l.pos, Lines(Called(l), l.pos)[k].pos)
<1>1. PICK f \in Files : l.reads = {f}
  BY DEF IsLine, IsCall
<1>2. Called(l) = f
  BY <1>1 DEF Called
<1> DEFINE lines == script.text[f][store[f] = 0]
<1>3. script \in Script /\ script \in Scripts /\ (store[f] = 0) \in BOOLEAN
  BY DEF Typed, SchedulersTyped
<1>4. lines \in Seq(Line)
  <2>1. script.text \in [Files -> [BOOLEAN -> Seq(Line)]]
    BY <1>3, Zenon DEF Script
  <2>2. script.text[f] \in [BOOLEAN -> Seq(Line)]
    BY <2>1
  <2> QED
    BY <1>3, <2>2
<1>5. CallsOnly(lines)
  BY <1>1, <1>3, NestedAssumption
<1> HIDE DEF lines
<1>6. l.pos \in Seq(Nat) /\ l.pos # <<>> /\ l.pos[1] <= Len(script.main) /\ l.uses = l.reads
  BY DEF IsLine, IsCall
<1>7. Lines(Called(l), l.pos) = Placed(lines, l.pos)
  BY <1>2 DEF Lines, lines
<1> QED
  BY <1>1, <1>2, <1>4, <1>5, <1>6, <1>7, PlacedLines

\* What a goroutine has to do after its next line.
LEMMA NextLine ==
  ASSUME Typed, NEW g \in Schedulers, todo[g] # <<>>
  PROVE  /\ IsLine(Here(g)) /\ 1 \in DOMAIN todo[g] /\ Here(g) = todo[g][1]
         /\ \E S : Tail(todo[g]) \in Seq(S)
         /\ \A k \in DOMAIN Tail(todo[g]) :
              /\ k \in Nat /\ k + 1 \in DOMAIN todo[g] /\ Tail(todo[g])[k] = todo[g][k + 1]
              /\ IsLine(Tail(todo[g])[k])
              /\ Left(Here(g).pos, Tail(todo[g])[k].pos)
         /\ Sorted(Tail(todo[g]))
<1>1. PICK S : todo[g] \in Seq(S)
  BY DEF Typed, SchedulersTyped
<1>2. (\A k \in DOMAIN todo[g] : IsLine(todo[g][k])) /\ Sorted(todo[g])
  BY DEF Typed, SchedulersTyped
<1> DEFINE s == todo[g]
           t == Tail(s)
<1>3. /\ Len(s) \in Nat /\ Len(s) # 0 /\ DOMAIN s = 1..Len(s) /\ Head(s) = s[1]
      /\ t \in Seq(S) /\ DOMAIN t = 1..Len(s) - 1
      /\ \A k \in 1..Len(s) - 1 : t[k] = s[k + 1]
  <2> HIDE DEF s
  <2>1. s \in Seq(S) /\ s # <<>>
    BY <1>1 DEF s
  <2> QED
    BY <2>1
<1>4. ASSUME NEW k \in DOMAIN t
      PROVE  k \in Nat /\ k + 1 \in DOMAIN s /\ 1 < k + 1 /\ t[k] = s[k + 1]
  BY <1>3
<1>5. 1 \in DOMAIN s /\ Here(g) = s[1]
  BY <1>3 DEF Here
<1>6. ASSUME NEW k \in DOMAIN t PROVE IsLine(t[k]) /\ Left(s[1].pos, t[k].pos)
  BY <1>2, <1>4, <1>5 DEF Sorted
<1>7. Sorted(t)
  <2> SUFFICES ASSUME NEW j \in DOMAIN t, NEW k \in DOMAIN t, j < k PROVE Left(t[j].pos, t[k].pos)
    BY DEF Sorted
  <2>1. j + 1 < k + 1
    BY <1>4
  <2> QED
    BY <1>2, <1>4, <2>1 DEF Sorted
<1> QED
  BY <1>2, <1>3, <1>4, <1>5, <1>6, <1>7

\* fileDeps names leaves that have been spawned.
LEMMA NestedFileDeps ==
  ASSUME LeavesTyped, NEW l, IsLine(l)
  PROVE  FileDeps(l) \subseteq Ids
<1>1. /\ lastWrite \in [Files -> 0..Len(prog)] /\ lastUse \in [Files -> 0..Len(prog)]
      /\ prior \subseteq Ids /\ unknown \subseteq Ids /\ Len(prog) \in Nat
  BY DEF LeavesTyped
<1>2. l.reads \subseteq Files /\ l.writes \subseteq Files
  BY DEF IsLine
<1>3. {lastWrite[f] : f \in l.reads \cup l.writes} \subseteq 0..Len(prog)
  BY <1>1, <1>2
<1>4. {lastUse[f] : f \in l.writes} \subseteq 0..Len(prog)
  BY <1>1, <1>2
<1>5. \A d \in 0..Len(prog) : d # 0 => d \in Ids
  BY <1>1 DEF Ids
<1>6. CASE l.glob
  BY <1>1, <1>6 DEF FileDeps
<1>7. CASE ~l.glob
  <2>1. FileDeps(l) = (({lastWrite[f] : f \in l.reads \cup l.writes}
                         \cup {lastUse[f] : f \in l.writes}) \ {0}) \cup unknown
    BY <1>7 DEF FileDeps
  <2> QED
    BY <1>1, <1>3, <1>4, <1>5, <2>1, Zenon
<1> QED
  BY <1>6, <1>7

\* One element more for one leaf more.
LEMMA TracksAppend ==
  ASSUME NEW p, NEW S, p \in Seq(S), NEW l, NEW T, NEW s \in Seq(T), Len(s) = Len(p), NEW x \in T
  PROVE  /\ Len(p) \in Nat
         /\ Append(s, x) \in Seq(T) /\ Len(Append(s, x)) = Len(Append(p, l))
         /\ \A i \in 1..Len(p) : Append(s, x)[i] = s[i]
         /\ Append(s, x)[Len(p) + 1] = x
<1>1. Len(p) \in Nat /\ Len(Append(p, l)) = Len(p) + 1
  <2>1. p \in Seq(S \cup {l})
    BY SeqMonotonic
  <2> QED
    BY <2>1
<1> QED
  BY <1>1

\* The leaf that Spawn adds.
LEMMA Spawned ==
  ASSUME Typed, NEW g \in Schedulers, Spawn(g)
  PROVE  /\ Len(prog) \in Nat /\ Len(prog') = Len(prog) + 1
         /\ Ids' = Ids \cup {Len(prog) + 1} /\ Len(prog) + 1 \notin Ids
         /\ prog'[Len(prog) + 1] = Here(g) /\ \A i \in Ids : prog'[i] = prog[i]
         /\ IsLine(Here(g)) /\ at[g] = "line" /\ todo[g] # <<>>
         /\ Control' = Control \cup (IF Here(g).recipe THEN {Len(prog) + 1} ELSE {})
         /\ deps'[Len(prog) + 1] = FileDeps(Here(g)) /\ \A i \in Ids : deps'[i] = deps[i]
         /\ wrote'[Len(prog) + 1] = {} /\ \A i \in Ids : wrote'[i] = wrote[i]
         /\ got'[Len(prog) + 1] = [f \in Files |-> Unread] /\ \A i \in Ids : got'[i] = got[i]
         /\ \E S : prog' \in Seq(S)
         /\ Tracks(deps, SUBSET Nat)' /\ Tracks(got, [Files -> Int])' /\ Tracks(wrote, SUBSET Files)'
<1>1. PICK S : prog \in Seq(S)
  BY DEF Typed, LeavesTyped
<1>2. /\ prog' = Append(prog, Here(g)) /\ deps' = Append(deps, FileDeps(Here(g)))
      /\ got' = Append(got, [f \in Files |-> Unread]) /\ wrote' = Append(wrote, {})
      /\ at[g] = "line" /\ todo[g] # <<>>
  BY DEF Spawn, AtLine
<1>3. IsLine(Here(g))
  BY <1>2, NextLine
<1> DEFINE l == Here(g)
           n == Len(prog) + 1
           d == FileDeps(l)
<1>4. FileDeps(Here(g)) \subseteq Ids
  BY <1>3, NestedFileDeps DEF Typed
<1> HIDE DEF l, d
<1>5. /\ Len(prog) \in Nat /\ Len(prog') = n /\ prog'[n] = l /\ \A i \in 1..Len(prog) : prog'[i] = prog[i]
      /\ prog' \in Seq(S \cup {l})
  <2>1. prog \in Seq(S \cup {l})
    BY <1>1, SeqMonotonic
  <2> QED
    BY <1>1, <1>2, <2>1, TracksAppend DEF l
<1>6. Ids = 1..Len(prog) /\ Ids' = Ids \cup {n} /\ n \notin Ids
  BY <1>5 DEF Ids
<1>7. /\ Tracks(deps, SUBSET Nat)' /\ deps'[n] = d /\ \A i \in Ids : deps'[i] = deps[i]
  <2>1. d \in SUBSET Nat
    BY <1>4, <1>6 DEF d, l
  <2>2. deps \in Seq(SUBSET Nat) /\ Len(deps) = Len(prog)
    BY DEF Typed, LeavesTyped, Tracks
  <2> QED
    BY <1>1, <1>2, <1>6, <2>1, <2>2, TracksAppend DEF Tracks, d, l
<1>8. /\ Tracks(got, [Files -> Int])' /\ got'[n] = [f \in Files |-> Unread]
      /\ \A i \in Ids : got'[i] = got[i]
  <2>1. [f \in Files |-> Unread] \in [Files -> Int]
    BY DEF Unread
  <2>2. got \in Seq([Files -> Int]) /\ Len(got) = Len(prog)
    BY DEF Typed, LeavesTyped, Tracks
  <2> QED
    BY <1>1, <1>2, <1>6, <2>1, <2>2, TracksAppend DEF Tracks
<1>9. Tracks(wrote, SUBSET Files)' /\ wrote'[n] = {} /\ \A i \in Ids : wrote'[i] = wrote[i]
  <2>1. wrote \in Seq(SUBSET Files) /\ Len(wrote) = Len(prog) /\ {} \in SUBSET Files
    BY DEF Typed, LeavesTyped, Tracks
  <2> QED
    BY <1>1, <1>2, <1>6, <2>1, TracksAppend DEF Tracks
<1>10. Control' = Control \cup (IF l.recipe THEN {n} ELSE {})
  BY <1>5, <1>6 DEF Control
<1> QED
  BY <1>2, <1>3, <1>5, <1>6, <1>7, <1>8, <1>9, <1>10 DEF l, d

-----------------------------------------------------------------------------
(* The types.                                                              *)

\* A step that adds no leaf keeps what is known of the leaves.
LEMMA LeavesKept ==
  ASSUME Typed, UNCHANGED <<prog, sched, deps, script>>,
         got' = got \/ \E i \in Ids, f \in Files, v \in Int : got' = [got EXCEPT ![i][f] = v],
         wrote' = wrote \/ \E i \in Ids, f \in Files : wrote' = [wrote EXCEPT ![i] = @ \cup {f}],
         store' = store \/ \E i \in Ids, f \in Files : store' = [store EXCEPT ![f] = i],
         lastWrite' \in [Files -> 0..Len(prog)], lastUse' \in [Files -> 0..Len(prog)],
         prior' \subseteq Ids, unknown' \subseteq Ids,
         finished' \subseteq started', started' \subseteq Ids
  PROVE  LeavesTyped'
<1>1. Ids' = Ids /\ Ids = 1..Len(prog) /\ Len(prog) \in Nat
  BY DEF Ids, Typed, LeavesTyped
<1>2. \A i \in Ids' : IsLine(prog[i])'
  BY <1>1 DEF IsLine, Typed, LeavesTyped
<1>3. Tracks(deps, SUBSET Nat)' /\ \A i \in Ids' : deps'[i] \subseteq 1..i - 1
  BY <1>1 DEF Typed, LeavesTyped, Tracks
<1>4. Tracks(got, [Files -> Int])'
  <2>1. got \in Seq([Files -> Int]) /\ Len(got) = Len(prog)
    BY DEF Typed, LeavesTyped, Tracks
  <2>2. ASSUME NEW i \in Ids, NEW f \in Files, NEW v \in Int, got' = [got EXCEPT ![i][f] = v]
        PROVE  got' \in Seq([Files -> Int]) /\ Len(got') = Len(prog)
    <3>1. i \in 1..Len(got) /\ got[i] \in [Files -> Int]
      BY <1>1, <2>1
    <3> DEFINE e == [got[i] EXCEPT ![f] = v]
    <3>2. e \in [Files -> Int] /\ got' = [got EXCEPT ![i] = e]
      BY <2>2, <3>1
    <3> HIDE DEF e
    <3> QED
      BY <2>1, <3>1, <3>2, ExceptSeq
  <2>3. got' \in Seq([Files -> Int]) /\ Len(got') = Len(prog)
    <3>1. CASE got' = got
      BY <2>1, <3>1
    <3> QED
      BY <2>2, <3>1, Zenon
  <2> QED
    BY <2>3 DEF Tracks
<1>5. Tracks(wrote, SUBSET Files)'
  <2>1. wrote \in Seq(SUBSET Files) /\ Len(wrote) = Len(prog)
    BY DEF Typed, LeavesTyped, Tracks
  <2>2. ASSUME NEW i \in Ids, NEW f \in Files, wrote' = [wrote EXCEPT ![i] = @ \cup {f}]
        PROVE  wrote' \in Seq(SUBSET Files) /\ Len(wrote') = Len(prog)
    <3>1. i \in 1..Len(wrote) /\ wrote[i] \cup {f} \in SUBSET Files
      BY <1>1, <2>1
    <3> QED
      BY <2>1, <2>2, <3>1, ExceptSeq
  <2> QED
    BY <2>1, <2>2 DEF Tracks
<1>6. store' \in [Files -> 0..Len(prog)]
  <2>1. store \in [Files -> 0..Len(prog)] /\ \A i \in Ids : i \in 0..Len(prog)
    BY <1>1 DEF Typed, LeavesTyped
  <2>2. CASE store' = store
    BY <2>1, <2>2
  <2>3. CASE \E i \in Ids, f \in Files : store' = [store EXCEPT ![f] = i]
    BY <2>1, <2>3
  <2> QED
    BY <2>2, <2>3
<1> QED
  BY <1>1, <1>2, <1>3, <1>4, <1>5, <1>6 DEF Typed, LeavesTyped

\* Every step keeps the types of the leaves.
LEMMA LeavesStep ==
  ASSUME Typed, [NestedNext]_all
  PROVE  LeavesTyped'
<1>0. /\ lastWrite \in [Files -> 0..Len(prog)] /\ lastUse \in [Files -> 0..Len(prog)]
      /\ prior \subseteq Ids /\ unknown \subseteq Ids
      /\ finished \subseteq started /\ started \subseteq Ids
      /\ Len(prog) \in Nat /\ Ids = 1..Len(prog)
      /\ store \in [Files -> 0..Len(prog)]
  BY DEF Typed, LeavesTyped, Ids
<1>1. ASSUME NEW g \in Schedulers, Spawn(g) PROVE LeavesTyped'
  <2>1. /\ sched' = sched + 1 /\ script' = script
        /\ UNCHANGED <<store, lastWrite, lastUse, prior, unknown, started, finished>>
    BY <1>1 DEF Spawn, stamps
  <2>2. \A i \in Ids' : IsLine(prog[i])'
    <3>1. \A i \in Ids' : IsLine(prog'[i])
      BY <1>1, Spawned DEF Typed, LeavesTyped
    <3> QED
      BY <2>1, <3>1 DEF IsLine
  <2>3. \A i \in Ids' : deps'[i] \subseteq 1..i - 1
    <3> SUFFICES ASSUME NEW i \in Ids' PROVE deps'[i] \subseteq 1..i - 1
      OBVIOUS
    <3>1. CASE i = Len(prog) + 1
      <4>1. deps'[i] = FileDeps(Here(g)) /\ FileDeps(Here(g)) \subseteq Ids
        BY <1>1, <3>1, Spawned, NestedFileDeps DEF Typed
      <4>2. Ids = 1..i - 1
        BY <1>0, <3>1
      <4> QED
        BY <4>1, <4>2
    <3>2. CASE i \in Ids
      BY <1>1, <3>2, Spawned DEF Typed, LeavesTyped
    <3> QED
      BY <1>1, <3>1, <3>2, Spawned
  <2>4. /\ store' \in [Files -> 0..Len(prog')] /\ lastWrite' \in [Files -> 0..Len(prog')]
        /\ lastUse' \in [Files -> 0..Len(prog')]
    <3>1. 0..Len(prog) \subseteq 0..Len(prog') /\ Len(prog') = Len(prog) + 1
      BY <1>0, <1>1, Spawned
    <3> QED
      BY <1>0, <2>1, <3>1
  <2>5. /\ prior' \subseteq Ids' /\ unknown' \subseteq Ids' /\ finished' \subseteq started'
        /\ started' \subseteq Ids'
    BY <1>0, <1>1, <2>1, Spawned
  <2>6. sched' = Len(prog')
    BY <1>1, <2>1, Spawned DEF Typed, LeavesTyped
  <2> QED
    BY <1>1, <2>2, <2>3, <2>4, <2>5, <2>6, Spawned DEF LeavesTyped
<1>2. ASSUME NEW g \in Schedulers, ReadCalled(g) \/ LoadStamps(g) PROVE LeavesTyped'
  <2>1. UNCHANGED <<prog, sched, stamps, deps, script, got, wrote, store, started, finished>>
    BY <1>2 DEF ReadCalled, LoadStamps, vars, stamps
  <2> QED
    BY <1>0, <2>1, LeavesKept DEF stamps
<1>3. ASSUME NEW g \in Schedulers, StoreStamps(g) PROVE LeavesTyped'
  <2>1. /\ UNCHANGED <<prog, sched, deps, script, got, wrote, store, started, finished>>
        /\ at[g] = "stamping"
    BY <1>3 DEF StoreStamps
  <2>2. last[g] \in Ids /\ loaded[g].prior \subseteq Ids /\ loaded[g].unknown \subseteq Ids
    BY <2>1 DEF Typed, SchedulersTyped
  <2>3. last[g] \in 0..Len(prog)
    BY <1>0, <2>2
  <2>4. /\ lastWrite' \in [Files -> 0..Len(prog)] /\ lastUse' \in [Files -> 0..Len(prog)]
    BY <1>0, <1>3, <2>3 DEF StoreStamps
  <2>5. prior' \subseteq Ids /\ unknown' \subseteq Ids
    BY <1>0, <1>3, <2>2 DEF StoreStamps
  <2> QED
    BY <1>0, <2>1, <2>4, <2>5, LeavesKept
<1>4. ASSUME NEW c \in Ids, Expands(c) PROVE LeavesTyped'
  <2>1. /\ UNCHANGED <<prog, sched, stamps, deps, script, wrote, store, started, finished>>
        /\ got' = [got EXCEPT ![c][Called(prog[c])] = store[Called(prog[c])]]
    BY <1>4 DEF Expands
  <2>2. Called(prog[c]) \in Files
    BY <1>4, CalledLines DEF Expands, Control, Typed, LeavesTyped
  <2>3. store[Called(prog[c])] \in Int
    BY <1>0, <2>2
  <2>4. \E i \in Ids, f \in Files, v \in Int : got' = [got EXCEPT ![i][f] = v]
    BY <2>1, <2>2, <2>3
  <2> QED
    BY <1>0, <2>1, <2>4, LeavesKept DEF stamps
<1>5. ASSUME NEW i \in Ids, StartTask(i) PROVE LeavesTyped'
  <2>1. /\ UNCHANGED <<prog, sched, stamps, deps, script, got, wrote, store, finished>>
        /\ started' = started \cup {i}
    BY <1>5 DEF StartTask, StartLeaf
  <2>2. started' \subseteq Ids /\ finished' \subseteq started'
    BY <1>0, <2>1
  <2> QED
    BY <1>0, <2>1, <2>2, LeavesKept DEF stamps
<1>6. ASSUME NEW i \in Ids, NEW f \in Files, ReadFile(i, f), TaskFrame PROVE LeavesTyped'
  <2>1. /\ UNCHANGED <<prog, sched, stamps, deps, script, wrote, store, started, finished>>
        /\ got' = [got EXCEPT ![i][f] = store[f]]
    BY <1>6 DEF ReadFile, TaskFrame
  <2>2. store[f] \in Int
    BY <1>0
  <2>3. \E j \in Ids, h \in Files, v \in Int : got' = [got EXCEPT ![j][h] = v]
    BY <2>1, <2>2
  <2> QED
    BY <1>0, <2>1, <2>3, LeavesKept DEF stamps
<1>7. ASSUME NEW i \in Ids, NEW f \in Files, WriteFile(i, f), TaskFrame PROVE LeavesTyped'
  <2>1. /\ UNCHANGED <<prog, sched, stamps, deps, script, got, started, finished>>
        /\ wrote' = [wrote EXCEPT ![i] = @ \cup {f}]
        /\ store' = [store EXCEPT ![f] = i]
    BY <1>7 DEF WriteFile, TaskFrame
  <2> QED
    BY <1>0, <2>1, LeavesKept DEF stamps
<1>8. ASSUME NEW i \in Ids, FinishLeaf(i), TaskFrame PROVE LeavesTyped'
  <2>1. /\ UNCHANGED <<prog, sched, stamps, deps, script, got, wrote, store, started>>
        /\ finished' = finished \cup {i} /\ i \in started
    BY <1>8 DEF FinishLeaf, Running, TaskFrame
  <2>2. finished' \subseteq started'
    BY <1>0, <2>1
  <2> QED
    BY <1>0, <2>1, <2>2, LeavesKept DEF stamps
<1>9. CASE Rests
  <2>1. UNCHANGED <<prog, sched, stamps, deps, script, got, wrote, store, started, finished>>
    BY <1>9 DEF Rests
  <2> QED
    BY <1>0, <2>1, LeavesKept DEF stamps
<1> QED
  BY <1>1, <1>2, <1>3, <1>4, <1>5, <1>6, <1>7, <1>8, <1>9, NestedSteps, Zenon

\* Where an element of a concatenation comes from.
LEMMA ConcatParts ==
  ASSUME NEW S1, NEW S2, NEW s \in Seq(S1), NEW t \in Seq(S2), NEW st, st = s \o t
  PROVE  /\ st \in Seq(S1 \cup S2)
         /\ Len(s) \in Nat /\ Len(t) \in Nat /\ DOMAIN st = 1..Len(s) + Len(t)
         /\ DOMAIN s = 1..Len(s) /\ DOMAIN t = 1..Len(t)
         /\ \A k \in DOMAIN st : IF k <= Len(s) THEN k \in DOMAIN s /\ st[k] = s[k]
                                 ELSE k - Len(s) \in DOMAIN t /\ st[k] = t[k - Len(s)]
<1>1. s \in Seq(S1 \cup S2) /\ t \in Seq(S1 \cup S2)
  BY SeqMonotonic
<1>2. /\ st \in Seq(S1 \cup S2) /\ Len(st) = Len(s) + Len(t)
      /\ \A k \in 1..Len(s) + Len(t) : st[k] = IF k <= Len(s) THEN s[k] ELSE t[k - Len(s)]
  BY <1>1, ConcatProperties
<1>3. /\ Len(s) \in Nat /\ Len(t) \in Nat /\ DOMAIN st = 1..Len(st)
      /\ DOMAIN s = 1..Len(s) /\ DOMAIN t = 1..Len(t)
  BY <1>1, <1>2
<1>4. ASSUME NEW k \in 1..Len(s) + Len(t)
      PROVE  IF k <= Len(s) THEN k \in 1..Len(s) ELSE k - Len(s) \in 1..Len(t)
  BY <1>3
<1> QED
  BY <1>2, <1>3, <1>4

\* Lines below a place, and then lines right of it.
LEMMA BelowThenRight ==
  ASSUME NEW S, NEW L \in Seq(S), NEW R \in Seq(S), NEW p \in Seq(Nat),
         Sorted(L), \A k \in DOMAIN L : IsLine(L[k]) /\ IsStrictPrefix(p, L[k].pos),
         Sorted(R), \A k \in DOMAIN R : IsLine(R[k]) /\ Left(p, R[k].pos)
  PROVE  /\ L \o R \in Seq(S)
         /\ Sorted(L \o R)
         /\ \A k \in DOMAIN (L \o R) :
              /\ IsLine((L \o R)[k])
              /\ \/ IsStrictPrefix(p, (L \o R)[k].pos)
                 \/ \E m \in DOMAIN R : (L \o R)[k] = R[m]
<1> DEFINE T == L \o R
<1> HIDE DEF T
<1>1. /\ T \in Seq(S)
      /\ Len(L) \in Nat /\ Len(R) \in Nat /\ DOMAIN T = 1..Len(L) + Len(R)
      /\ DOMAIN L = 1..Len(L) /\ DOMAIN R = 1..Len(R)
      /\ \A k \in DOMAIN T : IF k <= Len(L) THEN k \in DOMAIN L /\ T[k] = L[k]
                             ELSE k - Len(L) \in DOMAIN R /\ T[k] = R[k - Len(L)]
  BY ConcatParts DEF T
<1>2. ASSUME NEW k \in DOMAIN T
      PROVE  \/ k \in DOMAIN L /\ T[k] = L[k]
             \/ k \notin DOMAIN L /\ k - Len(L) \in DOMAIN R /\ T[k] = R[k - Len(L)]
  <2>1. CASE k <= Len(L)
    BY <1>1, <2>1
  <2>2. CASE ~(k <= Len(L))
    <3>1. k \notin 1..Len(L)
      BY <2>2
    <3> QED
      BY <1>1, <2>2, <3>1
  <2> QED
    BY <2>1, <2>2
<1>3. ASSUME NEW k \in DOMAIN T
      PROVE  /\ IsLine(T[k])
             /\ IsStrictPrefix(p, T[k].pos) \/ \E m \in DOMAIN R : T[k] = R[m]
  BY <1>2
<1>4. Sorted(T)
  <2> SUFFICES ASSUME NEW j \in DOMAIN T, NEW k \in DOMAIN T, j < k PROVE Left(T[j].pos, T[k].pos)
    BY DEF Sorted
  <2>0. j \in Nat /\ k \in Nat
    BY <1>1
  <2>1. CASE k \in DOMAIN L
    <3>1. j \in DOMAIN L
      BY <1>1, <2>0, <2>1
    <3>2. T[j] = L[j] /\ T[k] = L[k]
      BY <1>2, <2>1, <3>1
    <3> QED
      BY <2>1, <3>1, <3>2 DEF Sorted
  <2>2. CASE j \in DOMAIN L /\ k \notin DOMAIN L
    <3>1. T[j] = L[j] /\ IsStrictPrefix(p, L[j].pos) /\ IsLine(L[j])
      BY <1>2, <2>2
    <3>2. T[k] = R[k - Len(L)] /\ k - Len(L) \in DOMAIN R
      BY <1>2, <2>2
    <3>3. Left(p, T[k].pos) /\ IsLine(T[k])
      BY <3>2
    <3>4. T[j].pos \in Seq(Nat) /\ T[k].pos \in Seq(Nat)
      BY <3>1, <3>3 DEF IsLine
    <3> QED
      BY <3>1, <3>3, <3>4, BelowLeft DEF IsStrictPrefix
  <2>3. CASE j \notin DOMAIN L /\ k \notin DOMAIN L
    <3>1. /\ j - Len(L) \in DOMAIN R /\ T[j] = R[j - Len(L)]
          /\ k - Len(L) \in DOMAIN R /\ T[k] = R[k - Len(L)]
      BY <1>2, <2>3
    <3>2. j - Len(L) < k - Len(L)
      BY <1>1, <2>0
    <3> QED
      BY <3>1, <3>2 DEF Sorted
  <2> QED
    BY <2>1, <2>2, <2>3
<1> QED
  BY <1>1, <1>3, <1>4 DEF T

\* The lines that take the place of a call.
LEMMA InlinedLines ==
  ASSUME Typed, NEW g \in Schedulers, todo[g] # <<>>, Here(g).recipe
  PROVE  LET T == Lines(Called(Here(g)), Here(g).pos) \o Tail(todo[g]) IN
           /\ \E S : T \in Seq(S)
           /\ Sorted(T)
           /\ \A k \in DOMAIN T :
                /\ IsLine(T[k])
                /\ \/ IsStrictPrefix(Here(g).pos, T[k].pos)
                   \/ \E m \in DOMAIN Tail(todo[g]) : T[k] = Tail(todo[g])[m]
<1> DEFINE l == Here(g)
           L == Lines(Called(l), l.pos)
           R == Tail(todo[g])
           T == L \o R
<1>1. IsLine(l) /\ l.recipe /\ l.pos \in Seq(Nat)
  BY NextLine DEF IsLine
<1>2. PICK S1 : L \in Seq(S1)
  BY <1>1, CalledLines
<1>3. PICK S2 : R \in Seq(S2)
  BY NextLine
<1>4. Sorted(L) /\ \A k \in DOMAIN L : IsLine(L[k]) /\ IsStrictPrefix(l.pos, L[k].pos)
  BY <1>1, CalledLines
<1>5. Sorted(R) /\ \A k \in DOMAIN R : IsLine(R[k]) /\ Left(l.pos, R[k].pos)
  BY NextLine
<1>8. T = L \o R
  OBVIOUS
<1> HIDE DEF l, L, R, T
<1>9. L \in Seq(S1 \cup S2) /\ R \in Seq(S1 \cup S2)
  BY <1>2, <1>3, SeqMonotonic
<1>6. /\ T \in Seq(S1 \cup S2)
      /\ Sorted(T)
      /\ \A k \in DOMAIN T :
           /\ IsLine(T[k])
           /\ IsStrictPrefix(l.pos, T[k].pos) \/ \E m \in DOMAIN R : T[k] = R[m]
  BY <1>1, <1>4, <1>5, <1>8, <1>9, BelowThenRight
<1>7. /\ \E S : T \in Seq(S)
      /\ Sorted(T)
      /\ \A k \in DOMAIN T :
           /\ IsLine(T[k])
           /\ IsStrictPrefix(l.pos, T[k].pos) \/ \E m \in DOMAIN R : T[k] = R[m]
  BY <1>6
<1> QED
  BY <1>7, Zenon DEF l, L, R, T

\* What a goroutine has yet to schedule.
ToDo(g, lines) ==
  /\ \E S : lines \in Seq(S)
  /\ \A k \in DOMAIN lines : IsLine(lines[k])
  /\ Sorted(lines)
  /\ g # 0 => \A k \in DOMAIN lines : IsStrictPrefix(prog[g].pos, lines[k].pos)

\* What a goroutine has yet to schedule, now and after a line.
LEMMA ToDoTyped ==
  ASSUME Typed, NEW g \in Schedulers
  PROVE  /\ ToDo(g, todo[g])
         /\ todo[g] # <<>> => ToDo(g, Tail(todo[g]))
         /\ todo[g] # <<>> /\ Here(g).recipe =>
              ToDo(g, Lines(Called(Here(g)), Here(g).pos) \o Tail(todo[g]))
         /\ g # 0 => g \in Control /\ g \in Ids /\ g \in started /\ g \in Nat \ {0}
                     /\ prog[g].pos \in Seq(Nat)
<1>1. ToDo(g, todo[g])
  BY DEF Typed, SchedulersTyped, ToDo
<1>2. ASSUME todo[g] # <<>> PROVE ToDo(g, Tail(todo[g]))
  <2>1. \A k \in DOMAIN Tail(todo[g]) : \E m \in DOMAIN todo[g] : Tail(todo[g])[k] = todo[g][m]
    BY <1>2, NextLine
  <2> QED
    BY <1>1, <1>2, <2>1, NextLine DEF ToDo
<1>3. ASSUME g # 0
      PROVE  g \in Control /\ g \in Ids /\ g \in started /\ g \in Nat \ {0} /\ prog[g].pos \in Seq(Nat)
  <2>1. g \in Control /\ g \in started
    BY <1>3 DEF Typed, SchedulersTyped
  <2>2. g \in Ids /\ IsLine(prog[g])
    BY <2>1 DEF Control, Typed, LeavesTyped
  <2> QED
    BY <2>1, <2>2 DEF Ids, IsLine
<1>4. ASSUME todo[g] # <<>>, Here(g).recipe
      PROVE  ToDo(g, Lines(Called(Here(g)), Here(g).pos) \o Tail(todo[g]))
  <2> DEFINE T == Lines(Called(Here(g)), Here(g).pos) \o Tail(todo[g])
  <2> HIDE DEF T
  <2>1. /\ \E S : T \in Seq(S)
        /\ Sorted(T)
        /\ \A k \in DOMAIN T : /\ IsLine(T[k])
                               /\ \/ IsStrictPrefix(Here(g).pos, T[k].pos)
                                  \/ \E m \in DOMAIN Tail(todo[g]) : T[k] = Tail(todo[g])[m]
    BY <1>4, InlinedLines, Zenon DEF T
  <2>2. ASSUME g # 0, NEW k \in DOMAIN T PROVE IsStrictPrefix(prog[g].pos, T[k].pos)
    <3>1. CASE \E m \in DOMAIN Tail(todo[g]) : T[k] = Tail(todo[g])[m]
      BY <1>2, <1>4, <2>2, <3>1 DEF ToDo
    <3>2. CASE IsStrictPrefix(Here(g).pos, T[k].pos)
      <4>1. IsStrictPrefix(prog[g].pos, Here(g).pos) /\ IsLine(Here(g))
        BY <1>1, <1>4, <2>2, NextLine DEF ToDo
      <4>2. prog[g].pos \in Seq(Nat) /\ Here(g).pos \in Seq(Nat) /\ T[k].pos \in Seq(Nat)
        BY <1>3, <2>1, <2>2, <4>1 DEF IsLine
      <4>3. IsPrefix(prog[g].pos, T[k].pos)
        BY <3>2, <4>1, <4>2, PrefixTransitive DEF IsStrictPrefix
      <4>4. prog[g].pos # T[k].pos
        <5> SUFFICES ASSUME prog[g].pos = T[k].pos PROVE FALSE
          OBVIOUS
        <5>1. Before(prog[g].pos, Here(g).pos) /\ Before(Here(g).pos, prog[g].pos)
          BY <3>2, <4>1, BeforeMeans
        <5> QED
          BY <4>2, <5>1, BeforeOrder
      <4> QED
        BY <4>3, <4>4 DEF IsStrictPrefix
    <3> QED
      BY <2>1, <3>1, <3>2
  <2>3. ToDo(g, T)
    BY <2>1, <2>2 DEF ToDo
  <2> QED
    BY <2>3 DEF T
<1> QED
  BY <1>1, <1>2, <1>3, <1>4

\* The goroutines keep their types when none of them moves.
LEMMA SchedulersKept ==
  ASSUME Typed, UNCHANGED <<prog, script, todo, at, loaded, last>>, started \subseteq started'
  PROVE  SchedulersTyped'
<1>1. Ids' = Ids /\ Control' = Control /\ Schedulers' = Schedulers
  BY DEF Ids, Control, Schedulers
<1>2. \A g \in Schedulers : \A k \in DOMAIN todo[g] : IsLine(todo[g][k])'
  BY DEF IsLine, Typed, SchedulersTyped
<1>3. \A g \in Schedulers : Sorted(todo[g])'
  BY DEF Typed, SchedulersTyped, Sorted
<1> QED
  BY <1>1, <1>2, <1>3 DEF Typed, SchedulersTyped

\* They keep them when every goroutine has lines to do in its place.
LEMMA SchedulersMoved ==
  ASSUME Typed, script' = script, LeavesTyped',
         Ids \subseteq Ids', \A i \in Ids : prog'[i] = prog[i],
         started \subseteq started', Schedulers \subseteq Schedulers',
         \A g \in Schedulers' \ Schedulers : g \in Control' \cap started',
         \A g \in Schedulers' : ToDo(g, todo[g])',
         at' \in [Schedulers' -> {"line", "spawned", "stamping"}],
         loaded' \in [Schedulers' -> [prior : SUBSET Ids', unknown : SUBSET Ids']],
         last' \in [Schedulers' -> 0..Len(prog')],
         \A g \in Schedulers' : at'[g] # "line" => last'[g] \in Ids'
  PROVE  SchedulersTyped'
<1>1. Control \subseteq Control'
  BY DEF Control
<1>2. Schedulers' \subseteq (Control' \cap started') \cup {0} /\ 0 \in Schedulers'
  BY <1>1 DEF Typed, SchedulersTyped
<1>3. script' \in Script /\ script' \in Scripts
  BY DEF Typed, SchedulersTyped
<1>4. \A g \in Schedulers' :
        /\ at'[g] # "line" => last'[g] \in Ids'
        /\ \E S : todo'[g] \in Seq(S)
        /\ \A k \in DOMAIN todo'[g] : IsLine(todo[g][k])'
        /\ Sorted(todo[g])'
        /\ g # 0 => \A k \in DOMAIN todo'[g] : IsStrictPrefix(prog'[g].pos, todo'[g][k].pos)
  BY DEF ToDo, IsLine
<1> QED
  BY <1>2, <1>3, <1>4 DEF SchedulersTyped

\* What is to do stays it.
LEMMA ToDoKept ==
  ASSUME Typed, script' = script, Ids \subseteq Ids', \A i \in Ids : prog'[i] = prog[i],
         NEW g \in Control \cup {0}, NEW lines, ToDo(g, lines)
  PROVE  ToDo(g, lines)'
<1>1. \A k \in DOMAIN lines : IsLine(lines[k])'
  BY DEF ToDo, IsLine
<1>2. g # 0 => prog'[g] = prog[g]
  BY DEF Control
<1> QED
  BY <1>1, <1>2 DEF ToDo, Sorted

\* Every step keeps the types of the goroutines.
LEMMA SchedulersStep ==
  ASSUME Typed, [NestedNext]_all
  PROVE  SchedulersTyped'
<1>0. /\ at \in [Schedulers -> {"line", "spawned", "stamping"}]
      /\ loaded \in [Schedulers -> [prior : SUBSET Ids, unknown : SUBSET Ids]]
      /\ last \in [Schedulers -> 0..Len(prog)]
      /\ \A h \in Schedulers : at[h] # "line" => last[h] \in Ids
      /\ Schedulers \subseteq Control \cup {0}
      /\ prior \subseteq Ids /\ unknown \subseteq Ids
      /\ Len(prog) \in Nat /\ Ids = 1..Len(prog)
  BY DEF Typed, SchedulersTyped, LeavesTyped, Ids
<1>L. LeavesTyped'
  BY LeavesStep
<1>1. ASSUME NEW g \in Schedulers, Spawn(g) PROVE SchedulersTyped'
  <2>1. /\ script' = script /\ started' = started /\ todo' = [todo EXCEPT ![g] = Tail(@)]
        /\ at' = [at EXCEPT ![g] = "spawned"] /\ last' = [last EXCEPT ![g] = sched + 1]
        /\ loaded' = loaded /\ Schedulers' = Schedulers
    BY <1>1 DEF Spawn, Schedulers
  <2>2. /\ Ids \subseteq Ids' /\ \A i \in Ids : prog'[i] = prog[i]
        /\ Len(prog') = Len(prog) + 1 /\ Len(prog) + 1 \in Ids' /\ todo[g] # <<>>
    BY <1>1, Spawned
  <2>3. ASSUME NEW h \in Schedulers PROVE ToDo(h, todo[h])'
    <3>1. todo'[h] = IF h = g THEN Tail(todo[g]) ELSE todo[h]
      BY <2>1 DEF Schedulers
    <3>2. ToDo(h, todo'[h])
      <4>1. CASE h = g
        BY <2>2, <3>1, <4>1, ToDoTyped
      <4>2. CASE h # g
        BY <3>1, <4>2, ToDoTyped
      <4> QED
        BY <4>1, <4>2
    <3> DEFINE t == todo'[h]
    <3> HIDE DEF t
    <3>3. \A lines : ToDo(h, lines) => ToDo(h, lines)'
      BY <1>0, <2>1, <2>2, ToDoKept
    <3> QED
      BY <3>2, <3>3 DEF ToDo, IsLine, Sorted
  <2>4. last' \in [Schedulers' -> 0..Len(prog')] /\ sched + 1 \in Ids'
    BY <1>0, <2>1, <2>2 DEF Typed, LeavesTyped
  <2>5. /\ at' \in [Schedulers' -> {"line", "spawned", "stamping"}]
        /\ \A h \in Schedulers' : at'[h] # "line" => last'[h] \in Ids'
    BY <1>0, <2>1, <2>2, <2>4
  <2>6. loaded' \in [Schedulers' -> [prior : SUBSET Ids', unknown : SUBSET Ids']]
    BY <1>0, <2>1, <2>2
  <2> QED
    BY <1>L, <2>1, <2>2, <2>3, <2>4, <2>5, <2>6, SchedulersMoved
<1>2. ASSUME NEW g \in Schedulers, ReadCalled(g) PROVE SchedulersTyped'
  <2>1. /\ UNCHANGED <<script, prog, started, at, loaded, last>> /\ Schedulers' = Schedulers
        /\ todo' = [todo EXCEPT ![g] = Lines(Called(Here(g)), Here(g).pos) \o Tail(@)]
        /\ Here(g).recipe /\ todo[g] # <<>>
    BY <1>2 DEF ReadCalled, Inline, vars, Schedulers, Exists, AtLine
  <2>2. Ids' = Ids
    BY <2>1 DEF Ids
  <2>3. ASSUME NEW h \in Schedulers PROVE ToDo(h, todo[h])'
    <3>1. todo'[h] = IF h = g THEN Lines(Called(Here(g)), Here(g).pos) \o Tail(todo[g]) ELSE todo[h]
      BY <2>1 DEF Schedulers
    <3>2. ToDo(h, todo'[h])
      <4>1. CASE h = g
        BY <2>1, <3>1, <4>1, ToDoTyped
      <4>2. CASE h # g
        BY <3>1, <4>2, ToDoTyped
      <4> QED
        BY <4>1, <4>2
    <3> QED
      BY <2>1, <3>2 DEF ToDo, IsLine, Sorted
  <2> QED
    BY <1>0, <1>L, <2>1, <2>2, <2>3, SchedulersMoved
<1>3. ASSUME NEW g \in Schedulers, LoadStamps(g) PROVE SchedulersTyped'
  <2>1. /\ UNCHANGED <<script, prog, started, todo, last>> /\ Schedulers' = Schedulers
        /\ at' = [at EXCEPT ![g] = "stamping"] /\ at[g] = "spawned"
        /\ loaded' = [loaded EXCEPT ![g] = [prior |-> prior, unknown |-> unknown]]
    BY <1>3 DEF LoadStamps, vars, Schedulers
  <2>2. Ids' = Ids
    BY <2>1 DEF Ids
  <2>3. \A h \in Schedulers : ToDo(h, todo[h])'
    BY <2>1, ToDoTyped DEF ToDo, IsLine, Sorted
  <2>4. /\ at' \in [Schedulers' -> {"line", "spawned", "stamping"}]
        /\ loaded' \in [Schedulers' -> [prior : SUBSET Ids', unknown : SUBSET Ids']]
        /\ \A h \in Schedulers' : at'[h] # "line" => last'[h] \in Ids'
    BY <1>0, <2>1, <2>2
  <2> QED
    BY <1>0, <1>L, <2>1, <2>2, <2>3, <2>4, SchedulersMoved
<1>4. ASSUME NEW g \in Schedulers, StoreStamps(g) PROVE SchedulersTyped'
  <2>1. /\ UNCHANGED <<script, prog, started, todo, last>> /\ Schedulers' = Schedulers
        /\ at' = [at EXCEPT ![g] = "line"]
        /\ loaded' = [loaded EXCEPT ![g] = Nothing]
    BY <1>4 DEF StoreStamps, Schedulers
  <2>2. Ids' = Ids
    BY <2>1 DEF Ids
  <2>3. \A h \in Schedulers : ToDo(h, todo[h])'
    BY <2>1, ToDoTyped DEF ToDo, IsLine, Sorted
  <2>4. /\ at' \in [Schedulers' -> {"line", "spawned", "stamping"}]
        /\ loaded' \in [Schedulers' -> [prior : SUBSET Ids', unknown : SUBSET Ids']]
        /\ \A h \in Schedulers' : at'[h] # "line" => last'[h] \in Ids'
    BY <1>0, <2>1, <2>2 DEF Nothing
  <2> QED
    BY <1>0, <1>L, <2>1, <2>2, <2>3, <2>4, SchedulersMoved
<1>5. ASSUME NEW c \in Ids, Expands(c) PROVE SchedulersTyped'
  <2>1. /\ UNCHANGED <<script, prog, started>> /\ c \in Control \cap started
        /\ todo' = Joined(todo, c, Lines(Called(prog[c]), prog[c].pos))
        /\ at' = Joined(at, c, "line") /\ loaded' = Joined(loaded, c, Nothing)
        /\ last' = Joined(last, c, 0) /\ c \notin Schedulers
    BY <1>5 DEF Expands, Running
  <2>2. Ids' = Ids /\ Control' = Control /\ Schedulers' = Schedulers \cup {c}
    BY <2>1 DEF Ids, Control, Schedulers, Joined
  <2>3. ASSUME NEW h \in Schedulers' PROVE ToDo(h, todo[h])'
    <3>1. ToDo(h, todo'[h])
      <4>1. CASE h = c
        <5>1. IsLine(prog[c]) /\ prog[c].recipe
          BY <2>1 DEF Control, Typed, LeavesTyped
        <5> DEFINE L == Lines(Called(prog[c]), prog[c].pos)
        <5>2. todo'[h] = L
          BY <2>1, <4>1 DEF Joined
        <5>3. /\ \E S : L \in Seq(S)
              /\ Sorted(L)
              /\ \A k \in DOMAIN L : IsLine(L[k]) /\ IsStrictPrefix(prog[c].pos, L[k].pos)
          BY <5>1, CalledLines
        <5> HIDE DEF L
        <5> QED
          BY <4>1, <5>2, <5>3 DEF ToDo
      <4>2. CASE h # c
        <5>1. h \in Schedulers /\ todo'[h] = todo[h]
          BY <2>1, <2>2, <4>2 DEF Schedulers, Joined
        <5> QED
          BY <5>1, ToDoTyped
      <4> QED
        BY <4>1, <4>2
    <3> QED
      BY <2>1, <3>1 DEF ToDo, IsLine, Sorted
  <2>4. Nothing \in [prior : SUBSET Ids, unknown : SUBSET Ids] /\ 0 \in 0..Len(prog)
    BY <1>0 DEF Nothing
  <2>5. /\ at' \in [Schedulers' -> {"line", "spawned", "stamping"}]
        /\ loaded' \in [Schedulers' -> [prior : SUBSET Ids', unknown : SUBSET Ids']]
        /\ last' \in [Schedulers' -> 0..Len(prog')]
    BY <1>0, <2>1, <2>2, <2>4 DEF Joined
  <2>6. \A h \in Schedulers' : at'[h] # "line" => last'[h] \in Ids'
    BY <1>0, <2>1, <2>2 DEF Joined
  <2> QED
    BY <1>L, <2>1, <2>2, <2>3, <2>5, <2>6, SchedulersMoved
<1>6. ASSUME NEW i \in Ids, StartTask(i) PROVE SchedulersTyped'
  BY <1>6, SchedulersKept DEF StartTask, StartLeaf
<1>7. ASSUME NEW i \in Ids, NEW f \in Files, ReadFile(i, f) \/ WriteFile(i, f), TaskFrame
      PROVE  SchedulersTyped'
  BY <1>7, SchedulersKept DEF ReadFile, WriteFile, TaskFrame
<1>8. ASSUME NEW i \in Ids, FinishLeaf(i), TaskFrame PROVE SchedulersTyped'
  BY <1>8, SchedulersKept DEF FinishLeaf, TaskFrame
<1>9. CASE Rests
  BY <1>9, SchedulersKept DEF Rests
<1> QED
  BY <1>1, <1>2, <1>3, <1>4, <1>5, <1>6, <1>7, <1>8, <1>9, NestedSteps, Zenon

\* Every step keeps the types.
LEMMA TypedStep == Typed /\ [NestedNext]_all => Typed'
  BY LeavesStep, SchedulersStep DEF Typed

-----------------------------------------------------------------------------
(* The order in which leaves are spawned.                                  *)

\* The leaves that are there stay there.
Extends == Ids \subseteq Ids' /\ \A i \in Ids : prog'[i] = prog[i]

\* The conditions on a recipe hold as long as it has grown by then.
LEMMA Earlier ==
  ASSUME Typed, Typed', Extends
  PROVE  /\ Control \subseteq Control'
         /\ ControlLast' => ControlLast
         /\ SingleReader(prog)' => SingleReader(prog)
         /\ Tame(prog)' => Tame(prog)
         /\ \A i, j \in Ids : /\ Follows(prog, i, j)' <=> Follows(prog, i, j)
                              /\ Overwrites(prog, i, j)' <=> Overwrites(prog, i, j)
<1>1. Control \subseteq Control'
  BY DEF Control, Extends
<1>2. ControlLast' => ControlLast
  BY <1>1 DEF ControlLast, Control, Extends
<1>3. DOMAIN prog = Ids /\ DOMAIN prog' = Ids'
  BY DEF Typed, LeavesTyped, Ids
<1>4. \A i \in Ids : prog'[i] = prog[i] /\ i \in Ids'
  BY DEF Extends
<1>5. Covered(prog)' => Covered(prog)
  BY <1>3, <1>4 DEF Covered
<1>6. SingleReader(prog)' => SingleReader(prog)
  <2> SUFFICES ASSUME SingleReader(prog)',
                      NEW i \in Ids, NEW j \in Ids, NEW k \in Ids, NEW f \in Files,
                      i < j, j < k,
                      f \in prog[i].reads \ prog[i].writes, f \in prog[j].reads \ prog[j].writes,
                      f \in prog[k].writes
               PROVE  \E m \in i..k : prog[m].glob \/ (m # k /\ f \in prog[m].writes)
    BY <1>3 DEF SingleReader
  <2>1. PICK m \in i..k : prog'[m].glob \/ (m # k /\ f \in prog'[m].writes)
    BY <1>3, <1>4 DEF SingleReader
  <2>2. m \in Ids
    BY <2>1 DEF Ids
  <2> QED
    BY <1>4, <2>1, <2>2
<1>7. Tame(prog)' => Tame(prog)
  BY <1>5, <1>6 DEF Tame
<1>8. \A i, j \in Ids : /\ Follows(prog, i, j)' <=> Follows(prog, i, j)
                        /\ Overwrites(prog, i, j)' <=> Overwrites(prog, i, j)
  BY <1>4 DEF Follows, Overwrites
<1> QED
  BY <1>1, <1>2, <1>6, <1>7, <1>8

\* Every step leaves the leaves there are as they are.
LEMMA StepExtends ==
  ASSUME Typed, [NestedNext]_all
  PROVE  Extends
<1>1. ASSUME NEW g \in Schedulers, Spawn(g) PROVE Extends
  BY <1>1, Spawned DEF Extends
<1>2. CASE prog' = prog
  BY <1>2 DEF Extends, Ids
<1>3. (\E g \in Schedulers : Spawn(g)) \/ prog' = prog
  <2>1. ASSUME NEW g \in Schedulers, ReadCalled(g) \/ LoadStamps(g) \/ StoreStamps(g) PROVE prog' = prog
    BY <2>1 DEF ReadCalled, LoadStamps, StoreStamps, vars
  <2>2. ASSUME NEW i \in Ids, Expands(i) \/ StartTask(i) \/ FinishLeaf(i) PROVE prog' = prog
    BY <2>2 DEF Expands, StartTask, StartLeaf, FinishLeaf
  <2>3. ASSUME NEW i \in Ids, NEW f \in Files, ReadFile(i, f) \/ WriteFile(i, f) PROVE prog' = prog
    BY <2>3 DEF ReadFile, WriteFile
  <2>4. CASE Rests
    BY <2>4 DEF Rests
  <2> QED
    BY <2>1, <2>2, <2>3, <2>4, NestedSteps, Zenon
<1> QED
  BY <1>1, <1>2, <1>3

\* The places of the leaves and of the lines to do.
LEMMA Places ==
  ASSUME Typed
  PROVE  /\ \A i \in Ids : prog[i].pos \in Seq(Nat) /\ i \in Nat
         /\ \A g \in Schedulers : \A k \in DOMAIN todo[g] : todo[g][k].pos \in Seq(Nat)
         /\ \A g \in Schedulers : g \in Nat /\ (g # 0 => g \in Control /\ g \in Ids)
         /\ Control \subseteq Ids /\ Len(prog) \in Nat /\ Ids = 1..Len(prog)
         /\ \A g \in Schedulers : last[g] \in Nat
BY DEF Typed, LeavesTyped, SchedulersTyped, IsLine, Ids, Control

\* Under ControlLast only the goroutine that began last spawns leaves.
LEMMA LastSpawns ==
  ASSUME Typed, Typed', TextInv, NEW g \in Schedulers, Spawn(g), ControlLast'
  PROVE  /\ \A c \in Control : c <= g /\ c \in Schedulers
         /\ \A h \in Schedulers : h <= g
<1> DEFINE n == Len(prog) + 1
<1>1. Extends
  BY Spawned DEF Extends
<1>2. TextOrder
  BY <1>1, Earlier DEF TextInv
<1>3. n \in Ids' /\ prog'[n] = Here(g) /\ 1 \in DOMAIN todo[g] /\ Here(g) = todo[g][1]
  BY Spawned, NextLine
<1>4. ASSUME NEW c \in Control, g < c PROVE FALSE
  <2>1. Left(prog[c].pos, todo[g][1].pos)
    BY <1>2, <1>3, <1>4 DEF TextOrder
  <2>2. c \in Ids /\ prog'[c] = prog[c] /\ c \in Control'
    BY <1>1, Places, Earlier DEF Extends
  <2>3. prog[c].pos \in Seq(Nat) /\ todo[g][1].pos \in Seq(Nat)
    BY <1>3, <2>2, Places
  <2>4. Before(prog'[c].pos, prog'[n].pos)
    BY <1>3, <2>1, <2>2, BeforeMeans
  <2>5. IsPrefix(prog'[c].pos, prog'[n].pos)
    BY <1>3, <2>2, <2>4 DEF ControlLast
  <2> QED
    BY <1>3, <2>1, <2>2, <2>3, <2>5, LeftNotAbove
<1>5. \A c \in Control : c <= g
  BY <1>4, Places
<1>6. ASSUME NEW c \in Control, c \notin Schedulers PROVE FALSE
  <2>1. c = Len(prog)
    BY <1>2, <1>6 DEF TextOrder
  <2>2. g \in Nat /\ g <= Len(prog) /\ c <= g
    BY <1>5, Places
  <2> QED
    BY <1>6, <2>1, <2>2, Places
<1>7. \A h \in Schedulers : h <= g
  BY <1>5, Places
<1> QED
  BY <1>5, <1>6, <1>7

\* A new leaf comes after all others in the text.
LEMMA TextSpawn ==
  ASSUME Typed, Typed', TextInv, NEW g \in Schedulers, Spawn(g)
  PROVE  TextInv'
<1> SUFFICES ASSUME ControlLast' PROVE TextOrder'
  BY DEF TextInv
<1> DEFINE n == Len(prog) + 1
           l == Here(g)
<1>1. Extends
  BY Spawned DEF Extends
<1>2. TextOrder
  BY <1>1, Earlier DEF TextInv
<1>3. /\ Len(prog) \in Nat /\ Len(prog') = n /\ Ids' = Ids \cup {n} /\ n \notin Ids
      /\ prog'[n] = l /\ (\A i \in Ids : prog'[i] = prog[i])
      /\ Control' = Control \cup (IF l.recipe THEN {n} ELSE {})
      /\ 1 \in DOMAIN todo[g] /\ l = todo[g][1] /\ todo[g] # <<>>
      /\ \A i \in Ids : i < n
  BY Spawned, NextLine, Places
<1>4. /\ Schedulers' = Schedulers /\ todo' = [todo EXCEPT ![g] = Tail(@)]
      /\ last' = [last EXCEPT ![g] = sched + 1] /\ sched = Len(prog)
  BY DEF Spawn, Schedulers, Typed, LeavesTyped
<1>5. l.pos \in Seq(Nat)
  BY <1>3, Places
<1> HIDE DEF l, n
<1>6. \A i, j \in Ids' : i < j => Before(prog'[i].pos, prog'[j].pos)
  <2> SUFFICES ASSUME NEW i \in Ids', NEW j \in Ids', i < j
               PROVE  Before(prog'[i].pos, prog'[j].pos)
    OBVIOUS
  <2>1. CASE j \in Ids
    <3>1. i \in Ids
      BY <1>3, <2>1, Places
    <3> QED
      BY <1>2, <1>3, <2>1, <3>1 DEF TextOrder
  <2>2. CASE j = n
    <3>1. i \in Ids
      BY <1>3, <2>2 DEF n
    <3> QED
      BY <1>2, <1>3, <2>2, <3>1 DEF TextOrder
  <2> QED
    BY <1>3, <2>1, <2>2
\* The lines still to do are behind the new leaf.
<1>7. ASSUME NEW h \in Schedulers, NEW k \in DOMAIN todo'[h]
      PROVE  /\ Left(l.pos, todo'[h][k].pos)
             /\ \E m \in DOMAIN todo[h] : todo'[h][k] = todo[h][m]
  <2>1. CASE h = g
    <3>1. todo'[h] = Tail(todo[g])
      BY <1>4, <2>1 DEF Schedulers
    <3> QED
      BY <1>3, <2>1, <3>1, NextLine DEF l
  <2>2. CASE h # g
    <3>1. todo'[h] = todo[h] /\ h < g
      BY <1>4, <2>2, LastSpawns, Places DEF Schedulers
    <3>2. g \in Control /\ g # 0 /\ prog[g].pos \in Seq(Nat)
      BY <3>1, Places
    <3>3. Left(prog[g].pos, todo[h][k].pos) /\ todo[h][k].pos \in Seq(Nat)
      BY <1>2, <3>1, <3>2, Places DEF TextOrder
    <3>4. IsStrictPrefix(prog[g].pos, l.pos)
      BY <1>3, <3>2 DEF Typed, SchedulersTyped
    <3> QED
      BY <1>5, <3>1, <3>2, <3>3, <3>4, BelowLeft DEF IsStrictPrefix
  <2> QED
    BY <2>1, <2>2
<1>8. \A h \in Schedulers' : \A k \in DOMAIN todo'[h] :
        \A i \in Ids' : Before(prog'[i].pos, todo'[h][k].pos)
  <2> SUFFICES ASSUME NEW h \in Schedulers, NEW k \in DOMAIN todo'[h], NEW i \in Ids'
               PROVE  Before(prog'[i].pos, todo'[h][k].pos)
    BY <1>4
  <2>1. CASE i = n
    BY <1>3, <1>7, <2>1, BeforeMeans
  <2>2. CASE i \in Ids
    BY <1>2, <1>3, <1>7, <2>2 DEF TextOrder
  <2> QED
    BY <1>3, <2>1, <2>2
<1>9. \A h \in Schedulers', c \in Control' : h < c =>
        /\ last'[h] <= c
        /\ \A k \in DOMAIN todo'[h] : Left(prog'[c].pos, todo'[h][k].pos)
  <2> SUFFICES ASSUME NEW h \in Schedulers, NEW c \in Control', h < c
               PROVE  /\ last'[h] <= c
                      /\ \A k \in DOMAIN todo'[h] : Left(prog'[c].pos, todo'[h][k].pos)
    BY <1>4
  <2>1. last \in [Schedulers -> 0..Len(prog)]
    BY DEF Typed, SchedulersTyped
  <2>2. CASE c = n
    <3>1. last'[h] <= n
      BY <1>3, <1>4, <2>1 DEF n
    <3> QED
      BY <1>3, <1>7, <2>2, <3>1
  <2>3. CASE c \in Control
    <3>1. c <= g /\ h # g /\ c \in Ids
      BY <2>3, LastSpawns, Places
    <3>2. last'[h] = last[h]
      BY <1>4, <2>1, <3>1
    <3> QED
      BY <1>2, <1>3, <1>7, <2>3, <3>1, <3>2 DEF TextOrder
  <2> QED
    BY <1>3, <2>2, <2>3
<1>10. \A c \in Control' \ Schedulers' : c = Len(prog')
  <2> SUFFICES ASSUME NEW c \in Control' \ Schedulers' PROVE c = n
    BY <1>3
  <2>1. c \notin Control
    BY <1>4, LastSpawns
  <2> QED
    BY <1>3, <2>1
<1> QED
  BY <1>6, <1>8, <1>9, <1>10 DEF TextOrder

\* The lines of a recipe that is read take the place of its call.
LEMMA TextReadCalled ==
  ASSUME Typed, TextInv, NEW g \in Schedulers, ReadCalled(g)
  PROVE  TextInv'
<1> DEFINE l == Here(g)
<1>1. /\ UNCHANGED <<prog, last>> /\ Schedulers' = Schedulers
      /\ todo' = [todo EXCEPT ![g] = Lines(Called(Here(g)), Here(g).pos) \o Tail(@)]
      /\ Here(g).recipe /\ todo[g] # <<>>
  BY DEF ReadCalled, Inline, vars, Schedulers, Exists, AtLine
<1>2. Ids' = Ids /\ Control' = Control /\ ControlLast' = ControlLast
  BY <1>1 DEF Ids, Control, ControlLast
<1> SUFFICES ASSUME ControlLast PROVE TextOrder'
  BY <1>2 DEF TextInv
<1>3. TextOrder
  BY DEF TextInv
<1>4. 1 \in DOMAIN todo[g] /\ l = todo[g][1] /\ l.pos \in Seq(Nat)
  BY <1>1, NextLine, Places
\* A line to do is one of before, or below the call.
<1>5. ASSUME NEW h \in Schedulers, NEW k \in DOMAIN todo'[h]
      PROVE  /\ todo'[h][k].pos \in Seq(Nat)
             /\ \/ \E m \in DOMAIN todo[h] : todo'[h][k] = todo[h][m]
                \/ h = g /\ IsStrictPrefix(l.pos, todo'[h][k].pos)
  <2>1. CASE h = g
    <3> DEFINE T == Lines(Called(Here(g)), Here(g).pos) \o Tail(todo[g])
    <3>1. todo'[h] = T
      BY <1>1, <2>1 DEF Schedulers
    <3> HIDE DEF T
    <3>2. \A x \in DOMAIN T :
            /\ IsLine(T[x])
            /\ \/ IsStrictPrefix(l.pos, T[x].pos)
               \/ \E m \in DOMAIN Tail(todo[g]) : T[x] = Tail(todo[g])[m]
      BY <1>1, InlinedLines, Zenon DEF T
    <3>3. \A m \in DOMAIN Tail(todo[g]) : \E x \in DOMAIN todo[g] : Tail(todo[g])[m] = todo[g][x]
      BY <1>1, NextLine
    <3> QED
      BY <2>1, <3>1, <3>2, <3>3 DEF IsLine
  <2>2. CASE h # g
    <3>1. todo'[h] = todo[h]
      BY <1>1, <2>2 DEF Schedulers
    <3> QED
      BY <3>1, Places
  <2> QED
    BY <2>1, <2>2
<1> HIDE DEF l
<1>6. \A h \in Schedulers : \A k \in DOMAIN todo'[h] : \A i \in Ids :
        Before(prog[i].pos, todo'[h][k].pos)
  <2> SUFFICES ASSUME NEW h \in Schedulers, NEW k \in DOMAIN todo'[h], NEW i \in Ids
               PROVE  Before(prog[i].pos, todo'[h][k].pos)
    OBVIOUS
  <2>1. CASE \E m \in DOMAIN todo[h] : todo'[h][k] = todo[h][m]
    BY <1>3, <2>1 DEF TextOrder
  <2>2. CASE h = g /\ IsStrictPrefix(l.pos, todo'[h][k].pos)
    <3>1. Before(prog[i].pos, l.pos) /\ prog[i].pos \in Seq(Nat)
      BY <1>3, <1>4, Places DEF TextOrder
    <3>2. Before(l.pos, todo'[h][k].pos) /\ todo'[h][k].pos \in Seq(Nat)
      BY <1>5, <2>2, BeforeMeans
    <3> QED
      BY <1>4, <3>1, <3>2, BeforeOrder
  <2> QED
    BY <1>5, <2>1, <2>2
<1>7. \A h \in Schedulers, c \in Control : h < c =>
        \A k \in DOMAIN todo'[h] : Left(prog[c].pos, todo'[h][k].pos)
  <2> SUFFICES ASSUME NEW h \in Schedulers, NEW c \in Control, h < c, NEW k \in DOMAIN todo'[h]
               PROVE  Left(prog[c].pos, todo'[h][k].pos)
    OBVIOUS
  <2>1. CASE \E m \in DOMAIN todo[h] : todo'[h][k] = todo[h][m]
    BY <1>3, <2>1 DEF TextOrder
  <2>2. CASE h = g /\ IsStrictPrefix(l.pos, todo'[h][k].pos)
    <3>1. Left(prog[c].pos, l.pos) /\ prog[c].pos \in Seq(Nat)
      BY <1>3, <1>4, <2>2, Places DEF TextOrder
    <3> QED
      BY <1>4, <1>5, <2>2, <3>1, LeftOfBelow DEF IsStrictPrefix
  <2> QED
    BY <1>5, <2>1, <2>2
<1> QED
  BY <1>1, <1>2, <1>3, <1>6, <1>7 DEF TextOrder

\* The lines of a produced recipe come after all leaves.
LEMMA TextExpands ==
  ASSUME Typed, Typed', TextInv, NEW c \in Ids, Expands(c)
  PROVE  TextInv'
<1>1. /\ prog' = prog /\ c \in Control /\ c \notin Schedulers
      /\ todo' = Joined(todo, c, Lines(Called(prog[c]), prog[c].pos))
      /\ last' = Joined(last, c, 0)
  BY DEF Expands
<1>2. Ids' = Ids /\ Control' = Control /\ ControlLast' = ControlLast
  BY <1>1 DEF Ids, Control, ControlLast
<1> SUFFICES ASSUME ControlLast PROVE TextOrder'
  BY <1>2 DEF TextInv
<1>3. TextOrder
  BY DEF TextInv
<1>4. c = Len(prog) /\ prog[c].pos \in Seq(Nat)
  BY <1>1, <1>3, Places DEF TextOrder
<1>5. Schedulers' = Schedulers \cup {c}
  BY <1>1 DEF Joined, Schedulers
<1>6. last'[c] = 0 /\ \A h \in Schedulers : todo'[h] = todo[h] /\ last'[h] = last[h]
  <2>1. last \in [Schedulers -> 0..Len(prog)] /\ DOMAIN todo = Schedulers
    BY DEF Typed, SchedulersTyped, Schedulers
  <2> QED
    BY <1>1, <2>1 DEF Joined
<1>7. \A k \in DOMAIN todo'[c] : IsStrictPrefix(prog[c].pos, todo'[c][k].pos) /\ todo'[c][k].pos \in Seq(Nat)
  <2>1. IsLine(prog[c]) /\ prog[c].recipe
    BY <1>1 DEF Control, Typed, LeavesTyped
  <2> DEFINE L == Lines(Called(prog[c]), prog[c].pos)
  <2>2. todo'[c] = L
    BY <1>1 DEF Joined
  <2>3. \A k \in DOMAIN L : IsLine(L[k]) /\ IsStrictPrefix(prog[c].pos, L[k].pos)
    BY <2>1, CalledLines
  <2> HIDE DEF L
  <2> QED
    BY <2>2, <2>3 DEF IsLine
<1>8. \A k \in DOMAIN todo'[c] : \A i \in Ids : Before(prog[i].pos, todo'[c][k].pos)
  <2> SUFFICES ASSUME NEW k \in DOMAIN todo'[c], NEW i \in Ids
               PROVE  Before(prog[i].pos, todo'[c][k].pos)
    OBVIOUS
  <2>1. Before(prog[c].pos, todo'[c][k].pos)
    BY <1>7, BeforeMeans
  <2>2. CASE i < c
    <3>1. Before(prog[i].pos, prog[c].pos) /\ prog[i].pos \in Seq(Nat)
      BY <1>3, <2>2, Places DEF TextOrder
    <3> QED
      BY <1>4, <1>7, <2>1, <3>1, BeforeOrder
  <2>3. i = c \/ i < c
    BY <1>4, Places
  <2> QED
    BY <2>1, <2>2, <2>3
<1>9. \A b \in Control : ~(c < b)
  BY <1>4, Places
<1> QED
  BY <1>1, <1>2, <1>3, <1>5, <1>6, <1>8, <1>9 DEF TextOrder

\* The other steps have no part in the order of the text.
LEMMA TextKept ==
  ASSUME TextInv, UNCHANGED <<prog, todo, last>>
  PROVE  TextInv'
BY DEF TextInv, TextOrder, ControlLast, Control, Ids, Schedulers

\* Every step keeps the order of the text.
LEMMA TextStep ==
  ASSUME Typed, Typed', TextInv, [NestedNext]_all
  PROVE  TextInv'
<1>1. ASSUME NEW g \in Schedulers, LoadStamps(g) \/ StoreStamps(g) PROVE TextInv'
  BY <1>1, TextKept DEF LoadStamps, StoreStamps, vars
<1>2. ASSUME NEW i \in Ids, StartTask(i) PROVE TextInv'
  BY <1>2, TextKept DEF StartTask, StartLeaf
<1>3. ASSUME NEW i \in Ids, NEW f \in Files, ReadFile(i, f) \/ WriteFile(i, f), TaskFrame PROVE TextInv'
  BY <1>3, TextKept DEF ReadFile, WriteFile, TaskFrame
<1>4. ASSUME NEW i \in Ids, FinishLeaf(i), TaskFrame PROVE TextInv'
  BY <1>4, TextKept DEF FinishLeaf, TaskFrame
<1>5. CASE Rests
  BY <1>5, TextKept DEF Rests
<1>6. ASSUME NEW g \in Schedulers, Spawn(g) \/ ReadCalled(g) PROVE TextInv'
  BY <1>6, TextSpawn, TextReadCalled, Zenon
<1>7. ASSUME NEW c \in Ids, Expands(c) PROVE TextInv'
  BY <1>7, TextExpands
<1> QED
  BY <1>1, <1>2, <1>3, <1>4, <1>5, <1>6, <1>7, NestedSteps, Zenon

-----------------------------------------------------------------------------
(* The stamps.                                                             *)

\* The range of what is stamped.
LEMMA StampTypes ==
  ASSUME Typed
  PROVE  /\ Len(prog) \in Nat /\ Ids = 1..Len(prog) /\ sched = Len(prog)
         /\ \A f \in Files : /\ lastWrite[f] \in 0..Len(prog) /\ lastUse[f] \in 0..Len(prog)
                             /\ lastWrite[f] # 0 => lastWrite[f] \in Ids
                             /\ lastUse[f] # 0 => lastUse[f] \in Ids
         /\ prior \subseteq Ids /\ unknown \subseteq Ids
         /\ \A j \in Ids : deps[j] \subseteq 1..j - 1 /\ deps[j] \subseteq Ids
         /\ \A i \in Ids : IsLine(prog[i])
         /\ \A c \in Control : c \in Ids /\ prog[c].glob
<1>1. /\ Len(prog) \in Nat /\ Ids = 1..Len(prog) /\ sched = Len(prog)
      /\ lastWrite \in [Files -> 0..Len(prog)] /\ lastUse \in [Files -> 0..Len(prog)]
      /\ prior \subseteq Ids /\ unknown \subseteq Ids
      /\ \A j \in Ids : deps[j] \subseteq 1..j - 1
      /\ \A i \in Ids : IsLine(prog[i])
  BY DEF Typed, LeavesTyped, Ids
<1>2. \A c \in Control : c \in Ids /\ prog[c].glob
  BY <1>1 DEF Control, IsLine, IsCall
<1>3. \A j \in Ids : deps[j] \subseteq Ids
  BY <1>1
<1>4. \A f \in Files : /\ lastWrite[f] \in 0..Len(prog) /\ lastUse[f] \in 0..Len(prog)
                       /\ lastWrite[f] # 0 => lastWrite[f] \in Ids
                       /\ lastUse[f] # 0 => lastUse[f] \in Ids
  BY <1>1
<1> QED
  BY <1>1, <1>2, <1>3, <1>4

\* When a leaf is spawned every command before it has been recorded: what is
\* still to be recorded is the start of a goroutine that spawns.
LEMMA CommandsStamped ==
  ASSUME Typed, Typed', TextInv, NestedStamps, NEW g \in Schedulers, Spawn(g), ~raced', ControlLast'
  PROVE  /\ Stamping /\ StampedWrites /\ StampedReads /\ NestedDeps /\ NestedOver
         /\ \A h \in Schedulers \ {g} : at[h] # "stamping"
         /\ \A h \in Schedulers : at[h] # "line" => last[h] \in Control
         /\ \A i \in Ids \ Control : i \in prior
<1>1. Extends
  BY Spawned DEF Extends
<1>2. ControlLast /\ TextOrder
  BY <1>1, Earlier DEF TextInv
<1>3. ~raced /\ \A h \in Schedulers \ {g} : at[h] # "stamping"
  BY DEF Spawn, Touches
<1>4. Stamping /\ StampedWrites /\ StampedReads /\ NestedDeps /\ NestedOver
  BY <1>2, <1>3 DEF NestedStamps
<1>5. ASSUME NEW h \in Schedulers, at[h] # "line" PROVE last[h] \in Control
  <2>1. h # g
    BY <1>5, Spawned
  <2>2. h < g /\ g \in Control /\ g <= Len(prog)
    BY <2>1, LastSpawns, Places
  <2>3. last[h] <= g
    BY <1>2, <2>2 DEF TextOrder
  <2>4. last[h] \in Control \cup {Len(prog)}
    BY <1>4, <1>5 DEF Stamping
  <2> QED
    BY <2>2, <2>3, <2>4, Places
<1>6. \A i \in Ids \ Control : i \in prior
  BY <1>4, <1>5 DEF Stamping
<1> QED
  BY <1>3, <1>4, <1>5, <1>6

\* A new leaf is the one that is yet to be recorded.
LEMMA StampingSpawn ==
  ASSUME Typed, Typed', TextInv, NestedStamps, NEW g \in Schedulers, Spawn(g), ~raced', ControlLast'
  PROVE  Stamping' /\ StampedWrites' /\ StampedReads'
<1> DEFINE n == Len(prog) + 1
<1>1. /\ Stamping /\ StampedWrites /\ StampedReads
      /\ \A h \in Schedulers \ {g} : at[h] # "stamping"
      /\ \A h \in Schedulers : at[h] # "line" => last[h] \in Control
  BY CommandsStamped
<1>2. /\ Len(prog') = n /\ Ids' = Ids \cup {n} /\ (\A i \in Ids : prog'[i] = prog[i])
      /\ Control \subseteq Control' /\ at[g] = "line"
  BY Spawned
<1>3. /\ UNCHANGED <<lastWrite, lastUse, prior, unknown, loaded>> /\ Schedulers' = Schedulers
      /\ at' = [at EXCEPT ![g] = "spawned"] /\ last' = [last EXCEPT ![g] = n]
  BY StampTypes DEF Spawn, stamps, Schedulers
<1>4. /\ at \in [Schedulers -> {"line", "spawned", "stamping"}] /\ last \in [Schedulers -> 0..Len(prog)]
  BY DEF Typed, SchedulersTyped
<1>5. /\ at'[g] = "spawned" /\ last'[g] = n
      /\ \A h \in Schedulers : h # g => at'[h] = at[h] /\ last'[h] = last[h]
  BY <1>3, <1>4
<1> HIDE DEF n
<1>6. \A h \in Schedulers' : at'[h] # "stamping"
  BY <1>1, <1>3, <1>5
<1>7. \A h \in Schedulers' : at'[h] # "line" => last'[h] \in Control' \cup {Len(prog')}
  BY <1>1, <1>2, <1>3, <1>5
<1>8. \A i \in Ids' \ prior' : \E h \in Schedulers' : at'[h] # "line" /\ last'[h] = i
  <2> SUFFICES ASSUME NEW i \in Ids', i \notin prior
               PROVE  \E h \in Schedulers : at'[h] # "line" /\ last'[h] = i
    BY <1>3
  <2>1. CASE i = n
    BY <1>5, <2>1
  <2>2. CASE i \in Ids
    <3>1. PICK h \in Schedulers : at[h] # "line" /\ last[h] = i
      BY <1>1, <2>2 DEF Stamping
    <3> QED
      BY <1>2, <1>5, <3>1
  <2> QED
    BY <1>2, <2>1, <2>2
<1>9. unknown' = {i \in prior' : prog'[i].glob}
  BY <1>1, <1>2, <1>3, StampTypes DEF Stamping
<1>10. Stamping'
  BY <1>6, <1>7, <1>8, <1>9 DEF Stamping
<1>11. StampedWrites'
  <2> SUFFICES ASSUME NEW f \in Files
               PROVE  /\ lastWrite[f] # 0 => ~prog'[lastWrite[f]].glob /\ f \in prog'[lastWrite[f]].writes
                      /\ \A i \in prior : ~prog'[i].glob /\ f \in prog'[i].writes => i <= lastWrite[f]
    BY <1>3 DEF StampedWrites
  <2>1. \A i \in prior : prog'[i] = prog[i]
    BY <1>2, StampTypes
  <2>2. lastWrite[f] # 0 => prog'[lastWrite[f]] = prog[lastWrite[f]]
    BY <1>2, StampTypes
  <2> QED
    BY <1>1, <2>1, <2>2 DEF StampedWrites
<1>12. StampedReads'
  <2> SUFFICES ASSUME NEW f \in Files
               PROVE  /\ lastUse[f] # 0 => ~prog'[lastUse[f]].glob
                           /\ f \in prog'[lastUse[f]].reads \ prog'[lastUse[f]].writes
                      /\ \A i \in prior :
                           (~prog'[i].glob /\ f \in prog'[i].reads \ prog'[i].writes /\ lastWrite[f] < i)
                             => i <= lastUse[f]
    BY <1>3 DEF StampedReads
  <2>1. \A i \in prior : prog'[i] = prog[i]
    BY <1>2, StampTypes
  <2>2. lastUse[f] # 0 => prog'[lastUse[f]] = prog[lastUse[f]]
    BY <1>2, StampTypes
  <2> QED
    BY <1>1, <2>1, <2>2 DEF StampedReads
<1> QED
  BY <1>10, <1>11, <1>12

\* What fileDeps returns, element by element.
LEMMA NestedDepsMembers ==
  ASSUME NEW l
  PROVE  /\ l.glob => prior \subseteq FileDeps(l)
         /\ unknown \subseteq FileDeps(l)
         /\ ~l.glob => \A f \in l.reads \cup l.writes :
              lastWrite[f] # 0 => lastWrite[f] \in FileDeps(l)
         /\ ~l.glob => \A f \in l.writes :
              lastUse[f] # 0 => lastUse[f] \in FileDeps(l)
<1>1. CASE l.glob
  BY <1>1 DEF FileDeps
<1>2. CASE ~l.glob
  BY <1>2 DEF FileDeps
<1> QED
  BY <1>1, <1>2

\* The dependencies of a new leaf, from the stamps.
LEMMA NewDeps ==
  ASSUME Typed, Stamping, StampedWrites, StampedReads,
         \A i \in Ids \ Control : i \in prior,
         NEW l, IsLine(l), NEW i \in Ids \ Control
  PROVE  /\ (~prog[i].glob /\ ~l.glob) \/ i \in FileDeps(l)
         /\ \A f \in Files : ~prog[i].glob /\ ~l.glob /\ f \in prog[i].writes /\ f \in l.reads \cup l.writes
              => /\ lastWrite[f] \in FileDeps(l) /\ lastWrite[f] \in Ids /\ i <= lastWrite[f]
                 /\ f \in prog[lastWrite[f]].writes
<1>1. i \in prior /\ unknown = {k \in prior : prog[k].glob}
  BY DEF Stamping
<1>2. (~prog[i].glob /\ ~l.glob) \/ i \in FileDeps(l)
  BY <1>1, NestedDepsMembers
<1>3. ASSUME NEW f \in Files, ~prog[i].glob, ~l.glob, f \in prog[i].writes, f \in l.reads \cup l.writes
      PROVE  /\ lastWrite[f] \in FileDeps(l) /\ lastWrite[f] \in Ids /\ i <= lastWrite[f]
             /\ f \in prog[lastWrite[f]].writes
  <2>1. i <= lastWrite[f]
    BY <1>1, <1>3 DEF StampedWrites
  <2>2. lastWrite[f] # 0
    BY <2>1, StampTypes
  <2> QED
    BY <1>3, <2>1, <2>2, NestedDepsMembers, StampTypes DEF StampedWrites
<1> QED
  BY <1>2, <1>3

\* The dependencies of a new leaf lead to all it must not overtake.
LEMMA NestedDepsSpawn ==
  ASSUME Typed, Typed', TextInv, NestedStamps, NEW g \in Schedulers, Spawn(g), ~raced', ControlLast'
  PROVE  NestedDeps'
<1> DEFINE n == Len(prog) + 1
           l == Here(g)
<1>1. /\ Stamping /\ StampedWrites /\ StampedReads /\ NestedDeps
      /\ \A i \in Ids \ Control : i \in prior
  BY CommandsStamped
<1>2. /\ Ids' = Ids \cup {n} /\ n \notin Ids /\ prog'[n] = l /\ (\A i \in Ids : prog'[i] = prog[i])
      /\ Control \subseteq Control' /\ IsLine(l) /\ (\A i \in Ids : i < n) /\ n \in Nat
      /\ deps'[n] = FileDeps(l) /\ \A i \in Ids : deps'[i] = deps[i]
  BY Spawned, StampTypes
<1>3. \A i \in Ids \ Control' : i \in Ids \ Control
  BY <1>2
<1> HIDE DEF n, l
<1> SUFFICES ASSUME NEW i \in Ids' \ Control', NEW j \in Ids', i < j, Follows(prog, i, j)'
             PROVE  \/ i \in deps'[j]
                    \/ \E k \in deps'[j] : i < k /\ k < j /\ Follows(prog, i, k)'
  BY DEF NestedDeps
<1>4. CASE j = n
  <2>1. i \in Ids \ Control
    BY <1>2, <1>3, <1>4, StampTypes
  <2>2. CASE prog[i].glob \/ l.glob
    BY <1>1, <1>2, <1>4, <2>1, <2>2, NewDeps
  <2>3. CASE ~prog[i].glob /\ ~l.glob
    <3>1. PICK f \in Files : f \in prog[i].writes /\ f \in l.reads \cup l.writes
      <4>1. prog[i].writes \subseteq Files
        BY <2>1, StampTypes DEF IsLine
      <4> QED
        BY <1>2, <1>4, <2>1, <2>3, <4>1 DEF Follows
    <3>2. PICK w \in Ids : w \in FileDeps(l) /\ i <= w /\ f \in prog[w].writes
      <4>1. f \in Files
        BY <1>2, <3>1 DEF IsLine
      <4> QED
        BY <1>1, <1>2, <2>1, <2>3, <3>1, <4>1, NewDeps
    <3>3. w < n /\ (w = i \/ i < w)
      BY <1>2, <2>1, <3>2, StampTypes
    <3>4. Follows(prog, i, w)'
      BY <1>2, <2>1, <3>1, <3>2 DEF Follows
    <3> QED
      BY <1>2, <1>4, <3>2, <3>3, <3>4
  <2> QED
    BY <2>2, <2>3
<1>5. CASE j \in Ids
  <2>1. i \in Ids \ Control
    BY <1>2, <1>3, <1>5, StampTypes
  <2>2. Follows(prog, i, j)
    BY <1>2, <1>5, <2>1 DEF Follows
  <2>3. \/ i \in deps[j]
        \/ \E k \in deps[j] : i < k /\ k < j /\ Follows(prog, i, k)
    BY <1>1, <1>5, <2>1, <2>2 DEF NestedDeps
  <2>4. \A k \in deps[j] : Follows(prog, i, k) => Follows(prog, i, k)'
    BY <1>2, <1>5, <2>1, StampTypes DEF Follows
  <2> QED
    BY <1>2, <1>5, <2>3, <2>4
<1> QED
  BY <1>2, <1>4, <1>5

\* A reader that a new leaf overwrites.
LEMMA NestedOverNew ==
  ASSUME Typed, Typed', TextInv, NestedStamps, NEW g \in Schedulers, Spawn(g), ~raced', ControlLast',
         SingleReader(prog'), NEW i \in Ids \ Control, NEW n, n = Len(prog) + 1,
         Overwrites(prog', i, n), ~Follows(prog', i, n)
  PROVE  \/ i \in FileDeps(Here(g))
         \/ \E k \in FileDeps(Here(g)) : k \in Ids /\ i < k /\ k < n
                                         /\ (Follows(prog', i, k) \/ Overwrites(prog', i, k))
         \/ \E k \in Control : i < k /\ k < n
<1> DEFINE l == Here(g)
           D == FileDeps(l)
<1>1. /\ Stamping /\ StampedWrites /\ StampedReads
      /\ \A k \in Ids \ Control : k \in prior
  BY CommandsStamped
<1>2. /\ Ids' = Ids \cup {n} /\ n \notin Ids /\ prog'[n] = l /\ (\A k \in Ids : prog'[k] = prog[k])
      /\ IsLine(l) /\ (\A k \in Ids : k < n) /\ n \in Nat /\ Ids \subseteq Nat
      /\ DOMAIN prog' = Ids'
  <2>1. DOMAIN prog' = Ids'
    BY DEF Typed, LeavesTyped, Ids
  <2>2. /\ Ids' = Ids \cup {n} /\ n \notin Ids /\ prog'[n] = l /\ (\A k \in Ids : prog'[k] = prog[k])
        /\ IsLine(l)
    BY Spawned
  <2>3. (\A k \in Ids : k < n) /\ n \in Nat /\ Ids \subseteq Nat
    BY StampTypes
  <2> QED
    BY <2>1, <2>2, <2>3
<1>3. /\ \A f \in l.writes : lastWrite[f] # 0 => lastWrite[f] \in D
      /\ \A f \in l.writes : lastUse[f] # 0 => lastUse[f] \in D
  <2>1. ~l.glob
    BY <1>2 DEF Follows
  <2> QED
    BY <2>1, NestedDepsMembers
<1> HIDE DEF l, D
<1>4. ~prog[i].glob /\ ~l.glob /\ prog[i].writes \cap l.writes = {}
  BY <1>2 DEF Follows
<1>5. PICK f \in Files : f \in prog[i].reads \ prog[i].writes /\ f \in l.writes
  <2>1. prog[i].reads \subseteq Files
    BY StampTypes DEF IsLine
  <2> QED
    BY <1>2, <1>4, <2>1 DEF Overwrites
<1>6. /\ lastWrite[f] \in 0..Len(prog) /\ lastUse[f] \in 0..Len(prog)
      /\ lastWrite[f] # 0 => lastWrite[f] \in D /\ lastWrite[f] \in Ids /\ f \in prog[lastWrite[f]].writes
      /\ lastUse[f] # 0 => /\ lastUse[f] \in D /\ lastUse[f] \in Ids /\ ~prog[lastUse[f]].glob
                           /\ f \in prog[lastUse[f]].reads \ prog[lastUse[f]].writes
      /\ i \in prior /\ i \in Ids /\ i # 0
  BY <1>1, <1>3, <1>5, StampTypes DEF StampedWrites, StampedReads
<1>7. CASE i < lastWrite[f]
  <2> DEFINE w == lastWrite[f]
  <2>1. w \in D /\ w \in Ids /\ f \in prog[w].writes /\ i < w /\ w < n
    BY <1>2, <1>6, <1>7
  <2> HIDE DEF w
  <2>2. Overwrites(prog', i, w)
    BY <1>2, <1>5, <2>1 DEF Overwrites
  <2> QED
    BY <2>1, <2>2 DEF D, l
<1>8. CASE ~(i < lastWrite[f])
  <2>1. lastWrite[f] < i
    <3>1. lastWrite[f] # i
      BY <1>5, <1>6
    <3>2. lastWrite[f] \in Nat /\ i \in Nat
      BY <1>2, <1>6, StampTypes
    <3> QED
      BY <1>8, <3>1, <3>2
  <2>2. i <= lastUse[f]
    BY <1>1, <1>4, <1>5, <1>6, <2>1 DEF StampedReads
  <2> DEFINE u == lastUse[f]
  <2>3. u \in D /\ u \in Ids /\ f \in prog[u].reads \ prog[u].writes /\ i <= u
    BY <1>2, <1>6, <2>2
  <2> HIDE DEF u
  <2>4. CASE i = u
    BY <2>3, <2>4 DEF D, l
  <2>5. CASE i # u
    <3>1. i < u /\ u < n
      BY <1>2, <2>3, <2>5
    <3>2. /\ f \in prog'[i].reads \ prog'[i].writes /\ f \in prog'[u].reads \ prog'[u].writes
          /\ f \in prog'[n].writes
      BY <1>2, <1>5, <2>3
    <3>3. PICK m \in i..n : prog'[m].glob \/ (m # n /\ f \in prog'[m].writes)
      BY <1>2, <2>3, <3>1, <3>2 DEF SingleReader
    <3>4. m # i /\ m # n /\ m \in Ids /\ i < m /\ m < n /\ prog'[m] = prog[m]
      <4>1. m # i /\ m # n
        BY <1>2, <1>4, <1>5, <3>3
      <4>2. m \in Ids
        BY <1>2, <1>6, <3>3, <4>1, StampTypes
      <4> QED
        BY <1>2, <1>6, <3>3, <4>1, <4>2
    <3>5. CASE m \in Control
      BY <3>4, <3>5
    <3>6. CASE m \notin Control /\ prog[m].glob
      <4>1. m \in unknown
        BY <1>1, <3>4, <3>6 DEF Stamping
      <4>2. m \in D
        BY <4>1, NestedDepsMembers DEF D, l
      <4>3. Follows(prog', i, m)
        BY <3>4, <3>6 DEF Follows
      <4> QED
        BY <3>4, <4>2, <4>3 DEF D, l
    <3>7. CASE m \notin Control /\ ~prog[m].glob
      <4>1. f \in prog[m].writes /\ m \in prior
        BY <1>1, <3>3, <3>4, <3>7
      <4>2. m <= lastWrite[f]
        BY <1>1, <1>5, <3>7, <4>1 DEF StampedWrites
      <4>3. lastWrite[f] \in Nat /\ i \in Nat /\ m \in Nat
        BY <1>2, <1>6, <3>4, StampTypes
      <4> QED
        BY <2>1, <3>4, <4>2, <4>3
    <3> QED
      BY <3>5, <3>6, <3>7
  <2> QED
    BY <2>4, <2>5
<1> QED
  BY <1>7, <1>8

\* The dependencies of a new leaf lead to the readers it overwrites.
LEMMA NestedOverSpawn ==
  ASSUME Typed, Typed', TextInv, NestedStamps, NEW g \in Schedulers, Spawn(g), ~raced', ControlLast'
  PROVE  NestedOver'
<1> SUFFICES ASSUME SingleReader(prog'),
                    NEW i \in Ids' \ Control', NEW j \in Ids', i < j, Overwrites(prog', i, j)
             PROVE  \/ Follows(prog', i, j)
                    \/ i \in deps'[j]
                    \/ \E k \in deps'[j] : i < k /\ k < j
                                           /\ (Follows(prog', i, k) \/ Overwrites(prog', i, k))
                    \/ \E k \in Control' : i < k /\ k < j
  BY DEF NestedOver, Follows, Overwrites, SingleReader
<1> DEFINE n == Len(prog) + 1
<1>1. /\ Ids' = Ids \cup {n} /\ n \notin Ids /\ (\A k \in Ids : prog'[k] = prog[k])
      /\ Control \subseteq Control' /\ (\A k \in Ids : k < n) /\ n \in Nat /\ Ids \subseteq Nat
      /\ deps'[n] = FileDeps(Here(g)) /\ \A k \in Ids : deps'[k] = deps[k]
  BY Spawned, StampTypes
<1>2. n = Len(prog) + 1
  OBVIOUS
<1> HIDE DEF n
<1>3. i \in Ids \ Control
  BY <1>1
<1>4. CASE j = n
  <2>1. CASE Follows(prog', i, n)
    BY <1>4, <2>1
  <2>2. CASE ~Follows(prog', i, n)
    <3>1. \/ i \in FileDeps(Here(g))
          \/ \E k \in FileDeps(Here(g)) : k \in Ids /\ i < k /\ k < n
                                          /\ (Follows(prog', i, k) \/ Overwrites(prog', i, k))
          \/ \E k \in Control : i < k /\ k < n
      BY <1>2, <1>3, <1>4, <2>2, NestedOverNew
    <3> QED
      BY <1>1, <1>4, <3>1
  <2> QED
    BY <2>1, <2>2
<1>5. CASE j \in Ids
  <2>1. Extends
    BY Spawned DEF Extends
  <2>2. SingleReader(prog) /\ NestedOver
    <3>1. SingleReader(prog)' => SingleReader(prog)
      BY <2>1, Earlier
    <3> QED
      BY <3>1, CommandsStamped DEF SingleReader
  <2>3. Overwrites(prog, i, j)
    BY <1>1, <1>3, <1>5 DEF Overwrites
  <2>4. \/ Follows(prog, i, j)
        \/ i \in deps[j]
        \/ \E k \in deps[j] : i < k /\ k < j /\ (Follows(prog, i, k) \/ Overwrites(prog, i, k))
        \/ \E k \in Control : i < k /\ k < j
    BY <1>3, <1>5, <2>2, <2>3 DEF NestedOver
  <2>5. \A k \in Ids : /\ Follows(prog, i, k) => Follows(prog', i, k)
                       /\ Overwrites(prog, i, k) => Overwrites(prog', i, k)
    BY <1>1, <1>3 DEF Follows, Overwrites
  <2>6. deps[j] \subseteq Ids /\ deps'[j] = deps[j]
    BY <1>1, <1>5, StampTypes
  <2> QED
    BY <1>1, <1>5, <2>4, <2>5, <2>6
<1> QED
  BY <1>1, <1>4, <1>5

\* Steps that leave the stamps and the goroutines alone.
LEMMA StampsKept ==
  ASSUME NestedStamps, UNCHANGED <<prog, deps, stamps, at, loaded, last>>, Schedulers' = Schedulers,
         raced => raced'
  PROVE  NestedStamps'
<1>1. Ids' = Ids /\ Control' = Control /\ ControlLast' = ControlLast
  BY DEF Ids, Control, ControlLast
<1> SUFFICES ASSUME ~raced', ControlLast
             PROVE  Stamping' /\ StampedWrites' /\ StampedReads' /\ NestedDeps' /\ NestedOver'
  BY <1>1 DEF NestedStamps
<1>2. Stamping /\ StampedWrites /\ StampedReads /\ NestedDeps /\ NestedOver
  BY DEF NestedStamps
<1>3. Stamping'
  BY <1>1, <1>2 DEF Stamping, stamps
<1>4. StampedWrites' /\ StampedReads'
  BY <1>2 DEF StampedWrites, StampedReads, stamps
<1>5. NestedDeps'
  BY <1>1, <1>2 DEF NestedDeps, Follows
<1>6. NestedOver'
  BY <1>1, <1>2 DEF NestedOver
<1> QED
  BY <1>3, <1>4, <1>5, <1>6

\* What recordLeaf loads is what it will build on.
LEMMA StampsLoad ==
  ASSUME Typed, NestedStamps, NEW g \in Schedulers, LoadStamps(g)
  PROVE  NestedStamps'
<1>1. /\ UNCHANGED <<prog, deps, lastWrite, lastUse, prior, unknown, last>> /\ Schedulers' = Schedulers
      /\ at' = [at EXCEPT ![g] = "stamping"] /\ at[g] = "spawned"
      /\ loaded' = [loaded EXCEPT ![g] = [prior |-> prior, unknown |-> unknown]]
  BY DEF LoadStamps, vars, Schedulers
<1>2. Ids' = Ids /\ Control' = Control /\ ControlLast' = ControlLast
  BY <1>1 DEF Ids, Control, ControlLast
<1> SUFFICES ASSUME ~raced', ControlLast
             PROVE  Stamping' /\ StampedWrites' /\ StampedReads' /\ NestedDeps' /\ NestedOver'
  BY <1>2 DEF NestedStamps
<1>3. ~raced /\ \A h \in Schedulers \ {g} : at[h] # "stamping"
  BY DEF LoadStamps, Touches
<1>4. Stamping /\ StampedWrites /\ StampedReads /\ NestedDeps /\ NestedOver
  BY <1>3 DEF NestedStamps
<1>5. /\ at'[g] = "stamping" /\ loaded'[g] = [prior |-> prior, unknown |-> unknown]
      /\ \A h \in Schedulers : h # g => at'[h] = at[h] /\ loaded'[h] = loaded[h]
  <2>1. DOMAIN at = Schedulers /\ DOMAIN loaded = Schedulers
    BY DEF Typed, SchedulersTyped
  <2> QED
    BY <1>1, <2>1
<1>6. Stamping'
  <2>1. \A h \in Schedulers : at'[h] = "stamping" => h = g
    BY <1>3, <1>5
  <2>2. \A h \in Schedulers : at'[h] # "line" <=> at[h] # "line"
    BY <1>1, <1>5
  <2> QED
    BY <1>1, <1>2, <1>4, <1>5, <2>1, <2>2 DEF Stamping
<1>7. StampedWrites' /\ StampedReads'
  BY <1>1, <1>4 DEF StampedWrites, StampedReads
<1>8. NestedDeps'
  BY <1>1, <1>2, <1>4 DEF NestedDeps, Follows
<1>9. NestedOver'
  BY <1>1, <1>2, <1>4 DEF NestedOver
<1> QED
  BY <1>6, <1>7, <1>8, <1>9

\* What recordLeaf stores is what it loaded, with its leaf.
LEMMA StampsStore ==
  ASSUME Typed, NestedStamps, NEW g \in Schedulers, StoreStamps(g)
  PROVE  NestedStamps'
<1> DEFINE n == last[g]
<1>1. /\ UNCHANGED <<prog, deps, last, raced>> /\ Schedulers' = Schedulers
      /\ at' = [at EXCEPT ![g] = "line"] /\ at[g] = "stamping"
      /\ loaded' = [loaded EXCEPT ![g] = Nothing]
      /\ prior' = loaded[g].prior \cup {n}
      /\ unknown' = IF prog[n].glob THEN loaded[g].unknown \cup {n} ELSE unknown
      /\ \A f \in Files : lastWrite'[f] = IF ~prog[n].glob /\ f \in prog[n].writes THEN n ELSE lastWrite[f]
      /\ \A f \in Files : lastUse'[f] = IF prog[n].glob THEN lastUse[f]
                                        ELSE IF f \in prog[n].writes THEN 0
                                        ELSE IF f \in prog[n].reads THEN n ELSE lastUse[f]
  BY DEF StoreStamps, Schedulers
<1>2. Ids' = Ids /\ Control' = Control /\ ControlLast' = ControlLast
  BY <1>1 DEF Ids, Control, ControlLast
<1> SUFFICES ASSUME ~raced, ControlLast
             PROVE  Stamping' /\ StampedWrites' /\ StampedReads' /\ NestedDeps' /\ NestedOver'
  BY <1>1, <1>2 DEF NestedStamps
<1>3. Stamping /\ StampedWrites /\ StampedReads /\ NestedDeps /\ NestedOver
  BY DEF NestedStamps
<1>4. /\ loaded[g].prior = prior /\ loaded[g].unknown = unknown
      /\ n \in Control \cup {Len(prog)} /\ n \in Ids
      /\ \A h \in Schedulers : at[h] = "stamping" => h = g
  <2>1. at[g] # "line"
    BY <1>1
  <2>2. n \in Ids
    BY <2>1 DEF Typed, SchedulersTyped
  <2>3. n \in Control \cup {Len(prog)}
    BY <1>3, <2>1 DEF Stamping
  <2> QED
    BY <1>1, <1>3, <2>2, <2>3 DEF Stamping
<1>5. /\ at'[g] = "line"
      /\ \A h \in Schedulers : h # g => at'[h] = at[h] /\ loaded'[h] = loaded[h]
  <2>1. DOMAIN at = Schedulers /\ DOMAIN loaded = Schedulers
    BY DEF Typed, SchedulersTyped
  <2> QED
    BY <1>1, <2>1
<1>6. /\ prior' = prior \cup {n} /\ n \in Nat /\ Ids \subseteq Nat /\ Ids = 1..Len(prog)
      /\ prior \subseteq Ids /\ Len(prog) \in Nat
      /\ \A f \in Files : lastWrite[f] \in 0..Len(prog) /\ lastUse[f] \in 0..Len(prog)
      /\ ~prog[n].glob => n = Len(prog)
  <2>1. ~prog[n].glob => n = Len(prog)
    BY <1>4, StampTypes
  <2>2. Ids \subseteq Nat
    BY StampTypes
  <2> QED
    BY <1>1, <1>4, <2>1, <2>2, StampTypes
<1> HIDE DEF n
<1>7. Stamping'
  <2>1. \A h \in Schedulers : at'[h] # "line" => h # g /\ at'[h] = at[h]
    BY <1>5
  <2>2. \A h \in Schedulers : at'[h] # "stamping"
    BY <1>4, <1>5, <2>1
  <2>3. \A i \in Ids \ prior' : \E h \in Schedulers : at'[h] # "line" /\ last[h] = i
    <3> SUFFICES ASSUME NEW i \in Ids, i \notin prior, i # n
                 PROVE  \E h \in Schedulers : at'[h] # "line" /\ last[h] = i
      BY <1>6
    <3>1. PICK h \in Schedulers : at[h] # "line" /\ last[h] = i
      BY <1>3 DEF Stamping
    <3> QED
      BY <1>5, <3>1 DEF n
  <2>4. unknown' = {i \in prior' : prog'[i].glob}
    <3>1. unknown = {i \in prior : prog[i].glob}
      BY <1>3 DEF Stamping
    <3> QED
      BY <1>1, <1>4, <1>6, <3>1
  <2>5. \A h \in Schedulers : at'[h] # "line" => last[h] \in Control \cup {Len(prog)}
    BY <1>3, <2>1 DEF Stamping
  <2> QED
    BY <1>1, <1>2, <2>2, <2>3, <2>4, <2>5 DEF Stamping
<1>8. StampedWrites'
  <2> SUFFICES ASSUME NEW f \in Files
               PROVE  /\ lastWrite'[f] # 0 => ~prog[lastWrite'[f]].glob /\ f \in prog[lastWrite'[f]].writes
                      /\ \A i \in prior \cup {n} :
                           ~prog[i].glob /\ f \in prog[i].writes => i <= lastWrite'[f]
    BY <1>1, <1>6 DEF StampedWrites
  <2>1. /\ lastWrite[f] # 0 => ~prog[lastWrite[f]].glob /\ f \in prog[lastWrite[f]].writes
        /\ \A i \in prior : ~prog[i].glob /\ f \in prog[i].writes => i <= lastWrite[f]
    BY <1>3 DEF StampedWrites
  <2>2. CASE ~prog[n].glob /\ f \in prog[n].writes
    BY <1>1, <1>6, <2>2
  <2>3. CASE ~(~prog[n].glob /\ f \in prog[n].writes)
    BY <1>1, <2>1, <2>3
  <2> QED
    BY <2>2, <2>3
<1>9. StampedReads'
  <2> DEFINE Pure(i, f) == ~prog[i].glob /\ f \in prog[i].reads \ prog[i].writes
  <2> SUFFICES ASSUME NEW f \in Files
               PROVE  /\ lastUse'[f] # 0 => Pure(lastUse'[f], f)
                      /\ \A i \in prior \cup {n} :
                           Pure(i, f) /\ lastWrite'[f] < i => i <= lastUse'[f]
    BY <1>1, <1>6 DEF StampedReads
  <2>1. /\ lastUse[f] # 0 => Pure(lastUse[f], f)
        /\ \A i \in prior : Pure(i, f) /\ lastWrite[f] < i => i <= lastUse[f]
    BY <1>3 DEF StampedReads
  <2>2. CASE prog[n].glob
    BY <1>1, <2>1, <2>2
  <2>3. CASE ~prog[n].glob /\ f \in prog[n].writes
    BY <1>1, <1>6, <2>3
  <2>4. CASE ~prog[n].glob /\ f \notin prog[n].writes /\ f \in prog[n].reads
    BY <1>1, <1>6, <2>4
  <2>5. CASE ~prog[n].glob /\ f \notin prog[n].writes /\ f \notin prog[n].reads
    BY <1>1, <2>1, <2>5
  <2> QED
    BY <2>2, <2>3, <2>4, <2>5
<1>10. NestedDeps'
  BY <1>1, <1>2, <1>3 DEF NestedDeps, Follows
<1>11. NestedOver'
  BY <1>1, <1>2, <1>3 DEF NestedOver
<1> QED
  BY <1>7, <1>8, <1>9, <1>10, <1>11

\* A goroutine that begins has stamped nothing yet.
LEMMA StampsExpands ==
  ASSUME Typed, NestedStamps, NEW c \in Ids, Expands(c)
  PROVE  NestedStamps'
<1>1. /\ UNCHANGED <<prog, deps, lastWrite, lastUse, prior, unknown, raced>> /\ c \notin Schedulers
      /\ todo' = Joined(todo, c, Lines(Called(prog[c]), prog[c].pos))
      /\ at' = Joined(at, c, "line") /\ loaded' = Joined(loaded, c, Nothing)
      /\ last' = Joined(last, c, 0)
  BY DEF Expands, stamps
<1>2. Ids' = Ids /\ Control' = Control /\ ControlLast' = ControlLast
      /\ Schedulers' = Schedulers \cup {c}
  BY <1>1 DEF Ids, Control, ControlLast, Schedulers, Joined
<1> SUFFICES ASSUME ~raced, ControlLast
             PROVE  Stamping' /\ StampedWrites' /\ StampedReads' /\ NestedDeps' /\ NestedOver'
  BY <1>1, <1>2 DEF NestedStamps
<1>3. Stamping /\ StampedWrites /\ StampedReads /\ NestedDeps /\ NestedOver
  BY DEF NestedStamps
<1>4. /\ at'[c] = "line"
      /\ \A h \in Schedulers : at'[h] = at[h] /\ loaded'[h] = loaded[h] /\ last'[h] = last[h]
  <2>1. DOMAIN at = Schedulers /\ DOMAIN loaded = Schedulers /\ DOMAIN last = Schedulers
    BY DEF Typed, SchedulersTyped
  <2> QED
    BY <1>1, <2>1 DEF Joined
<1>5. Stamping'
  BY <1>1, <1>2, <1>3, <1>4 DEF Stamping
<1>6. StampedWrites' /\ StampedReads'
  BY <1>1, <1>3 DEF StampedWrites, StampedReads
<1>7. NestedDeps'
  BY <1>1, <1>2, <1>3 DEF NestedDeps, Follows
<1>8. NestedOver'
  BY <1>1, <1>2, <1>3 DEF NestedOver
<1> QED
  BY <1>5, <1>6, <1>7, <1>8

\* Every step keeps the stamps accurate.
LEMMA NestedStampsStep ==
  ASSUME Typed, Typed', TextInv, NestedStamps, [NestedNext]_all
  PROVE  NestedStamps'
<1>1. ASSUME NEW g \in Schedulers, Spawn(g) PROVE NestedStamps'
  BY <1>1, StampingSpawn, NestedDepsSpawn, NestedOverSpawn DEF NestedStamps
<1>2. ASSUME NEW g \in Schedulers, ReadCalled(g) PROVE NestedStamps'
  <2>1. /\ UNCHANGED <<prog, deps, stamps, at, loaded, last, raced>>
        /\ todo' = [todo EXCEPT ![g] = Lines(Called(Here(g)), Here(g).pos) \o Tail(@)]
    BY <1>2 DEF ReadCalled, Inline, vars, stamps
  <2>2. Schedulers' = Schedulers
    BY <2>1 DEF Schedulers
  <2> QED
    BY <2>1, <2>2, StampsKept
<1>3. ASSUME NEW g \in Schedulers, LoadStamps(g) \/ StoreStamps(g) PROVE NestedStamps'
  BY <1>3, StampsLoad, StampsStore, Zenon
<1>4. ASSUME NEW c \in Ids, Expands(c) PROVE NestedStamps'
  BY <1>4, StampsExpands
<1>5. ASSUME NEW i \in Ids, StartTask(i) PROVE NestedStamps'
  BY <1>5, StampsKept DEF StartTask, StartLeaf, Schedulers
<1>6. ASSUME NEW i \in Ids, NEW f \in Files, ReadFile(i, f) \/ WriteFile(i, f), TaskFrame PROVE NestedStamps'
  BY <1>6, StampsKept DEF ReadFile, WriteFile, TaskFrame, Schedulers
<1>7. ASSUME NEW i \in Ids, FinishLeaf(i), TaskFrame PROVE NestedStamps'
  BY <1>7, StampsKept DEF FinishLeaf, TaskFrame, Schedulers
<1>8. CASE Rests
  BY <1>8, StampsKept DEF Rests, Schedulers
<1> QED
  BY <1>1, <1>2, <1>3, <1>4, <1>5, <1>6, <1>7, <1>8, NestedSteps, Zenon

-----------------------------------------------------------------------------
(* The order in which leaves run.                                          *)

\* Every step keeps the dependencies of what has started finished.
LEMMA DepsFinishedStep ==
  ASSUME Typed, Typed', DepsFinished, [NestedNext]_all
  PROVE  DepsFinished'
<1>1. ASSUME NEW g \in Schedulers, Spawn(g) PROVE DepsFinished'
  <2>1. UNCHANGED <<started, finished>>
    BY <1>1 DEF Spawn
  <2>2. started \subseteq Ids /\ \A i \in Ids : deps'[i] = deps[i]
    BY <1>1, Spawned DEF Typed, LeavesTyped
  <2> QED
    BY <2>1, <2>2 DEF DepsFinished
<1>2. ASSUME NEW i \in Ids, StartTask(i) PROVE DepsFinished'
  BY <1>2 DEF StartTask, StartLeaf, DepsFinished
<1>3. ASSUME NEW i \in Ids, FinishLeaf(i) PROVE DepsFinished'
  BY <1>3 DEF FinishLeaf, DepsFinished
<1>4. CASE UNCHANGED <<started, finished, deps>>
  BY <1>4 DEF DepsFinished
<1>5. ASSUME NEW g \in Schedulers, ReadCalled(g) \/ LoadStamps(g) \/ StoreStamps(g) PROVE DepsFinished'
  BY <1>4, <1>5 DEF ReadCalled, LoadStamps, StoreStamps, vars
<1>6. ASSUME NEW c \in Ids, Expands(c) PROVE DepsFinished'
  BY <1>4, <1>6 DEF Expands
<1>7. ASSUME NEW i \in Ids, NEW f \in Files, ReadFile(i, f) \/ WriteFile(i, f) PROVE DepsFinished'
  BY <1>4, <1>7 DEF ReadFile, WriteFile
<1>8. CASE Rests
  BY <1>4, <1>8 DEF Rests
<1> QED
  BY <1>1, <1>2, <1>3, <1>5, <1>6, <1>7, <1>8, NestedSteps, Zenon

\* A leaf that starts comes after every command it must not overtake.
LEMMA NestedStart ==
  ASSUME Typed, TextInv, NestedStamps, DepsFinished, NestedOrder, NEW j \in Ids, deps[j] \subseteq finished,
         ~raced, ControlLast, NEW i \in Ids \ Control, i < j
  PROVE  /\ Follows(prog, i, j) => i \in finished
         /\ SingleReader(prog) /\ Overwrites(prog, i, j) => i \in finished
<1>1. /\ NestedDeps /\ NestedOver
      /\ \A b \in Ids \ Control, k \in started : b < k /\ Follows(prog, b, k) => b \in finished
      /\ SingleReader(prog) =>
           \A b \in Ids \ Control, k \in started : b < k /\ Overwrites(prog, b, k) => b \in finished
  BY DEF NestedStamps, NestedOrder
<1>2. \A k \in deps[j] : k \in started
  BY DEF Typed, LeavesTyped
<1>3. ASSUME Follows(prog, i, j) PROVE i \in finished
  <2>1. \/ i \in deps[j]
        \/ \E k \in deps[j] : i < k /\ k < j /\ Follows(prog, i, k)
    BY <1>1, <1>3 DEF NestedDeps
  <2> QED
    BY <1>1, <1>2, <2>1
<1>4. ASSUME SingleReader(prog), Overwrites(prog, i, j), ~Follows(prog, i, j) PROVE i \in finished
  <2>1. \/ i \in deps[j]
        \/ \E k \in deps[j] : i < k /\ k < j /\ (Follows(prog, i, k) \/ Overwrites(prog, i, k))
        \/ \E k \in Control : i < k /\ k < j
    BY <1>1, <1>4 DEF NestedOver
  <2>2. ASSUME NEW k \in Control, i < k, k < j PROVE i \in finished
    <3>1. k # Len(prog)
      BY <2>2, Places
    <3>2. k \in Schedulers
      BY <3>1 DEF TextInv, TextOrder
    <3>3. k \in started
      BY <2>2, <3>2, Places DEF Typed, SchedulersTyped
    <3>4. Follows(prog, i, k)
      BY StampTypes DEF Follows
    <3> QED
      BY <1>1, <2>2, <3>3, <3>4
  <2> QED
    BY <1>1, <1>2, <1>4, <2>1, <2>2
<1> QED
  BY <1>3, <1>4

\* Every step keeps the order in which leaves run.
LEMMA NestedOrderStep ==
  ASSUME Typed, Typed', TextInv, NestedStamps, DepsFinished, NestedOrder, [NestedNext]_all
  PROVE  NestedOrder'
<1>1. ASSUME NEW g \in Schedulers, Spawn(g) PROVE NestedOrder'
  <2>1. UNCHANGED <<started, finished>>
    BY <1>1 DEF Spawn
  <2>2. Extends
    BY <1>1, Spawned DEF Extends
  <2> SUFFICES ASSUME ~raced', ControlLast'
               PROVE  /\ \A i \in Ids' \ Control', j \in started :
                           i < j /\ Follows(prog, i, j)' => i \in finished
                      /\ SingleReader(prog)' =>
                           \A i \in Ids' \ Control', j \in started :
                             i < j /\ Overwrites(prog, i, j)' => i \in finished
    BY <2>1 DEF NestedOrder, Follows, Overwrites
  <2>3. ~raced /\ ControlLast /\ (SingleReader(prog)' => SingleReader(prog))
        /\ Control \subseteq Control'
    BY <1>1, <2>2, Earlier DEF Spawn, Touches
  <2>4. ASSUME NEW i \in Ids' \ Control', NEW j \in started, i < j PROVE i \in Ids \ Control /\ j \in Ids
    <3>1. j \in Ids /\ i # Len(prog) + 1
      BY <2>4, Places DEF Typed, LeavesTyped
    <3> QED
      BY <1>1, <2>3, <2>4, <3>1, Spawned
  <2>5. \A i, j \in Ids : /\ Follows(prog, i, j)' <=> Follows(prog, i, j)
                          /\ Overwrites(prog, i, j)' <=> Overwrites(prog, i, j)
    BY <2>2, Earlier
  <2> QED
    BY <2>3, <2>4, <2>5 DEF NestedOrder
<1>2. ASSUME NEW j \in Ids, StartTask(j) PROVE NestedOrder'
  <2>1. /\ UNCHANGED <<prog, finished, raced>> /\ started' = started \cup {j}
        /\ deps[j] \subseteq finished
    BY <1>2 DEF StartTask, StartLeaf
  <2>2. Ids' = Ids /\ Control' = Control /\ ControlLast' = ControlLast
    BY <2>1 DEF Ids, Control, ControlLast
  <2> SUFFICES ASSUME ~raced, ControlLast
               PROVE  /\ \A i \in Ids \ Control, k \in started' :
                           i < k /\ Follows(prog, i, k) => i \in finished
                      /\ SingleReader(prog) =>
                           \A i \in Ids \ Control, k \in started' :
                             i < k /\ Overwrites(prog, i, k) => i \in finished
    BY <2>1, <2>2 DEF NestedOrder, Follows, Overwrites, SingleReader
  <2>3. \A i \in Ids \ Control : i < j => /\ Follows(prog, i, j) => i \in finished
                                          /\ SingleReader(prog) /\ Overwrites(prog, i, j) => i \in finished
    BY <2>1, NestedStart
  <2> QED
    BY <2>1, <2>3 DEF NestedOrder
<1>3. CASE UNCHANGED <<prog, started>> /\ finished \subseteq finished' /\ (raced => raced')
  <2>1. Ids' = Ids /\ Control' = Control /\ ControlLast' = ControlLast
    BY <1>3 DEF Ids, Control, ControlLast
  <2> QED
    BY <1>3, <2>1 DEF NestedOrder, Follows, Overwrites, SingleReader
<1>4. ASSUME NEW g \in Schedulers, ReadCalled(g) \/ LoadStamps(g) \/ StoreStamps(g) PROVE NestedOrder'
  BY <1>3, <1>4 DEF ReadCalled, LoadStamps, StoreStamps, vars, Touches
<1>5. ASSUME NEW c \in Ids, Expands(c) PROVE NestedOrder'
  BY <1>3, <1>5 DEF Expands
<1>6. ASSUME NEW i \in Ids, NEW f \in Files, ReadFile(i, f) \/ WriteFile(i, f), TaskFrame PROVE NestedOrder'
  BY <1>3, <1>6 DEF ReadFile, WriteFile, TaskFrame
<1>7. ASSUME NEW i \in Ids, FinishLeaf(i), TaskFrame PROVE NestedOrder'
  BY <1>3, <1>7 DEF FinishLeaf, TaskFrame
<1>8. CASE Rests
  BY <1>3, <1>8 DEF Rests
<1> QED
  BY <1>1, <1>2, <1>4, <1>5, <1>6, <1>7, <1>8, NestedSteps, Zenon

-----------------------------------------------------------------------------
(* What the leaves read and write.                                         *)

\* The range of the store.
LEMMA StoreTypes ==
  ASSUME Typed
  PROVE  /\ Len(prog) \in Nat /\ Ids = 1..Len(prog) /\ DOMAIN prog = Ids /\ Ids \subseteq Nat
         /\ store \in [Files -> 0..Len(prog)]
         /\ wrote \in [Ids -> SUBSET Files] /\ got \in [Ids -> [Files -> Int]]
         /\ \A f \in Files : store[f] # 0 => store[f] \in Ids
         /\ finished \subseteq started /\ started \subseteq Ids
         /\ \A i \in Ids : prog[i].uses \subseteq Files /\ prog[i].puts \subseteq Files
         /\ \A c \in Control : c \in Ids /\ prog[c].puts = {}
<1>1. /\ Len(prog) \in Nat /\ Ids = 1..Len(prog) /\ DOMAIN prog = Ids
      /\ store \in [Files -> 0..Len(prog)]
      /\ finished \subseteq started /\ started \subseteq Ids
  BY DEF Typed, LeavesTyped, Ids
<1>2. wrote \in [Ids -> SUBSET Files] /\ got \in [Ids -> [Files -> Int]]
  <2>1. /\ wrote \in Seq(SUBSET Files) /\ Len(wrote) = Len(prog)
        /\ got \in Seq([Files -> Int]) /\ Len(got) = Len(prog)
    BY DEF Typed, LeavesTyped, Tracks
  <2>2. wrote \in [1..Len(prog) -> SUBSET Files]
    BY <2>1
  <2>3. got \in [1..Len(prog) -> [Files -> Int]]
    BY <2>1
  <2> QED
    BY <1>1, <2>2, <2>3
<1>3. \A f \in Files : store[f] # 0 => store[f] \in Ids
  BY <1>1
<1>4. \A i \in Ids : prog[i].uses \subseteq Files /\ prog[i].puts \subseteq Files
  BY DEF Typed, LeavesTyped, IsLine
<1>5. \A c \in Control : c \in Ids /\ prog[c].puts = {}
  BY DEF Typed, LeavesTyped, IsLine, IsCall, Control
<1> QED
  BY <1>1, <1>2, <1>3, <1>4, <1>5

\* Every step keeps the record of what was written.
LEMMA WrittenStep ==
  ASSUME Typed, Typed', Written, [NestedNext]_all
  PROVE  Written'
<1>0. /\ finished \subseteq Ids /\ \A f \in Files : store[f] # 0 => store[f] \in Ids
  BY StoreTypes
<1>1. ASSUME NEW g \in Schedulers, Spawn(g) PROVE Written'
  <2>1. UNCHANGED <<started, finished, store, result>> /\ result = "none"
    BY <1>1 DEF Spawn, AtLine
  <2>2. /\ Ids' = Ids \cup {Len(prog) + 1} /\ Len(prog) + 1 \notin Ids
        /\ wrote'[Len(prog) + 1] = {}
        /\ \A i \in Ids : wrote'[i] = wrote[i] /\ prog'[i] = prog[i]
    BY <1>1, Spawned
  <2> QED
    BY <1>0, <2>1, <2>2 DEF Written
<1>2. ASSUME UNCHANGED <<prog, wrote, store>>, started \subseteq started', finished' = finished,
             result' = result \/ (result' = "ok" => finished = Ids)
      PROVE  Written'
  BY <1>2 DEF Written, Ids
<1>3. ASSUME NEW g \in Schedulers, ReadCalled(g) \/ LoadStamps(g) \/ StoreStamps(g) PROVE Written'
  BY <1>2, <1>3 DEF ReadCalled, LoadStamps, StoreStamps, vars
<1>4. ASSUME NEW c \in Ids, Expands(c) PROVE Written'
  BY <1>2, <1>4 DEF Expands
<1>5. ASSUME NEW i \in Ids, StartTask(i) PROVE Written'
  BY <1>2, <1>5 DEF StartTask, StartLeaf
<1>6. ASSUME NEW i \in Ids, NEW f \in Files, ReadFile(i, f) PROVE Written'
  BY <1>2, <1>6 DEF ReadFile
<1>7. ASSUME NEW i \in Ids, NEW f \in Files, WriteFile(i, f) PROVE Written'
  <2>1. /\ Running(i) /\ f \in prog[i].puts
        /\ store' = [store EXCEPT ![f] = i]
        /\ wrote' = [wrote EXCEPT ![i] = @ \cup {f}]
        /\ UNCHANGED <<prog, started, finished, result>>
    BY <1>7 DEF WriteFile
  <2>2. Ids' = Ids /\ i \in started /\ i \notin finished
    BY <2>1 DEF Ids, Running
  <2>3. \A k \in Ids : wrote'[k] = IF k = i THEN wrote[i] \cup {f} ELSE wrote[k]
    BY <2>1, StoreTypes
  <2>4. \A h \in Files : store'[h] = IF h = f THEN i ELSE store[h]
    BY <2>1, StoreTypes
  <2>5. \A k \in Ids : wrote'[k] \subseteq prog[k].puts /\ (wrote'[k] # {} => k \in started)
    BY <2>1, <2>2, <2>3 DEF Written
  <2>6. \A k \in finished : wrote'[k] = prog[k].puts
    BY <1>0, <2>2, <2>3 DEF Written
  <2>7. \A h \in Files : store'[h] # 0 => h \in wrote'[store'[h]]
    BY <1>0, <2>3, <2>4 DEF Written
  <2> QED
    BY <2>1, <2>2, <2>5, <2>6, <2>7 DEF Written
<1>8. ASSUME NEW i \in Ids, FinishLeaf(i) PROVE Written'
  <2>1. /\ UNCHANGED <<prog, wrote, store, started, result>>
        /\ finished' = finished \cup {i} /\ wrote[i] = prog[i].puts
    BY <1>8 DEF FinishLeaf
  <2>2. Ids' = Ids
    BY <2>1 DEF Ids
  <2> QED
    BY <2>1, <2>2 DEF Written
<1>9. CASE Rests
  BY <1>2, <1>9 DEF Rests
<1> QED
  BY <1>1, <1>3, <1>4, <1>5, <1>6, <1>7, <1>8, <1>9, NestedSteps, Zenon

\* In a tame recipe a command is over when a later leaf starts that touches a
\* file one of the two writes.
LEMMA NestedOrdered ==
  ASSUME Typed, NestedOrder, ~raced, ControlLast, Tame(prog),
         NEW i \in Ids \ Control, NEW j \in started, i < j, NEW f \in Files,
         \/ f \in prog[i].puts /\ f \in prog[j].puts \cup prog[j].uses
         \/ f \in prog[i].uses /\ f \in prog[j].puts
  PROVE  i \in finished
<1>1. i \in DOMAIN prog /\ j \in DOMAIN prog
  BY StoreTypes
<1>2. /\ Follows(prog, i, j) => i \in finished
      /\ Overwrites(prog, i, j) => i \in finished
  BY DEF NestedOrder, Tame
<1>3. CASE prog[i].glob \/ prog[j].glob
  BY <1>2, <1>3 DEF Follows
<1>4. CASE ~prog[i].glob /\ ~prog[j].glob
  <2>1. /\ prog[i].puts \subseteq prog[i].writes /\ prog[j].puts \subseteq prog[j].writes
        /\ f \in prog[i].puts \cup prog[j].puts =>
             /\ f \in prog[i].uses => f \in prog[i].reads \cup prog[i].writes
             /\ f \in prog[j].uses => f \in prog[j].reads \cup prog[j].writes
    BY <1>1, <1>4 DEF Tame, Covered
  <2>2. Follows(prog, i, j) \/ Overwrites(prog, i, j)
    BY <2>1 DEF Follows, Overwrites
  <2> QED
    BY <1>2, <2>2
<1> QED
  BY <1>3, <1>4

\* What a leaf finds in the store is what the leaves before it leave there: a
\* command, and a Control leaf that nothing comes after yet.
LEMMA NestedRead ==
  ASSUME Typed, NestedOrder, Written, ~raced, ControlLast, Tame(prog),
         \A i \in Ids : \A h \in wrote[i] : i <= store[h],
         NEW j \in Ids, NEW f \in Files, Running(j), f \in prog[j].uses, wrote[j] = {},
         j \in Control => j = Len(prog)
  PROVE  IsSerial(prog, store[f], j, f)
<1>1. /\ store[f] \in Nat /\ Ids \subseteq Nat /\ DOMAIN prog = Ids
      /\ store[f] # 0 => store[f] \in Ids
      /\ 0 \notin Ids /\ \A i \in Ids : i <= Len(prog)
      /\ j \in started /\ j \notin finished
  <2>1. store[f] \in 0..Len(prog)
    BY StoreTypes
  <2> QED
    BY <2>1, StoreTypes DEF Running
<1>2. ASSUME NEW i \in Ids, i < j, f \in prog[i].puts PROVE i <= store[f]
  <2>1. i \notin Control
    BY <1>2, StoreTypes
  <2>2. i \in finished
    BY <1>1, <1>2, <2>1, NestedOrdered
  <2> QED
    BY <1>2, <2>2 DEF Written
<1>3. CASE store[f] = 0
  BY <1>1, <1>2, <1>3 DEF IsSerial
<1>4. CASE store[f] # 0
  <2> DEFINE v == store[f]
  <2>1. v \in Ids /\ f \in wrote[v] /\ v \in started /\ f \in prog[v].puts
    BY <1>1, <1>4 DEF Written
  <2>2. v # j
    BY <2>1
  <2>3. ~(j < v)
    <3> SUFFICES ASSUME j < v PROVE FALSE
      OBVIOUS
    <3>1. j \notin Control
      BY <1>1
    <3>2. j \in finished
      BY <2>1, <3>1, NestedOrdered
    <3> QED
      BY <1>1, <3>2
  <2>4. v < j
    BY <1>1, <2>1, <2>2, <2>3
  <2>5. ASSUME NEW i \in Ids, v < i, i < j PROVE f \notin prog[i].puts
    BY <1>1, <1>2, <2>5
  <2> QED
    BY <1>1, <2>1, <2>4, <2>5 DEF IsSerial
<1> QED
  BY <1>3, <1>4

\* A write puts a higher number into the store than any before it.
LEMMA NestedWrite ==
  ASSUME Typed, NestedOrder, Written, ~raced, ControlLast, Tame(prog),
         \A k \in Ids : \A h \in wrote[k] : k <= store[h],
         NEW i \in Ids \ Control, NEW f \in Files, WriteFile(i, f)
  PROVE  \A k \in Ids : \A h \in wrote'[k] : k <= store'[h]
<1>1. /\ Running(i) /\ f \in prog[i].puts
      /\ store' = [store EXCEPT ![f] = i]
      /\ wrote' = [wrote EXCEPT ![i] = @ \cup {f}]
  BY DEF WriteFile
<1>2. /\ i \notin finished
      /\ \A k \in Ids : wrote'[k] = IF k = i THEN wrote[i] \cup {f} ELSE wrote[k]
      /\ \A h \in Files : store'[h] = IF h = f THEN i ELSE store[h]
      /\ \A k \in Ids : wrote[k] \subseteq Files
      /\ Ids \subseteq Nat
  BY <1>1, StoreTypes DEF Running
<1>3. ASSUME NEW k \in Ids, f \in wrote[k] PROVE k <= i
  <2> SUFFICES ASSUME i < k PROVE FALSE
    BY <1>2
  <2>1. k \in started /\ f \in prog[k].puts
    BY <1>3 DEF Written
  <2>2. i \in finished
    BY <1>1, <2>1, NestedOrdered
  <2> QED
    BY <1>2, <2>2
<1> SUFFICES ASSUME NEW k \in Ids, NEW h \in wrote'[k] PROVE k <= store'[h]
  OBVIOUS
<1>4. h \in Files /\ (h # f => h \in wrote[k]) /\ (k # i => h \in wrote[k])
  BY <1>2
<1>5. CASE h = f
  <2>1. k <= i
    BY <1>2, <1>3, <1>4, <1>5
  <2> QED
    BY <1>2, <1>5, <2>1
<1>6. CASE h # f
  BY <1>2, <1>4, <1>6
<1> QED
  BY <1>5, <1>6

\* A read of what the sequential run shows keeps the reads sequential.
LEMMA NestedReads ==
  ASSUME Typed, NestedStore, NEW j \in Ids, NEW f \in Files,
         got' = [got EXCEPT ![j][f] = store[f]], UNCHANGED <<prog, wrote, store, raced>>,
         ~raced /\ ControlLast /\ Tame(prog) => IsSerial(prog, store[f], j, f)
  PROVE  NestedStore'
<1>1. Ids' = Ids /\ Control' = Control /\ ControlLast' = ControlLast /\ Tame(prog)' = Tame(prog)
  BY DEF Ids, Control, ControlLast, Tame, Covered, SingleReader
<1> SUFFICES ASSUME ~raced, ControlLast, Tame(prog)
             PROVE  /\ \A i \in Ids : \A h \in wrote[i] : i <= store[h]
                    /\ SerialReads'
  BY <1>1 DEF NestedStore
<1>2. (\A i \in Ids : \A h \in wrote[i] : i <= store[h]) /\ SerialReads
  BY DEF NestedStore
<1>3. SerialReads'
  <2> SUFFICES ASSUME NEW i \in Ids, NEW h \in Files, got'[i][h] # Unread
               PROVE  IsSerial(prog, got'[i][h], i, h)
    BY <1>1 DEF SerialReads, IsSerial
  <2>1. got \in [Ids -> [Files -> Int]]
    BY StoreTypes
  <2>2. CASE i = j /\ h = f
    <3>1. got'[i][h] = store[f]
      BY <2>1, <2>2
    <3> QED
      BY <2>2, <3>1
  <2>3. CASE ~(i = j /\ h = f)
    <3>1. got'[i][h] = got[i][h]
      BY <2>1, <2>3
    <3> QED
      BY <1>2, <3>1 DEF SerialReads
  <2> QED
    BY <2>2, <2>3
<1> QED
  BY <1>2, <1>3

\* A leaf more changes nothing for the ones before it.
LEMMA StoreSpawn ==
  ASSUME Typed, Typed', NestedStore, NEW g \in Schedulers, Spawn(g)
  PROVE  NestedStore'
<1> DEFINE n == Len(prog) + 1
<1>1. Extends
  BY Spawned DEF Extends
<1>2. /\ Ids' = Ids \cup {n} /\ n \notin Ids /\ wrote'[n] = {}
      /\ got'[n] = [f \in Files |-> Unread]
      /\ \A i \in Ids : wrote'[i] = wrote[i] /\ prog'[i] = prog[i] /\ got'[i] = got[i]
  BY Spawned
<1>3. \A i \in Ids : i < n
  BY StoreTypes
<1> HIDE DEF n
<1>4. store' = store /\ (raced => raced')
  BY DEF Spawn, Touches
<1> SUFFICES ASSUME ~raced', ControlLast', Tame(prog)'
             PROVE  (\A i \in Ids' : \A h \in wrote'[i] : i <= store'[h]) /\ SerialReads'
  BY DEF NestedStore
<1>5. (\A i \in Ids : \A h \in wrote[i] : i <= store[h]) /\ SerialReads
  <2>1. ControlLast /\ Tame(prog)
    BY <1>1, Earlier
  <2> QED
    BY <1>4, <2>1 DEF NestedStore
<1>6. SerialReads'
  <2> SUFFICES ASSUME NEW i \in Ids', NEW h \in Files, got'[i][h] # Unread
               PROVE  IsSerial(prog', got'[i][h], i, h)
    BY DEF SerialReads, IsSerial
  <2>1. i \in Ids /\ got'[i] = got[i]
    BY <1>2
  <2>2. IsSerial(prog, got[i][h], i, h)
    BY <1>5, <2>1 DEF SerialReads
  <2>3. DOMAIN prog = Ids /\ DOMAIN prog' = Ids' /\ Ids \subseteq Nat /\ n \in Nat
    BY StoreTypes DEF Typed, LeavesTyped, Ids, n
  <2>4. \A k \in Ids' : k < i => k \in Ids
    BY <1>2, <1>3, <2>1, <2>3
  <2> QED
    BY <1>2, <2>1, <2>2, <2>3, <2>4 DEF IsSerial
<1> QED
  BY <1>2, <1>4, <1>5, <1>6

\* Steps that neither read nor write a file.
LEMMA StoreKept ==
  ASSUME NestedStore, UNCHANGED <<prog, wrote, store, got>>, raced => raced'
  PROVE  NestedStore'
<1>1. Ids' = Ids /\ Control' = Control /\ ControlLast' = ControlLast /\ Tame(prog)' = Tame(prog)
  BY DEF Ids, Control, ControlLast, Tame, Covered, SingleReader
<1> QED
  BY <1>1 DEF NestedStore, SerialReads, IsSerial

\* Every step keeps the reads sequential.
LEMMA NestedStoreStep ==
  ASSUME Typed, Typed', TextInv, NestedOrder, Written, NestedStore, [NestedNext]_all
  PROVE  NestedStore'
<1>0. ~raced /\ ControlLast /\ Tame(prog) => \A i \in Ids : \A h \in wrote[i] : i <= store[h]
  BY DEF NestedStore
<1>1. ASSUME NEW g \in Schedulers, Spawn(g) PROVE NestedStore'
  BY <1>1, StoreSpawn
<1>2. ASSUME NEW c \in Ids, Expands(c) PROVE NestedStore'
  <2> DEFINE f == Called(prog[c])
  <2>1. /\ Running(c) /\ c \in Control \ Schedulers
        /\ got' = [got EXCEPT ![c][f] = store[f]]
        /\ UNCHANGED <<prog, wrote, store, raced>>
    BY <1>2 DEF Expands
  <2>2. f \in Files /\ f \in prog[c].uses /\ wrote[c] = {}
    <3>1. IsLine(prog[c]) /\ prog[c].recipe
      BY <2>1 DEF Control, Typed, LeavesTyped
    <3>2. wrote[c] = {}
      BY <2>1, StoreTypes DEF Written
    <3> QED
      BY <3>1, <3>2, CalledLines
  <2>3. ControlLast => c = Len(prog)
    BY <2>1 DEF TextInv, TextOrder
  <2> HIDE DEF f
  <2>4. ~raced /\ ControlLast /\ Tame(prog) => IsSerial(prog, store[f], c, f)
    BY <1>0, <2>1, <2>2, <2>3, NestedRead
  <2> QED
    BY <2>1, <2>2, <2>4, NestedReads
<1>3. ASSUME NEW i \in Ids \ Control, NEW f \in Files, ReadFile(i, f), TaskFrame PROVE NestedStore'
  <2>1. /\ Running(i) /\ f \in prog[i].uses /\ wrote[i] = {}
        /\ got' = [got EXCEPT ![i][f] = store[f]]
        /\ UNCHANGED <<prog, wrote, store, raced>>
    BY <1>3 DEF ReadFile, TaskFrame
  <2>2. ~raced /\ ControlLast /\ Tame(prog) => IsSerial(prog, store[f], i, f)
    BY <1>0, <2>1, NestedRead
  <2> QED
    BY <2>1, <2>2, NestedReads
<1>4. ASSUME NEW i \in Ids \ Control, NEW f \in Files, WriteFile(i, f), TaskFrame PROVE NestedStore'
  <2>1. UNCHANGED <<prog, got, raced>>
    BY <1>4 DEF WriteFile, TaskFrame
  <2>2. Ids' = Ids /\ Control' = Control /\ ControlLast' = ControlLast /\ Tame(prog)' = Tame(prog)
        /\ SerialReads' = SerialReads
    BY <2>1 DEF Ids, Control, ControlLast, Tame, Covered, SingleReader, SerialReads, IsSerial
  <2>3. ~raced /\ ControlLast /\ Tame(prog) => \A k \in Ids : \A h \in wrote'[k] : k <= store'[h]
    BY <1>0, <1>4, NestedWrite
  <2> QED
    BY <2>1, <2>2, <2>3 DEF NestedStore
<1>5. ASSUME NEW g \in Schedulers, ReadCalled(g) \/ LoadStamps(g) \/ StoreStamps(g) PROVE NestedStore'
  <2>1. CASE LoadStamps(g)
    <3>1. raced => raced'
      BY <2>1 DEF LoadStamps, Touches
    <3>2. UNCHANGED <<prog, wrote, store, got>>
      BY <2>1 DEF LoadStamps, vars
    <3> QED
      BY <3>1, <3>2, StoreKept
  <2>2. CASE ReadCalled(g)
    BY <2>2, StoreKept DEF ReadCalled, vars
  <2>3. CASE StoreStamps(g)
    BY <2>3, StoreKept DEF StoreStamps
  <2> QED
    BY <1>5, <2>1, <2>2, <2>3
<1>6. ASSUME NEW i \in Ids, StartTask(i) PROVE NestedStore'
  BY <1>6, StoreKept DEF StartTask, StartLeaf
<1>7. ASSUME NEW i \in Ids, FinishLeaf(i), TaskFrame PROVE NestedStore'
  BY <1>7, StoreKept DEF FinishLeaf, TaskFrame
<1>8. CASE Rests
  BY <1>8, StoreKept DEF Rests
<1> QED
  BY <1>1, <1>2, <1>3, <1>4, <1>5, <1>6, <1>7, <1>8, NestedSteps, Zenon

-----------------------------------------------------------------------------
(* The recipes read while scheduling.                                      *)

\* A call is recorded with its file and its place.
LEMMA CallsTypedStep ==
  ASSUME Typed, CallsTyped, [NestedNext]_all
  PROVE  CallsTyped'
<1>1. ASSUME NEW g \in Schedulers, ReadCalled(g) PROVE CallsTyped'
  <2> DEFINE f == Called(Here(g))
  <2>1. /\ calls' = calls \cup {[file |-> f, pos |-> Here(g).pos, got |-> store[f]]}
        /\ Here(g).recipe /\ todo[g] # <<>>
    BY <1>1 DEF ReadCalled, Inline, Exists, AtLine
  <2>2. IsLine(Here(g)) /\ Here(g).pos \in Seq(Nat)
    BY <2>1, NextLine DEF IsLine
  <2>3. f \in Files
    BY <2>1, <2>2, CalledLines
  <2> HIDE DEF f
  <2> QED
    BY <2>1, <2>2, <2>3 DEF CallsTyped
<1>2. CASE calls' = calls
  BY <1>2 DEF CallsTyped
<1>3. ASSUME NEW g \in Schedulers, Spawn(g) \/ LoadStamps(g) \/ StoreStamps(g) PROVE CallsTyped'
  BY <1>2, <1>3 DEF Spawn, LoadStamps, StoreStamps
<1>4. ASSUME NEW c \in Ids, Expands(c) PROVE CallsTyped'
  BY <1>2, <1>4 DEF Expands
<1>5. ASSUME NEW i \in Ids, StartTask(i) PROVE CallsTyped'
  BY <1>2, <1>5 DEF StartTask
<1>6. CASE TaskFrame
  BY <1>2, <1>6 DEF TaskFrame
<1>7. CASE Rests
  BY <1>2, <1>7 DEF Rests
<1> QED
  BY <1>1, <1>3, <1>4, <1>5, <1>6, <1>7, NestedSteps, Zenon

\* What a recipe is read as that nothing before the call rewrites.
LEMMA CallsFirstStep ==
  ASSUME Typed, Typed', TextInv, Written, CallsFirst, [NestedNext]_all
  PROVE  CallsFirst'
<1>1. ASSUME NEW g \in Schedulers, ReadCalled(g) PROVE CallsFirst'
  <2> DEFINE f == Called(Here(g))
             c == [file |-> f, pos |-> Here(g).pos, got |-> store[f]]
  <2>1. /\ calls' = calls \cup {c} /\ prog' = prog /\ Here(g).recipe /\ todo[g] # <<>>
    BY <1>1 DEF ReadCalled, Inline, Exists, AtLine, vars
  <2>2. Ids' = Ids /\ ControlLast' = ControlLast
    BY <2>1 DEF Ids, Control, ControlLast
  <2> SUFFICES ASSUME ControlLast, NoneStale' PROVE \A b \in calls' : b.got = 0
    BY <2>2 DEF CallsFirst
  <2>3. \A b \in calls' : \A i \in Ids : b.file \in prog[i].puts => ~Before(prog[i].pos, b.pos)
    BY <2>1, <2>2 DEF NoneStale
  <2>4. \A b \in calls : b.got = 0
    BY <2>1, <2>3 DEF CallsFirst, NoneStale
  <2>5. f \in Files /\ 1 \in DOMAIN todo[g] /\ Here(g) = todo[g][1]
    BY <2>1, NextLine, CalledLines
  <2>6. store[f] = 0
    <3> SUFFICES ASSUME store[f] # 0 PROVE FALSE
      OBVIOUS
    <3>1. store[f] \in Ids /\ f \in prog[store[f]].puts
      BY <2>5, StoreTypes DEF Written
    <3>2. Before(prog[store[f]].pos, Here(g).pos)
      BY <2>5, <3>1 DEF TextInv, TextOrder
    <3>3. c \in calls' /\ c.file = f /\ c.pos = Here(g).pos
      BY <2>1
    <3> HIDE DEF c, f
    <3> QED
      BY <2>3, <3>1, <3>2, <3>3
  <2>7. c.got = 0
    BY <2>6
  <2> HIDE DEF c, f
  <2> QED
    BY <2>1, <2>4, <2>7
<1>2. CASE calls' = calls
  <2>1. Extends
    BY StepExtends
  <2>2. ControlLast' => ControlLast
    BY <2>1, Earlier
  <2>3. NoneStale' => NoneStale
    BY <1>2, <2>1 DEF NoneStale, Extends
  <2> QED
    BY <1>2, <2>2, <2>3 DEF CallsFirst
<1>3. ASSUME NEW g \in Schedulers, Spawn(g) \/ LoadStamps(g) \/ StoreStamps(g) PROVE CallsFirst'
  BY <1>2, <1>3 DEF Spawn, LoadStamps, StoreStamps
<1>4. ASSUME NEW c \in Ids, Expands(c) PROVE CallsFirst'
  BY <1>2, <1>4 DEF Expands
<1>5. ASSUME NEW i \in Ids, StartTask(i) PROVE CallsFirst'
  BY <1>2, <1>5 DEF StartTask
<1>6. CASE TaskFrame
  BY <1>2, <1>6 DEF TaskFrame
<1>7. CASE Rests
  BY <1>2, <1>7 DEF Rests
<1> QED
  BY <1>1, <1>3, <1>4, <1>5, <1>6, <1>7, NestedSteps, Zenon

-----------------------------------------------------------------------------
(* Serializability.                                                        *)

\* The invariant holds at the start.
LEMMA NestedInitInv == NestedInit => NestedInv
<1> SUFFICES ASSUME NestedInit PROVE NestedInv
  OBVIOUS
<1>1. /\ prog = <<>> /\ Len(prog) = 0 /\ Ids = {} /\ Control = {}
      /\ Schedulers = {0} /\ at[0] = "line" /\ at = [g \in {0} |-> "line"]
      /\ todo[0] = Placed(script.main, <<>>)
  BY DEF NestedInit, Ids, Control, Schedulers
<1>2. script \in Scripts /\ script \in Script /\ script.main \in Seq(Line) /\ CallsOnly(script.main)
  BY NestedAssumption DEF NestedInit, Script
<1>3. LeavesTyped
  <2>1. prog \in Seq({}) /\ deps \in Seq(SUBSET Nat) /\ got \in Seq([Files -> Int])
        /\ wrote \in Seq(SUBSET Files) /\ Len(deps) = 0 /\ Len(got) = 0 /\ Len(wrote) = 0
    BY DEF NestedInit
  <2>2. 0 \in 0..Len(prog)
    BY <1>1
  <2> QED
    BY <1>1, <2>1, <2>2 DEF NestedInit, LeavesTyped, Tracks
<1>4. SchedulersTyped
  <2> DEFINE P == Placed(script.main, <<>>)
  <2>1. <<>> \in Seq(Nat) /\ Len(script.main) <= Len(script.main)
    BY <1>2
  <2>2. /\ \E S : P \in Seq(S)
        /\ Sorted(P)
        /\ \A k \in DOMAIN P : IsLine(P[k])
    BY <1>2, <2>1, PlacedLines
  <2> HIDE DEF P
  <2>3. /\ loaded \in [Schedulers -> [prior : SUBSET Ids, unknown : SUBSET Ids]]
        /\ last \in [Schedulers -> 0..Len(prog)]
        /\ at \in [Schedulers -> {"line", "spawned", "stamping"}]
    BY <1>1 DEF NestedInit, Nothing
  <2>4. todo[0] = P
    BY <1>1 DEF P
  <2> QED
    BY <1>1, <1>2, <2>2, <2>3, <2>4 DEF SchedulersTyped
<1>5. TextInv
  BY <1>1 DEF TextInv, TextOrder
<1>6. NestedStamps
  <2>1. Stamping
    BY <1>1 DEF Stamping, NestedInit
  <2>2. StampedWrites /\ StampedReads
    BY DEF StampedWrites, StampedReads, NestedInit
  <2>3. NestedDeps /\ NestedOver
    BY <1>1 DEF NestedDeps, NestedOver
  <2> QED
    BY <2>1, <2>2, <2>3 DEF NestedStamps
<1>7. DepsFinished /\ NestedOrder
  BY <1>1 DEF DepsFinished, NestedOrder, NestedInit
<1>8. Written /\ NestedStore
  BY <1>1 DEF Written, NestedStore, SerialReads, NestedInit
<1>9. CallsFirst /\ CallsTyped
  BY DEF CallsFirst, CallsTyped, NestedInit
<1> QED
  BY <1>3, <1>4, <1>5, <1>6, <1>7, <1>8, <1>9 DEF NestedInv, Typed

\* The invariant is inductive.
LEMMA NestedInvStep == NestedInv /\ [NestedNext]_all => NestedInv'
<1> SUFFICES ASSUME NestedInv, [NestedNext]_all PROVE NestedInv'
  OBVIOUS
<1>1. /\ Typed /\ TextInv /\ NestedStamps
      /\ DepsFinished /\ NestedOrder /\ Written /\ NestedStore /\ CallsFirst /\ CallsTyped
  BY DEF NestedInv
<1>2. Typed'
  BY <1>1, TypedStep
<1>3. TextInv' /\ NestedStamps'
  BY <1>1, <1>2, TextStep, NestedStampsStep
<1>4. DepsFinished' /\ NestedOrder'
  BY <1>1, <1>2, DepsFinishedStep, NestedOrderStep
<1>5. Written' /\ NestedStore'
  BY <1>1, <1>2, WrittenStep, NestedStoreStep
<1>6. CallsFirst' /\ CallsTyped'
  BY <1>1, <1>2, CallsFirstStep, CallsTypedStep
<1> QED
  BY <1>2, <1>3, <1>4, <1>5, <1>6 DEF NestedInv

\* The order of the numbers is the order of the text, so the flat recipe is
\* the sequence of the leaves.
LEMMA FlatIsProg ==
  ASSUME Typed, TextOrder
  PROVE  /\ Flat = prog
         /\ \A i, j \in Ids : Before(prog[i].pos, prog[j].pos) <=> i < j
<1>1. /\ Len(prog) \in Nat /\ Ids = 1..Len(prog) /\ DOMAIN prog = Ids
      /\ \A i \in Ids : i \in Nat /\ prog[i].pos \in Seq(Nat)
  BY StoreTypes, Places
<1>2. \A i, j \in Ids : Before(prog[i].pos, prog[j].pos) <=> i < j
  <2> SUFFICES ASSUME NEW i \in Ids, NEW j \in Ids
               PROVE  Before(prog[i].pos, prog[j].pos) <=> i < j
    OBVIOUS
  <2>1. CASE i < j
    BY <2>1 DEF TextOrder
  <2>2. CASE i = j
    BY <1>1, <2>2, BeforeOrder
  <2>3. CASE j < i
    <3>1. Before(prog[j].pos, prog[i].pos)
      BY <2>3 DEF TextOrder
    <3> QED
      BY <1>1, <2>3, <3>1, BeforeOrder
  <2> QED
    BY <1>1, <2>1, <2>2, <2>3
<1> DEFINE Rank(i) == Cardinality({j \in Ids : Before(prog[j].pos, prog[i].pos)})
<1>3. ASSUME NEW i \in Ids PROVE Rank(i) = i - 1
  <2>1. {j \in Ids : Before(prog[j].pos, prog[i].pos)} = 1..(i - 1)
    <3>1. {j \in Ids : Before(prog[j].pos, prog[i].pos)} = {j \in Ids : j < i}
      BY <1>2, <1>3
    <3>2. {j \in Ids : j < i} = 1..(i - 1)
      BY <1>1, <1>3
    <3> QED
      BY <3>1, <3>2
  <2>2. 1 \in Int /\ i - 1 \in Int /\ i >= 1 /\ i \in Nat
    BY <1>1, <1>3
  <2>3. Cardinality(1..(i - 1)) = IF 1 > i - 1 THEN 0 ELSE (i - 1) - 1 + 1
    BY <2>2, FS_Interval
  <2>4. Cardinality(1..(i - 1)) = i - 1
    BY <2>2, <2>3
  <2>5. Rank(i) = Cardinality(1..(i - 1))
    BY <2>1
  <2> QED
    BY <2>4, <2>5
<1>4. ASSUME NEW k \in Ids PROVE (CHOOSE i \in Ids : Rank(i) = k - 1) = k
  <2>1. Rank(k) = k - 1
    BY <1>3
  <2>2. \A i \in Ids : Rank(i) = k - 1 => i = k
    BY <1>1, <1>3
  <2> HIDE DEF Rank
  <2> QED
    BY <2>1, <2>2
<1>5. Flat = [k \in Ids |-> prog[CHOOSE i \in Ids : Rank(i) = k - 1]]
  BY DEF Flat
<1> HIDE DEF Rank
<1>6. Flat = [k \in Ids |-> prog[k]]
  BY <1>4, <1>5
<1>7. prog = [k \in Ids |-> prog[k]]
  <2>1. PICK S : prog \in Seq(S)
    BY DEF Typed, LeavesTyped
  <2> QED
    BY <1>1, <2>1
<1> QED
  BY <1>2, <1>6, <1>7

\* The provenance the leaves before number j leave is that of the text before
\* the place that follows exactly those.
LEMMA SerialAtPlace ==
  ASSUME Typed, \A i, k \in Ids : Before(prog[i].pos, prog[k].pos) <=> i < k,
         NEW v, NEW j \in Nat, NEW f \in Files, IsSerial(prog, v, j, f),
         NEW q, \A i \in Ids : Before(prog[i].pos, q) <=> i < j
  PROVE  InTextOrder(v, f, q)
<1> DEFINE writers == {i \in Ids : f \in prog[i].puts /\ Before(prog[i].pos, q)}
<1>1. DOMAIN prog = Ids /\ Ids \subseteq Nat
  BY StoreTypes
<1>2. CASE v = 0 /\ \A i \in Ids : i < j => f \notin prog[i].puts
  <2>1. writers = {}
    BY <1>2
  <2> QED
    BY <1>2, <2>1 DEF InTextOrder
<1>3. CASE /\ v \in Ids /\ v < j /\ f \in prog[v].puts
           /\ \A i \in Ids : (v < i /\ i < j) => f \notin prog[i].puts
  <2>1. v \in writers
    BY <1>3
  <2>2. \A i \in writers \ {v} : Before(prog[i].pos, prog[v].pos)
    <3> SUFFICES ASSUME NEW i \in writers \ {v} PROVE i < v
      BY <1>3
    <3> QED
      BY <1>1, <1>3
  <2> QED
    BY <2>1, <2>2 DEF InTextOrder
<1> QED
  BY <1>1, <1>2, <1>3 DEF IsSerial

\* What a successful recipe leaves, file by file.
LEMMA NestedFinal ==
  ASSUME Typed, Written, \A i \in Ids : \A h \in wrote[i] : i <= store[h],
         result = "ok", NEW f \in Files
  PROVE  IsSerial(prog, store[f], Len(prog) + 1, f)
<1>1. /\ store[f] \in 0..Len(prog) /\ Len(prog) \in Nat /\ DOMAIN prog = Ids /\ finished = Ids
      /\ store[f] # 0 => store[f] \in Ids
      /\ \A i \in Ids : i \in Nat /\ i # 0 /\ i <= Len(prog)
  <2>1. store[f] \in 0..Len(prog)
    BY StoreTypes
  <2> QED
    BY <2>1, StoreTypes DEF Written
<1>2. \A i \in Ids : f \in prog[i].puts => i <= store[f]
  BY <1>1 DEF Written
<1>3. CASE store[f] = 0
  BY <1>1, <1>2, <1>3 DEF IsSerial
<1>4. CASE store[f] # 0
  <2>1. store[f] \in Ids /\ f \in prog[store[f]].puts
    BY <1>1, <1>4 DEF Written
  <2>2. \A i \in Ids : store[f] < i => f \notin prog[i].puts
    BY <1>1, <1>2
  <2> QED
    BY <1>1, <2>1, <2>2 DEF IsSerial
<1> QED
  BY <1>3, <1>4

\* The invariant is enough.
LEMMA SerialEnd ==
  ASSUME NestedInv
  PROVE  NestedSerial
<1> SUFFICES ASSUME result = "ok", ~raced, Tame(Flat), NoneStale, ControlLast
             PROVE  Serial
  BY DEF NestedSerial
<1>1. Typed /\ TextOrder /\ Written
  BY DEF NestedInv, TextInv
<1>2. Flat = prog /\ \A i, j \in Ids : Before(prog[i].pos, prog[j].pos) <=> i < j
  BY <1>1, FlatIsProg
<1>3. (\A i \in Ids : \A h \in wrote[i] : i <= store[h]) /\ SerialReads
  BY <1>2 DEF NestedInv, NestedStore
<1>4. ASSUME NEW i \in Ids, NEW f \in Files, got[i][f] # Unread
      PROVE  InTextOrder(got[i][f], f, prog[i].pos)
  <2>1. IsSerial(prog, got[i][f], i, f) /\ i \in Nat
    BY <1>1, <1>3, <1>4, Places DEF SerialReads
  <2> QED
    BY <1>1, <1>2, <2>1, SerialAtPlace
<1>5. ASSUME NEW c \in calls PROVE InTextOrder(c.got, c.file, c.pos)
  <2>1. c.got = 0
    BY DEF NestedInv, CallsFirst
  <2>2. \A i \in Ids : c.file \in prog[i].puts => ~Before(prog[i].pos, c.pos)
    BY DEF NoneStale
  <2> QED
    BY <2>1, <2>2 DEF InTextOrder
<1>6. ASSUME NEW f \in Files PROVE InTextOrder(store[f], f, <<Len(script.main) + 1>>)
  <2> DEFINE q == <<Len(script.main) + 1>>
  <2>1. IsSerial(prog, store[f], Len(prog) + 1, f) /\ Len(prog) + 1 \in Nat
    BY <1>1, <1>3, NestedFinal, StoreTypes
  <2>2. ASSUME NEW i \in Ids PROVE Before(prog[i].pos, q) /\ i < Len(prog) + 1
    <3>1. prog[i].pos \in Seq(Nat) /\ prog[i].pos # <<>> /\ prog[i].pos[1] <= Len(script.main)
      BY <1>1 DEF Typed, LeavesTyped, IsLine
    <3>2. Len(script.main) \in Nat
      BY <1>1 DEF Typed, SchedulersTyped, Script
    <3>3. /\ 1 \in 1..Len(prog[i].pos) /\ 1 <= Len(q) /\ prog[i].pos[1] < q[1]
      BY <3>1, <3>2
    <3>4. Left(prog[i].pos, q)
      BY <3>3 DEF Left
    <3> QED
      BY <1>1, <3>4, BeforeMeans, StoreTypes
  <2> HIDE DEF q
  <2>3. InTextOrder(store[f], f, q)
    BY <1>1, <1>2, <2>1, <2>2, SerialAtPlace
  <2> QED
    BY <2>3 DEF q
<1> QED
  BY <1>4, <1>5, <1>6 DEF Serial

\* For every recipe and whatever recipes it calls, exist they before it starts
\* or are they written by it: under the three conditions of NestedSerial each
\* command reads what the batch run would have shown it, and a recipe that
\* succeeds leaves the files of the batch run (scheduleWords, scheduleLeaf,
\* expandRecipe, fileDeps, recordLeaf and words together).
THEOREM NestedSerializable == NestedSpec => []NestedSerial
<1>1. NestedInit => NestedInv
  BY NestedInitInv
<1>2. NestedInv /\ [NestedNext]_all => NestedInv'
  BY NestedInvStep
<1>3. NestedInv => NestedSerial
  BY SerialEnd
<1> QED
  BY <1>1, <1>2, <1>3, PTL DEF NestedSpec

=============================================================================
