------------------------ MODULE InstallSessionProofs ------------------------
(***************************************************************************)
(* Proofs about an installation, for any plan, volumes and paths: when     *)
(* Extract returns nil the tree is complete and verified and no staging    *)
(* directory is left.                                                      *)
(*                                                                         *)
(* The main goroutine works through the records in order, so what the      *)
(* store holds is what a prefix of the records leaves (Applied), and the   *)
(* uses a volume still has are those of the other records (Counted).  The  *)
(* tasks of the session run beside it: a hash that came out right stays    *)
(* right because no later record touches its file (Frozen), and a task     *)
(* that failed has recorded its error before the session ends (Recorded).  *)
(***************************************************************************)
EXTENDS InstallSession, FiniteSetTheorems, TLAPS

\* The main goroutine has left the loop over the records and the copy.
Leaving == pc \in {"clean", "wait", "done"}

\* It has left them with the tree written.
Written == Leaving /\ ~failed

\* The records before n that set what is in p: at most one.
LastBefore(p, n) ==
  {i \in DOMAIN ops : i < n /\ Counts(i) /\ p \in ops[i].touches
     /\ \A j \in DOMAIN ops : j > i /\ j < n /\ Counts(j) => p \notin ops[j].touches}

Leaves(i, p) == IF ops[i].kind = "remove" THEN NoFile ELSE ops[i].puts[p]

\* What the records before n leave in p.
After(p, n) ==
  IF LastBefore(p, n) = {} THEN NoFile
  ELSE LET i == CHOOSE i \in LastBefore(p, n) : TRUE IN Leaves(i, p)

\* The uses of v from record n on.
UsesFrom(v, n) == {i \in Uses(v) : i >= n}

\* Interruptions and tool errors happen once each.
FaultsOnce ==
  /\ faults \in Nat
  /\ faults <= (IF canceled THEN 1 ELSE 0) + (IF Leaving THEN 1 ELSE 0)

\* Where the main goroutine is in the records.
AtRecord ==
  /\ pc \in {"place", "command"} => opi \in DOMAIN ops /\ todo \subseteq op.touches
  /\ pc = "place" => op.kind = "extract" /\ op.vol \in plan.present
  /\ pc = "command" => op.kind = "command"
  /\ pc \in {"verify", "write"} => opi = Len(ops) + 1
  /\ pc \in {"verify", "write"} \/ Written => RequiredSeen

\* The store is what the records so far leave; the copy follows it.
Applied ==
  /\ pc = "op" => \A p \in Paths : store[p] = After(p, opi)
  /\ pc \in {"place", "command"} => \A p \in Paths :
       store[p] = IF p \in op.touches \ todo THEN op.puts[p] ELSE After(p, opi)
  /\ pc \in {"verify", "write"} => \A p \in Paths : store[p] = Final(p)
  /\ pc \in {"op", "place", "command", "verify"} => \A p \in Paths : dest[p] = NoFile
  /\ pc = "write" => \A p \in Paths : p \notin todo => dest[p] = store[p]
  /\ Written => \A p \in Paths : dest[p] = Final(p) /\ store[p] = NoFile

\* What remaining counts, and the decoded volumes.
Counted ==
  /\ open \subseteq plan.present
  /\ pc \in {"op", "command"} => \A v \in plan.present :
       remaining[v] = Cardinality(UsesFrom(v, opi))
  /\ pc = "place" => \A v \in plan.present :
       remaining[v] = Cardinality(UsesFrom(v, opi + 1))
  /\ pc = "place" => \A v \in open : v = op.vol \/ remaining[v] > 0
  /\ pc # "place" => \A v \in open : remaining[v] > 0
  /\ pc \in {"verify", "write"} \/ Written => open = {}
  /\ pc \in {"wait", "done"} => ~appOpen

\* Records that do not undo each other leave a hashed file alone.
Frozen ==
  Tame =>
    /\ pc = "op" => \A p \in hashed : \A j \in DOMAIN ops : j >= opi => p \notin ops[j].touches
    /\ pc \in {"place", "command"} => \A p \in hashed :
         p \notin todo /\ \A j \in DOMAIN ops : j > opi => p \notin ops[j].touches
    /\ \A p \in Paths : hash[p] = "ok" =>
         /\ pc \in {"op", "place", "command", "verify", "write"} => store[p] = Listed
         /\ Written => dest[p] = Listed

\* A task over is a task whose outcome the session knows.
Recorded ==
  /\ \A p \in Paths : hash[p] # "none" <=> p \in hashed
  /\ \A v \in plan.sums \cap plan.present : sum[v] # "none"
  /\ \A v \in Vols : sum[v] = "ok" => v \notin plan.damaged
  /\ pc \in {"verify", "write"} \/ Written => hashed = plan.want
  /\ ((\E p \in Paths : hash[p] = "failed") \/ (\E v \in Vols : sum[v] = "failed")) => taskError
  /\ pc = "done" => /\ \A p \in Paths : hash[p] # "pending"
                    /\ \A v \in Vols : sum[v] # "pending"
  /\ result # "none" => pc = "done"
  /\ result = "ok" => ~failed /\ ~taskError

Types ==
  /\ plan \in Plans
  /\ pc \in {"op", "place", "command", "verify", "write", "clean", "wait", "done"}
  /\ opi \in 1..Len(ops) + 1
  /\ todo \subseteq Paths
  /\ store \in [Paths -> Content]
  /\ appOpen \in BOOLEAN
  /\ open \subseteq Vols
  /\ remaining \in [Vols -> 0..Len(ops)]
  /\ seen \subseteq Vols
  /\ hashed \subseteq plan.want
  /\ late \subseteq hashed
  /\ hash \in [Paths -> States]
  /\ sum \in [Vols -> States]
  /\ dest \in [Paths -> Content]
  /\ canceled \in BOOLEAN /\ failed \in BOOLEAN /\ taskError \in BOOLEAN
  /\ srcOpen \in BOOLEAN
  /\ result \in {"none", "ok", "error"}

IInv == Types /\ FaultsOnce /\ AtRecord /\ Applied /\ Counted /\ Frozen /\ Recorded

-----------------------------------------------------------------------------
(* The plan is a constant.                                                 *)

LEMMA PlanTypes ==
  ASSUME plan \in Plans
  PROVE  /\ plan \in Plan /\ ops \in Seq(Record) /\ Len(ops) \in Nat
         /\ DOMAIN ops = 1..Len(ops)
         /\ \A i \in DOMAIN ops :
              /\ ops[i] \in Record
              /\ ops[i].vol \in Vols /\ ops[i].touches \subseteq Paths
              /\ ops[i].puts \in [Paths -> Content]
              /\ ops[i].kind \in {"extract", "command", "remove"}
         /\ plan.want \subseteq Paths /\ plan.present \subseteq Vols
<1>1. plan \in Plan
  BY PlanAssumption
<1>2. ops \in Seq(Record) /\ plan.want \subseteq Paths /\ plan.present \subseteq Vols
  BY <1>1 DEF Plan, ops
<1>3. Len(ops) \in Nat /\ DOMAIN ops = 1..Len(ops)
  BY <1>2
<1>4. \A i \in DOMAIN ops : ops[i] \in Record
  BY <1>2
<1>5. ASSUME NEW i \in DOMAIN ops
      PROVE  /\ ops[i].vol \in Vols /\ ops[i].touches \subseteq Paths
             /\ ops[i].puts \in [Paths -> Content]
             /\ ops[i].kind \in {"extract", "command", "remove"}
  BY <1>4 DEF Record
<1> QED
  BY <1>1, <1>2, <1>3, <1>4, <1>5

\* The kinds of steps: those of the main goroutine through the records, those
\* after them, and those of the other goroutines.
OpStep ==
  \/ ExtractMissing \/ ExtractDecode \/ ExtractDecoded
  \/ \E p \in Paths : PlaceFile(p)
  \/ PlacedAll \/ PlaceCanceled
  \/ BeginCommand
  \/ \E p \in Paths : CommandWrite(p)
  \/ EndCommand \/ CommandFails \/ RemoveFiles \/ OpCanceled

EndStep ==
  \/ FinishHashes \/ VerifyReturns
  \/ \E p \in Paths : WriteDest(p)
  \/ WriteCanceled \/ WrittenAll \/ CleanUp \/ SessionDone

TaskStep ==
  \/ \E p \in Paths : HashTask(p)
  \/ \E v \in Vols : VolumeSum(v)
  \/ Interrupt
  \/ Returned

LEMMA StepKinds == Next <=> OpStep \/ EndStep \/ TaskStep
  BY DEF Next, MainStep, OpStep, EndStep, TaskStep

LEMMA PlanKept == [Next]_vars => plan' = plan /\ ops' = ops
<1> SUFFICES ASSUME [Next]_vars PROVE plan' = plan
  BY DEF ops
<1>1. CASE OpStep
  BY <1>1 DEF OpStep, ExtractMissing, ExtractDecode, ExtractDecoded, PlaceFile, PlacedAll,
     PlaceCanceled, BeginCommand, CommandWrite, EndCommand, CommandFails, RemoveFiles, OpCanceled
<1>2. CASE EndStep
  BY <1>2 DEF EndStep, FinishHashes, VerifyReturns, WriteDest, WriteCanceled, WrittenAll, CleanUp,
     SessionDone
<1>3. CASE TaskStep
  BY <1>3 DEF TaskStep, HashTask, VolumeSum, Interrupt, Returned, vars
<1> QED
  BY <1>1, <1>2, <1>3, StepKinds DEF vars

\* What depends on the plan alone does not change.
LEMMA PlanOnly ==
  ASSUME plan' = plan
  PROVE  /\ ops' = ops
         /\ Tame' <=> Tame
         /\ \A v : Uses(v)' = Uses(v)
         /\ \A v, n : UsesFrom(v, n)' = UsesFrom(v, n)
         /\ \A v : Optional(v)' <=> Optional(v)
         /\ \A p, n : After(p, n)' = After(p, n)
         /\ \A p : Final(p)' = Final(p)
<1>1. ops' = ops
  BY DEF ops
<1>2. Tame' <=> Tame
  BY <1>1 DEF Tame
<1>3. /\ \A v : Uses(v)' = Uses(v)
      /\ \A v, n : UsesFrom(v, n)' = UsesFrom(v, n)
      /\ \A v : Optional(v)' <=> Optional(v)
  BY <1>1 DEF Uses, UsesFrom, Optional
<1>4. \A i : Counts(i)' <=> Counts(i)
  BY <1>1 DEF Counts
<1>5. ASSUME NEW p, NEW n PROVE After(p, n)' = After(p, n)
  <2>1. LastBefore(p, n)' = LastBefore(p, n)
    BY <1>1, <1>4 DEF LastBefore
  <2>2. \A i : Leaves(i, p)' = Leaves(i, p)
    BY <1>1 DEF Leaves
  <2> QED
    BY <2>1, <2>2 DEF After
<1>6. ASSUME NEW p PROVE Final(p)' = Final(p)
  <2> DEFINE last == {i \in DOMAIN ops : Counts(i) /\ p \in ops[i].touches
                        /\ \A j \in DOMAIN ops : j > i /\ Counts(j) => p \notin ops[j].touches}
  <2>1. last' = last
    BY <1>1, <1>4
  <2>2. /\ Final(p) = IF last = {} THEN NoFile
                      ELSE LET i == CHOOSE i \in last : TRUE IN
                           IF ops[i].kind = "remove" THEN NoFile ELSE ops[i].puts[p]
        /\ Final(p)' = IF last' = {} THEN NoFile
                       ELSE LET i == CHOOSE i \in last' : TRUE IN
                            IF ops'[i].kind = "remove" THEN NoFile ELSE ops'[i].puts[p]
    BY DEF Final
  <2> HIDE DEF last
  <2> QED
    BY <1>1, <2>1, <2>2
<1> QED
  BY <1>1, <1>2, <1>3, <1>5, <1>6

-----------------------------------------------------------------------------
(* What a prefix of the records leaves, and the uses of the others.        *)

LEMMA AfterNone ==
  ASSUME plan \in Plans, NEW p
  PROVE  After(p, 1) = NoFile
<1>1. LastBefore(p, 1) = {}
  BY PlanTypes DEF LastBefore
<1> QED
  BY <1>1 DEF After

LEMMA AfterOne ==
  ASSUME plan \in Plans, NEW p, NEW n \in DOMAIN ops
  PROVE  After(p, n + 1) = IF Counts(n) /\ p \in ops[n].touches THEN Leaves(n, p)
                           ELSE After(p, n)
<1>1. n \in Nat /\ \A i \in DOMAIN ops : i \in Nat
  BY PlanTypes
<1>2. CASE Counts(n) /\ p \in ops[n].touches
  <2>1. n \in LastBefore(p, n + 1)
    BY <1>1, <1>2 DEF LastBefore
  <2>2. \A i \in LastBefore(p, n + 1) : i = n
    BY <1>1, <1>2 DEF LastBefore
  <2>3. LastBefore(p, n + 1) = {n}
    BY <2>1, <2>2
  <2>4. (CHOOSE i \in LastBefore(p, n + 1) : TRUE) = n
    BY <2>3
  <2> QED
    BY <1>2, <2>1, <2>4 DEF After
<1>3. CASE ~(Counts(n) /\ p \in ops[n].touches)
  <2>1. \A i \in DOMAIN ops : i \in LastBefore(p, n + 1) <=> i \in LastBefore(p, n)
    <3> SUFFICES ASSUME NEW i \in DOMAIN ops
                 PROVE  i \in LastBefore(p, n + 1) <=> i \in LastBefore(p, n)
      OBVIOUS
    <3>1. \A j \in DOMAIN ops : Counts(j) /\ p \in ops[j].touches => (j < n + 1 <=> j < n)
      BY <1>1, <1>3
    <3> QED
      BY <3>1 DEF LastBefore
  <2>2. LastBefore(p, n + 1) = LastBefore(p, n)
    <3>1. LastBefore(p, n + 1) \subseteq DOMAIN ops /\ LastBefore(p, n) \subseteq DOMAIN ops
      BY DEF LastBefore
    <3> QED
      BY <2>1, <3>1
  <2>3. After(p, n + 1) = After(p, n)
    <3> DEFINE A == LastBefore(p, n + 1)
               B == LastBefore(p, n)
    <3>1. /\ After(p, n + 1) = IF A = {} THEN NoFile
                               ELSE LET i == CHOOSE i \in A : TRUE IN Leaves(i, p)
          /\ After(p, n) = IF B = {} THEN NoFile
                           ELSE LET i == CHOOSE i \in B : TRUE IN Leaves(i, p)
      BY DEF After
    <3>2. A = B
      BY <2>2
    <3> HIDE DEF A, B
    <3> QED
      BY <3>1, <3>2
  <2> QED
    BY <1>3, <2>3
<1> QED
  BY <1>2, <1>3

LEMMA AfterAll ==
  ASSUME plan \in Plans, NEW p
  PROVE  Final(p) = After(p, Len(ops) + 1)
<1> DEFINE last == {i \in DOMAIN ops : Counts(i) /\ p \in ops[i].touches
                      /\ \A j \in DOMAIN ops : j > i /\ Counts(j) => p \notin ops[j].touches}
<1>1. \A i \in DOMAIN ops : i < Len(ops) + 1
  BY PlanTypes
<1>2. LastBefore(p, Len(ops) + 1) = last
  BY <1>1 DEF LastBefore
<1>3. Final(p) = IF last = {} THEN NoFile
                 ELSE LET i == CHOOSE i \in last : TRUE IN
                      IF ops[i].kind = "remove" THEN NoFile ELSE ops[i].puts[p]
  BY DEF Final
<1> HIDE DEF last
<1> QED
  BY <1>2, <1>3 DEF After, Leaves

\* Records leave contents.
LEMMA LeavesContent ==
  ASSUME plan \in Plans, NEW p \in Paths, NEW i \in DOMAIN ops
  PROVE  Leaves(i, p) \in Content /\ (ops[i].kind # "remove" => Leaves(i, p) = ops[i].puts[p])
<1>1. ops[i].puts \in [Paths -> Content]
  BY PlanTypes
<1> QED
  BY <1>1 DEF Leaves, Content, NoFile

LEMMA UsesCount ==
  ASSUME plan \in Plans, NEW v, NEW n \in Nat
  PROVE  /\ IsFiniteSet(UsesFrom(v, n)) /\ Cardinality(UsesFrom(v, n)) \in 0..Len(ops)
         /\ n > Len(ops) => Cardinality(UsesFrom(v, n)) = 0
         /\ n = 1 => UsesFrom(v, n) = Uses(v)
         /\ n \in Uses(v) =>
              Cardinality(UsesFrom(v, n)) = Cardinality(UsesFrom(v, n + 1)) + 1
         /\ n \notin Uses(v) => UsesFrom(v, n) = UsesFrom(v, n + 1)
<1>0. /\ DOMAIN ops = 1..Len(ops) /\ Len(ops) \in Nat
  BY PlanTypes
<1>1. ASSUME NEW m \in Nat
      PROVE  /\ IsFiniteSet(UsesFrom(v, m)) /\ Cardinality(UsesFrom(v, m)) \in 0..Len(ops)
             /\ m > Len(ops) => UsesFrom(v, m) = {}
  <2>1. UsesFrom(v, m) \subseteq 1..Len(ops)
    BY <1>0 DEF UsesFrom, Uses
  <2>2. IsFiniteSet(1..Len(ops)) /\ Cardinality(1..Len(ops)) = Len(ops)
    <3>1. 1 \in Int /\ Len(ops) \in Int
      BY <1>0
    <3>2. /\ IsFiniteSet(1..Len(ops))
          /\ Cardinality(1..Len(ops)) = IF 1 > Len(ops) THEN 0 ELSE Len(ops) - 1 + 1
      BY <3>1, FS_Interval
    <3> QED
      BY <1>0, <3>2
  <2>3. IsFiniteSet(UsesFrom(v, m)) /\ Cardinality(UsesFrom(v, m)) <= Len(ops)
    BY <2>1, <2>2, FS_Subset
  <2>4. Cardinality(UsesFrom(v, m)) \in Nat
    BY <2>3, FS_CardinalityType
  <2>5. m > Len(ops) => UsesFrom(v, m) = {}
    <3>1. \A i \in UsesFrom(v, m) : i >= m /\ i \in 1..Len(ops)
      BY <2>1 DEF UsesFrom
    <3> QED
      BY <1>0, <3>1
  <2> QED
    BY <1>0, <2>3, <2>4, <2>5
<1>2. n = 1 => UsesFrom(v, n) = Uses(v)
  BY <1>0 DEF UsesFrom, Uses
<1>3. \A i \in Uses(v) : i \in Nat
  BY <1>0 DEF Uses
<1>4. n \in Uses(v) => Cardinality(UsesFrom(v, n)) = Cardinality(UsesFrom(v, n + 1)) + 1
  <2> SUFFICES ASSUME n \in Uses(v)
               PROVE  Cardinality(UsesFrom(v, n)) = Cardinality(UsesFrom(v, n + 1)) + 1
    OBVIOUS
  <2>1. UsesFrom(v, n) = UsesFrom(v, n + 1) \cup {n} /\ n \notin UsesFrom(v, n + 1)
    <3>1. \A i \in Uses(v) : (i >= n <=> i >= n + 1 \/ i = n) /\ ~(n >= n + 1)
      BY <1>3
    <3> QED
      BY <3>1 DEF UsesFrom
  <2>2. IsFiniteSet(UsesFrom(v, n + 1))
    BY <1>1
  <2> QED
    BY <2>1, <2>2, FS_AddElement
<1>5. n \notin Uses(v) => UsesFrom(v, n) = UsesFrom(v, n + 1)
  <2>1. n \notin Uses(v) => \A i \in Uses(v) : i >= n <=> i >= n + 1
    BY <1>3
  <2> QED
    BY <2>1 DEF UsesFrom
<1>6. n > Len(ops) => Cardinality(UsesFrom(v, n)) = 0
  BY <1>1, FS_EmptySet
<1> QED
  BY <1>1, <1>2, <1>4, <1>5, <1>6

-----------------------------------------------------------------------------
LEMMA InitInv == Init => IInv
<1> SUFFICES ASSUME Init PROVE IInv
  OBVIOUS
<1>1. plan \in Plans /\ Len(ops) \in Nat /\ DOMAIN ops = 1..Len(ops)
  BY PlanTypes DEF Init
<1>2. \A v \in Vols : remaining[v] = Cardinality(UsesFrom(v, 1))
  BY <1>1, UsesCount DEF Init
<1>3. remaining \in [Vols -> 0..Len(ops)]
  BY <1>1, <1>2, UsesCount DEF Init
<1>4. sum \in [Vols -> States] /\ \A v \in Vols : sum[v] \in {"pending", "none"}
  BY DEF Init, States
<1>5. Types
  <2>1. opi \in 1..Len(ops) + 1
    BY <1>1 DEF Init
  <2>2. /\ store \in [Paths -> Content] /\ dest \in [Paths -> Content]
        /\ hash \in [Paths -> States]
    BY DEF Init, Content, NoFile, States
  <2> QED
    BY <1>1, <1>3, <1>4, <2>1, <2>2 DEF Init, Types
<1>6. FaultsOnce /\ AtRecord
  BY DEF Init, FaultsOnce, AtRecord, Leaving, Written
<1>7. Applied
  BY <1>1, AfterNone DEF Init, Applied, Leaving, Written
<1>8. Counted
  BY <1>1, <1>2, PlanTypes DEF Init, Counted, Leaving, Written
<1>9. Frozen /\ Recorded
  <2>1. \A v \in plan.sums \cap plan.present : sum[v] # "none"
    BY <1>1, PlanTypes DEF Init
  <2> QED
    BY <1>4, <2>1 DEF Init, Frozen, Recorded, Leaving, Written
<1> QED
  BY <1>5, <1>6, <1>7, <1>8, <1>9 DEF IInv

-----------------------------------------------------------------------------
(* Types.                                                                  *)

\* The record the main goroutine is at.
LEMMA Here ==
  ASSUME Types
  PROVE  /\ Len(ops) \in Nat /\ DOMAIN ops = 1..Len(ops)
         /\ opi \in Nat /\ opi \in 1..Len(ops) + 1
         /\ opi \in DOMAIN ops <=> opi <= Len(ops)
         /\ opi <= Len(ops) =>
              /\ opi + 1 \in 1..Len(ops) + 1
              /\ op.vol \in Vols /\ op.touches \subseteq Paths /\ op.puts \in [Paths -> Content]
              /\ op.kind \in {"extract", "command", "remove"}
              /\ op.kind = "extract" => opi \in Uses(op.vol)
              /\ \A v : v # op.vol => opi \notin Uses(v)
              /\ op.kind # "extract" => \A v : opi \notin Uses(v)
<1>1. /\ Len(ops) \in Nat /\ DOMAIN ops = 1..Len(ops) /\ opi \in 1..Len(ops) + 1
  BY PlanTypes DEF Types
<1>2. opi \in Nat /\ (opi \in DOMAIN ops <=> opi <= Len(ops))
  BY <1>1
<1>3. ASSUME opi <= Len(ops)
      PROVE  /\ opi + 1 \in 1..Len(ops) + 1
             /\ op.vol \in Vols /\ op.touches \subseteq Paths /\ op.puts \in [Paths -> Content]
             /\ op.kind \in {"extract", "command", "remove"}
             /\ op.kind = "extract" => opi \in Uses(op.vol)
             /\ \A v : v # op.vol => opi \notin Uses(v)
             /\ op.kind # "extract" => \A v : opi \notin Uses(v)
  <2>1. opi \in DOMAIN ops /\ opi + 1 \in 1..Len(ops) + 1
    BY <1>1, <1>2, <1>3
  <2>2. /\ op.vol \in Vols /\ op.touches \subseteq Paths /\ op.puts \in [Paths -> Content]
        /\ op.kind \in {"extract", "command", "remove"}
    BY <2>1, PlanTypes DEF op, Types
  <2> QED
    BY <2>1, <2>2 DEF op, Uses
<1> QED
  BY <1>1, <1>2, <1>3

\* A use of a volume finds its count above zero.
LEMMA UseLeft ==
  ASSUME IInv, pc = "op", opi <= Len(ops), op.kind = "extract", op.vol \in plan.present
  PROVE  /\ remaining[op.vol] = Cardinality(UsesFrom(op.vol, opi + 1)) + 1
         /\ Cardinality(UsesFrom(op.vol, opi + 1)) \in 0..Len(ops)
<1>1. Types /\ remaining[op.vol] = Cardinality(UsesFrom(op.vol, opi))
  BY DEF IInv, Counted
<1>2. opi \in Uses(op.vol) /\ opi \in Nat /\ plan \in Plans
  BY <1>1, Here DEF Types
<1> QED
  BY <1>1, <1>2, UsesCount

LEMMA TypesStep == IInv /\ [Next]_vars => Types'
<1> SUFFICES ASSUME IInv, [Next]_vars PROVE Types'
  OBVIOUS
<1>0. Types /\ plan' = plan /\ ops' = ops /\ AtRecord
  BY PlanKept DEF IInv
<1>1. CASE ExtractMissing
  <2>1. opi' \in 1..Len(ops) + 1
    BY <1>0, <1>1, Here DEF ExtractMissing
  <2>2. /\ pc' = pc \/ pc' = "clean"
        /\ failed' = failed \/ failed' = TRUE
    BY <1>1 DEF ExtractMissing, Fail
  <2>3. UNCHANGED <<todo, store, appOpen, open, remaining, seen, hashed, late, hash, sum,
                    taskError, srcOpen, dest, canceled, result>>
    BY <1>1 DEF ExtractMissing, tasks
  <2> QED
    <3>1. /\ plan' \in Plans /\ opi' \in 1..Len(ops') + 1
          /\ pc' \in {"op", "place", "command", "verify", "write", "clean", "wait", "done"}
          /\ failed' \in BOOLEAN
      BY <1>0, <2>1, <2>2 DEF Types
    <3>2. /\ plan.want' = plan.want /\ Len(ops') = Len(ops)
      BY <1>0
    <3> QED
      BY <1>0, <2>3, <3>1, <3>2 DEF Types
<1>2. CASE ExtractDecode \/ ExtractDecoded
  <2>0. /\ pc = "op" /\ opi <= Len(ops) /\ op.kind = "extract"
        /\ op.vol \in plan.present
    BY <1>2 DEF ExtractDecode, ExtractDecoded, IInv, Counted
  <2>1. op.vol \in Vols /\ op.touches \subseteq Paths
    BY <1>0, <2>0, Here
  <2>2. remaining' \in [Vols -> 0..Len(ops)]
    <3>1. remaining[op.vol] - 1 \in 0..Len(ops)
      BY <2>0, UseLeft
    <3>2. remaining' = remaining \/ remaining' = [remaining EXCEPT ![op.vol] = remaining[op.vol] - 1]
      BY <1>2 DEF ExtractDecode, ExtractDecoded
    <3> QED
      BY <1>0, <3>1, <3>2 DEF Types
  <2>3. /\ pc' \in {"place", "clean"}
        /\ failed' = failed \/ failed' = TRUE
        /\ todo' = op.touches
        /\ seen' = seen \/ seen' = seen \cup {op.vol}
        /\ open' = open \/ open' = open \cup {op.vol}
    BY <1>2 DEF ExtractDecode, ExtractDecoded, Fail
  <2>4. UNCHANGED <<opi, store, appOpen, hashed, late, hash, sum,
                    taskError, srcOpen, dest, canceled, result>>
    BY <1>2 DEF ExtractDecode, ExtractDecoded, tasks
  <2> QED
    <3>1. /\ plan' \in Plans /\ opi' \in 1..Len(ops') + 1
          /\ pc' \in {"op", "place", "command", "verify", "write", "clean", "wait", "done"}
          /\ failed' \in BOOLEAN
      BY <1>0, <2>3, <2>4 DEF Types
    <3>2. todo' \subseteq Paths /\ seen' \subseteq Vols /\ open' \subseteq Vols
      BY <1>0, <2>1, <2>3 DEF Types
    <3>3. /\ plan.want' = plan.want /\ Len(ops') = Len(ops)
      BY <1>0
    <3> QED
      BY <1>0, <2>2, <2>4, <3>1, <3>2, <3>3 DEF Types
<1>3. ASSUME NEW p \in Paths, PlaceFile(p) PROVE Types'
  <2>1. opi \in DOMAIN ops
    BY <1>0, <1>3 DEF PlaceFile, AtRecord
  <2>2. op.puts[p] \in Content
    BY <1>0, <2>1, Here
  <2>3. store' \in [Paths -> Content] /\ todo' \subseteq Paths
    BY <1>0, <1>3, <2>2 DEF PlaceFile, Types
  <2>4. /\ hashed' \subseteq plan.want /\ hashed \subseteq hashed'
        /\ hash' \in [Paths -> States]
    BY <1>0, <1>3 DEF PlaceFile, Types, States
  <2> QED
    BY <1>0, <1>3, <2>3, <2>4 DEF PlaceFile, Types
<1>4. CASE PlacedAll \/ PlaceCanceled
  <2>1. open' \subseteq Vols
    BY <1>0, <1>4 DEF PlacedAll, PlaceCanceled, CloseDecoded, Types
  <2>2. opi' \in 1..Len(ops) + 1
    BY <1>0, <1>4, Here DEF PlacedAll, PlaceCanceled, AtRecord
  <2>3. /\ pc' \in {"op", "clean"}
        /\ failed' = failed \/ failed' = TRUE
        /\ UNCHANGED <<todo, store, appOpen, remaining, seen, hashed, late, hash, sum,
                       taskError, srcOpen, dest, canceled, result>>
    BY <1>4 DEF PlacedAll, PlaceCanceled, Fail, tasks
  <2> QED
    BY <1>0, <2>1, <2>2, <2>3 DEF Types
<1>5. CASE BeginCommand
  <2>1. op.touches \subseteq Paths
    BY <1>0, <1>5, Here DEF BeginCommand
  <2> QED
    BY <1>0, <1>5, <2>1 DEF BeginCommand, tasks, Types
<1>6. ASSUME NEW p \in Paths, CommandWrite(p) PROVE Types'
  <2>1. opi \in DOMAIN ops
    BY <1>0, <1>6 DEF CommandWrite, AtRecord
  <2>2. op.puts[p] \in Content
    BY <1>0, <2>1, Here
  <2>3. store' \in [Paths -> Content] /\ todo' \subseteq Paths
    BY <1>0, <1>6, <2>2 DEF CommandWrite, Types
  <2> QED
    BY <1>0, <1>6, <2>3 DEF CommandWrite, tasks, Types
<1>7. CASE EndCommand \/ CommandFails \/ OpCanceled \/ WriteCanceled
  <2>1. opi' \in 1..Len(ops) + 1
    BY <1>0, <1>7, Here DEF EndCommand, CommandFails, OpCanceled, WriteCanceled, AtRecord
  <2>2. /\ pc' \in {"op", "clean"}
        /\ failed' = failed \/ failed' = TRUE
        /\ UNCHANGED <<todo, store, appOpen, open, remaining, seen, hashed, late, hash, sum,
                       taskError, srcOpen, dest, canceled, result>>
    BY <1>7 DEF EndCommand, CommandFails, OpCanceled, WriteCanceled, Fail, tasks
  <2> QED
    BY <1>0, <2>1, <2>2 DEF Types
<1>8. CASE RemoveFiles
  <2>1. opi' \in 1..Len(ops) + 1
    BY <1>0, <1>8, Here DEF RemoveFiles
  <2>2. store' \in [Paths -> Content]
    BY <1>0, <1>8 DEF RemoveFiles, Types, Content, NoFile
  <2>3. UNCHANGED <<pc, todo, appOpen, open, remaining, seen, hashed, late, hash, sum,
                    taskError, srcOpen, dest, canceled, failed, result>>
    BY <1>8 DEF RemoveFiles, tasks
  <2> QED
    BY <1>0, <2>1, <2>2, <2>3 DEF Types
<1>9. CASE FinishHashes
  <2>1. /\ hashed' \subseteq plan.want /\ late' \subseteq hashed' /\ hash' \in [Paths -> States]
    BY <1>0, <1>9 DEF FinishHashes, Types, States
  <2>2. /\ pc' \in {"verify", "clean"}
        /\ failed' = failed \/ failed' = TRUE
        /\ UNCHANGED <<opi, todo, store, appOpen, open, remaining, seen, sum,
                       taskError, srcOpen, dest, canceled, result>>
    BY <1>9 DEF FinishHashes, Fail
  <2> QED
    BY <1>0, <2>1, <2>2 DEF Types
<1>10. CASE VerifyReturns
  <2>1. /\ pc' \in {"write", "clean"}
        /\ failed' = failed \/ failed' = TRUE
        /\ todo' = todo \/ todo' \subseteq Paths
        /\ UNCHANGED <<opi, store, appOpen, open, remaining, seen, hashed, late, hash, sum,
                       taskError, srcOpen, dest, canceled, result>>
    BY <1>10 DEF VerifyReturns, Fail, tasks
  <2> QED
    BY <1>0, <2>1 DEF Types
<1>11. ASSUME NEW p \in Paths, WriteDest(p) PROVE Types'
  <2>1. dest' \in [Paths -> Content] /\ todo' \subseteq Paths
    BY <1>0, <1>11 DEF WriteDest, Types
  <2> QED
    BY <1>0, <1>11, <2>1 DEF WriteDest, tasks, Types
<1>12. CASE WrittenAll
  <2>1. store' \in [Paths -> Content]
    BY <1>12 DEF WrittenAll, Content, NoFile
  <2> QED
    BY <1>0, <1>12, <2>1 DEF WrittenAll, tasks, Types
<1>13. CASE CleanUp
  BY <1>0, <1>13 DEF CleanUp, Types
<1>14. CASE SessionDone
  <2>1. /\ pc' = "done" /\ result' \in {"ok", "error"}
        /\ UNCHANGED <<opi, todo, store, appOpen, open, remaining, seen, hashed, late, hash, sum,
                       taskError, srcOpen, dest, canceled, failed>>
    BY <1>14 DEF SessionDone, tasks
  <2> QED
    BY <1>0, <2>1 DEF Types
<1>15. ASSUME NEW p \in Paths, HashTask(p) PROVE Types'
  <2>1. /\ hash' \in [Paths -> States]
        /\ taskError' \in BOOLEAN /\ canceled' \in BOOLEAN
    BY <1>0, <1>15 DEF HashTask, Types, States
  <2> QED
    BY <1>0, <1>15, <2>1 DEF HashTask, Types
<1>16. ASSUME NEW v \in Vols, VolumeSum(v) PROVE Types'
  <2>1. /\ sum' \in [Vols -> States]
        /\ taskError' \in BOOLEAN /\ canceled' \in BOOLEAN
    BY <1>0, <1>16 DEF VolumeSum, Types, States
  <2> QED
    BY <1>0, <1>16, <2>1 DEF VolumeSum, Types
<1>17. CASE Interrupt \/ Returned \/ UNCHANGED vars
  <2>1. /\ canceled' = canceled \/ canceled' = TRUE
        /\ UNCHANGED <<pc, opi, todo, store, appOpen, open, remaining, seen, hashed, late, hash, sum,
                       taskError, srcOpen, dest, failed, result>>
    BY <1>17 DEF Interrupt, Returned, vars, tasks
  <2>2. canceled' \in BOOLEAN /\ plan' \in Plans /\ plan.want' = plan.want /\ Len(ops') = Len(ops)
    BY <1>0, <2>1 DEF Types
  <2> QED
    BY <2>1, <2>2, <1>0 DEF Types
<1> QED
  BY <1>1, <1>2, <1>3, <1>4, <1>5, <1>6, <1>7, <1>8, <1>9, <1>10, <1>11, <1>12, <1>13, <1>14,
     <1>15, <1>16, <1>17 DEF Next, MainStep

-----------------------------------------------------------------------------
(* Where the main goroutine is.                                            *)

\* What the other goroutines leave alone.
LEMMA TaskFrame ==
  ASSUME TaskStep \/ UNCHANGED vars
  PROVE  /\ UNCHANGED <<plan, pc, opi, todo, store, appOpen, open, remaining, seen, hashed, late,
                        srcOpen, dest, failed, result>>
         /\ op' = op /\ ops' = ops
         /\ (Leaving' <=> Leaving) /\ (Written' <=> Written)
<1>1. UNCHANGED <<plan, pc, opi, todo, store, appOpen, open, remaining, seen, hashed, late,
                  srcOpen, dest, failed, result>>
  BY DEF TaskStep, HashTask, VolumeSum, Interrupt, Returned, vars, tasks
<1> QED
  BY <1>1 DEF op, ops, Leaving, Written

LEMMA FaultsStep == IInv /\ [Next]_vars => FaultsOnce'
<1> SUFFICES ASSUME IInv, [Next]_vars PROVE FaultsOnce'
  OBVIOUS
<1>0. /\ FaultsOnce
      /\ pc \in {"op", "place", "command", "verify", "write", "clean", "wait", "done"}
      /\ canceled \in BOOLEAN
  BY DEF IInv, Types
<1>1. CASE CommandFails
  <2>1. /\ ~Leaving /\ Leaving' /\ canceled' = canceled
        /\ faults' = faults \/ faults' = faults + 1
    BY <1>1 DEF CommandFails, Fail, Leaving
  <2> QED
    BY <1>0, <2>1 DEF FaultsOnce
<1>2. CASE Interrupt
  <2>1. ~canceled /\ canceled' /\ (Leaving' <=> Leaving) /\ faults' = faults + 1
    BY <1>2 DEF Interrupt, Leaving
  <2> QED
    BY <1>0, <2>1 DEF FaultsOnce
<1>3. CASE /\ faults' = faults /\ (canceled => canceled') /\ canceled' \in BOOLEAN
           /\ Leaving => Leaving'
  BY <1>0, <1>3 DEF FaultsOnce
<1>4. CASE OpStep /\ ~CommandFails
  <2>1. ~Leaving /\ faults' = faults /\ canceled' = canceled
    BY <1>4 DEF OpStep, ExtractMissing, ExtractDecode, ExtractDecoded, PlaceFile, PlacedAll,
       PlaceCanceled, BeginCommand, CommandWrite, EndCommand, RemoveFiles, OpCanceled, Leaving
  <2> QED
    BY <1>0, <1>3, <2>1
<1>5. CASE EndStep
  <2>1. /\ Leaving => Leaving'
        /\ faults' = faults /\ canceled' = canceled
    BY <1>5 DEF EndStep, FinishHashes, VerifyReturns, WriteDest, WriteCanceled, WrittenAll,
       CleanUp, SessionDone, Leaving
  <2> QED
    BY <1>0, <1>3, <2>1
<1>6. CASE TaskStep /\ ~Interrupt
  <2>1. (Leaving => Leaving') /\ faults' = faults
    BY <1>6, TaskFrame DEF TaskStep, HashTask, VolumeSum, Returned, vars
  <2>2. canceled' = canceled \/ canceled' = TRUE
    <3>1. ASSUME NEW q \in Paths, HashTask(q) PROVE canceled' = canceled \/ canceled' = TRUE
      BY <3>1 DEF HashTask
    <3>2. ASSUME NEW v \in Vols, VolumeSum(v) PROVE canceled' = canceled \/ canceled' = TRUE
      BY <3>2 DEF VolumeSum
    <3>3. Returned => canceled' = canceled
      BY DEF Returned, vars
    <3> QED
      BY <1>6, <3>1, <3>2, <3>3 DEF TaskStep
  <2> QED
    BY <1>0, <1>3, <2>1, <2>2
<1>7. CASE UNCHANGED vars
  BY <1>0, <1>3, <1>7 DEF vars, Leaving
<1> QED
  BY <1>1, <1>2, <1>4, <1>5, <1>6, <1>7, StepKinds

LEMMA AtRecordStep == IInv /\ [Next]_vars => AtRecord'
<1> SUFFICES ASSUME IInv, [Next]_vars PROVE AtRecord'
  OBVIOUS
<1>0. Types /\ AtRecord /\ plan' = plan /\ ops' = ops
  BY PlanKept DEF IInv
<1>a. /\ opi' = opi => op' = op
      /\ seen' = seen => (RequiredSeen' <=> RequiredSeen)
  BY <1>0, PlanOnly DEF op, RequiredSeen
<1>1. CASE pc' = "op" \/ (Leaving' /\ failed' = TRUE)
  BY <1>1 DEF AtRecord, Leaving, Written
<1>2. CASE ExtractMissing \/ PlacedAll \/ PlaceCanceled \/ EndCommand \/ CommandFails
           \/ RemoveFiles \/ OpCanceled \/ WriteCanceled
  BY <1>1, <1>2 DEF ExtractMissing, PlacedAll, PlaceCanceled, EndCommand, CommandFails,
     RemoveFiles, OpCanceled, WriteCanceled, Fail, Leaving
<1>3. CASE ExtractDecode \/ ExtractDecoded
  <2>1. CASE pc' = "clean" /\ failed' = TRUE
    BY <1>1, <2>1 DEF Leaving
  <2>2. CASE pc' = "place"
    <3>1. /\ opi <= Len(ops) /\ op.kind = "extract" /\ op.vol \in plan.present
          /\ opi' = opi /\ todo' = op.touches
      BY <1>3 DEF ExtractDecode, ExtractDecoded, IInv, Counted
    <3> QED
      BY <1>0, <1>a, <2>2, <3>1, Here DEF AtRecord, Leaving, Written
  <2> QED
    BY <1>3, <2>1, <2>2 DEF ExtractDecode, ExtractDecoded, Fail
<1>4. CASE BeginCommand
  <2>1. /\ opi <= Len(ops) /\ op.kind = "command"
        /\ opi' = opi /\ todo' = op.touches /\ pc' = "command"
    BY <1>4 DEF BeginCommand
  <2> QED
    BY <1>0, <1>a, <2>1, Here DEF AtRecord, Leaving, Written
<1>5. ASSUME NEW p \in Paths, PlaceFile(p) \/ CommandWrite(p) PROVE AtRecord'
  <2>1. /\ pc \in {"place", "command"} /\ pc' = pc /\ opi' = opi /\ todo' \subseteq todo
    BY <1>5 DEF PlaceFile, CommandWrite
  <2> QED
    BY <1>0, <1>a, <2>1 DEF AtRecord, Leaving, Written
<1>6. CASE FinishHashes
  <2>1. CASE pc' = "clean" /\ failed' = TRUE
    BY <1>1, <2>1 DEF Leaving
  <2>2. CASE pc' = "verify"
    <3>1. RequiredSeen /\ opi > Len(ops) /\ opi' = opi /\ seen' = seen
      BY <1>6, <2>2 DEF FinishHashes, Fail
    <3>2. opi = Len(ops) + 1
      BY <1>0, <3>1, Here
    <3> QED
      BY <1>0, <1>a, <2>2, <3>1, <3>2 DEF AtRecord, Leaving, Written
  <2> QED
    BY <1>6, <2>1, <2>2 DEF FinishHashes, Fail
<1>7. CASE VerifyReturns
  <2>1. CASE pc' = "clean" /\ failed' = TRUE
    BY <1>1, <2>1 DEF Leaving
  <2>2. CASE pc' = "write"
    BY <1>0, <1>a, <1>7, <2>2 DEF VerifyReturns, AtRecord, Leaving, Written
  <2> QED
    BY <1>7, <2>1, <2>2 DEF VerifyReturns, Fail
<1>8. ASSUME NEW p \in Paths, WriteDest(p) PROVE AtRecord'
  BY <1>0, <1>a, <1>8 DEF WriteDest, AtRecord, Leaving, Written
<1>9. CASE WrittenAll
  BY <1>0, <1>a, <1>9 DEF WrittenAll, AtRecord, Leaving, Written
<1>10. CASE CleanUp \/ SessionDone
  <2>1. /\ pc \in {"clean", "wait"} /\ pc' \in {"wait", "done"}
        /\ failed' = failed /\ seen' = seen
    BY <1>10 DEF CleanUp, SessionDone
  <2> QED
    BY <1>0, <1>a, <2>1 DEF AtRecord, Leaving, Written
<1>11. CASE TaskStep \/ UNCHANGED vars
  BY <1>0, <1>a, <1>11, TaskFrame DEF AtRecord
<1> QED
  BY <1>2, <1>3, <1>4, <1>5, <1>6, <1>7, <1>8, <1>9, <1>10, <1>11, StepKinds DEF OpStep, EndStep

-----------------------------------------------------------------------------
(* The store is what the records so far leave.                             *)

LEMMA AppliedStep == IInv /\ [Next]_vars => Applied'
<1> SUFFICES ASSUME IInv, [Next]_vars PROVE Applied'
  OBVIOUS
<1>0. Types /\ AtRecord /\ Applied /\ plan' = plan /\ ops' = ops /\ plan \in Plans
  BY PlanKept DEF IInv, Types
<1>a. /\ opi' = opi => op' = op
      /\ \A p, n : After(p, n)' = After(p, n)
      /\ \A p : Final(p)' = Final(p)
  BY <1>0, PlanOnly DEF op
<1>b. store \in [Paths -> Content] /\ dest \in [Paths -> Content]
  BY <1>0 DEF Types
\* What the present record adds to the others.
<1>c. ASSUME opi <= Len(ops), NEW p \in Paths
      PROVE  After(p, opi + 1) = IF Counts(opi) /\ p \in op.touches THEN Leaves(opi, p)
                                 ELSE After(p, opi)
  BY <1>0, <1>c, AfterOne, Here DEF op
<1>1. CASE Leaving' /\ failed' = TRUE
  BY <1>1 DEF Applied, Leaving, Written
<1>2. CASE PlaceCanceled \/ CommandFails \/ OpCanceled \/ WriteCanceled
  BY <1>1, <1>2 DEF PlaceCanceled, CommandFails, OpCanceled, WriteCanceled, Fail, Leaving
<1>3. CASE ExtractMissing
  <2>1. CASE pc' = "clean" /\ failed' = TRUE
    BY <1>1, <2>1 DEF Leaving
  <2>2. CASE opi' = opi + 1 /\ pc' = pc
    <3>1. /\ pc = "op" /\ opi <= Len(ops) /\ ~Counts(opi) /\ store' = store /\ dest' = dest
      BY <1>3 DEF ExtractMissing, Counts, op
    <3>2. \A p \in Paths : store[p] = After(p, opi + 1)
      BY <1>0, <1>c, <3>1 DEF Applied
    <3> QED
      BY <1>0, <1>a, <2>2, <3>1, <3>2 DEF Applied, Leaving, Written
  <2> QED
    BY <1>3, <2>1, <2>2 DEF ExtractMissing, Fail
<1>4. CASE ExtractDecode \/ ExtractDecoded \/ BeginCommand
  <2>1. CASE pc' = "clean" /\ failed' = TRUE
    BY <1>1, <2>1 DEF Leaving
  <2>2. CASE pc' \in {"place", "command"}
    <3>1. /\ pc = "op" /\ opi' = opi /\ store' = store /\ dest' = dest /\ todo' = op.touches
      BY <1>4 DEF ExtractDecode, ExtractDecoded, BeginCommand
    <3> QED
      BY <1>0, <1>a, <2>2, <3>1 DEF Applied, Leaving, Written
  <2> QED
    BY <1>4, <2>1, <2>2 DEF ExtractDecode, ExtractDecoded, BeginCommand, Fail
<1>5. ASSUME NEW p \in Paths, PlaceFile(p) \/ CommandWrite(p) PROVE Applied'
  <2>1. /\ pc \in {"place", "command"} /\ pc' = pc /\ opi' = opi /\ dest' = dest
        /\ store' = [store EXCEPT ![p] = op.puts[p]] /\ todo' = todo \ {p} /\ p \in todo
    BY <1>5 DEF PlaceFile, CommandWrite
  <2>2. todo \subseteq op.touches
    BY <1>0, <2>1 DEF AtRecord
  <2>3. \A q \in Paths : store'[q] = IF q \in op.touches \ todo' THEN op.puts[q]
                                     ELSE After(q, opi)
    <3> SUFFICES ASSUME NEW q \in Paths
                 PROVE  store'[q] = IF q \in op.touches \ todo' THEN op.puts[q]
                                    ELSE After(q, opi)
      OBVIOUS
    <3>1. store[q] = IF q \in op.touches \ todo THEN op.puts[q] ELSE After(q, opi)
      BY <1>0, <2>1 DEF Applied
    <3> QED
      BY <1>b, <2>1, <2>2, <3>1
  <2> QED
    BY <1>0, <1>a, <2>1, <2>3 DEF Applied, Leaving, Written
<1>6. CASE PlacedAll \/ EndCommand
  <2>1. /\ pc \in {"place", "command"} /\ pc' = "op" /\ opi' = opi + 1 /\ todo = {}
        /\ store' = store /\ dest' = dest
    BY <1>6 DEF PlacedAll, EndCommand
  <2>2. opi <= Len(ops) /\ opi \in DOMAIN ops
    BY <1>0, <2>1, Here DEF AtRecord
  <2>3. Counts(opi) /\ op.kind # "remove"
    BY <1>0, <2>1 DEF AtRecord, Counts, op
  <2>4. \A p \in Paths : store[p] = After(p, opi + 1)
    <3> SUFFICES ASSUME NEW p \in Paths PROVE store[p] = After(p, opi + 1)
      OBVIOUS
    <3>1. store[p] = IF p \in op.touches THEN op.puts[p] ELSE After(p, opi)
      BY <1>0, <2>1 DEF Applied
    <3>2. Leaves(opi, p) = op.puts[p]
      BY <1>0, <2>2, <2>3, LeavesContent DEF op
    <3> QED
      BY <1>c, <2>2, <2>3, <3>1, <3>2
  <2> QED
    BY <1>0, <1>a, <2>1, <2>4 DEF Applied, Leaving, Written
<1>7. CASE RemoveFiles
  <2>1. /\ pc = "op" /\ pc' = "op" /\ opi' = opi + 1 /\ opi <= Len(ops) /\ op.kind = "remove"
        /\ dest' = dest
        /\ store' = [p \in Paths |-> IF p \in op.touches THEN NoFile ELSE store[p]]
    BY <1>7 DEF RemoveFiles
  <2>2. \A p \in Paths : store'[p] = After(p, opi + 1)
    <3> SUFFICES ASSUME NEW p \in Paths PROVE store'[p] = After(p, opi + 1)
      OBVIOUS
    <3>1. store[p] = After(p, opi)
      BY <1>0, <2>1 DEF Applied
    <3>2. Leaves(opi, p) = NoFile /\ Counts(opi)
      BY <2>1 DEF Leaves, Counts, op
    <3> QED
      BY <1>c, <2>1, <3>1, <3>2
  <2> QED
    BY <1>0, <1>a, <2>1, <2>2 DEF Applied, Leaving, Written
<1>8. CASE FinishHashes
  <2>1. CASE pc' = "clean" /\ failed' = TRUE
    BY <1>1, <2>1 DEF Leaving
  <2>2. CASE pc' = "verify"
    <3>1. /\ pc = "op" /\ opi > Len(ops) /\ store' = store /\ dest' = dest
      BY <1>8 DEF FinishHashes
    <3>2. opi = Len(ops) + 1
      BY <1>0, <3>1, Here
    <3>3. \A p \in Paths : store[p] = Final(p)
      BY <1>0, <3>1, <3>2, AfterAll DEF Applied
    <3> QED
      BY <1>0, <1>a, <2>2, <3>1, <3>3 DEF Applied, Leaving, Written
  <2> QED
    BY <1>8, <2>1, <2>2 DEF FinishHashes, Fail
<1>9. CASE VerifyReturns
  <2>1. CASE pc' = "clean" /\ failed' = TRUE
    BY <1>1, <2>1 DEF Leaving
  <2>2. CASE pc' = "write"
    <3>1. /\ pc = "verify" /\ store' = store /\ dest' = dest
          /\ todo' = {p \in Paths : store[p] # NoFile}
      BY <1>9, <2>2 DEF VerifyReturns, Fail
    <3> QED
      BY <1>0, <1>a, <2>2, <3>1 DEF Applied, Leaving, Written
  <2> QED
    BY <1>9, <2>1, <2>2 DEF VerifyReturns, Fail
<1>10. ASSUME NEW p \in Paths, WriteDest(p) PROVE Applied'
  <2>1. /\ pc = "write" /\ pc' = "write" /\ store' = store
        /\ dest' = [dest EXCEPT ![p] = store[p]] /\ todo' = todo \ {p}
    BY <1>10 DEF WriteDest
  <2>2. \A q \in Paths : q \notin todo' => dest'[q] = store[q]
    BY <1>0, <1>b, <2>1 DEF Applied
  <2> QED
    BY <1>0, <1>a, <2>1, <2>2 DEF Applied, Leaving, Written
<1>11. CASE WrittenAll
  <2>1. /\ pc = "write" /\ pc' = "clean" /\ todo = {} /\ dest' = dest
        /\ store' = [p \in Paths |-> NoFile]
    BY <1>11 DEF WrittenAll
  <2>2. \A p \in Paths : dest[p] = Final(p)
    BY <1>0, <2>1 DEF Applied
  <2> QED
    BY <1>0, <1>a, <2>1, <2>2 DEF Applied, Leaving, Written
<1>12. CASE CleanUp \/ SessionDone
  <2>1. /\ pc \in {"clean", "wait"} /\ pc' \in {"wait", "done"}
        /\ failed' = failed /\ store' = store /\ dest' = dest
    BY <1>12 DEF CleanUp, SessionDone
  <2> QED
    BY <1>0, <1>a, <2>1 DEF Applied, Leaving, Written
<1>13. CASE TaskStep \/ UNCHANGED vars
  BY <1>0, <1>a, <1>13, TaskFrame DEF Applied
<1> QED
  BY <1>2, <1>3, <1>4, <1>5, <1>6, <1>7, <1>8, <1>9, <1>10, <1>11, <1>12, <1>13, StepKinds
  DEF OpStep, EndStep

-----------------------------------------------------------------------------
(* What remaining counts.                                                  *)

LEMMA CountedStep == IInv /\ [Next]_vars => Counted'
<1> SUFFICES ASSUME IInv, [Next]_vars PROVE Counted'
  OBVIOUS
<1>0. Types /\ AtRecord /\ Counted /\ plan' = plan /\ ops' = ops /\ plan \in Plans
  BY PlanKept DEF IInv, Types
<1>a. /\ opi' = opi => op' = op
      /\ \A v, n : UsesFrom(v, n)' = UsesFrom(v, n)
  BY <1>0, PlanOnly DEF op
<1>b. /\ remaining \in [Vols -> 0..Len(ops)] /\ open \subseteq plan.present
      /\ plan.present \subseteq Vols /\ Len(ops) \in Nat /\ opi \in Nat
  BY <1>0, Here, PlanTypes DEF Types, Counted
\* A record that is not an extract of v is no use of v.
<1>c. ASSUME opi <= Len(ops), NEW v, op.kind # "extract" \/ op.vol # v
      PROVE  UsesFrom(v, opi + 1) = UsesFrom(v, opi)
  BY <1>0, <1>b, <1>c, UsesCount, Here
<1>1. CASE UNCHANGED <<open, remaining>> /\ Leaving' /\ failed' = TRUE /\ ~Leaving /\ pc # "place"
           /\ pc' = "clean"
  BY <1>0, <1>1 DEF Counted, Leaving, Written
<1>2. CASE CommandFails \/ OpCanceled \/ WriteCanceled
  BY <1>1, <1>2 DEF CommandFails, OpCanceled, WriteCanceled, Fail, Leaving
<1>3. CASE ExtractMissing
  <2>1. pc = "op" /\ open' = open /\ remaining' = remaining /\ opi <= Len(ops)
        /\ op.vol \notin plan.present
    BY <1>3 DEF ExtractMissing
  <2>2. CASE pc' = "clean" /\ failed' = TRUE
    BY <1>1, <2>1, <2>2 DEF Leaving
  <2>3. CASE opi' = opi + 1 /\ pc' = pc
    <3>1. \A v \in plan.present : UsesFrom(v, opi + 1) = UsesFrom(v, opi)
      BY <1>c, <2>1
    <3> QED
      BY <1>0, <1>a, <2>1, <2>3, <3>1 DEF Counted, Leaving, Written
  <2> QED
    BY <1>3, <2>2, <2>3 DEF ExtractMissing, Fail
<1>4. CASE ExtractDecode \/ ExtractDecoded
  <2>1. /\ pc = "op" /\ opi <= Len(ops) /\ op.kind = "extract" /\ op.vol \in plan.present
        /\ opi' = opi
    BY <1>0, <1>4 DEF ExtractDecode, ExtractDecoded, Counted
  <2>2. CASE pc' = "clean" /\ failed' = TRUE
    <3>1. open' = open /\ remaining' = remaining
      BY <1>4, <2>2 DEF ExtractDecode, ExtractDecoded
    <3> QED
      BY <1>1, <2>1, <2>2, <3>1 DEF Leaving
  <2>3. CASE pc' = "place"
    <3>1. /\ remaining' = [remaining EXCEPT ![op.vol] = @ - 1]
          /\ open' = open \cup {op.vol}
      BY <1>4, <2>3 DEF ExtractDecode, ExtractDecoded, Fail
    <3>2. \A v \in plan.present : remaining'[v] = Cardinality(UsesFrom(v, opi + 1))
      <4> SUFFICES ASSUME NEW v \in plan.present
                   PROVE  remaining'[v] = Cardinality(UsesFrom(v, opi + 1))
        OBVIOUS
      <4>1. CASE v = op.vol
        <5>1. /\ remaining[v] = Cardinality(UsesFrom(v, opi + 1)) + 1
              /\ Cardinality(UsesFrom(v, opi + 1)) \in 0..Len(ops)
          BY <2>1, <4>1, UseLeft
        <5>2. remaining'[v] = remaining[v] - 1
          BY <1>b, <3>1, <4>1
        <5> QED
          BY <5>1, <5>2
      <4>2. CASE v # op.vol
        <5>1. UsesFrom(v, opi + 1) = UsesFrom(v, opi)
          BY <1>c, <2>1, <4>2
        <5>2. remaining'[v] = remaining[v] /\ remaining[v] = Cardinality(UsesFrom(v, opi))
          BY <1>0, <1>b, <2>1, <3>1, <4>2 DEF Counted
        <5> QED
          BY <5>1, <5>2
      <4> QED
        BY <4>1, <4>2
    <3>3. \A v \in open' : v = op.vol \/ remaining'[v] > 0
      BY <1>0, <1>b, <2>1, <3>1 DEF Counted
    <3>4. open' \subseteq plan.present
      BY <1>b, <2>1, <3>1
    <3> QED
      BY <1>0, <1>a, <2>1, <2>3, <3>2, <3>3, <3>4 DEF Counted, Leaving, Written
  <2> QED
    BY <1>4, <2>2, <2>3 DEF ExtractDecode, ExtractDecoded, Fail
<1>5. CASE PlacedAll \/ PlaceCanceled
  <2>1. /\ pc = "place" /\ remaining' = remaining /\ CloseDecoded
        /\ \/ pc' = "clean" /\ failed' = TRUE
           \/ pc' = "op" /\ opi' = opi + 1
    BY <1>5 DEF PlacedAll, PlaceCanceled, Fail
  <2>2. op.vol \in Vols /\ op.vol \in plan.present
    BY <1>0, <2>1, PlanTypes DEF AtRecord
  <2>3. open' \subseteq plan.present /\ \A v \in open' : remaining'[v] > 0
    <3>1. remaining[op.vol] \in Nat
      BY <1>b, <2>2
    <3>2. \A v \in open : v = op.vol \/ remaining[v] > 0
      BY <1>0, <2>1 DEF Counted
    <3> QED
      BY <1>b, <2>1, <3>1, <3>2 DEF CloseDecoded
  <2> QED
    BY <1>0, <1>a, <2>1, <2>3 DEF Counted, Leaving, Written
<1>6. CASE BeginCommand \/ EndCommand \/ RemoveFiles
  <2>1. /\ pc \in {"op", "command"} /\ pc' \in {"op", "command"}
        /\ open' = open /\ remaining' = remaining
        /\ \/ opi' = opi
           \/ opi' = opi + 1 /\ (pc = "command" \/ (opi <= Len(ops) /\ op.kind = "remove"))
    <3>1. CASE BeginCommand
      BY <3>1 DEF BeginCommand
    <3>2. CASE EndCommand
      BY <3>2 DEF EndCommand
    <3>3. CASE RemoveFiles
      BY <3>3 DEF RemoveFiles
    <3> QED
      BY <1>6, <3>1, <3>2, <3>3
  <2>2. opi' = opi + 1 => opi <= Len(ops) /\ op.kind # "extract"
    BY <1>0, <1>b, <2>1, Here DEF AtRecord
  <2>3. \A v \in plan.present : UsesFrom(v, opi') = UsesFrom(v, opi)
    BY <1>b, <1>c, <2>1, <2>2
  <2> QED
    BY <1>0, <1>a, <2>1, <2>3 DEF Counted, Leaving, Written
<1>7. ASSUME NEW p \in Paths, PlaceFile(p) \/ CommandWrite(p) PROVE Counted'
  <2>1. /\ pc \in {"place", "command"} /\ pc' = pc /\ opi' = opi
        /\ open' = open /\ remaining' = remaining
    BY <1>7 DEF PlaceFile, CommandWrite
  <2> QED
    BY <1>0, <1>a, <2>1 DEF Counted, Leaving, Written
<1>8. CASE FinishHashes
  <2>1. pc = "op" /\ open' = open /\ remaining' = remaining /\ opi' = opi /\ opi > Len(ops)
    BY <1>8 DEF FinishHashes
  <2>2. CASE pc' = "clean" /\ failed' = TRUE
    BY <1>1, <2>1, <2>2 DEF Leaving
  <2>3. CASE pc' = "verify"
    <3>1. \A v \in plan.present : remaining[v] = 0
      BY <1>0, <1>b, <2>1, UsesCount DEF Counted
    <3>2. open = {}
      BY <1>0, <1>b, <2>1, <3>1 DEF Counted
    <3> QED
      BY <1>0, <2>1, <2>3, <3>2 DEF Counted, Leaving, Written
  <2> QED
    BY <1>8, <2>2, <2>3 DEF FinishHashes, Fail
<1>9. CASE VerifyReturns
  <2>1. pc = "verify" /\ open' = open /\ remaining' = remaining
    BY <1>9 DEF VerifyReturns
  <2>2. pc' \in {"write", "clean"}
    BY <1>9 DEF VerifyReturns, Fail
  <2> QED
    BY <1>0, <2>1, <2>2 DEF Counted, Leaving, Written
<1>10. CASE WrittenAll \/ \E p \in Paths : WriteDest(p)
  <2>1. /\ pc = "write" /\ pc' \in {"write", "clean"} /\ open' = open /\ remaining' = remaining
    BY <1>10 DEF WrittenAll, WriteDest
  <2> QED
    BY <1>0, <2>1 DEF Counted, Leaving, Written
<1>11. CASE CleanUp \/ SessionDone
  <2>1. /\ pc \in {"clean", "wait"} /\ pc' \in {"wait", "done"}
        /\ failed' = failed /\ open' = open /\ remaining' = remaining /\ ~appOpen'
    BY <1>0, <1>11 DEF CleanUp, SessionDone, Counted
  <2> QED
    BY <1>0, <2>1 DEF Counted, Leaving, Written
<1>12. CASE TaskStep \/ UNCHANGED vars
  BY <1>0, <1>a, <1>12, TaskFrame DEF Counted
<1> QED
  BY <1>2, <1>3, <1>4, <1>5, <1>6, <1>7, <1>8, <1>9, <1>10, <1>11, <1>12, StepKinds
  DEF OpStep, EndStep

-----------------------------------------------------------------------------
(* What the tasks have found.                                              *)

LEMMA RecordedStep == IInv /\ [Next]_vars => Recorded'
<1> SUFFICES ASSUME IInv, [Next]_vars PROVE Recorded'
  OBVIOUS
<1>0. Types /\ Recorded /\ plan' = plan
  BY PlanKept DEF IInv, Types
<1>a. /\ hash \in [Paths -> States] /\ sum \in [Vols -> States] /\ plan.want \subseteq Paths
      /\ hashed \subseteq plan.want
  BY <1>0, PlanTypes DEF Types
<1>b. result # "none" => pc = "done"
  BY <1>0 DEF Recorded
<1>1. CASE /\ UNCHANGED <<hashed, hash, sum, taskError, result>>
           /\ pc # "done" /\ pc' # "done"
           /\ (pc' \in {"verify", "write"} \/ Written') => pc \in {"verify", "write"} \/ Written
  BY <1>0, <1>1 DEF Recorded
<1>2. CASE /\ OpStep /\ ~(\E p \in Paths : PlaceFile(p))
  <2>1. /\ UNCHANGED <<hashed, hash, sum, taskError, result>>
        /\ pc # "done" /\ pc' # "done"
        /\ pc' \notin {"verify", "write"} /\ (Leaving' => failed' = TRUE)
    BY <1>2 DEF OpStep, ExtractMissing, ExtractDecode, ExtractDecoded, PlacedAll, PlaceCanceled,
       BeginCommand, CommandWrite, EndCommand, CommandFails, RemoveFiles, OpCanceled, Fail,
       Leaving, tasks
  <2> QED
    BY <1>1, <2>1 DEF Written
<1>3. ASSUME NEW p \in Paths, PlaceFile(p) PROVE Recorded'
  <2>1. /\ pc = "place" /\ pc' = "place" /\ UNCHANGED <<sum, taskError, result>>
        /\ \/ hashed' = hashed /\ hash' = hash
           \/ hashed' = hashed \cup {p} /\ hash' = [hash EXCEPT ![p] = "pending"]
    BY <1>3 DEF PlaceFile
  <2>2. /\ \A q \in Paths : hash'[q] # "none" <=> q \in hashed'
        /\ (\E q \in Paths : hash'[q] = "failed") => \E q \in Paths : hash[q] = "failed"
    BY <1>0, <1>a, <2>1 DEF Recorded
  <2> QED
    BY <1>0, <2>1, <2>2 DEF Recorded, Written, Leaving
<1>4. CASE FinishHashes
  <2>0. pc = "op" /\ UNCHANGED <<sum, taskError, result>>
    BY <1>4 DEF FinishHashes
  <2>1. CASE pc' = "clean" /\ failed' = TRUE
    <3>1. UNCHANGED <<hashed, hash>>
      BY <1>4, <2>1 DEF FinishHashes
    <3> QED
      BY <1>1, <2>0, <2>1, <3>1 DEF Leaving, Written
  <2>2. CASE pc' = "verify"
    <3>1. /\ hashed' = plan.want
          /\ hash' = [p \in Paths |-> IF p \in plan.want \ hashed THEN "pending" ELSE hash[p]]
      BY <1>4, <2>2 DEF FinishHashes, Fail
    <3>2. /\ \A q \in Paths : hash'[q] # "none" <=> q \in hashed'
          /\ (\E q \in Paths : hash'[q] = "failed") => \E q \in Paths : hash[q] = "failed"
      BY <1>0, <1>a, <3>1 DEF Recorded
    <3> QED
      BY <1>0, <2>0, <2>2, <3>1, <3>2 DEF Recorded, Written, Leaving
  <2> QED
    BY <1>4, <2>1, <2>2 DEF FinishHashes, Fail
<1>5. CASE VerifyReturns \/ WriteCanceled \/ WrittenAll \/ \E p \in Paths : WriteDest(p)
  <2>1. /\ UNCHANGED <<hashed, hash, sum, taskError, result>>
        /\ pc \in {"verify", "write"} /\ pc' # "done"
    BY <1>5 DEF VerifyReturns, WriteCanceled, WrittenAll, WriteDest, Fail, tasks
  <2> QED
    BY <1>1, <2>1
<1>6. CASE CleanUp
  <2>1. /\ UNCHANGED <<hashed, hash, sum, taskError, result, failed>>
        /\ pc = "clean" /\ pc' = "wait"
    BY <1>6 DEF CleanUp
  <2> QED
    BY <1>1, <2>1 DEF Written, Leaving
<1>7. CASE SessionDone
  <2>1. /\ UNCHANGED <<hashed, hash, sum, taskError, failed>>
        /\ pc = "wait" /\ pc' = "done"
        /\ \A p \in Paths : hash[p] # "pending"
        /\ \A v \in Vols : sum[v] # "pending"
        /\ result' = "ok" => ~failed /\ ~taskError
    BY <1>7 DEF SessionDone, tasks
  <2> QED
    BY <1>0, <2>1 DEF Recorded, Written, Leaving
<1>8. ASSUME NEW p \in Paths, HashTask(p) PROVE Recorded'
  <2>0. TaskStep
    BY <1>8 DEF TaskStep
  <2>1. /\ hash[p] = "pending" /\ UNCHANGED <<pc, hashed, sum, failed, result>>
        /\ \/ hash' = [hash EXCEPT ![p] = "ok"] /\ (taskError => taskError')
           \/ hash' = [hash EXCEPT ![p] = "failed"] /\ taskError'
    BY <1>8 DEF HashTask
  <2>2. pc # "done" /\ result # "ok"
    BY <1>0, <1>b, <2>1 DEF Recorded
  <2>3. \A q \in Paths : hash'[q] # "none" <=> q \in hashed
    BY <1>0, <1>a, <2>1 DEF Recorded
  <2>4. (\E q \in Paths : hash'[q] = "failed") => taskError' \/ \E q \in Paths : hash[q] = "failed"
    BY <1>a, <2>1
  <2>5. taskError => taskError'
    BY <2>1
  <2> QED
    BY <1>0, <1>b, <2>0, <2>1, <2>2, <2>3, <2>4, <2>5, TaskFrame DEF Recorded
<1>9. ASSUME NEW v \in Vols, VolumeSum(v) PROVE Recorded'
  <2>0. TaskStep
    BY <1>9 DEF TaskStep
  <2>1. /\ sum[v] = "pending" /\ UNCHANGED <<pc, hashed, hash, failed, result>>
        /\ \/ sum' = [sum EXCEPT ![v] = "ok"] /\ taskError' = taskError /\ v \notin plan.damaged
           \/ sum' = [sum EXCEPT ![v] = "failed"] /\ taskError' = TRUE
    BY <1>9 DEF VolumeSum
  <2>2. pc # "done" /\ result # "ok"
    BY <1>0, <1>b, <2>1 DEF Recorded
  <2>3. /\ \A u \in plan.sums \cap plan.present : sum'[u] # "none"
        /\ \A u \in Vols : sum'[u] = "ok" => u \notin plan.damaged
    <3>1. plan.present \subseteq Vols
      BY <1>0, PlanTypes DEF Types
    <3> QED
      BY <1>0, <1>a, <2>1, <3>1 DEF Recorded
  <2>4. (\E u \in Vols : sum'[u] = "failed") => taskError' \/ \E u \in Vols : sum[u] = "failed"
    BY <1>a, <2>1
  <2>5. taskError => taskError'
    BY <2>1
  <2> QED
    BY <1>0, <1>b, <2>0, <2>1, <2>2, <2>3, <2>4, <2>5, TaskFrame DEF Recorded
<1>10. CASE Interrupt \/ Returned \/ UNCHANGED vars
  <2>1. UNCHANGED <<pc, hashed, hash, sum, taskError, failed, result>>
    BY <1>10 DEF Interrupt, Returned, vars, tasks
  <2> QED
    BY <1>0, <2>1 DEF Recorded, Written, Leaving
<1> QED
  BY <1>2, <1>3, <1>4, <1>5, <1>6, <1>7, <1>8, <1>9, <1>10, StepKinds DEF EndStep, TaskStep

-----------------------------------------------------------------------------
(* A hash that came out right stays right.                                 *)

\* A record that comes later leaves the files hashed so far alone, so what a
\* hash task has read is what the manifest's file holds to the end.
LEMMA FrozenStep == IInv /\ [Next]_vars => Frozen'
<1> SUFFICES ASSUME IInv, [Next]_vars, Tame
             PROVE  /\ pc' = "op" => \A p \in hashed' : \A j \in DOMAIN ops :
                                       j >= opi' => p \notin ops[j].touches
                    /\ pc' \in {"place", "command"} => \A p \in hashed' :
                         p \notin todo' /\ \A j \in DOMAIN ops : j > opi' => p \notin ops[j].touches
                    /\ \A p \in Paths : hash'[p] = "ok" =>
                         /\ pc' \in {"op", "place", "command", "verify", "write"}
                              => store'[p] = Listed
                         /\ Written' => dest'[p] = Listed
  BY PlanKept, PlanOnly DEF Frozen
<1>0. /\ Types /\ AtRecord /\ Applied /\ Recorded /\ plan' = plan /\ ops' = ops /\ plan \in Plans
      /\ pc \in {"op", "place", "command", "verify", "write", "clean", "wait", "done"}
  BY PlanKept DEF IInv, Types
<1>a. /\ opi \in Nat /\ DOMAIN ops = 1..Len(ops) /\ Len(ops) \in Nat
      /\ store \in [Paths -> Content] /\ dest \in [Paths -> Content] /\ hash \in [Paths -> States]
      /\ \A j \in DOMAIN ops : j \in Nat
  BY <1>0, Here DEF Types
<1>b. /\ pc = "op" => \A p \in hashed : \A j \in DOMAIN ops : j >= opi => p \notin ops[j].touches
      /\ pc \in {"place", "command"} => \A p \in hashed :
           p \notin todo /\ \A j \in DOMAIN ops : j > opi => p \notin ops[j].touches
      /\ \A p \in Paths : hash[p] = "ok" =>
           /\ pc \in {"op", "place", "command", "verify", "write"} => store[p] = Listed
           /\ Written => dest[p] = Listed
      /\ \A p \in Paths : hash[p] = "ok" => p \in hashed
  BY <1>0 DEF IInv, Frozen, Recorded
\* Nothing is placed, written or hashed, the records go on.
<1>1. CASE ExtractMissing \/ PlacedAll \/ EndCommand
  <2>1. /\ pc \in {"op", "place", "command"} /\ UNCHANGED <<hashed, hash, store>>
        /\ \/ pc' = "clean" /\ failed' = TRUE
           \/ pc' = "op" /\ opi' = opi + 1
    BY <1>1 DEF ExtractMissing, PlacedAll, EndCommand, Fail, tasks
  <2>2. \A j \in DOMAIN ops : j >= opi + 1 => j > opi /\ j >= opi
    BY <1>a
  <2> QED
    BY <1>b, <2>1, <2>2 DEF Written, Leaving
<1>2. CASE ExtractDecode \/ ExtractDecoded \/ BeginCommand
  <2>1. /\ pc = "op" /\ opi <= Len(ops) /\ UNCHANGED <<hashed, hash, store, opi>>
        /\ todo' = op.touches
        /\ \/ pc' = "clean" /\ failed' = TRUE
           \/ pc' \in {"place", "command"}
    BY <1>2 DEF ExtractDecode, ExtractDecoded, BeginCommand, Fail, tasks
  <2>2. opi \in DOMAIN ops /\ opi >= opi /\ \A j \in DOMAIN ops : j > opi => j >= opi
    BY <1>a, <1>0, <2>1, Here
  <2>3. \A p \in hashed : p \notin op.touches
    BY <1>b, <2>1, <2>2 DEF op
  <2> QED
    BY <1>b, <2>1, <2>2, <2>3 DEF Written, Leaving
<1>3. ASSUME NEW p \in Paths, PlaceFile(p)
      PROVE  /\ pc' = "op" => \A q \in hashed' : \A j \in DOMAIN ops :
                                j >= opi' => q \notin ops[j].touches
             /\ pc' \in {"place", "command"} => \A q \in hashed' :
                  q \notin todo' /\ \A j \in DOMAIN ops : j > opi' => q \notin ops[j].touches
             /\ \A q \in Paths : hash'[q] = "ok" =>
                  /\ pc' \in {"op", "place", "command", "verify", "write"} => store'[q] = Listed
                  /\ Written' => dest'[q] = Listed
  <2>1. /\ pc = "place" /\ pc' = "place" /\ opi' = opi /\ p \in todo /\ todo' = todo \ {p}
        /\ store' = [store EXCEPT ![p] = op.puts[p]]
        /\ \/ hashed' = hashed /\ hash' = hash
           \/ /\ hashed' = hashed \cup {p} /\ hash' = [hash EXCEPT ![p] = "pending"]
              /\ ~LaterMayWrite(p)
    BY <1>3 DEF PlaceFile
  <2>2. opi \in DOMAIN ops /\ op.kind = "extract" /\ p \in op.touches
    BY <1>0, <2>1 DEF AtRecord
  <2>3. ASSUME ~LaterMayWrite(p), NEW j \in DOMAIN ops, j > opi PROVE p \notin ops[j].touches
    <3> SUFFICES ASSUME p \in ops[j].touches PROVE FALSE
      OBVIOUS
    <3>1. p \in ops[opi].touches \cap ops[j].touches /\ opi < j /\ ops[opi].kind = "extract"
      BY <1>a, <2>2, <2>3 DEF op
    <3>2. ops[j].kind = "command" /\ (ops[j].glob \/ p \in ops[j].declares)
      BY <2>2, <3>1 DEF Tame
    <3> QED
      BY <2>3, <3>2 DEF LaterMayWrite
  <2>4. \A q \in hashed' :
          q \notin todo' /\ \A j \in DOMAIN ops : j > opi => q \notin ops[j].touches
    BY <1>b, <2>1, <2>3
  <2>5. \A q \in Paths : hash'[q] = "ok" => hash[q] = "ok" /\ q # p
    BY <1>a, <1>b, <2>1
  <2>6. \A q \in Paths : hash'[q] = "ok" => store'[q] = Listed
    BY <1>a, <1>b, <2>1, <2>5
  <2> QED
    BY <2>1, <2>4, <2>6 DEF Written, Leaving
<1>4. ASSUME NEW p \in Paths, CommandWrite(p)
      PROVE  /\ pc' = "op" => \A q \in hashed' : \A j \in DOMAIN ops :
                                j >= opi' => q \notin ops[j].touches
             /\ pc' \in {"place", "command"} => \A q \in hashed' :
                  q \notin todo' /\ \A j \in DOMAIN ops : j > opi' => q \notin ops[j].touches
             /\ \A q \in Paths : hash'[q] = "ok" =>
                  /\ pc' \in {"op", "place", "command", "verify", "write"} => store'[q] = Listed
                  /\ Written' => dest'[q] = Listed
  <2>1. /\ pc = "command" /\ pc' = "command" /\ opi' = opi /\ p \in todo /\ todo' = todo \ {p}
        /\ store' = [store EXCEPT ![p] = op.puts[p]]
        /\ hashed' = hashed /\ hash' = hash
    BY <1>4 DEF CommandWrite, tasks
  <2>2. \A q \in Paths : hash[q] = "ok" => q # p /\ store'[q] = Listed
    BY <1>a, <1>b, <2>1
  <2> QED
    BY <1>b, <2>1, <2>2 DEF Written, Leaving
<1>5. CASE RemoveFiles
  <2>1. /\ pc = "op" /\ pc' = "op" /\ opi' = opi + 1 /\ opi <= Len(ops)
        /\ store' = [p \in Paths |-> IF p \in op.touches THEN NoFile ELSE store[p]]
        /\ hashed' = hashed /\ hash' = hash
    BY <1>5 DEF RemoveFiles, tasks
  <2>2. opi \in DOMAIN ops /\ opi >= opi
        /\ \A j \in DOMAIN ops : j >= opi + 1 => j >= opi
    BY <1>a, <1>0, <2>1, Here
  <2>3. \A p \in Paths : hash[p] = "ok" => store'[p] = Listed
    BY <1>b, <2>1, <2>2 DEF op
  <2> QED
    BY <1>b, <2>1, <2>2, <2>3 DEF Written, Leaving
<1>6. CASE PlaceCanceled \/ CommandFails \/ OpCanceled \/ WriteCanceled
  <2>1. pc' = "clean" /\ failed' = TRUE
    BY <1>6 DEF PlaceCanceled, CommandFails, OpCanceled, WriteCanceled, Fail
  <2> QED
    BY <2>1 DEF Written, Leaving
<1>7. CASE FinishHashes
  <2>1. CASE pc' = "clean" /\ failed' = TRUE
    BY <2>1 DEF Written, Leaving
  <2>2. CASE pc' = "verify"
    <3>1. /\ pc = "op" /\ store' = store
          /\ \A p \in Paths : hash'[p] = "ok" => hash[p] = "ok"
      BY <1>7, <2>2 DEF FinishHashes, Fail
    <3> QED
      BY <1>b, <2>2, <3>1 DEF Written, Leaving
  <2> QED
    BY <1>7, <2>1, <2>2 DEF FinishHashes, Fail
<1>8. CASE VerifyReturns \/ \E p \in Paths : WriteDest(p)
  <2>1. /\ pc \in {"verify", "write"} /\ store' = store /\ hash' = hash
        /\ \/ pc' = "clean" /\ failed' = TRUE
           \/ pc' = "write"
    BY <1>8 DEF VerifyReturns, WriteDest, Fail, tasks
  <2> QED
    BY <1>b, <2>1 DEF Written, Leaving
<1>9. CASE WrittenAll
  <2>1. /\ pc = "write" /\ pc' = "clean" /\ todo = {} /\ dest' = dest /\ hash' = hash
    BY <1>9 DEF WrittenAll, tasks
  <2>2. \A p \in Paths : dest[p] = store[p]
    BY <1>0, <2>1 DEF Applied
  <2> QED
    BY <1>b, <2>1, <2>2
<1>10. CASE CleanUp \/ SessionDone
  <2>1. /\ pc \in {"clean", "wait"} /\ pc' \in {"wait", "done"}
        /\ UNCHANGED <<failed, dest, hash>>
    BY <1>10 DEF CleanUp, SessionDone, tasks
  <2> QED
    BY <1>b, <2>1 DEF Written, Leaving
<1>11. ASSUME NEW p \in Paths, HashTask(p)
       PROVE  \A q \in Paths : hash'[q] = "ok" =>
                /\ pc' \in {"op", "place", "command", "verify", "write"} => store'[q] = Listed
                /\ Written' => dest'[q] = Listed
  <2>1. /\ UNCHANGED <<pc, store, dest, failed>>
        /\ \/ hash' = [hash EXCEPT ![p] = "ok"] /\ store[p] = Listed
           \/ hash' = [hash EXCEPT ![p] = "failed"]
    BY <1>11 DEF HashTask
  <2>2. Written => store[p] # Listed
    BY <1>0 DEF Applied, NoFile, Listed
  <2>3. \A q \in Paths : hash'[q] = "ok" => hash[q] = "ok" \/ (q = p /\ store[p] = Listed)
    BY <1>a, <2>1
  <2> QED
    BY <1>b, <2>1, <2>2, <2>3 DEF Written, Leaving
<1>12. CASE TaskStep \/ UNCHANGED vars
  <2>1. CASE ~\E p \in Paths : HashTask(p)
    <3>1. hash' = hash
      BY <1>12, <2>1 DEF TaskStep, VolumeSum, Interrupt, Returned, vars, tasks
    <3> QED
      BY <1>b, <1>12, <3>1, TaskFrame
  <2>2. CASE \E p \in Paths : HashTask(p)
    BY <1>b, <1>11, <1>12, <2>2, TaskFrame
  <2> QED
    BY <2>1, <2>2
<1> QED
  BY <1>1, <1>2, <1>3, <1>4, <1>5, <1>6, <1>7, <1>8, <1>9, <1>10, <1>12, StepKinds
  DEF OpStep, EndStep

-----------------------------------------------------------------------------
LEMMA Inductive == Spec => []IInv
<1>1. IInv /\ [Next]_vars => IInv'
  <2> SUFFICES ASSUME IInv, [Next]_vars PROVE IInv'
    OBVIOUS
  <2>1. Types' /\ FaultsOnce' /\ AtRecord' /\ Applied'
    BY TypesStep, FaultsStep, AtRecordStep, AppliedStep
  <2>2. Counted' /\ Frozen' /\ Recorded'
    BY CountedStep, FrozenStep, RecordedStep
  <2> QED
    BY <2>1, <2>2 DEF IInv
<1> QED
  BY InitInv, <1>1, PTL DEF Spec

\* The types, and with them that a tool error and an interruption happen at
\* most once each in an installation.
THEOREM InstallTypes == Spec => []TypeOK
<1>1. IInv => TypeOK
  <2> SUFFICES ASSUME IInv PROVE TypeOK
    OBVIOUS
  <2>1. faults \in 0..2
    BY DEF IInv, FaultsOnce
  <2>2. Types
    BY DEF IInv
  <2>3. {canceled, failed, taskError, srcOpen} \subseteq BOOLEAN
    BY <2>2, Zenon DEF Types
  <2> QED
    BY <2>1, <2>2, <2>3 DEF Types, TypeOK
<1> QED
  BY Inductive, <1>1, PTL

\* SPEC INV-05: Extract returns nil only when Dest holds what the records
\* describe, all of them applied in order, and each volume that some record
\* needs was decoded.
THEOREM CompleteOnExit == Spec => []ExitComplete
<1>1. IInv => ExitComplete
  <2> SUFFICES ASSUME IInv, result = "ok"
               PROVE  /\ \A p \in Paths : dest[p] = Final(p)
                      /\ \A v \in plan.present : Optional(v) \/ v \in seen
    BY DEF ExitComplete
  <2>1. Written
    BY DEF IInv, Recorded, Written, Leaving
  <2> QED
    BY <2>1 DEF IInv, Applied, AtRecord, RequiredSeen
<1> QED
  BY Inductive, <1>1, PTL

\* No false success: the checks that run beside the installation, and outlive
\* the copy, have all been waited for when Extract returns nil, and what they
\* found in the store is what Dest holds.
THEOREM VerifiedOnExit == Spec => []VerifiedExit
<1>1. IInv => VerifiedExit
  <2> SUFFICES ASSUME IInv, result = "ok"
               PROVE  /\ \A v \in plan.sums \cap plan.present : v \notin plan.damaged
                      /\ Tame => \A p \in plan.want : dest[p] = Listed
    BY DEF VerifiedExit
  <2>1. /\ Written /\ ~taskError /\ pc = "done" /\ Recorded /\ Types
    BY DEF IInv, Recorded, Written, Leaving
  <2>2. plan.want \subseteq Paths /\ plan.present \subseteq Vols
    BY <2>1, PlanTypes DEF Types
  <2>3. \A v \in plan.sums \cap plan.present : sum[v] = "ok"
    <3>1. \A v \in Vols : sum[v] \in States /\ sum[v] # "failed" /\ sum[v] # "pending"
      BY <2>1 DEF Recorded, Types
    <3> QED
      BY <2>1, <2>2, <3>1 DEF Recorded, States
  <2>4. \A p \in plan.want : hash[p] = "ok"
    <3>1. \A p \in Paths : hash[p] \in States /\ hash[p] # "failed" /\ hash[p] # "pending"
      BY <2>1 DEF Recorded, Types
    <3> QED
      BY <2>1, <2>2, <3>1 DEF Recorded, States
  <2> QED
    BY <2>1, <2>2, <2>3, <2>4 DEF IInv, Frozen, Recorded
<1> QED
  BY Inductive, <1>1, PTL

\* A successful installation leaves no staging directory: remaining reaches
\* zero for each volume at its last use.
THEOREM NothingLeft == Spec => []NoStagingLeft
<1>1. IInv => NoStagingLeft
  BY DEF IInv, Counted, Recorded, Written, Leaving, NoStagingLeft
<1> QED
  BY Inductive, <1>1, PTL

\* A decoded volume stays on disk only while a later record uses it.
THEOREM KeptOnlyForUse == Spec => []KeptForUse
<1>1. IInv => KeptForUse
  BY DEF IInv, Counted, KeptForUse
<1> QED
  BY Inductive, <1>1, PTL

=============================================================================
