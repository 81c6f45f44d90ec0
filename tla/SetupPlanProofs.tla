-------------------------- MODULE SetupPlanProofs --------------------------
(***************************************************************************)
(* Proofs about the analysis of setup metadata, for every script: calls    *)
(* are read off only from a fixpoint (SetupConverged), and an analysis     *)
(* only ever forgets (SetupForgets).                                       *)
(*                                                                         *)
(* A state at an instruction only ever loses what is known (Weaker), and   *)
(* the instruction is queued whenever it does (Later).  So an instruction  *)
(* that is not in the queue has the state it had when it was last visited, *)
(* and its successors have been joined with what followed from it then     *)
(* (Settled).  With nothing in the queue this is so for all of them.       *)
(***************************************************************************)
EXTENDS SetupPlan, SequenceTheorems, WellFoundedInduction, TLAPS

\* A sequence, of whatever elements.
IsSeq(q) == \E S : q \in Seq(S)

IsState(s) ==
  /\ DOMAIN s = {"stack", "globals", "params", "flag"}
  /\ IsSeq(s.stack)

\* The states of an analysis, and its queue: of instructions that have a state.
IsAnalysis(a) ==
  /\ DOMAIN a = {"proc", "states", "queue", "steps", "at"}
  /\ a.proc \in DOMAIN prog
  /\ DOMAIN a.states = DOMAIN prog[a.proc].code
  /\ a.queue \in Seq(DOMAIN a.states)
  /\ 1 \in DOMAIN a.states => a.states[1] # <<>>
  /\ \A i \in ToSet(a.queue) : a.states[i] # <<>>
  /\ \A i \in DOMAIN a.states :
       a.states[i] # <<>> => /\ IsState(a.states[i][1])
                             /\ a.states[i][1].params = a.states[1][1].params

\* What is known at the start is known however the start is come back to.
Begun(a) ==
  1 \in DOMAIN a.states => Weaker(a.states[1][1], Fresh(a.states[1][1].params))

\* A visit that has done its work: what follows has been passed on, and a call
\* is one of a procedure of the script.
Settled(a, i) ==
  /\ Absorbed(a, i)
  /\ prog[a.proc].code[i].op = "call" => prog[a.proc].code[i].arg \in DOMAIN prog

Analysed(a) ==
  /\ IsAnalysis(a)
  /\ Begun(a)
  /\ \A i \in DOMAIN a.states : a.states[i] # <<>> /\ i \notin ToSet(a.queue) => Settled(a, i)

Inv ==
  /\ prog \in Programs
  /\ IsSeq(analyses) /\ analyses # <<>>
  /\ \A a \in ToSet(analyses) : Analysed(a)

-----------------------------------------------------------------------------
(* Sequences.                                                              *)

\* An element more.
LEMMA AppendSeq ==
  ASSUME NEW q, IsSeq(q), NEW e
  PROVE  /\ IsSeq(Append(q, e)) /\ Append(q, e) # <<>>
         /\ ToSet(Append(q, e)) = ToSet(q) \cup {e}
<1>1. PICK S : q \in Seq(S)
  BY DEF IsSeq
<1> DEFINE T == S \cup {e}
<1>2. q \in Seq(T) /\ e \in T
  BY <1>1, SeqMonotonic
<1>3. /\ Append(q, e) \in Seq(T) /\ Append(q, e) # <<>> /\ Len(Append(q, e)) = Len(q) + 1
      /\ \A i \in 1..Len(q) : Append(q, e)[i] = q[i]
      /\ Append(q, e)[Len(q) + 1] = e
  BY <1>2, AppendProperties
<1>4. Len(q) \in Nat /\ DOMAIN q = 1..Len(q) /\ DOMAIN Append(q, e) = 1..(Len(q) + 1)
  BY <1>2, <1>3, LenProperties
<1>5. 1..(Len(q) + 1) = 1..Len(q) \cup {Len(q) + 1}
  BY <1>4
<1> QED
  BY <1>3, <1>4, <1>5 DEF IsSeq, ToSet

\* The first elements of a sequence.
LEMMA PrefixSeq ==
  ASSUME NEW q, IsSeq(q), NEW n \in Nat, n <= Len(q)
  PROVE  IsSeq(SubSeq(q, 1, n)) /\ ToSet(SubSeq(q, 1, n)) \subseteq ToSet(q)
<1>1. PICK S : q \in Seq(S)
  BY DEF IsSeq
<1>2. Len(q) \in Nat /\ DOMAIN q = 1..Len(q) /\ \A i \in 1..n : q[i] \in S
  BY <1>1, LenProperties, ElementOfSeq
<1>3. /\ SubSeq(q, 1, n) \in Seq(S)
      /\ Len(SubSeq(q, 1, n)) = IF 1 <= n THEN n - 1 + 1 ELSE 0
      /\ \A i \in 1..n - 1 + 1 : SubSeq(q, 1, n)[i] = q[1 + i - 1]
  BY <1>2, SubSeqProperties
<1>4. DOMAIN SubSeq(q, 1, n) = 1..n /\ \A i \in 1..n : SubSeq(q, 1, n)[i] = q[i]
  BY <1>3, LenProperties
<1> QED
  BY <1>2, <1>3, <1>4 DEF IsSeq, ToSet

\* The last element of a sequence, and what is before it.
LEMMA LastSeq ==
  ASSUME NEW q, IsSeq(q), q # <<>>
  PROVE  /\ Last(q) \in ToSet(q)
         /\ IsSeq(Front(q)) /\ ToSet(Front(q)) \subseteq ToSet(q)
<1>1. PICK S : q \in Seq(S)
  BY DEF IsSeq
<1>2. Len(q) \in Nat \ {0} /\ DOMAIN q = 1..Len(q)
  BY <1>1, LenProperties, EmptySeq
<1>3. Len(q) \in DOMAIN q /\ Len(q) - 1 \in Nat /\ Len(q) - 1 <= Len(q)
  BY <1>2
<1>4. Last(q) \in ToSet(q)
  BY <1>3 DEF Last, ToSet
<1> QED
  BY <1>3, <1>4, PrefixSeq DEF Front

\* The first element of a queue, and what is after it.
LEMMA HeadSeq ==
  ASSUME NEW S, NEW q \in Seq(S), q # <<>>
  PROVE  /\ Head(q) \in ToSet(q) /\ Head(q) \in S /\ Tail(q) \in Seq(S)
         /\ ToSet(q) = {Head(q)} \cup ToSet(Tail(q))
<1>1. Len(q) \in Nat \ {0} /\ DOMAIN q = 1..Len(q)
  BY LenProperties, EmptySeq
<1>2. /\ Head(q) \in S /\ Tail(q) \in Seq(S) /\ Len(Tail(q)) = Len(q) - 1
      /\ \A i \in 1..Len(Tail(q)) : Tail(q)[i] = q[i + 1]
  BY HeadTailProperties
<1>3. DOMAIN Tail(q) = 1..(Len(q) - 1) /\ Head(q) = q[1]
  BY <1>2, LenProperties
<1>4. \A i \in 1..Len(q) : i = 1 \/ (i - 1 \in 1..(Len(q) - 1) /\ q[i] = Tail(q)[i - 1])
  BY <1>1, <1>2
<1>5. \A i \in 1..(Len(q) - 1) : i + 1 \in 1..Len(q) /\ q[i + 1] = Tail(q)[i]
  BY <1>1, <1>2
<1>6. ToSet(q) \subseteq {Head(q)} \cup ToSet(Tail(q))
  <2> SUFFICES ASSUME NEW i \in 1..Len(q)
               PROVE  q[i] = Head(q) \/ \E j \in DOMAIN Tail(q) : Tail(q)[j] = q[i]
    BY <1>1 DEF ToSet
  <2>1. CASE i = 1
    BY <2>1, <1>3
  <2>2. CASE i # 1
    BY <2>2, <1>3, <1>4
  <2> QED
    BY <2>1, <2>2
<1>7. {Head(q)} \cup ToSet(Tail(q)) \subseteq ToSet(q)
  BY <1>1, <1>3, <1>5 DEF ToSet
<1> QED
  BY <1>2, <1>6, <1>7

\* The least of some numbers is one of them.
LEMMA LeastNumber ==
  ASSUME NEW T, T # {}, T \subseteq Nat
  PROVE  (CHOOSE x \in T : \A y \in T : x <= y) \in T
<1> DEFINE R == {ss \in Nat \X Nat : ss[1] < ss[2]}
<1>1. IsWellFoundedOn(R, Nat)
  BY NatLessThanWellFounded DEF OpToRel
<1>2. \A y, x \in Nat : y < x => <<y, x>> \in R
  OBVIOUS
<1> HIDE DEF R
<1>3. PICK x \in T : \A y \in T : ~(<<y, x>> \in R)
  BY <1>1, WFMin
<1>4. ASSUME NEW y \in T PROVE x <= y
  <2>1. x \in Nat /\ y \in Nat
    OBVIOUS
  <2>2. ~(y < x)
    BY <1>2, <1>3, <2>1
  <2> QED
    BY <2>1, <2>2
<1> QED
  BY <1>4

-----------------------------------------------------------------------------
(* What is known.                                                          *)

\* Weaker is an order.
LEMMA WeakerTransitive ==
  ASSUME NEW r, NEW s, NEW t, Weaker(r, s), Weaker(s, t)
  PROVE  Weaker(r, t)
BY DEF Weaker

LEMMA WeakerReflexive ==
  ASSUME NEW s
  PROVE  Weaker(s, s)
BY DEF Weaker

\* What is joined is weaker than both ways.
LEMMA MergeWeaker ==
  ASSUME NEW s, NEW o, IsState(s), DOMAIN s.stack = DOMAIN o.stack, s.params = o.params
  PROVE  /\ IsState(Merge(s, o)) /\ Merge(s, o).params = s.params
         /\ Weaker(Merge(s, o), s) /\ Weaker(Merge(s, o), o)
<1> DEFINE m == Merge(s, o)
<1>1. /\ DOMAIN m = {"stack", "globals", "params", "flag"}
      /\ m.stack = [i \in DOMAIN s.stack |-> IF s.stack[i] = o.stack[i] THEN s.stack[i] ELSE Nothing]
      /\ m.globals = [g \in Globals |-> IF s.globals[g] = o.globals[g] THEN s.globals[g] ELSE Unknown]
      /\ m.flag = IF s.flag = o.flag THEN s.flag ELSE Unknown
      /\ m.params = s.params
  BY DEF Merge, IsState
<1>2. IsSeq(m.stack)
  <2>1. PICK S : s.stack \in Seq(S)
    BY DEF IsState, IsSeq
  <2>2. DOMAIN s.stack = 1..Len(s.stack) /\ Len(s.stack) \in Nat /\ \A i \in DOMAIN s.stack : s.stack[i] \in S
    BY <2>1, LenProperties, ElementOfSeq
  <2>3. m.stack \in [1..Len(s.stack) -> S \cup {Nothing}]
    BY <1>1, <2>2
  <2>4. m.stack \in Seq(S \cup {Nothing})
    BY <2>2, <2>3, SeqDef
  <2> QED
    BY <2>4 DEF IsSeq
<1> HIDE DEF m
<1>3. IsState(m)
  BY <1>1, <1>2 DEF IsState
<1>4. Weaker(m, s)
  BY <1>1 DEF Weaker
<1>5. Weaker(m, o)
  BY <1>1 DEF Weaker
<1> QED
  BY <1>1, <1>3, <1>4, <1>5 DEF m

\* A write changes neither the parameters nor the height of the stack.
LEMMA SetState ==
  ASSUME NEW s, NEW d, NEW v, IsState(s)
  PROVE  IsState(Set(s, d, v)) /\ Set(s, d, v).params = s.params
<1> DEFINE w == Behind(s, d)
           r == [s EXCEPT !.globals[w.at] = v]
           t == [s EXCEPT !.stack[w.at + 1].value = v]
<1> HIDE DEF w
<1>1. IsState(r) /\ r.params = s.params
  BY DEF IsState
<1>2. IsState(t) /\ t.params = s.params
  <2>1. PICK S : s.stack \in Seq(S)
    BY DEF IsState, IsSeq
  <2> DEFINE e == [s.stack[w.at + 1] EXCEPT !.value = v]
             q == [s.stack EXCEPT ![w.at + 1] = e]
  <2>2. s.stack \in [1..Len(s.stack) -> S] /\ Len(s.stack) \in Nat
    BY <2>1, LenProperties
  <2> HIDE DEF e
  <2>3. q \in [1..Len(s.stack) -> S \cup {e}]
    BY <2>2
  <2>4. q \in Seq(S \cup {e})
    BY <2>2, <2>3, SeqDef
  <2>5. t.stack = q /\ DOMAIN t = DOMAIN s /\ t.params = s.params
    BY DEF e, IsState
  <2> QED
    BY <2>4, <2>5 DEF IsState, IsSeq
<1>3. \/ Set(s, d, v) = r
      \/ Set(s, d, v) = t
      \/ Set(s, d, v) = s
  BY DEF Set, w
<1> QED
  BY <1>1, <1>2, <1>3

\* So does no instruction, but for what it pushes and pops.
LEMMA EffectState ==
  ASSUME NEW s, NEW x, IsState(s), Len(s.stack) > Popped(x)
  PROVE  IsState(Effect(s, x)) /\ Effect(s, x).params = s.params
<1> DEFINE Good(t) == IsState(t) /\ t.params = s.params
           dst     == x.operands[1]
           into(v) == IF dst.tag = "var" THEN Set(s, dst.address, v) ELSE s
<1>1. Good(s) /\ \A v : Good(into(v))
  BY SetState
<1>2. \A e : Good(Pushed(s, e))
  BY AppendSeq DEF Pushed, IsState
<1>3. \A v : Good([s EXCEPT !.flag = v])
  BY DEF IsState
<1>4. \A f : Good(Called(s, f))
  BY <1>1, SetState DEF Called
<1>5. Popped(x) > 0 => Good([s EXCEPT !.stack = SubSeq(s.stack, 1, Len(s.stack) - Popped(x))])
  <2> SUFFICES ASSUME Popped(x) > 0
               PROVE  Good([s EXCEPT !.stack = SubSeq(s.stack, 1, Len(s.stack) - Popped(x))])
    OBVIOUS
  <2>1. Popped(x) \in Nat
    BY DEF Popped
  <2>2. Len(s.stack) \in Nat
    BY LenProperties DEF IsState, IsSeq
  <2>3. IsSeq(SubSeq(s.stack, 1, Len(s.stack) - Popped(x)))
    BY <2>1, <2>2, PrefixSeq DEF IsState
  <2> QED
    BY <2>3 DEF IsState
<1> HIDE DEF Good
<1> SUFFICES Good(Effect(s, x))
  BY DEF Good
<1> DEFINE known(i) == ValueOf(s, x.operands[i])
<1>6. CASE x.op = "assign"
  <2>1. Effect(s, x) = into(known(2))
    BY <1>6 DEF Effect, Popped
  <2> QED
    BY <1>1, <2>1
<1>7. CASE x.op = "calc"
  <2>1. Effect(s, x) = into(Calculated(x.sub, known(1), known(2)))
    BY <1>7 DEF Effect, Popped
  <2> QED
    BY <1>1, <2>1
<1>8. CASE x.op = "compare"
  <2>1. Effect(s, x) = into(IF known(2).kind # "none" /\ known(2).kind = known(3).kind /\ x.sub \in {"eq", "ne"}
                           THEN Truth((known(2) = known(3)) = (x.sub = "eq")) ELSE Unknown)
    BY <1>8 DEF Effect, Popped
  <2> QED
    BY <1>1, <2>1
<1>9. CASE x.op = "not"
  <2>1. Effect(s, x) = into(Flip(known(1)))
    BY <1>9 DEF Effect, Popped
  <2> QED
    BY <1>1, <2>1
<1>10. CASE x.op = "blur"
  <2>1. Effect(s, x) = into(Unknown)
    BY <1>10 DEF Effect, Popped
  <2> QED
    BY <1>1, <2>1
<1>11. CASE x.op = "push"
  <2>1. Effect(s, x) = Pushed(s, Slot(known(1)))
    BY <1>11 DEF Effect, Popped
  <2> QED
    BY <1>2, <2>1
<1>12. CASE x.op = "pushvar"
  <2>1. Effect(s, x) = Pushed(s, [value |-> Unknown, ref |-> dst.address,
                                    indirect |-> dst.tag = "var"])
    BY <1>12 DEF Effect, Popped
  <2> QED
    BY <1>2, <2>1
<1>13. CASE x.op = "pushtype"
  <2>1. Effect(s, x) = Pushed(s, Nothing)
    BY <1>13 DEF Effect, Popped
  <2> QED
    BY <1>2, <2>1
<1>14. CASE x.op = "setflag"
  <2>1. Effect(s, x) = [s EXCEPT !.flag = IF x.sub = "neg" THEN Flip(known(1)) ELSE known(1)]
    BY <1>14 DEF Effect, Popped
  <2> QED
    BY <1>3, <2>1
<1>15. CASE x.op = "call"
  BY <1>4, <1>15 DEF Effect, Popped
<1>16. CASE x.op \in {"pop", "popjump", "pop2jump"}
  <2>1. Popped(x) > 0
    BY <1>16 DEF Popped
  <2>2. Effect(s, x) = [s EXCEPT !.stack = SubSeq(s.stack, 1, Len(s.stack) - Popped(x))]
    BY <1>16, <2>1 DEF Effect, Popped
  <2> QED
    BY <1>5, <2>1, <2>2
<1>17. CASE x.op \notin {"assign", "calc", "compare", "not", "blur", "push", "pushvar", "pushtype",
                        "setflag", "call", "pop", "popjump", "pop2jump"}
  <2>1. ~(Popped(x) > 0)
    BY <1>17 DEF Popped
  <2>2. Effect(s, x) = s
    BY <1>17, <2>1 DEF Effect, Popped
  <2> QED
    BY <1>1, <2>2
<1> QED
  BY <1>6, <1>7, <1>8, <1>9, <1>10, <1>11, <1>12, <1>13, <1>14, <1>15, <1>16, <1>17

\* An instruction has two successors at most.
LEMMA SuccessorsShape ==
  ASSUME NEW s, NEW x, NEW i
  PROVE  \/ Successors(s, x, i) = <<>>
         \/ \E j : Successors(s, x, i) = <<j>>
         \/ \E j, k : Successors(s, x, i) = <<j, k>>
BY DEF Successors

-----------------------------------------------------------------------------
(* Arrivals.                                                               *)

\* The instructions of an analysis.
LEMMA CodeFacts ==
  ASSUME NEW a, IsAnalysis(a), prog \in Programs
  PROVE  /\ prog[a.proc].code \in Seq(Instruction)
         /\ DOMAIN a.states = 1..Len(prog[a.proc].code) /\ Len(prog[a.proc].code) \in Nat
<1>1. a.proc \in DOMAIN prog /\ prog \in Seq(Proc)
  BY ScriptAssumption DEF IsAnalysis
<1>2. prog[a.proc] \in Proc
  BY <1>1, LenProperties, ElementOfSeq
<1>3. prog[a.proc].code \in Seq(Instruction)
  BY <1>2 DEF Proc
<1> QED
  BY <1>3, LenProperties DEF IsAnalysis

\* b is what a has become: states have lost some of what was known, or are
\* new, and wherever one has changed there is a visit to come.
Later(a, b) ==
  /\ IsAnalysis(b) /\ b.proc = a.proc /\ DOMAIN b.states = DOMAIN a.states
  /\ ToSet(a.queue) \subseteq ToSet(b.queue)
  /\ \A k \in DOMAIN a.states :
       /\ a.states[k] # <<>> => b.states[k] # <<>> /\ Weaker(b.states[k][1], a.states[k][1])
       /\ b.states[k] # a.states[k] => k \in ToSet(b.queue)

\* What is known in s can be joined to what is known at j.
Fits(a, j, s) ==
  /\ IsState(s)
  /\ 1 \in DOMAIN a.states => s.params = a.states[1][1].params
  /\ j \in DOMAIN a.states /\ a.states[j] # <<>> => DOMAIN a.states[j][1].stack = DOMAIN s.stack

\* A state arrives, and is known from then on, at least.
LEMMA ArriveFacts ==
  ASSUME NEW a, NEW j, NEW s, IsAnalysis(a), prog \in Programs, Fits(a, j, s)
  PROVE  LET b == Arrive(a, j, s) IN
         /\ Later(a, b)
         /\ j \in DOMAIN a.states => b.states[j] # <<>> /\ Weaker(b.states[j][1], s)
         /\ \A k \in DOMAIN a.states : k # j => b.states[k] = a.states[k]
<1> DEFINE b == Arrive(a, j, s)
           m == IF a.states[j] = <<>> THEN s ELSE Merge(a.states[j][1], s)
           c == [a EXCEPT !.states[j] = <<m>>, !.queue = Append(@, j)]
<1>1. Later(a, a)
  BY WeakerReflexive DEF Later
<1>2. CASE j \notin DOMAIN a.states
  BY <1>1, <1>2 DEF Arrive
<1>3. CASE j \in DOMAIN a.states
  <2>1. 1 \in DOMAIN a.states /\ a.states[1] # <<>> /\ s.params = a.states[1][1].params
    <3>1. 1 \in DOMAIN a.states
      BY <1>3, CodeFacts
    <3> QED
      BY <3>1 DEF IsAnalysis, Fits
  <2>2. /\ IsState(m) /\ m.params = s.params /\ Weaker(m, s)
        /\ a.states[j] # <<>> => Weaker(m, a.states[j][1])
    BY <1>3, <2>1, MergeWeaker, WeakerReflexive DEF IsAnalysis, Fits
  <2> HIDE DEF m
  <2>3. b = a \/ b = c
    BY <1>3 DEF Arrive, m
  <2>4. b = a => a.states[j] # <<>> /\ Weaker(a.states[j][1], s)
    <3> SUFFICES ASSUME b = a PROVE a.states[j] # <<>> /\ Weaker(a.states[j][1], s)
      OBVIOUS
    <3>1. c.states[j] = <<m>> /\ <<m>> # <<>> /\ <<m>>[1] = m
      BY <1>3 DEF IsAnalysis
    <3>2. a.states[j] # <<>>
      BY <1>3, <3>1 DEF Arrive, m
    <3>3. m = a.states[j][1] \/ b = c
      BY <1>3, <3>2 DEF Arrive, m
    <3> HIDE DEF c
    <3>4. b = c => m = a.states[j][1]
      BY <3>1
    <3> QED
      BY <2>2, <3>2, <3>3, <3>4
  <2>5. CASE b = a
    BY <1>1, <2>4, <2>5
  <2>6. CASE b = c
    <3>1. /\ DOMAIN c = DOMAIN a /\ c.proc = a.proc /\ DOMAIN c.states = DOMAIN a.states
          /\ c.queue = Append(a.queue, j)
          /\ c.states[j] = <<m>> /\ <<m>> # <<>> /\ <<m>>[1] = m
          /\ \A k \in DOMAIN a.states : k # j => c.states[k] = a.states[k]
      BY <1>3 DEF IsAnalysis
    <3> HIDE DEF c
    <3>2. c.queue \in Seq(DOMAIN c.states) /\ ToSet(c.queue) = ToSet(a.queue) \cup {j}
      BY <1>3, <3>1, AppendProperties, AppendSeq DEF IsAnalysis, IsSeq
    <3>3. c.states[1] # <<>> /\ c.states[1][1].params = a.states[1][1].params
      BY <2>1, <2>2, <3>1
    <3>4. \A k \in DOMAIN a.states :
            c.states[k] # <<>> => /\ IsState(c.states[k][1])
                                  /\ c.states[k][1].params = c.states[1][1].params
      BY <2>1, <2>2, <3>1, <3>3 DEF IsAnalysis
    <3>5. ToSet(a.queue) \subseteq DOMAIN a.states
      BY LenProperties, ElementOfSeq DEF IsAnalysis, ToSet
    <3>8. \A i \in ToSet(c.queue) : c.states[i] # <<>>
      BY <3>1, <3>2, <3>5 DEF IsAnalysis
    <3>9. IsAnalysis(c)
      BY <3>1, <3>2, <3>3, <3>4, <3>8 DEF IsAnalysis
    <3>6. \A k \in DOMAIN a.states :
            a.states[k] # <<>> => c.states[k] # <<>> /\ Weaker(c.states[k][1], a.states[k][1])
      BY <2>2, <3>1, WeakerReflexive
    <3>7. Later(a, c)
      BY <3>1, <3>2, <3>6, <3>9 DEF Later
    <3> QED
      BY <2>2, <2>6, <3>1, <3>7
  <2> QED
    BY <2>3, <2>5, <2>6
<1> QED
  BY <1>2, <1>3

\* So it does at all successors.
LEMMA ArriveAllFacts ==
  ASSUME NEW a, NEW next, NEW s, IsAnalysis(a), prog \in Programs,
         \/ next = <<>>
         \/ \E j : next = <<j>>
         \/ \E j, k : next = <<j, k>>,
         \A j \in ToSet(next) : Fits(a, j, s)
  PROVE  LET b == ArriveAll(a, next, s) IN
         /\ Later(a, b)
         /\ \A j \in ToSet(next) \cap DOMAIN a.states :
              b.states[j] # <<>> /\ Weaker(b.states[j][1], s)
<1>1. CASE next = <<>>
  <2>1. ArriveAll(a, next, s) = a /\ ToSet(next) = {}
    BY <1>1 DEF ArriveAll, ToSet
  <2> QED
    BY <2>1, WeakerReflexive DEF Later
<1>2. CASE \E j : next = <<j>>
  <2>1. PICK j : next = <<j>>
    BY <1>2
  <2>2. ArriveAll(a, next, s) = Arrive(a, j, s) /\ ToSet(next) = {j}
    BY <2>1 DEF ArriveAll, ToSet
  <2> QED
    BY <2>2, ArriveFacts
<1>3. CASE \E j, k : next = <<j, k>>
  <2>1. PICK j, k : next = <<j, k>>
    BY <1>3
  <2> DEFINE c == Arrive(a, j, s)
             b == Arrive(c, k, s)
  <2>2. ArriveAll(a, next, s) = b /\ ToSet(next) = {j, k}
    BY <2>1 DEF ArriveAll, ToSet
  <2>3. /\ Later(a, c)
        /\ j \in DOMAIN a.states => c.states[j] # <<>> /\ Weaker(c.states[j][1], s)
        /\ \A l \in DOMAIN a.states : l # j => c.states[l] = a.states[l]
    BY <2>2, ArriveFacts
  <2> HIDE DEF c
  <2>4. IsAnalysis(c) /\ DOMAIN c.states = DOMAIN a.states
    BY <2>3 DEF Later
  <2>5. Fits(c, k, s)
    <3>1. Fits(a, k, s)
      BY <2>2
    <3>2. 1 \in DOMAIN c.states => s.params = c.states[1][1].params
      BY <2>3, <3>1 DEF Fits, Later, Weaker, IsAnalysis
    <3>3. k \in DOMAIN c.states /\ c.states[k] # <<>> => DOMAIN c.states[k][1].stack = DOMAIN s.stack
      BY <2>3, <2>4, <3>1 DEF Fits, Weaker
    <3> QED
      BY <3>1, <3>2, <3>3 DEF Fits
  <2>6. /\ Later(c, b)
        /\ k \in DOMAIN c.states => b.states[k] # <<>> /\ Weaker(b.states[k][1], s)
    BY <2>4, <2>5, ArriveFacts
  <2> HIDE DEF b
  <2>7. Later(a, b)
    <3>1. /\ IsAnalysis(b) /\ b.proc = a.proc /\ DOMAIN b.states = DOMAIN a.states
          /\ ToSet(a.queue) \subseteq ToSet(b.queue)
      BY <2>3, <2>6 DEF Later
    <3>2. ASSUME NEW l \in DOMAIN a.states, a.states[l] # <<>>
          PROVE  b.states[l] # <<>> /\ Weaker(b.states[l][1], a.states[l][1])
      BY <2>3, <2>4, <2>6, <3>2, WeakerTransitive DEF Later
    <3>3. ASSUME NEW l \in DOMAIN a.states, b.states[l] # a.states[l]
          PROVE  l \in ToSet(b.queue)
      BY <2>3, <2>4, <2>6, <3>3 DEF Later
    <3> QED
      BY <3>1, <3>2, <3>3 DEF Later
  <2>8. j \in DOMAIN a.states => b.states[j] # <<>> /\ Weaker(b.states[j][1], s)
    BY <2>3, <2>4, <2>6, WeakerTransitive DEF Later
  <2> QED
    BY <2>2, <2>4, <2>6, <2>7, <2>8
<1> QED
  BY <1>1, <1>2, <1>3

-----------------------------------------------------------------------------
(* A visit.                                                                *)

\* The instruction at the head of the queue is settled, the others stay so,
\* unless they are queued.
LEMMA VisitAnalysed ==
  ASSUME NEW a, Analysed(a), prog \in Programs, a.queue # <<>>,
         LET i == Head(a.queue)
             s == a.states[i][1]
             x == prog[a.proc].code[i]
             t == Effect(s, x)
         IN /\ ~(Len(s.stack) <= Popped(x))
            /\ x.op = "call" => x.arg \in DOMAIN prog
            /\ \A j \in ToSet(Successors(t, x, i)) \cap DOMAIN prog[a.proc].code :
                 a.states[j] # <<>> => Len(a.states[j][1].stack) = Len(t.stack)
  PROVE  LET i == Head(a.queue)
             x == prog[a.proc].code[i]
             t == Effect(a.states[i][1], x)
             c == [a EXCEPT !.queue = Tail(@), !.steps = @ + 1]
             b == ArriveAll(c, Successors(t, x, i), t)
         IN Analysed(b) /\ Later(c, b)
<1> DEFINE i == Head(a.queue)
           s == a.states[i][1]
           x == prog[a.proc].code[i]
           t == Effect(s, x)
           next == Successors(t, x, i)
           c == [a EXCEPT !.queue = Tail(@), !.steps = @ + 1]
           b == ArriveAll(c, next, t)
<1>1. IsAnalysis(a)
  BY DEF Analysed
<1>2. /\ i \in DOMAIN a.states /\ a.states[i] # <<>>
      /\ Tail(a.queue) \in Seq(DOMAIN a.states)
      /\ ToSet(a.queue) = {i} \cup ToSet(Tail(a.queue))
  BY <1>1, HeadSeq DEF IsAnalysis
<1>3. /\ IsAnalysis(c) /\ c.proc = a.proc /\ c.states = a.states /\ c.queue = Tail(a.queue)
  BY <1>1, <1>2 DEF IsAnalysis
<1>4. DOMAIN a.states = DOMAIN prog[a.proc].code
  BY <1>1 DEF IsAnalysis
<1>5. IsState(t) /\ t.params = s.params
  <2>1. IsState(s)
    BY <1>1, <1>2 DEF IsAnalysis
  <2>2. Len(s.stack) \in Nat
    BY <2>1, LenProperties DEF IsState, IsSeq
  <2>3. Popped(x) \in Nat
    BY DEF Popped
  <2>4. Len(s.stack) > Popped(x)
    BY <2>2, <2>3
  <2> QED
    BY <2>1, <2>4, EffectState
<1>6. \A j \in ToSet(next) : Fits(c, j, t)
  <2>1. 1 \in DOMAIN c.states => t.params = c.states[1][1].params
    BY <1>1, <1>2, <1>3, <1>5 DEF IsAnalysis
  <2>2. ASSUME NEW j \in ToSet(next), j \in DOMAIN c.states, c.states[j] # <<>>
        PROVE  DOMAIN c.states[j][1].stack = DOMAIN t.stack
    <3>1. Len(a.states[j][1].stack) = Len(t.stack)
      BY <1>3, <1>4, <2>2
    <3>2. IsState(a.states[j][1])
      BY <1>1, <1>3, <2>2 DEF IsAnalysis
    <3>3. \A q : IsSeq(q) => DOMAIN q = 1..Len(q)
      BY LenProperties DEF IsSeq
    <3>4. DOMAIN a.states[j][1].stack = DOMAIN t.stack
      BY <1>5, <3>1, <3>2, <3>3 DEF IsState
    <3> QED
      BY <1>3, <3>4
  <2> QED
    BY <1>5, <2>1, <2>2 DEF Fits
<1>7. /\ Later(c, b)
      /\ \A j \in ToSet(next) \cap DOMAIN c.states :
           b.states[j] # <<>> /\ Weaker(b.states[j][1], t)
  <2> HIDE DEF c, t
  <2>1. \/ next = <<>>
        \/ \E j : next = <<j>>
        \/ \E j, k : next = <<j, k>>
    BY SuccessorsShape
  <2> QED
    BY <1>3, <1>6, <2>1, ArriveAllFacts
<1> HIDE DEF b
<1>8. IsAnalysis(b) /\ b.proc = a.proc /\ DOMAIN b.states = DOMAIN a.states
  BY <1>3, <1>7 DEF Later
<1>9. Begun(b)
  <2> SUFFICES ASSUME 1 \in DOMAIN b.states
               PROVE  Weaker(b.states[1][1], Fresh(b.states[1][1].params))
    BY DEF Begun
  <2>1. Weaker(a.states[1][1], Fresh(a.states[1][1].params)) /\ a.states[1] # <<>>
    BY <1>1, <1>8 DEF Analysed, Begun, IsAnalysis
  <2>2. Weaker(b.states[1][1], a.states[1][1])
    BY <1>3, <1>7, <1>8, <2>1 DEF Later
  <2>3. b.states[1][1].params = a.states[1][1].params
    BY <2>2 DEF Weaker
  <2> QED
    BY <2>1, <2>2, <2>3, WeakerTransitive
<1>10. ASSUME NEW k \in DOMAIN b.states, b.states[k] # <<>>, k \notin ToSet(b.queue)
       PROVE  Settled(b, k)
  <2>1. b.states[k] = a.states[k] /\ k \notin ToSet(Tail(a.queue))
    BY <1>3, <1>7, <1>8, <1>10 DEF Later
  <2>2. \A j \in DOMAIN a.states :
          a.states[j] # <<>> => b.states[j] # <<>> /\ Weaker(b.states[j][1], a.states[j][1])
    BY <1>3, <1>7 DEF Later
  <2>3. CASE k = i
    <3>1. Absorbed(b, k)
      BY <1>3, <1>4, <1>7, <1>8, <2>1, <2>3 DEF Absorbed
    <3> QED
      BY <1>8, <2>3, <3>1 DEF Settled
  <2>4. CASE k # i
    <3>1. Settled(a, k)
      BY <1>2, <1>8, <1>10, <2>1, <2>4 DEF Analysed
    <3> DEFINE u == Effect(a.states[k][1], prog[a.proc].code[k])
               n == Successors(u, prog[a.proc].code[k], k)
    <3>2. \A j \in ToSet(n) \cap DOMAIN prog[a.proc].code :
            a.states[j] # <<>> /\ Weaker(a.states[j][1], u)
      BY <3>1 DEF Settled, Absorbed
    <3> HIDE DEF u, n
    <3>3. \A j \in ToSet(n) \cap DOMAIN prog[a.proc].code :
            b.states[j] # <<>> /\ Weaker(b.states[j][1], u)
      BY <1>4, <2>2, <3>2, WeakerTransitive
    <3>4. Absorbed(b, k)
      BY <1>8, <2>1, <3>3 DEF Absorbed, u, n
    <3> QED
      BY <1>8, <3>1, <3>4 DEF Settled
  <2> QED
    BY <2>3, <2>4
<1>11. Analysed(b)
  BY <1>8, <1>9, <1>10 DEF Analysed
<1> QED
  BY <1>7, <1>11 DEF b

\* A procedure is analysed from its start.
LEMMA AnalysisAnalysed ==
  ASSUME prog \in Programs, NEW k \in DOMAIN prog, NEW params
  PROVE  Analysed(Analysis(k, params))
<1> DEFINE a == Analysis(k, params)
           code == prog[k].code
<1>1. code \in Seq(Instruction)
  <2>1. prog[k] \in Proc
    BY ScriptAssumption, LenProperties, ElementOfSeq
  <2> QED
    BY <2>1 DEF Proc
<1>2. Len(code) \in Nat /\ DOMAIN code = 1..Len(code) /\ (code # <<>> => Len(code) # 0)
  BY <1>1, LenProperties, EmptySeq
<1>3. /\ DOMAIN a = {"proc", "states", "queue", "steps", "at"} /\ a.proc = k
      /\ DOMAIN a.states = DOMAIN code
      /\ \A i \in DOMAIN code : a.states[i] = IF i = 1 THEN <<Fresh(params)>> ELSE <<>>
      /\ a.queue = IF code = <<>> THEN <<>> ELSE <<1>>
  BY DEF Analysis
<1> HIDE DEF a, code
<1>4. IsState(Fresh(params)) /\ Fresh(params).params = params
  <2>1. <<Nothing>> \in Seq({Nothing})
    OBVIOUS
  <2> QED
    BY <2>1 DEF Fresh, IsState, IsSeq
<1>5. <<Fresh(params)>> # <<>> /\ <<Fresh(params)>>[1] = Fresh(params)
  OBVIOUS
<1>6. /\ \A i \in DOMAIN code : a.states[i] # <<>> => i = 1
      /\ 1 \in DOMAIN code => a.states[1] # <<>> /\ a.states[1][1] = Fresh(params)
  BY <1>3, <1>5
<1>7. ToSet(a.queue) = {i \in {1} : i \in DOMAIN code} /\ a.queue \in Seq(DOMAIN code)
  <2>1. CASE code = <<>>
    BY <1>2, <1>3, <2>1 DEF ToSet
  <2>2. CASE code # <<>>
    <3>1. 1 \in DOMAIN code
      BY <1>2, <2>2
    <3>2. a.queue = <<1>>
      BY <1>3, <2>2
    <3> QED
      BY <3>1, <3>2 DEF ToSet
  <2> QED
    BY <2>1, <2>2
<1>8. IsAnalysis(a)
  BY <1>3, <1>4, <1>6, <1>7 DEF IsAnalysis, code
<1>9. Begun(a)
  BY <1>3, <1>4, <1>6, WeakerReflexive DEF Begun
<1>10. \A i \in DOMAIN a.states : a.states[i] # <<>> => i \in ToSet(a.queue)
  BY <1>3, <1>6, <1>7
<1> QED
  BY <1>8, <1>9, <1>10 DEF Analysed, a

-----------------------------------------------------------------------------
(* The steps.                                                              *)

\* The script stays as it is.
LEMMA SameScript ==
  ASSUME prog' = prog, NEW CONSTANT a
  PROVE  Analysed(a) => Analysed(a)'
<1>1. \A s, x : Effect(s, x)' = Effect(s, x)
  BY DEF Effect
<1> QED
  BY <1>1 DEF Analysed, IsAnalysis, Begun, Settled, Absorbed

\* It is enough that each analysis was there before or is in order.
LEMMA InvKept ==
  ASSUME Inv, prog' = prog, IsSeq(analyses'), analyses' # <<>>,
         \A a \in ToSet(analyses') : a \in ToSet(analyses) \/ Analysed(a)
  PROVE  Inv'
<1>1. ASSUME NEW CONSTANT a, a \in ToSet(analyses') PROVE Analysed(a)'
  BY <1>1, SameScript DEF Inv
<1>2. \A a \in ToSet(analyses)' : Analysed(a)'
  BY <1>1 DEF ToSet
<1> QED
  BY <1>2 DEF Inv

\* The last analysis goes on.
LEMMA BecomesKept ==
  ASSUME Inv, prog' = prog, NEW a, Analysed(a), Becomes(a)
  PROVE  Inv'
<1>1. IsSeq(Front(analyses)) /\ ToSet(Front(analyses)) \subseteq ToSet(analyses)
  BY LastSeq DEF Inv
<1>2. /\ IsSeq(analyses') /\ analyses' # <<>>
      /\ ToSet(analyses') = ToSet(Front(analyses)) \cup {a}
  BY <1>1, AppendSeq DEF Becomes
<1> QED
  BY <1>1, <1>2, InvKept

\* A visit gives up, or changes the last analysis to a later one.
LEMMA VisitFacts ==
  ASSUME Inv, Visit
  PROVE  \/ \E why : GivesUp(why)
         \/ \E b, c : /\ c.states = Now.states /\ Later(c, b)
                      /\ Analysed(b) /\ Becomes(b) /\ prog' = prog
<1>1. Analysed(Now) /\ prog \in Programs
  BY LastSeq DEF Inv, Now
<1> DEFINE i == Head(Now.queue)
           s == Now.states[i][1]
           x == Code[i]
           t == Effect(s, x)
           c == [Now EXCEPT !.queue = Tail(@), !.steps = @ + 1]
           b == ArriveAll(c, Successors(t, x, i), t)
<1>2. CASE ~Rejected(i, s, x) /\ Becomes(b) /\ prog' = prog
  <2>1. Now.queue # <<>>
    BY DEF Visit, Visiting
  <2>2. /\ ~(Len(s.stack) <= Popped(x))
        /\ x.op = "call" => x.arg \in DOMAIN prog
        /\ \A j \in ToSet(Successors(t, x, i)) \cap DOMAIN Code :
             Now.states[j] # <<>> => Len(Now.states[j][1].stack) = Len(t.stack)
    <3> HIDE DEF i, s, x
    <3> QED
      BY <1>2 DEF Rejected
  <2>3. Analysed(b) /\ Later(c, b)
    <3> HIDE DEF i, s, t, b, c
    <3> QED
      BY <1>1, <2>1, <2>2, VisitAnalysed DEF Code, i, s, t, b, c
  <2>4. c.states = Now.states
    <3> DEFINE a == Now
    <3> HIDE DEF a
    <3> QED
      BY <1>1 DEF Analysed, IsAnalysis, a
  <2> HIDE DEF b, c
  <2> QED
    BY <1>2, <2>3, <2>4
<1> QED
  BY <1>2 DEF Visit

\* At first there is one analysis, of CurStepChanged.
LEMMA InitInv == Init => Inv
<1> SUFFICES ASSUME Init PROVE Inv
  OBVIOUS
<1>1. 1 \in DOMAIN prog /\ prog \in Programs
  BY ScriptAssumption, LenProperties, EmptySeq DEF Init
<1>2. Analysed(Analysis(1, InstallStep))
  BY <1>1, AnalysisAnalysed
<1> DEFINE a == Analysis(1, InstallStep)
<1> HIDE DEF a
<1>3. analyses = <<a>> /\ ToSet(<<a>>) = {a} /\ <<a>> \in Seq({a}) /\ <<a>> # <<>>
  BY DEF Init, a, ToSet
<1> QED
  BY <1>1, <1>2, <1>3 DEF Inv, IsSeq, a

\* A visit changes the last analysis; reading only moves on in it, begins an
\* analysis of a procedure that is there, or drops one.
LEMMA NextInv == Inv /\ [Next]_vars => Inv'
<1> SUFFICES ASSUME Inv, [Next]_vars PROVE Inv'
  OBVIOUS
<1>1. Analysed(Now) /\ prog \in Programs
  BY LastSeq DEF Inv, Now
<1>2. ASSUME prog' = prog, analyses' = analyses PROVE Inv'
  BY <1>2, InvKept DEF Inv
<1>3. ASSUME NEW i PROVE Analysed([Now EXCEPT !.at = i])
  <2> DEFINE a == Now
             b == [a EXCEPT !.at = i]
  <2> HIDE DEF a
  <2>1. /\ DOMAIN b = DOMAIN a /\ b.proc = a.proc /\ b.states = a.states /\ b.queue = a.queue
    BY <1>1 DEF Analysed, IsAnalysis, a
  <2> HIDE DEF b
  <2>2. Analysed(b)
    BY <1>1, <2>1 DEF Analysed, IsAnalysis, Begun, Settled, Absorbed, a
  <2> QED
    BY <2>2 DEF a, b
<1>4. CASE Visit
  BY <1>2, <1>4, VisitFacts, BecomesKept DEF GivesUp
<1>5. CASE ReadCall
  <2>1. PICK i : Becomes([Now EXCEPT !.at = i]) /\ prog' = prog
    BY <1>5 DEF ReadCall
  <2> QED
    BY <1>3, <2>1, BecomesKept
<1>6. CASE EnterCall
  <2> DEFINE i == Min(NextCall)
             args == ArgumentsOf(Now.states[i][1], FALSE, Len(Now.states[i][1].stack) - 1)
             b == [Now EXCEPT !.at = i + 1]
             c == Analysis(Code[i].arg, args)
  <2>1. CASE \E why : GivesUp(why)
    BY <1>2, <2>1 DEF GivesUp
  <2>2. CASE analyses' = Append(Front(analyses), b) \o <<c>> /\ prog' = prog
    <3>1. i \in NextCall
      <4>1. NextCall # {} /\ NextCall \subseteq DOMAIN Code
        BY <1>6 DEF EnterCall, NextCall
      <4>2. NextCall \subseteq Nat
        BY <1>1, <4>1, CodeFacts DEF Analysed, IsAnalysis, Code
      <4> QED
        BY <4>1, <4>2, LeastNumber DEF Min
    <3>2. Now.queue = <<>>
      BY <1>6 DEF EnterCall, Reading
    <3>3. i \in DOMAIN Now.states /\ Now.states[i] # <<>> /\ Code[i].op = "call"
      BY <1>1, <3>1 DEF NextCall, Analysed, IsAnalysis, Code
    <3>4. Settled(Now, i)
      BY <1>1, <3>2, <3>3 DEF Analysed, ToSet
    <3>5. Code[i].arg \in DOMAIN prog
      BY <3>3, <3>4 DEF Settled, Code
    <3>6. Analysed(b)
      BY <1>3
    <3>7. Analysed(c)
      BY <1>1, <3>5, AnalysisAnalysed
    <3> HIDE DEF b, c, i, args
    <3>8. IsSeq(Front(analyses)) /\ ToSet(Front(analyses)) \subseteq ToSet(analyses)
      BY LastSeq DEF Inv
    <3> DEFINE q == Append(Front(analyses), b)
    <3>9. IsSeq(q) /\ q # <<>> /\ ToSet(q) = ToSet(Front(analyses)) \cup {b}
      BY <3>8, AppendSeq
    <3> HIDE DEF q
    <3>10. q \o <<c>> = Append(q, c)
      <4>1. PICK S : q \in Seq(S)
        BY <3>9 DEF IsSeq
      <4>2. q \in Seq(S \cup {c})
        BY <4>1, SeqMonotonic
      <4> QED
        BY <4>2, AppendIsConcat
    <3>11. /\ IsSeq(analyses') /\ analyses' # <<>>
           /\ ToSet(analyses') = ToSet(q) \cup {c}
      BY <2>2, <3>9, <3>10, AppendSeq DEF q
    <3> QED
      BY <2>2, <3>6, <3>7, <3>8, <3>9, <3>11, InvKept
  <2> QED
    BY <1>6, <2>1, <2>2 DEF EnterCall
<1>7. CASE LeaveCalls
  <2>1. CASE analyses' = analyses /\ prog' = prog
    BY <1>2, <2>1
  <2>2. CASE Len(analyses) > 1 /\ analyses' = Front(analyses) /\ prog' = prog
    <3>1. PICK S : analyses \in Seq(S)
      BY DEF Inv, IsSeq
    <3>2. Len(analyses) \in Nat /\ \A j \in 1..Len(analyses) - 1 : analyses[j] \in S
      BY <3>1, LenProperties, ElementOfSeq
    <3>3. Len(Front(analyses)) = Len(analyses) - 1
      BY <2>2, <3>2, SubSeqProperties DEF Front
    <3>4. Front(analyses) # <<>>
      BY <2>2, <3>2, <3>3, EmptySeq
    <3>5. IsSeq(Front(analyses)) /\ ToSet(Front(analyses)) \subseteq ToSet(analyses)
      BY LastSeq DEF Inv
    <3> QED
      BY <2>2, <3>4, <3>5, InvKept
  <2> QED
    BY <1>7, <2>1, <2>2 DEF LeaveCalls
<1>8. CASE Done \/ UNCHANGED vars
  BY <1>2, <1>8 DEF Done, vars
<1> QED
  BY <1>4, <1>5, <1>6, <1>7, <1>8 DEF Next, Step

-----------------------------------------------------------------------------
\* The calls of a procedure are read off only once nothing in it can change any
\* more: with an empty queue, what is known before an instruction is known on
\* every way to it, whatever the script (calls, merge).
THEOREM SetupConverged == Spec => []Converged
<1>1. Inv => Converged
  BY DEF Inv, Analysed, IsAnalysis, Begun, Settled, Converged, ToSet
<1> QED
  BY InitInv, NextInv, <1>1, PTL DEF Spec

-----------------------------------------------------------------------------
\* An analysis only forgets: no instruction loses its state, and no state learns
\* anything, however many ways are joined there (merge).
OnlyForgets ==
  \A n \in DOMAIN analyses \cap DOMAIN analyses' :
    LET old == analyses[n].states
        new == analyses'[n].states
    IN \A i \in DOMAIN old :
         old[i] # <<>> => new[i] # <<>> /\ Weaker(new[i][1], old[i][1])

\* A change of the last analysis leaves the others as they are.
LEMMA OthersKept ==
  ASSUME Inv, NEW e
  PROVE  /\ DOMAIN Append(Front(analyses), e) = DOMAIN analyses
         /\ \A n \in DOMAIN analyses :
              Append(Front(analyses), e)[n] = IF n = Len(analyses) THEN e ELSE analyses[n]
<1>1. PICK S : analyses \in Seq(S)
  BY DEF Inv, IsSeq
<1> DEFINE k == Len(analyses)
           f == SubSeq(analyses, 1, k - 1)
           q == Append(f, e)
           T == S \cup {e}
<1>2. k \in Nat \ {0} /\ DOMAIN analyses = 1..k /\ \A i \in 1..k : analyses[i] \in T
  BY <1>1, LenProperties, EmptySeq, ElementOfSeq DEF Inv
<1> HIDE DEF k
<1>3. k - 1 \in Nat /\ (k - 1) + 1 = k /\ \A n \in 1..k : n = k \/ n \in 1..(k - 1)
  BY <1>2
<1>4. f \in Seq(T) /\ Len(f) = k - 1 /\ \A i \in 1..(k - 1) : f[i] = analyses[i]
  BY <1>2, <1>3, SubSeqProperties
<1> HIDE DEF f
<1>5. /\ q \in Seq(T) /\ Len(q) = (k - 1) + 1
      /\ \A i \in 1..(k - 1) : q[i] = f[i]
      /\ q[(k - 1) + 1] = e
  BY <1>4, AppendProperties
<1> HIDE DEF q
<1>6. DOMAIN q = 1..k
  BY <1>3, <1>5, LenProperties
<1>7. \A n \in 1..k : q[n] = IF n = k THEN e ELSE analyses[n]
  BY <1>3, <1>4, <1>5
<1> QED
  BY <1>2, <1>6, <1>7 DEF Front, f, k, q

\* No step teaches an analysis anything.
LEMMA NextForgets == Inv /\ [Next]_vars => OnlyForgets
<1> SUFFICES ASSUME Inv, [Next]_vars,
                    NEW n \in DOMAIN analyses, n \in DOMAIN analyses',
                    NEW i \in DOMAIN analyses[n].states, analyses[n].states[i] # <<>>
             PROVE  /\ analyses'[n].states[i] # <<>>
                    /\ Weaker(analyses'[n].states[i][1], analyses[n].states[i][1])
  BY DEF OnlyForgets
<1>1. ASSUME analyses'[n].states = analyses[n].states
      PROVE  /\ analyses'[n].states[i] # <<>>
             /\ Weaker(analyses'[n].states[i][1], analyses[n].states[i][1])
  BY <1>1, WeakerReflexive
<1>2. Now = analyses[Len(analyses)]
  BY DEF Now, Last
<1>3. CASE analyses' = analyses
  BY <1>1, <1>3
<1>4. CASE Visit
  <2>1. CASE \E why : GivesUp(why)
    BY <1>3, <2>1 DEF GivesUp
  <2>2. CASE \E b, c : c.states = Now.states /\ Later(c, b) /\ Becomes(b)
    <3>1. PICK b, c : c.states = Now.states /\ Later(c, b) /\ Becomes(b)
      BY <2>2
    <3>2. analyses'[n] = IF n = Len(analyses) THEN b ELSE analyses[n]
      BY <3>1, OthersKept DEF Becomes
    <3>3. CASE n = Len(analyses)
      BY <1>2, <3>1, <3>2, <3>3 DEF Later
    <3>4. CASE n # Len(analyses)
      BY <1>1, <3>2, <3>4
    <3> QED
      BY <3>3, <3>4
  <2> QED
    BY <1>4, <2>1, <2>2, VisitFacts
<1>5. ASSUME NEW j PROVE [Now EXCEPT !.at = j].states = Now.states
  <2>1. DOMAIN Now = {"proc", "states", "queue", "steps", "at"}
    BY LastSeq DEF Inv, Now, Analysed, IsAnalysis
  <2> QED
    BY <2>1
<1>6. CASE ReadCall
  <2>1. PICK j : Becomes([Now EXCEPT !.at = j])
    BY <1>6 DEF ReadCall
  <2>2. analyses'[n] = IF n = Len(analyses) THEN [Now EXCEPT !.at = j] ELSE analyses[n]
    BY <2>1, OthersKept DEF Becomes
  <2>3. analyses'[n].states = analyses[n].states
    BY <1>2, <1>5, <2>2
  <2> QED
    BY <1>1, <2>3
<1>7. CASE EnterCall
  <2>1. CASE \E why : GivesUp(why)
    BY <1>3, <2>1 DEF GivesUp
  <2>2. CASE \E j, c : analyses' = Append(Front(analyses), [Now EXCEPT !.at = j]) \o <<c>>
    <3>1. PICK j, c : analyses' = Append(Front(analyses), [Now EXCEPT !.at = j]) \o <<c>>
      BY <2>2
    <3> DEFINE e == [Now EXCEPT !.at = j]
               q == Append(Front(analyses), e)
    <3> HIDE DEF e
    <3>2. DOMAIN q = DOMAIN analyses /\ q[n] = IF n = Len(analyses) THEN e ELSE analyses[n]
      BY OthersKept
    <3>3. IsSeq(q)
      BY LastSeq, AppendSeq DEF Inv
    <3> HIDE DEF q
    <3>4. analyses'[n] = q[n]
      <4>1. PICK S : q \in Seq(S)
        BY <3>3 DEF IsSeq
      <4>2. q \in Seq(S \cup {c}) /\ <<c>> \in Seq(S \cup {c})
        BY <4>1, SeqMonotonic
      <4>3. n \in 1..Len(q)
        BY <3>2, <4>1, LenProperties
      <4> QED
        BY <3>1, <4>2, <4>3, ConcatProperties DEF q, e
    <3>5. analyses'[n].states = analyses[n].states
      BY <1>2, <1>5, <3>2, <3>4 DEF e
    <3> QED
      BY <1>1, <3>5
  <2> QED
    BY <1>7, <2>1, <2>2 DEF EnterCall
<1>8. CASE LeaveCalls
  <2>1. CASE analyses' = Front(analyses)
    <3>1. PICK S : analyses \in Seq(S)
      BY DEF Inv, IsSeq
    <3>2. Len(analyses) \in Nat \ {0} /\ \A j \in 1..Len(analyses) - 1 : analyses[j] \in S
      BY <3>1, LenProperties, EmptySeq, ElementOfSeq DEF Inv
    <3>3. /\ analyses' \in Seq(S) /\ Len(analyses') = Len(analyses) - 1
          /\ \A j \in 1..Len(analyses) - 1 : analyses'[j] = analyses[j]
      BY <2>1, <3>2, SubSeqProperties DEF Front
    <3>4. n \in 1..Len(analyses) - 1
      BY <3>3, LenProperties
    <3> QED
      BY <1>1, <3>3, <3>4
  <2> QED
    BY <1>3, <1>8, <2>1 DEF LeaveCalls
<1>9. CASE Done \/ UNCHANGED vars
  BY <1>3, <1>9 DEF Done, vars
<1> QED
  BY <1>4, <1>6, <1>7, <1>8, <1>9 DEF Next, Step

\* A join only takes away from what is known, and from then on it is gone: an
\* instruction is analysed with one height of stack, and changes as often as its
\* state has parts at most, which is why the loop of calls ends (merge).
THEOREM SetupForgets == Spec => [][OnlyForgets]_vars
<1>1. Inv /\ [Next]_vars => [OnlyForgets]_vars
  BY NextForgets
<1> QED
  BY InitInv, NextInv, <1>1, PTL DEF Spec

=============================================================================
