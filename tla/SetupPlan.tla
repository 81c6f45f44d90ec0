----------------------------- MODULE SetupPlan -----------------------------
(***************************************************************************)
(* How the records of an installation are found in a compiled script       *)
(* (setupdata/plan.go): constant propagation.  Each instruction has a      *)
(* state, what is known before it; a worklist carries states on to         *)
(* successors, both where a condition is not known, and joins them there.  *)
(* When nothing changes any more, the calls that do file work are read off *)
(* in the order of the text, those of called procedures in place of the    *)
(* call.                                                                   *)
(*                                                                         *)
(* A state that is not there is <<>>, one that is <<s>>.                   *)
(***************************************************************************)
EXTENDS SetupScript

CONSTANTS
  Patience,  \* visits for each instruction (64)
  MaxDepth   \* nesting of calls (32)

ASSUME PlanAssumption == Patience \in Nat /\ MaxDepth \in Nat

VARIABLES
  prog,      \* the script (constant)
  analyses,  \* the procedures under analysis: each is called by the one before
  calls,     \* the calls found so far
  result     \* "none", "plan", or why there is none

vars == <<prog, analyses, calls, result>>

-----------------------------------------------------------------------------
(* What is known.                                                          *)

Slot(v) == [value |-> v, ref |-> NoAddress, indirect |-> FALSE]

Nothing == Slot(Unknown)

Fresh(params) ==
  [stack |-> <<Nothing>>, globals |-> [g \in Globals |-> Unknown], params |-> params,
   flag |-> Unknown]

\* The variable behind an address: references are followed.
Behind(s, a) ==
  LET slot(b) == b.in = "slot" /\ b.at < Len(s.stack) /\ s.stack[b.at + 1].indirect
      end == FoldLeft(LAMBDA b, i : IF slot(b) THEN s.stack[b.at + 1].ref ELSE b, a, s.stack)
  IN IF slot(end) THEN NoAddress ELSE end

Get(s, a) ==
  LET b == Behind(s, a) IN
    CASE b.in = "global" -> s.globals[b.at]
      [] b.in = "param" /\ b.at < Len(s.params) -> s.params[b.at + 1]
      [] b.in = "slot" /\ b.at < Len(s.stack) -> s.stack[b.at + 1].value
      [] OTHER -> Unknown

\* A parameter is never written.
Set(s, a, v) ==
  LET b == Behind(s, a) IN
    CASE b.in = "global" -> [s EXCEPT !.globals[b.at] = v]
      [] b.in = "slot" /\ b.at < Len(s.stack) -> [s EXCEPT !.stack[b.at + 1].value = v]
      [] OTHER -> s

ValueOf(s, o) ==
  CASE o.tag = "const" -> o.value [] o.tag = "var" -> Get(s, o.address) [] OTHER -> Unknown

\* Mutants of Merge: the state that was there stays; the later one takes over.
MergeNever(s, o) == s
MergeLater(s, o) == o

\* What two ways to one instruction agree on.
Merge(s, o) ==
  [s EXCEPT
    !.stack   = [i \in DOMAIN @ |-> IF @[i] = o.stack[i] THEN @[i] ELSE Nothing],
    !.globals = [g \in Globals |-> IF @[g] = o.globals[g] THEN @[g] ELSE Unknown],
    !.flag    = IF @ = o.flag THEN @ ELSE Unknown]

\* psArguments: the first is on top, or under the result.
ArgumentsOf(s, hasResult, n) ==
  LET end == Len(s.stack) - 1 - (IF hasResult THEN 1 ELSE 0)
  IN IF n > end THEN <<>> ELSE [i \in 1..n |-> Get(s, [in |-> "slot", at |-> end - i + 1])]

-----------------------------------------------------------------------------
(* One instruction.                                                        *)

Pushed(s, slot) == [s EXCEPT !.stack = Append(@, slot)]

Popped(x) == CASE x.op \in {"pop", "popjump"} -> 1 [] x.op = "pop2jump" -> 2 [] OTHER -> 0

\* What an external procedure is taken to return.
Assumed(f, args) ==
  CASE f.name = "extract" -> Number(1)
    [] f.name = "expand" /\ args # <<>> /\ args[1].kind = "s" -> args[1]
    [] OTHER -> Unknown

\* A call, as far as its caller is concerned: only an external procedure
\* gives a result, and nothing else changes.
Called(s, f) ==
  LET args == ArgumentsOf(s, f.result, Len(f.takes))
  IN IF f.external /\ f.result /\ Len(s.stack) > 1
     THEN Set(s, [in |-> "slot", at |-> Len(s.stack) - 1], Assumed(f, args)) ELSE s

Effect(s, x) ==
  LET dst      == x.operands[1]
      known(i) == ValueOf(s, x.operands[i])
      into(v)  == IF dst.tag = "var" THEN Set(s, dst.address, v) ELSE s
  IN CASE x.op = "assign"  -> into(known(2))
       [] x.op = "calc"    -> into(Calculated(x.sub, known(1), known(2)))
       [] x.op = "compare" ->
            into(IF /\ known(2).kind # "none" /\ known(2).kind = known(3).kind
                    /\ x.sub \in {"eq", "ne"}
                 THEN Truth((known(2) = known(3)) = (x.sub = "eq")) ELSE Unknown)
       [] x.op = "not"      -> into(Flip(known(1)))
       [] x.op = "blur"     -> into(Unknown)
       [] x.op = "push"     -> Pushed(s, Slot(known(1)))
       [] x.op = "pushvar"  ->
            Pushed(s, [value |-> Unknown, ref |-> dst.address, indirect |-> dst.tag = "var"])
       [] x.op = "pushtype" -> Pushed(s, Nothing)
       [] x.op = "setflag"  -> [s EXCEPT !.flag = IF x.sub = "neg" THEN Flip(known(1)) ELSE known(1)]
       [] x.op = "call"     -> Called(s, prog[x.arg])
       [] Popped(x) > 0     -> [s EXCEPT !.stack = SubSeq(@, 1, Len(@) - Popped(x))]
       [] OTHER -> s

\* Where it goes on from i, in the order in which the successors are joined.
Successors(s, x, i) ==
  LET v == CASE x.op = "jumpflag"  -> s.flag
             [] x.op = "jumpif"    -> ValueOf(s, x.operands[1])
             [] x.op = "jumpifnot" -> Flip(ValueOf(s, x.operands[1]))
             [] OTHER -> Unknown
  IN CASE x.op = "ret" -> <<>>
       [] x.op \in {"jump", "popjump", "pop2jump"} -> <<x.arg>>
       [] Jumps(x) /\ v.kind = "n" -> IF v.number # 0 THEN <<x.arg>> ELSE <<i + 1>>
       [] Jumps(x) -> <<i + 1, x.arg>>
       [] OTHER -> <<i + 1>>

-----------------------------------------------------------------------------
(* The analysis.                                                           *)

Analysis(k, params) ==
  LET code == prog[k].code
  IN [proc   |-> k,
      states |-> [i \in DOMAIN code |-> IF i = 1 THEN <<Fresh(params)>> ELSE <<>>],
      queue  |-> IF code = <<>> THEN <<>> ELSE <<1>>,
      steps  |-> 0,
      at     |-> 1]

Init ==
  /\ prog \in Programs
  /\ analyses = <<Analysis(1, InstallStep)>>
  /\ calls = <<>>
  /\ result = "none"

Now  == Last(analyses)
Code == prog[Now.proc].code

Becomes(a) == analyses' = Append(Front(analyses), a)

GivesUp(why) == result' = why /\ UNCHANGED <<prog, analyses, calls>>

Visiting  == result = "none" /\ Now.queue # <<>>
Reading   == result = "none" /\ Now.queue = <<>>

\* Mutant of Arrive: what changes is not visited again.
ArriveOnce(a, j, s) ==
  IF j \notin DOMAIN a.states THEN a
  ELSE IF a.states[j] = <<>>
  THEN [a EXCEPT !.states[j] = <<s>>, !.queue = Append(@, j)]
  ELSE [a EXCEPT !.states[j] = <<Merge(@[1], s)>>]

\* A state arrives at instruction j: it is the first, or is joined.
Arrive(a, j, s) ==
  IF j \notin DOMAIN a.states THEN a
  ELSE IF a.states[j] = <<>>
  THEN [a EXCEPT !.states[j] = <<s>>, !.queue = Append(@, j)]
  ELSE LET m == Merge(a.states[j][1], s)
       IN IF m = a.states[j][1] THEN a
          ELSE [a EXCEPT !.states[j] = <<m>>, !.queue = Append(@, j)]

\* It arrives at the successors, of which there are two at most.
ArriveAll(a, next, s) ==
  CASE next = <<>>   -> a
    [] Len(next) = 1 -> Arrive(a, next[1], s)
    [] OTHER         -> Arrive(Arrive(a, next[1], s), next[2], s)

\* A stack that is too short, a call or a branch to nowhere, or two ways to
\* one instruction with stacks of different heights.
Rejected(i, s, x) ==
  \/ Len(s.stack) <= Popped(x)
  \/ x.op = "call" /\ x.arg \notin DOMAIN prog
  \/ Jumps(x) /\ x.arg \notin DOMAIN Code
  \/ LET t == Effect(s, x) IN
       \E j \in ToSet(Successors(t, x, i)) \cap DOMAIN Code :
         Now.states[j] # <<>> /\ Len(Now.states[j][1].stack) # Len(t.stack)

\* The loop of calls.
Visit ==
  /\ Visiting
  /\ LET i == Head(Now.queue)
         s == Now.states[i][1]
         x == Code[i]
         t == Effect(s, x)
     IN IF Now.steps >= Patience * Len(Code) THEN GivesUp("diverged")
        ELSE IF Rejected(i, s, x) THEN GivesUp("rejected")
        ELSE /\ Becomes(ArriveAll([Now EXCEPT !.queue = Tail(@), !.steps = @ + 1],
                                  Successors(t, x, i), t))
             /\ UNCHANGED <<prog, calls, result>>

\* Once nothing changes, the calls are read off in the order of the text: an
\* instruction that is none, or is never reached, is passed over.
NextCall == {i \in DOMAIN Code : i >= Now.at /\ Code[i].op = "call" /\ Now.states[i] # <<>>}

ReadCall ==
  /\ Reading
  /\ NextCall # {}
  /\ LET i == Min(NextCall)
         s == Now.states[i][1]
         f == prog[Code[i].arg]
     IN /\ f.external
        /\ calls' = IF f.name \in Recorded
                    THEN Append(calls, [name |-> f.name, takes |-> f.takes,
                                        args |-> ArgumentsOf(s, f.result, Len(f.takes))])
                    ELSE calls
        /\ Becomes([Now EXCEPT !.at = i + 1])
  /\ UNCHANGED <<prog, result>>

\* A procedure of the script is analysed by itself, for this call.
EnterCall ==
  /\ Reading
  /\ NextCall # {}
  /\ LET i == Min(NextCall)
         s == Now.states[i][1]
     IN /\ ~prog[Code[i].arg].external
        /\ IF Len(analyses) > MaxDepth
           THEN GivesUp("rejected")
           ELSE /\ analyses' = Append(Front(analyses), [Now EXCEPT !.at = i + 1])
                                 \o <<Analysis(Code[i].arg, ArgumentsOf(s, FALSE, Len(s.stack) - 1))>>
                /\ UNCHANGED <<prog, calls, result>>

\* An argument that is not known, or of the wrong kind.
Unresolved(c) == \E i \in DOMAIN c.takes : i \notin DOMAIN c.args \/ c.args[i].kind # c.takes[i]

\* The end of a procedure's calls, and of all: reconstructionPlan rejects
\* what is not resolved, except a file to delete.
LeaveCalls ==
  /\ Reading
  /\ NextCall = {}
  /\ IF Len(analyses) > 1
     THEN analyses' = Front(analyses) /\ UNCHANGED result
     ELSE /\ result' = IF \E c \in ToSet(calls) : c.name # "delete" /\ Unresolved(c)
                       THEN "unresolved" ELSE "plan"
          /\ UNCHANGED analyses
  /\ UNCHANGED <<prog, calls>>

Done == result # "none" /\ UNCHANGED vars

Step == Visit \/ ReadCall \/ EnterCall \/ LeaveCalls

Next == Step \/ Done

\* One goroutine, which runs on: WF_vars(Step), with its ENABLED written out,
\* and every change a Step.
RunsOn == <>[](result = "none") => []<><<TRUE>>_vars

Spec == Init /\ [][Next]_vars /\ RunsOn

-----------------------------------------------------------------------------
(* What the analysis has reached when it reads the calls.                  *)

\* s knows of nothing that t does not know, or knows otherwise.
Weaker(s, t) ==
  /\ DOMAIN s.stack = DOMAIN t.stack
  /\ \A i \in DOMAIN s.stack : s.stack[i] \in {Nothing, t.stack[i]}
  /\ \A g \in Globals : s.globals[g] \in {Unknown, t.globals[g]}
  /\ s.flag \in {Unknown, t.flag}
  /\ s.params = t.params

\* What is known after instruction i is all that is known before those it may
\* go on to.
Absorbed(a, i) ==
  LET code == prog[a.proc].code
      t    == Effect(a.states[i][1], code[i])
  IN \A j \in ToSet(Successors(t, code[i], i)) \cap DOMAIN code :
       a.states[j] # <<>> /\ Weaker(a.states[j][1], t)

\* "It records calls only after convergence" (plan.go:144): with nothing left in
\* the queue, what is known before an instruction is known on every way to it,
\* from the start of the procedure and from each instruction it may come from,
\* however often ways have met and gone round (calls, merge).
Converged ==
  \A a \in ToSet(analyses) : a.queue = <<>> =>
    /\ 1 \in DOMAIN a.states =>
         a.states[1] # <<>> /\ Weaker(a.states[1][1], Fresh(a.states[1][1].params))
    /\ \A i \in DOMAIN a.states : a.states[i] # <<>> => Absorbed(a, i)

-----------------------------------------------------------------------------
(* When the plan is what the installer does.                               *)

Instructions(k) == ToSet(prog[k].code)

Procedures == {k \in DOMAIN prog : ~prog[k].external}

Target(x) == x.operands[1].address.in

Writes(x) == x.op \in {"assign", "calc", "compare", "not", "blur", "pushvar"}

\* No file is touched in a loop.
Forward ==
  \A k \in Procedures : \A i \in DOMAIN prog[k].code :
    LET x == prog[k].code[i]
    IN Jumps(x) => \A j \in x.arg..i : prog[k].code[j].op # "call"

\* Parameters are not assigned, nor passed on by reference.
ParamsKept ==
  \A k \in Procedures : \A x \in Instructions(k) : Writes(x) => Target(x) # "param"

\* Called procedures leave the global variables and the flag alone.
GlobalsKept ==
  \A k \in Procedures \ {1} : \A x \in Instructions(k) :
    x.op # "setflag" /\ (Writes(x) => Target(x) # "global")

\* No external procedure gives a variable another value but by its result.
ResultsOnly ==
  \A k \in Procedures : \A x \in Instructions(k) : x.op = "call" => prog[x.arg].name # "outs"

\* Where ways meet there is no reference on the stack: a reference is an
\* argument, pushed right before its call.
NoReferenceMeets(ends) == \A c \in ends : c.plain

\* The files touched are among the calls found, in that order.
Listed(trace) ==
  LET found(c, e) == /\ c.name = e.name
                     /\ \A i \in DOMAIN c.args : c.args[i] \in {Unknown, e.args[i]}
  IN \E f \in [DOMAIN trace -> DOMAIN calls] :
       /\ \A i, j \in DOMAIN trace : i < j => f[i] < f[j]
       /\ \A i \in DOMAIN trace : found(calls[f[i]], trace[i])

\* Every successful run of a script that is analysed touches only files of the
\* plan, with the arguments and in the order of the plan, whatever the values
\* the analysis does not know: a constant is known only where it is one on
\* every way (merge, calls).  What the analysis leaves out are the conditions.
Covers ==
  (result = "plan" /\ Forward /\ ParamsKept /\ GlobalsKept /\ ResultsOnly) =>
    LET ends == Runs(prog) IN NoReferenceMeets(ends) => \A c \in ends : Listed(c.trace)

\* The analysis of every script ends, and before it gives up: a state can only
\* lose what it knows, and 64 visits for each instruction are enough for that.
Converges == <>(result \notin {"none", "diverged"})

=============================================================================
