---------------------------- MODULE SetupScript ----------------------------
(***************************************************************************)
(* The compiled script of an installer, as setupdata/ifps.go reads it, and *)
(* what it does when the installer runs it.  The machine that runs it      *)
(* (RemObjects PascalScript) is not part of the repository: it is the      *)
(* definition that the reading of a script (module SetupPlan) is held      *)
(* against.                                                                *)
(*                                                                         *)
(* A procedure is a sequence of instructions, or external: a file          *)
(* operation of the installer or one of its helpers.  Branches name the    *)
(* index of their target.                                                  *)
(***************************************************************************)
EXTENDS Integers, SequencesExt

CONSTANTS
  Programs,  \* the scripts considered
  Globals,   \* numbers of global variables
  Probes,    \* values that what is not known may turn out to have
  Fuel       \* how many instructions of a run are looked at

Unknown   == [kind |-> "none", text |-> <<>>, number |-> 0]
Text(t)   == [kind |-> "s", text |-> t, number |-> 0]
Number(n) == [kind |-> "n", text |-> <<>>, number |-> n]

\* A global variable, a parameter or a slot of the stack.
Address == [in : {"global", "param", "slot"}, at : Nat]

NoAddress == [in |-> "none", at |-> 0]

\* A constant, a variable, or a part of an aggregate.
Operand == [tag : {"const", "var", "part"}, address : Address \cup {NoAddress},
            value : [kind : {"none", "s", "n"}, text : Seq(STRING), number : Int]]

Branches == {"jump", "jumpif", "jumpifnot", "jumpflag", "popjump", "pop2jump"}

\* blur stands for the operations whose result is not followed.
Ops == Branches \cup {"assign", "calc", "push", "pushvar", "pushtype", "pop", "call", "ret",
                      "compare", "not", "setflag", "blur", "nop"}

Instruction == [op : Ops, sub : {"", "add", "sub", "eq", "ne", "lt", "neg"}, arg : Nat,
                operands : Seq(Operand)]

Proc == [name : STRING, external : BOOLEAN, result : BOOLEAN, takes : Seq({"s", "n"}),
         code : Seq(Instruction)]

\* A script: its procedures, the first of which is CurStepChanged.
ASSUME ScriptAssumption ==
  /\ Fuel \in Nat /\ Globals \in SUBSET Nat
  /\ \A p \in Programs : p \in Seq(Proc) /\ p # <<>> /\ ~p[1].external

\* External procedures that do file work, which is recorded.
Recorded == {"extract", "delete"}

\* Both arguments of the callback: ssInstall.
InstallStep == <<Number(2)>>

-----------------------------------------------------------------------------
Flip(v) == IF v.kind = "n" THEN Number(IF v.number = 0 THEN 1 ELSE 0) ELSE v

Truth(b) == Number(IF b THEN 1 ELSE 0)

\* Addition of numbers, concatenation of texts, subtraction.
Calculated(sub, u, v) ==
  CASE u.kind = "s" /\ v.kind = "s" /\ sub = "add" -> Text(u.text \o v.text)
    [] u.kind = "n" /\ v.kind = "n" /\ sub = "add" -> Number(u.number + v.number)
    [] u.kind = "n" /\ v.kind = "n" /\ sub = "sub" -> Number(u.number - v.number)
    [] OTHER -> Unknown

Jumps(x) == x.op \in Branches

-----------------------------------------------------------------------------
(* A run.  All procedures share one stack of cells; a call puts a cell     *)
(* below the slots of the procedure (base), which a return drops, and the  *)
(* parameters are the cells under it.  A cell that refers to a variable is *)
(* that variable.                                                          *)

Cell(v) == [value |-> v, ref |-> NoAddress]

Frame(proc, base) == [proc |-> proc, pc |-> 1, base |-> base]

Starts ==
  {[stack |-> <<Cell(InstallStep[1]), Cell(Unknown)>>, globals |-> g, flag |-> Number(0),
    frames |-> <<Frame(1, 2)>>, trace |-> <<>>, plain |-> TRUE] : g \in [Globals -> Probes]}

Where(c, a) ==
  LET base == Last(c.frames).base
      at   == CASE a.in = "slot"  -> [in |-> "cell", at |-> base + a.at]
                [] a.in = "param" -> [in |-> "cell", at |-> base - 1 - a.at]
                [] OTHER -> a
  IN IF at.in = "cell" /\ at.at \in DOMAIN c.stack /\ c.stack[at.at].ref # NoAddress
     THEN c.stack[at.at].ref ELSE at

Load(c, o) ==
  CASE o.tag = "const" -> {o.value}
    [] o.tag = "part"  -> Probes
    [] OTHER -> LET w == Where(c, o.address) IN
                {IF w.in = "global" THEN c.globals[w.at] ELSE c.stack[w.at].value}

StoreAt(c, w, v) ==
  IF w.in = "global" THEN [c EXCEPT !.globals[w.at] = v] ELSE [c EXCEPT !.stack[w.at].value = v]

Store(c, o, v) == IF o.tag = "var" THEN StoreAt(c, Where(c, o.address), v) ELSE c

GoTo(c, pc) == [c EXCEPT !.frames[Len(c.frames)].pc = pc]

Advance(c) == GoTo(c, Last(c.frames).pc + 1)

Push(c, cell) == [c EXCEPT !.stack = Append(@, cell)]

\* A program given to the machine never pops what it has not pushed.
Pop(c, n) == [c EXCEPT !.stack = SubSeq(@, 1, Len(@) - n)]

Here(prog, c) == prog[Last(c.frames).proc].code[Last(c.frames).pc]

Halted(prog, c) ==
  c.frames = <<>> \/ Last(c.frames).pc > Len(prog[Last(c.frames).proc].code)

\* The arguments of an external procedure, from the top; under them would be
\* nothing, above them the result.
Argument(c, f, i) == Where(c, [in |-> "slot", at |-> Len(c.stack) - Last(c.frames).base
                                                       - (IF f.result THEN 1 ELSE 0) - i + 1])

Arguments(c, f) ==
  [i \in DOMAIN f.takes |->
     LET w == Argument(c, f, i) IN
     IF w.in = "global" THEN c.globals[w.at] ELSE c.stack[w.at].value]

\* What an external procedure returns.  The installation is a successful one.
Returned(f, args) ==
  CASE f.name = "extract" -> {Number(1)}
    [] f.name = "expand"  -> {args[1]}
    [] OTHER -> Probes

\* A procedure that gives its argument another value, by reference.
Written(c, f, v) == IF f.name = "outs" THEN StoreAt(c, Argument(c, f, 1), v) ELSE c

CallExternal(c, f) ==
  LET args   == Arguments(c, f)
      traced == IF f.name \in Recorded
                THEN [c EXCEPT !.trace = Append(@, [name |-> f.name, args |-> args])] ELSE c
      top    == [in |-> "slot", at |-> Len(c.stack) - Last(c.frames).base]
      given  == {Written(traced, f, v) : v \in IF f.name = "outs" THEN Probes ELSE {Unknown}}
  IN IF f.result
     THEN {Advance(StoreAt(g, Where(g, top), v)) : v \in Returned(f, args), g \in given}
     ELSE {Advance(g) : g \in given}

CallScript(c, k) ==
  LET back == Advance(c)
  IN [back EXCEPT !.stack = Append(@, Cell(Unknown)),
                  !.frames = Append(@, Frame(k, Len(c.stack) + 1))]

Return(c) ==
  [c EXCEPT !.stack = SubSeq(@, 1, Last(c.frames).base - 1), !.frames = Front(@)]

Decided(c, x, v) ==
  LET w == IF x.op = "jumpifnot" THEN Flip(v) ELSE v
  IN IF w.kind = "n" /\ w.number = 0 THEN Advance(c) ELSE GoTo(c, x.arg)

Does(prog, c, x) ==
  LET dst     == x.operands[1]
      values  == Load(c, dst)
      into(s) == {Advance(Store(c, dst, v)) : v \in s}
  IN CASE x.op = "assign" -> into(Load(c, x.operands[2]))
       [] x.op = "calc" ->
            into({Calculated(x.sub, u, v) : u \in values, v \in Load(c, x.operands[2])})
       [] x.op = "compare" ->
            into(IF x.sub \in {"eq", "ne"}
                 THEN {Truth((u = v) = (x.sub = "eq")) :
                         u \in Load(c, x.operands[2]), v \in Load(c, x.operands[3])}
                 ELSE {Number(0), Number(1)})
       [] x.op = "not"  -> into({Flip(v) : v \in values})
       [] x.op = "blur" -> into(Probes)
       [] x.op = "push" -> {Advance(Push(c, Cell(v))) : v \in values}
       [] x.op = "pushvar" ->
            IF dst.tag = "var"
            THEN {Advance(Push(c, [value |-> Unknown, ref |-> Where(c, dst.address)]))}
            ELSE {Advance(Push(c, Cell(v))) : v \in values}
       [] x.op = "setflag" ->
            {Advance([c EXCEPT !.flag = IF x.sub = "neg" THEN Flip(v) ELSE v]) : v \in values}
       [] x.op \in {"jumpif", "jumpifnot"} -> {Decided(c, x, v) : v \in values}

\* One instruction.
Steps(prog, c) ==
  IF Halted(prog, c) THEN {}
  ELSE LET x == Here(prog, c) IN
    CASE x.op = "nop"      -> {Advance(c)}
      [] x.op = "pushtype" -> {Advance(Push(c, Cell(Number(0))))}
      [] x.op = "pop"      -> {Advance(Pop(c, 1))}
      [] x.op = "popjump"  -> {GoTo(Pop(c, 1), x.arg)}
      [] x.op = "pop2jump" -> {GoTo(Pop(c, 2), x.arg)}
      [] x.op = "jump"     -> {GoTo(c, x.arg)}
      [] x.op = "jumpflag" -> {Decided(c, x, c.flag)}
      [] x.op = "ret"      -> {Return(c)}
      [] x.op = "call"     ->
           IF prog[x.arg].external THEN CallExternal(c, prog[x.arg]) ELSE {CallScript(c, x.arg)}
      [] OTHER -> Does(prog, c, x)

Targets(code) == {code[i].arg : i \in {j \in DOMAIN code : Jumps(code[j])}}

\* Remembers of a run that it came to a place where ways meet with a reference
\* on the stack of its procedure.
Noted(prog, c) ==
  IF Halted(prog, c) \/ Last(c.frames).pc \notin Targets(prog[Last(c.frames).proc].code) THEN c
  ELSE [c EXCEPT !.plain = @ /\ \A i \in Last(c.frames).base..Len(c.stack) :
                                  c.stack[i].ref = NoAddress]

\* What the runs of the script have come to after Fuel steps.
Runs(prog) ==
  LET after[n \in 0..Fuel] ==
        IF n = 0 THEN Starts
        ELSE UNION {IF Halted(prog, c) THEN {c} ELSE {Noted(prog, d) : d \in Steps(prog, c)} :
                      c \in after[n - 1]}
  IN after[Fuel]

=============================================================================
