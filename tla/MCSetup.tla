------------------------------ MODULE MCSetup ------------------------------
(***************************************************************************)
(* Small scripts for TLC.  A script is put together from phrases, each a   *)
(* few instructions over two local variables (slots 1 and 2) and a global  *)
(* one; it may call a procedure of its own.                                *)
(***************************************************************************)
EXTENDS SetupPlan

Const(v) == [tag |-> "const", address |-> NoAddress, value |-> v]
Var(in, at) == [tag |-> "var", address |-> [in |-> in, at |-> at], value |-> Unknown]

a == Const(Text(<<"a">>))
b == Const(Text(<<"b">>))

File  == Var("slot", 1)
Count == Var("slot", 2)
Temp  == Var("slot", 3)
Glob  == Var("global", 0)
Param == Var("param", 0)

I(op, sub, arg, operands) == [op |-> op, sub |-> sub, arg |-> arg, operands |-> operands]

Do(op, operands) == I(op, "", 0, operands)
Pop1     == Do("pop", <<>>)
Call(k)  == I("call", "", k, <<>>)
Move(v, w) == Do("assign", <<v, w>>)

External(name, gives, takes) ==
  [name |-> name, external |-> TRUE, result |-> gives, takes |-> takes, code |-> <<>>]
Own(code) == [name |-> "", external |-> FALSE, result |-> FALSE, takes |-> <<>>, code |-> code]

-----------------------------------------------------------------------------
(* Phrases.  A branch in a phrase names the phrase it goes to, by how many *)
(* it lies ahead.                                                          *)

Extract  == <<Do("push", <<File>>), Do("pushvar", <<Count>>), Call(2), Pop1, Pop1>>
Erase(v)  == <<Do("push", <<v>>), Call(3), Pop1>>
Ask      == <<Do("pushvar", <<Count>>), Call(4), I("popjump", "", 1, <<>>)>>
Outs     == <<Do("pushvar", <<File>>), Call(5), Pop1>>
Expand   == <<Do("push", <<File>>), Do("pushvar", <<Glob>>), Call(7), I("pop2jump", "", 1, <<>>)>>
CallOwn(v) == <<v, Call(6), Pop1>>
Plus     == <<I("calc", "add", 0, <<Count, Const(Number(1))>>)>>
Compare  == <<I("compare", "eq", 0, <<Count, File, a>>)>>
Skip     == <<I("jumpif", "", 2, <<Count>>)>>
SkipNot  == <<Do("not", <<Count>>), I("setflag", "neg", 0, <<Count>>), I("jumpflag", "", 2, <<>>)>>
Back     == <<I("jumpifnot", "", -1, <<Count>>)>>

\* The place of phrase n; what is before the first one and after the last
\* one is there in every script.
Opening == <<Do("pushtype", <<>>), Do("pushtype", <<>>), Move(File, a), Move(Count, Const(Number(0)))>>
Closing == Extract \o <<Do("ret", <<>>)>>

Joined(phrases) ==
  LET n == Len(phrases)
      place[k \in 1..n + 2] ==
        IF k = 1 THEN Len(Opening) + 1
        ELSE IF k = n + 2 THEN place[n + 1] + Len(Extract) ELSE place[k - 1] + Len(phrases[k - 1])
      fixed(k) == [i \in DOMAIN phrases[k] |->
                     LET x == phrases[k][i] IN
                     IF Jumps(x) THEN [x EXCEPT !.arg = place[Min({n + 2, Max({1, k + x.arg})})]]
                     ELSE x]
  IN Opening \o FlattenSeq([k \in 1..n |-> fixed(k)]) \o Closing

Program(phrases, own) ==
  <<Own(Joined(phrases)), External("extract", TRUE, <<"s">>), External("delete", TRUE, <<"s">>),
    External("ask", TRUE, <<>>), External("outs", FALSE, <<"s">>), Own(own),
    External("expand", TRUE, <<"s">>)>>

\* The script's own procedure deletes its argument; or it does something the
\* analysis does not see.
Deletes == <<Do("push", <<Param>>), Do("push", <<Glob>>), Call(3), Pop1, Pop1, Do("ret", <<>>)>>
Assigns == <<Move(Param, b), Do("ret", <<>>)>>
Globals0 == <<Move(Glob, b), Do("ret", <<>>)>>
Calls6  == <<Do("push", <<Param>>), Call(6), Pop1, Do("ret", <<>>)>>

Basic ==
  {<<Move(File, b)>>, <<Move(Glob, File)>>, <<Move(File, Glob)>>, Extract, Ask,
   CallOwn(Do("push", <<File>>)), Plus, Compare, Skip, SkipNot, Back}

More == {Erase(Glob), Outs, Expand, <<Do("blur", <<Count>>)>>, <<I("calc", "add", 0, <<File, b>>)>>}

ByHand ==
  {Program(<<CallOwn(Do("pushvar", <<File>>))>>, o) : o \in {Deletes, Assigns, Globals0, Calls6}}
  \cup {Program(<<<<Move(Glob, a)>>, CallOwn(Do("pushvar", <<File>>)), <<Move(File, Glob)>>>>, o) :
          o \in {Deletes, Assigns, Globals0}}
  \* a reference that depends on the way
  \cup {Program(<<Ask, <<Do("pushtype", <<>>), Pop1, I("jumpif", "", 3, <<Count>>)>>,
                  <<Do("pushvar", <<File>>)>>, <<I("jump", "", 2, <<>>)>>,
                  <<Do("pushvar", <<Glob>>)>>, <<Move(Temp, b), Pop1>>>>, Deletes)}

const_Programs ==
  ByHand
  \cup {Program(ps, Deletes) : ps \in SeqOf(Basic, 3)}
  \cup {Program(<<m>> \o ps, Deletes) : m \in More, ps \in SeqOf(Basic \cup More, 1)}
  \cup {Program(ps \o <<m>>, Deletes) : m \in More, ps \in SeqOf(Basic, 1)}

const_Probes == {Number(0), Number(1)}

=============================================================================
