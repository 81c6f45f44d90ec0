------------------------------ MODULE MCRecipe ------------------------------
(***************************************************************************)
(* Small recipes for TLC: commands over a few paths of one directory tree, *)
(* with their two footprints taken from module RecipeFiles.                *)
(***************************************************************************)
EXTENDS RecipeSchedule, RecipeFiles

AppA == <<"app", "a">>
AppB == <<"app", "b">>
AppC == <<"app", "c">>
SubA == <<"app", "d", "a">>
SubB == <<"app", "d", "b">>
Dir  == <<"app", "d">>
Tool == <<"app", "fgpack.exe">>

Star == <<"app", "*">>

FlatPaths == {AppA, AppB, AppC, Star}
TreePaths == {AppA, AppB, AppC, SubA, SubB, Dir}
CasePaths == {AppA, AppB, AppC, <<"app", "A">>}
ToolPaths == {AppA, AppB, AppC, Tool, <<"app", "packer.exe">>, <<"app", "x">>}

\* "A" and "a" are one file of the store and two keys of the stamps.
MCFold(n) == IF n = "A" THEN "a" ELSE n

Cwd == <<"app">>

Arg(names)   == [root |-> "", names |-> names, slash |-> FALSE, wild |-> FALSE]
Wild(names)  == [Arg(names) EXCEPT !.wild = TRUE]
Slash(names) == [Arg(names) EXCEPT !.slash = TRUE]

Builtin(n, args) ==
  [name |-> n, tool |-> n, exe |-> <<>>, args |-> args, from |-> {}, to |-> {}]
Binary(n, args) == [Builtin(n, args) EXCEPT !.exe = <<"app", n>>]
Renamed(n, tool, args) == [Binary(n, args) EXCEPT !.tool = tool]

\* The commands of the passing runs.  The first five rewrite, combine, move
\* and delete three files; the others bring in the barriers.
Plain == {
  Builtin("fart.exe", <<Arg(<<"a">>)>>),
  Builtin("copy", <<Arg(<<"a">>), Arg(<<"b">>)>>),
  Builtin("move", <<Arg(<<"b">>), Arg(<<"c">>)>>),
  Builtin("x5.exe", <<Arg(<<"a">>), Arg(<<"c">>), Arg(<<"b">>)>>),
  Builtin("del", <<Arg(<<"a">>)>>) }

Barriers == {
  Builtin("del", <<Wild(<<"*">>)>>),
  Builtin("xdelta.exe", <<Arg(<<"b">>), Arg(<<"c">>), Arg(<<"a">>)>>) }

Rejected == { Builtin("copy", <<Arg(<<"a">>), Arg(<<"..", "a">>)>>) }

Leaves(cmds) == {LeafOf(c, Cwd) : c \in cmds}

PlainLeaves   == Leaves(Plain)
BarrierLeaves == Leaves(Barriers)
AnyLeaves     == PlainLeaves \cup BarrierLeaves \cup Leaves(Rejected)

\* Every recipe of one to three of these commands; one recipeFiles rejects in
\* the shorter ones.
ShortRecipes ==
  [1..1 -> AnyLeaves] \cup [1..2 -> AnyLeaves] \cup [1..3 -> PlainLeaves \cup BarrierLeaves]

\* Four commands each: a barrier between two chains.
LongRecipes ==
  {p \in [1..4 -> PlainLeaves \cup BarrierLeaves] :
     \A i \in 1..4 : p[i] \in (IF i = 3 THEN BarrierLeaves ELSE PlainLeaves)}

AllRecipes == ShortRecipes \cup LongRecipes

BothFiles == {{AppA, AppB, AppC}}
SomeFiles == {{AppA, AppB, AppC}, {AppA}}

\* The recipes below are not tame, each for a reason of its own.
Two(x, y)      == {<<a, b>> : a \in Leaves({x}), b \in Leaves({y})}
Three(x, y, z) == {p \o q : p \in Two(x, y), q \in {<<c>> : c \in Leaves({z})}}

\* copy a b / copy a c / fart a: fart waits for the second reader only.
TwoReaders == Three(
  Builtin("copy", <<Arg(<<"a">>), Arg(<<"b">>)>>),
  Builtin("copy", <<Arg(<<"a">>), Arg(<<"c">>)>>),
  Builtin("fart.exe", <<Arg(<<"a">>)>>))

\* ren d\a b / copy d\b c: the rename writes app/d/b and declares app/b.
RenameInDirectory == Two(
  Builtin("ren", <<Arg(<<"d", "a">>), Arg(<<"b">>)>>),
  Builtin("copy", <<Arg(<<"d", "b">>), Arg(<<"c">>)>>))

\* move a d\ / copy d\a c: the move writes app/d/a and declares app/d.
MoveIntoDirectory == Two(
  Builtin("move", <<Arg(<<"a">>), Slash(<<"d">>)>>),
  Builtin("copy", <<Arg(<<"d", "a">>), Arg(<<"c">>)>>))

\* copy b A / copy a c: one file, two spellings.
TwoSpellings == Two(
  Builtin("copy", <<Arg(<<"b">>), Arg(<<"A">>)>>),
  Builtin("copy", <<Arg(<<"a">>), Arg(<<"c">>)>>))

\* packer.exe is xdelta under another name / copy a c: a renamed binary
\* declares nothing.
RenamedTool == Two(
  Renamed("packer.exe", "x.exe", <<Arg(<<"b">>), Arg(<<"c">>), Arg(<<"a">>)>>),
  Builtin("copy", <<Arg(<<"a">>), Arg(<<"x">>)>>))

\* fgpack a b / del fgpack.exe: the binary selects the codec and is no
\* declared read.
DeletedTool == Two(
  Binary("fgpack.exe", <<Arg(<<"a">>), Arg(<<"b">>)>>),
  Builtin("del", <<Arg(<<"fgpack.exe">>)>>))

TreeStart == {{AppA, AppB, AppC, SubA}}
ToolStart == {{AppA, AppB, AppC, Tool, <<"app", "packer.exe">>}}

=============================================================================
