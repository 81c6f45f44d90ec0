------------------------------ MODULE MCInspect ------------------------------
(***************************************************************************)
(* Small batch files for TLC, as the recipe command and the scheduler read *)
(* them: the one in the directory of the file, the other in the work       *)
(* directory of the setup record that runs it.                             *)
(***************************************************************************)
EXTENDS RecipeInspect, MCRecipe

TmpA == <<"tmp", "a">>
TmpB == <<"tmp", "b">>

TmpC == <<"tmp", "c">>

BothPaths == {AppA, AppB, AppC, TmpA, TmpB, TmpC, Star, <<"tmp", "*">>}

BatchDir == <<"tmp">>

\* The commands scheduleWords drops.
Dropped == {"echo", "rem", "flushfilecache.exe"}

\* The batch file with these commands, run in directory cwd.
TextOf(cmds, cwd) ==
  LET of == SelectSeq([n \in DOMAIN cmds |-> n], LAMBDA n : cmds[n].name \notin Dropped)
      line(c) == LET d == Declared(c, BatchDir)
                 IN [reads |-> d.reads, writes |-> d.writes, glob |-> d.glob]
  IN [lines  |-> [n \in DOMAIN cmds |-> line(cmds[n])],
      of     |-> of,
      leaves |-> [i \in DOMAIN of |-> LeafOf(cmds[of[i]], cwd)]]

\* The last of them names its file whatever the directory.
Commands == {
  Builtin("echo", <<>>),
  Builtin("copy", <<Arg(<<"a">>), Arg(<<"b">>)>>),
  Builtin("fart.exe", <<Arg(<<"b">>)>>),
  Builtin("del", <<Arg(<<"a">>)>>),
  Builtin("del", <<Wild(<<"*">>)>>),
  Builtin("del", <<[Arg(<<"b">>) EXCEPT !.root = "app"]>>) }

BatchTexts ==
  {TextOf(cmds, cwd) : cmds \in UNION {[1..n -> Commands] : n \in 2..3}, cwd \in {<<"app">>, <<"tmp">>}}

\* The same file, and the file of that name in the other directory.
Moved(f) == <<IF f[1] = "app" THEN "tmp" ELSE "app">> \o Tail(f)

SameOrMoved == {[f \in BothPaths |-> f], [f \in BothPaths |-> Moved(f)]}

\* The recipes of MCRecipe, run in {app}: their paths are relative.
RecipeTexts ==
  LET line(l) == [reads |-> {Moved(f) : f \in l.reads}, writes |-> {Moved(f) : f \in l.writes},
                  glob |-> l.glob]
  IN {[lines |-> [i \in DOMAIN p |-> line(p[i])], of |-> [i \in DOMAIN p |-> i], leaves |-> p] :
        p \in AllRecipes}

AllTexts == BatchTexts \cup RecipeTexts

AllPrograms == {t.leaves : t \in AllTexts}

MCStart == {{AppA, AppB, AppC, TmpA, TmpB}, {AppA}}

=============================================================================
