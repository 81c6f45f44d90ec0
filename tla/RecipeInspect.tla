---------------------------- MODULE RecipeInspect ----------------------------
(***************************************************************************)
(* The waits that the recipe command prints (recipe_inspect.go): a second  *)
(* computation of who waits for whom, on the text of a recipe alone, with  *)
(* stamps and a loop of its own.  It is compared with the dependencies the *)
(* scheduler of module RecipeSchedule gives its tasks.                     *)
(*                                                                         *)
(* A text is a record:                                                     *)
(*   lines   what recipeFiles declares of each command, resolved against   *)
(*           the directory of the batch file;                              *)
(*   leaves  the leaves that scheduleWords makes of them, resolved against *)
(*           the work directory of the setup record;                       *)
(*   of      the line each leaf comes from: scheduleWords drops a line of  *)
(*           echo, rem or flushfilecache, which the command numbers.       *)
(* A text that calls another one is left out: the command shows that one   *)
(* apart.  The command prints the first number of a wait and how many more *)
(* there are; the model compares all of them.                              *)
(***************************************************************************)
EXTENDS RecipeSchedule

CONSTANTS
  Texts,      \* the texts considered
  Renamings   \* ways to rename all files, no two of which become one

Line == [reads : SUBSET Files, writes : SUBSET Files, glob : BOOLEAN]

ASSUME InspectAssumption ==
  /\ \A t \in Texts :
       /\ t.leaves \in Programs
       /\ t.lines \in Seq(Line)
       /\ t.of \in Seq(DOMAIN t.lines) /\ Len(t.of) = Len(t.leaves)
       /\ \A i, j \in DOMAIN t.of : i < j => t.of[i] < t.of[j]
       /\ \A n \in DOMAIN t.lines : (\A i \in DOMAIN t.of : t.of[i] # n) =>
            t.lines[n] = [reads |-> {}, writes |-> {}, glob |-> FALSE]
  /\ \A r \in Renamings :
       r \in [Files -> Files] /\ \A f, g \in Files : r[f] = r[g] => f = g

VARIABLE text  \* the text of the recipe (constant)

-----------------------------------------------------------------------------
Stamped == [lastWrite |-> [f \in Files |-> 0], lastUse |-> [f \in Files |-> 0], unknown |-> {}]

\* Mutant: a write leaves the last reader of the file in place.
AfterStepKeepsUse(s, n, l) ==
  IF l.glob THEN [s EXCEPT !.unknown = @ \cup {n}]
  ELSE [s EXCEPT
    !.lastWrite = [f \in Files |-> IF f \in l.writes THEN n ELSE @[f]],
    !.lastUse   = [f \in Files |-> IF f \in l.reads THEN n ELSE @[f]]]

\* The end of the loop body of inspectRecipeGraph.
AfterStep(s, n, l) ==
  IF l.glob THEN [s EXCEPT !.unknown = @ \cup {n}]
  ELSE [s EXCEPT
    !.lastWrite = [f \in Files |-> IF f \in l.writes THEN n ELSE @[f]],
    !.lastUse   = [f \in Files |-> IF f \in l.writes THEN 0
                                   ELSE IF f \in l.reads THEN n ELSE @[f]]]

\* The stamps after the first n lines.
StampsAfter(lines) ==
  LET after[n \in 0..Len(lines)] == IF n = 0 THEN Stamped ELSE AfterStep(after[n - 1], n, lines[n])
  IN after

\* inspectFileDeps for line n that finds the stamps s.
InspectFileDeps(s, n, l) ==
  (({s.lastWrite[f] : f \in l.reads \cup l.writes} \cup {s.lastUse[f] : f \in l.writes})
     \cup s.unknown) \ {0, n}

\* The waits shown for line n: a glob shows "all prior".
ShownWait(lines, n) ==
  IF lines[n].glob THEN 1..n - 1 ELSE InspectFileDeps(StampsAfter(lines)[n - 1], n, lines[n])

-----------------------------------------------------------------------------
InspectInit == Init /\ text \in Texts /\ prog = text.leaves

InspectSpec == InspectInit /\ [][Next /\ UNCHANGED text]_<<vars, text>>

FairInspectSpec == InspectSpec /\ Fairness

\* What the recipe command shows is what a reconstruction does: every task
\* waits for exactly the lines printed beside its own that come to a task, as
\* the command says of itself ("show reconstruct waits").
WaitsShown ==
  \A i \in 1..sched :
    {text.of[d] : d \in deps[i]} =
      ShownWait(text.lines, text.of[i]) \cap {text.of[j] : j \in DOMAIN text.of}

\* The command resolves the paths of a text as the scheduler does, up to names.
Aligned(t) ==
  \E r \in Renamings : \A i \in DOMAIN t.of :
    LET l == t.lines[t.of[i]]
        k == t.leaves[i]
    IN /\ l.glob = k.glob
       /\ l.reads = {r[f] : f \in k.reads}
       /\ l.writes = {r[f] : f \in k.writes}

\* Of a text whose paths mean the same in both directories the command shows
\* the truth, although the waits are computed by different code (fileDeps and
\* recordLeaf, inspectRecipeGraph) and lines are numbered that come to no task.
AlikeShown == Aligned(text) => WaitsShown

=============================================================================
