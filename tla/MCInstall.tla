------------------------------ MODULE MCInstall ------------------------------
(***************************************************************************)
(* Installations for TLC: one or two volumes, two installed files, up to   *)
(* three setup records, with volumes missing, damaged or optional.         *)
(***************************************************************************)
EXTENDS InstallSession

Old == 2

Files(f) == {p \in Paths : f[p] # NoFile}

Extract(v, opt, f) ==
  [kind |-> "extract", vol |-> v, optional |-> opt, touches |-> Files(f), puts |-> f,
   declares |-> {}, glob |-> FALSE]

\* A command that leaves f in the files it touches; decl are those recipeFiles
\* finds in its words, glob says that it cannot tell.
Command(f, decl, glob) ==
  [kind |-> "command", vol |-> "v1", optional |-> FALSE, touches |-> Files(f), puts |-> f,
   declares |-> decl, glob |-> glob]

Remove(ps) ==
  [kind |-> "remove", vol |-> "v1", optional |-> FALSE, touches |-> ps,
   puts |-> [p \in Paths |-> NoFile], declares |-> {}, glob |-> FALSE]

Put(f, g) == [p \in Paths |-> IF p = "a" THEN f ELSE g]

WrongA   == Put(Old, NoFile)
Both     == Put(Listed, Listed)
OldA     == Put(Old, Listed)
JustA    == Put(Listed, NoFile)
JustB    == Put(NoFile, Listed)

\* Extracts, a patch of a that says so, one that leaves something else than the
\* manifest lists, one that declares nothing (a renamed tool), a batch recipe,
\* and a record that removes b.
Records ==
  {Extract("v1", FALSE, OldA), Extract("v1", FALSE, JustA), Extract("v2", TRUE, JustB),
   Extract("v2", FALSE, Both), Command(JustA, {"a"}, FALSE), Command(WrongA, {"a"}, FALSE),
   Command(JustA, {}, FALSE),
   Command(Both, {}, TRUE), Remove({"b"})}

Lists(n) == UNION {[1..k -> Records] : k \in 1..n}

Installations(lists, wants, presents, sums, damages) ==
  [ops : lists, want : wants, present : presents, sums : sums, damaged : damages]

\* Every list of up to two records, volumes missing and damaged.
ShortPlans ==
  Installations(Lists(2), {{}, {"a"}, {"a", "b"}}, {{"v1"}, {"v1", "v2"}},
                {{}, {"v1"}}, {{}, {"v1"}})

\* A volume used twice with a patch between, and two volumes with a recipe.
LongPlans ==
  Installations(
    {<<Extract("v1", FALSE, OldA), Command(JustA, {"a"}, FALSE), Extract("v1", FALSE, JustB)>>,
     <<Extract("v1", FALSE, OldA), Extract("v2", TRUE, JustB), Command(JustA, {"a"}, FALSE)>>,
     <<Extract("v1", FALSE, JustA), Remove({"b"}), Extract("v1", TRUE, JustB)>>},
    {{"a", "b"}}, {{"v1"}, {"v1", "v2"}}, {{"v1", "v2"}}, {{}, {"v1"}})

AllPlans == ShortPlans \cup LongPlans

SoundPlans ==
  Installations({<<Extract("v1", FALSE, Both)>>}, {{"a", "b"}}, {{"v1"}}, {{}}, {{}})

OverwritingPlans ==
  Installations({<<Extract("v1", FALSE, Both), Extract("v2", FALSE, OldA)>>},
                {{"a", "b"}}, {{"v1", "v2"}}, {{}}, {{}})
=============================================================================
