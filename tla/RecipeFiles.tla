---------------------------- MODULE RecipeFiles ----------------------------
(***************************************************************************)
(* What one recipe command touches, twice:                                 *)
(*   - Declared: the reads, writes and glob flag recipeFiles announces to  *)
(*     the scheduler (reconstruct_schedule.go);                            *)
(*   - Actual: what the same command really reads and writes when words    *)
(*     executes it (reconstruct_commands.go), in the staging stores, which *)
(*     look names up without regard to case (reconstruct_plan.go).         *)
(* LeafOf puts the two side by side for module RecipeSchedule.             *)
(*                                                                         *)
(* A path is a sequence of names that starts with its namespace.  A        *)
(* command is a record                                                     *)
(*   name  the program as the recipe spells it, lower-cased, without path; *)
(*   tool  the program its binary's digest selects (toolset.canonical),    *)
(*         name itself for a built-in command or an unknown binary;        *)
(*   exe   the path of that binary, <<>> for a built-in command and for a  *)
(*         tool whose binary is never staged;                              *)
(*   args  its file arguments in order, flags already stripped;            *)
(*   from, to   the files named inside the patch an x3 or x5n directory    *)
(*         command applies, {} for the others.                             *)
(* An argument is a record: root ("" or the namespace of "{app}\..."), its *)
(* names, whether it ends in a separator, and whether it has a wildcard.   *)
(***************************************************************************)
EXTENDS Naturals, Sequences, FiniteSets, SequencesExt

CONSTANTS
  Paths,    \* every path the commands may name
  Fold(_)   \* the lower-case form of a name

Roots == {"app", "tmp", "src"}

-----------------------------------------------------------------------------
(* Paths.                                                                  *)

\* path.Clean on a sequence of names: "." disappears, and ".." does with the
\* name before it that no other ".." has taken.
Clean(names) ==
  LET up(i, j) == {k \in i..j : names[k] = ".."}
      down(i, j) == {k \in i..j : names[k] \notin {".", ".."}}
      even(i, j) == Cardinality(up(i, j)) = Cardinality(down(i, j))
      gone(i) == \/ names[i] = "."
                 \/ names[i] = ".." /\ \E j \in 1..i - 1 : even(j, i) /\ down(j, j) # {}
                 \/ names[i] # ".." /\ \E j \in i + 1..Len(names) : even(i, j)
      kept == SelectSeq([i \in DOMAIN names |-> i], LAMBDA i : ~gone(i))
  IN [i \in DOMAIN kept |-> names[kept[i]]]

\* virtualPath: the path an argument names, <<>> when it leaves its namespace.
Base(arg, cwd) == IF arg.root = "" THEN cwd ELSE <<arg.root>>

Confined(path, root) ==
  IF path # <<>> /\ Head(path) = root /\ root \in Roots THEN path ELSE <<>>

Resolve(arg, cwd) ==
  Confined(Clean(Base(arg, cwd) \o arg.names), Head(Base(arg, cwd)))

\* The store entry a path names: lookup, put and remove fold case.
Stored(path) == [i \in DOMAIN path |-> Fold(path[i])]

Parent(path) == Front(path)

\* The stored files a pattern or a plain path names (p.matches).  A wildcard
\* stands in the last name and matches every file of its directory.
Matches(path, wild) ==
  IF wild
  THEN {f \in Paths : Stored(f) = f /\ Len(f) = Len(path) /\ Parent(f) = Parent(path)}
  ELSE {path}

\* The stored files at or below a path (p.remove with tree, and x4).
Below(path) == {f \in Paths : Stored(f) = f /\ IsPrefix(path, f)}

-----------------------------------------------------------------------------
(* The declared footprint.                                                 *)

Deletes == {"del", "erase"}
Trees   == {"rd", "rmdir"}
Moves   == {"move", "ren", "rename"}
Xdeltas == {"x.exe", "xdelta.exe", "xdelta3.exe"}
Globs   == {"7z.exe", "x4.exe", "x5n.exe", "x3.exe"} \cup Xdeltas \cup Trees

\* The arguments recipeFiles adds as reads and as writes.  The archive tools
\* are globs and declare no path; fart declares its target both ways.
DeclaredReads(c) ==
  CASE c.name \in Moves \cup {"fart.exe", "fsb.exe", "x3.exe", "fgpack.exe"}
                            -> {c.args[1]}
    [] c.name = "copy"      -> IF Len(c.args) = 1 THEN {c.args[1]} ELSE ToSet(Front(c.args))
    [] c.name \in {"x2.exe", "x5.exe", "hpatchz.exe"} -> {c.args[1], c.args[2]}
    [] OTHER                -> {}

DeclaredWrites(c) ==
  CASE c.name \in Deletes \cup Trees \cup Moves -> ToSet(c.args)
    [] c.name \in {"fart.exe", "x2.exe"}       -> {c.args[1]}
    [] c.name \in {"copy", "x5.exe", "hpatchz.exe", "fsb.exe", "fgpack.exe"}
                                               -> {Last(c.args)}
    [] OTHER                                   -> {}

\* recipeFiles.
Declared(c, cwd) ==
  LET paths(args) == {Resolve(a, cwd) : a \in args}
      reads  == paths(DeclaredReads(c))
      writes == paths(DeclaredWrites(c))
  IN [reads |-> reads \ {<<>>}, writes |-> writes \ {<<>>},
      glob |-> c.name \in Globs \/ \E a \in DeclaredReads(c) \cup DeclaredWrites(c) : a.wild,
      bad |-> <<>> \in reads \cup writes]

-----------------------------------------------------------------------------
(* The actual footprint: words.  at[i] is the store entry args[i] names.   *)

Touch(needs, looks, puts, drops, keeps) ==
  [uses |-> needs \cup looks, needs |-> needs, puts |-> puts,
   drops |-> drops, keeps |-> keeps]

\* The files the arguments is name, those with a wildcard or the others.
Named(c, at, is, wild) ==
  UNION {Matches(at[i], wild) : i \in {j \in is : c.args[j].wild = wild}}

\* del and rd remove what matches; nothing is read and nothing need exist.
Gone(files) == Touch({}, {}, files, files, {})

Delete(c, at) ==
  Gone(IF c.tool \in Trees THEN UNION {Below(at[i]) : i \in DOMAIN at}
         ELSE Named(c, at, DOMAIN at, TRUE) \cup Named(c, at, DOMAIN at, FALSE))

\* A rename names its destination from the directory of its source; inside it
\* when the argument ends in a separator.
RenameTarget(c, at, cwd) ==
  Stored(Resolve(c.args[2], IF c.tool = "move" THEN cwd ELSE Parent(at[1])))
    \o (IF c.args[2].slash THEN <<Last(at[1])>> ELSE <<>>)

\* move and ren: the source is read, then removed, then put at the target.
Move(source, target) ==
  Touch({source}, {}, {source, target}, {source} \ {target}, {})

\* copy concatenates its sources; a plain source must exist, a pattern may
\* match nothing.
Copy(c, at, sources, output) ==
  Touch(Named(c, at, sources, FALSE), Named(c, at, sources, TRUE), {at[output]}, {}, {})

\* 7z packs what its patterns match; its archive is the first argument.
Pack(c, at) == Copy(c, at, 2..Len(at), 1)

\* fart rewrites the files its pattern matches, in place.
Fart(files) == Touch({}, files, files, {}, files)

\* x2, x5, hpatchz, fsb, fgpack and xdelta: named inputs, one output.
Patch(at, inputs, output) == Touch({at[i] : i \in inputs}, {}, {at[output]}, {}, {})

\* x4 encrypts every file at or below its source into its destination.
Encrypt(at) == Touch({}, Below(at[1]), {at[2]}, {}, {})

\* x3 and x5n on a directory: the patch names the files.  x3 removes each
\* source that is not a target.
Update(c, patch, removed) ==
  Touch({patch} \cup c.from, {}, c.to \cup removed, removed \ c.to, {})

Body(c, at, cwd) ==
  CASE c.tool \in Deletes \cup Trees          -> Delete(c, at)
    [] c.tool \in Moves                       -> Move(at[1], RenameTarget(c, at, cwd))
    [] c.tool = "copy" -> Copy(c, at, IF Len(at) = 1 THEN {1} ELSE 1..Len(at) - 1, Len(at))
    [] c.tool = "fart.exe"                    -> Fart(Matches(at[1], c.args[1].wild))
    [] c.tool = "x2.exe"                      -> Patch(at, {1, 2}, 1)
    [] c.tool \in {"x5.exe", "hpatchz.exe"} \cup Xdeltas -> Patch(at, {1, 2}, 3)
    [] c.tool \in {"fsb.exe", "fgpack.exe"}   -> Patch(at, {1}, 2)
    [] c.tool = "7z.exe"                      -> Pack(c, at)
    [] c.tool = "x4.exe"                      -> Encrypt(at)
    [] c.tool = "x3.exe"                      -> Update(c, at[1], c.from)
    [] c.tool = "x5n.exe" /\ Len(at) = 3      -> Patch(at, {1, 2}, 3)
    [] OTHER                                  -> Update(c, at[1], {})

\* words, with the look at the binary that toolDigest takes first.
Actual(c, cwd) ==
  [Body(c, [i \in DOMAIN c.args |-> Stored(Resolve(c.args[i], cwd))], cwd)
   EXCEPT !.uses = @ \cup (IF c.exe = <<>> THEN {} ELSE {Stored(c.exe)})]

\* Both footprints of a command; one that recipeFiles rejects never runs.
Footprints(declared, c, cwd) ==
  declared @@ (IF declared.bad THEN Gone({}) ELSE Actual(c, cwd))

LeafOf(c, cwd) == Footprints(Declared(c, cwd), c, cwd)

=============================================================================
