# A verification development of garotafitness

garotafitness extracts a game repack into its installed tree: it reads the
records of `setup.exe`, decodes the volumes those records name, runs the recipes
they call and writes the result to a destination directory. Decoding is
sequential arithmetic on bytes. What is hard about the program is around it: a
batch file runs as a graph of concurrent tasks, verification overlaps
extraction, solid blocks are written by bounded pools, and any of it may be
cancelled at any moment. Beside it there are three pieces of sequential machinery
with long histories: the staging stores and their two locks, the memory of the SREP
decoder, and the constant propagation that finds the records of an installation.
This directory models these parts in TLA+, checks them with TLC and proves most of
their safety properties, for every value of the constants, with TLAPS.

File names below are relative to the repository (`src/` in `PROJECT.json`).

## 1. The system

| part | state it keeps | operations |
|---|---|---|
| command (`cmd/garotafitness`) | the outer session, Source, Dest | `extract`, `inspect`; an interrupt cancels the context |
| extractor (`extract.go`, `reconstruct.go`, `run.go`) | the present volumes | choose plain extraction or reconstruction; copy the staging store to Dest; join the session |
| checksums (`checksum.go`) | one task per listed volume | MD5 of a volume; a mismatch cancels the session |
| reconstruction plan (`reconstruct_plan.go`) | position in the records, decoded volumes, remaining uses, manifest, hashed files | apply extract, command and remove records; decode a volume once, drop it after its last use |
| recipe scheduler (`reconstruct_schedule.go`) | `lastWrite`, `lastUse`, `prior`, `unknown` | turn each line into a task with dependencies; later hash tasks |
| recipe inspection (`recipe_inspect.go`) | stamps of its own | the waits the `recipe` command prints |
| recipe commands (`reconstruct_commands.go`, `reconstruct_tool.go`) | none | move, copy, delete, patch, pack: reads and writes in the staging stores |
| staging stores (`reconstruct.go`, `dest.go`) | files and directories, in memory or on disk, names folded by case | create, close, ingest, read, remove |
| solid extraction (`extract.go`) | per solid a stream position and a semaphore | read members in order, write them through the IO pool, check CRC and trailing data |
| 4x4 reader (`stream/fourx4`) | job and result channels, held blocks | read, decode and reorder the blocks of a stream |
| SREP reader (`stream/srep`) | heap of copies to come, chunk memory, spilled blocks, buffers | read and decode a block, spill and bring back copies |
| setup metadata (`setupdata`) | parsed IFPS code, a state per instruction | constant propagation of the installer's calls, the records they make |
| codecs (`stream/*`, `reconstruct/*`) | bytes | decode one stream or apply one patch |
| lewkit `taskgroup` and `progress` | pools, sessions | external: only its use in this repository is known |

How they interact: the command enters a session and calls `Extract`. `Extract`
enters its own session, spawns the MD5 tasks and applies the records in the main
goroutine. An extract record decodes its volume (solid extraction, whose
pipelines contain stream decoders such as 4x4) into a staging store, moves files
into the application's store and spawns hash tasks. A command record runs a
recipe through the scheduler. After the last record the main goroutine verifies
the manifest files not yet hashed, copies the store to Dest, closes what it
opened, and waits for the session.

What is hard, and which property is about it, is in `PROJECT.json` under
`hazards`, each at its line.

### What makes each part correct

- **scheduler**: a concurrent run computes what the batch file would compute line
  by line; it never waits in a circle.
- **installation**: success means a complete and verified tree; nothing is left in
  staging; the command always returns.
- **solid extraction**: success means every member whole with its checksum; no
  writer outlives the extraction; pools and semaphore do not lock each other up.
- **4x4 reader**: blocks in order, once each; `io.EOF` only at the end; errors are
  about the stream; no goroutine is left behind. In short: a reader that decodes
  block after block.
- **nested recipes**: a called recipe computes what the batch file would, whether
  its lines are scheduled in place or by a task of their own; recursion ends.
- **recipe inspection**: the waits it prints are those the scheduler keeps (true when
  the directory of the batch file and its work directory mean the same files).
- **staging stores**: index and disk agree; a reader finds what was staged,
  whatever the spelling; the index is not used by two goroutines at once.
- **SREP reader**: what is spilled and brought back never shows in the output; no
  chunk, mark or buffer is lost or owned twice; memory stays bounded. (The first is
  true of the bytes delivered, but a sound stream may be reported broken: section 3.)
- **setup metadata**: what a successful run of the script extracts and deletes is
  in the plan, with the right arguments and in the right order; the analysis ends.

## 2. The modules

| module | what it is |
|---|---|
| `RecipeFiles` | pure operators: for one command, the footprint `recipeFiles` declares and the one `words` has |
| `RecipeSchedule` | the scheduling goroutine and the leaf tasks of one recipe |
| `MCRecipe` | recipes for TLC, built from commands through `RecipeFiles!LeafOf` |
| `RecipeScheduleProofs` | theorems about `RecipeSchedule` and `RecipeInspect` |
| `RecipeInspect` | the waits shown, beside those of `RecipeSchedule` |
| `MCInspect` | batch files for TLC, resolved against the two directories |
| `NestedRecipe`, `MCNested`, `NestedRecipeProofs` | recipes that call recipes: several scheduling goroutines on the stamps of `RecipeSchedule` |
| `StagingStore`, `MCStaging`, `StagingStoreProofs` | one staging directory, its index and its disk, under two locks |
| `InstallSession`, `MCInstall`, `InstallSessionProofs` | one installation, records to Dest, with its session tasks |
| `SolidExtract`, `MCSolid`, `SolidExtractProofs` | the solids of one volume, their readers and writers |
| `FourX4`, `FourX4Proofs` | the 4x4 reader, and the proofs about it |
| `BlockStream` | what the 4x4 reader promises: abstract specification of `FourX4` |
| `FutureStream` | what a future-LZ stream means: the bytes of every position |
| `FutureLZ` | a reader that returns them in order, or an error, and may lose track of a copy: abstract specification of `SrepReader` |
| `SrepReader`, `MCSrep`, `SrepReaderProofs` | the SREP reader with its kernel, memory and buffers |
| `SetupScript` | the compiled script of an installer, and a machine that runs it (external) |
| `SetupPlan`, `SetupPlanProofs`, `MCSetup` | the constant propagation of `setupdata/plan.go` |

They are layers of one program. A recipe is one record (`BeginCommand`,
`CommandWrite`, `EndCommand`) in `InstallSession` and is opened up in
`RecipeSchedule`. Decoding a volume is one step of `InstallSession`
(`ExtractDecode`), opened up in `SolidExtract`. A solid's stream is a sequence of
members there, and `FourX4` and `SrepReader` are two of the readers that produce
such a stream. `NestedRecipe` extends `RecipeSchedule` and uses its actions.
A read or a write of a file in `RecipeSchedule` is one step, which `StagingStore`
opens up. The records of `InstallSession` are what `SetupPlan` finds.

Some definitions whose names end in `NoUse`, `Early`, `Any`, `Drops` and the like
stand beside a definition of the code (`FileDepsNoUse` beside `FileDeps`): they
are plausible mistakes, which `PROJECT.json` lists as mutants. Every property of
a passing run has one that violates it. They are in no behaviour.

### RecipeSchedule and RecipeFiles

The scheduling goroutine is `ScheduleLeaf` (`scheduleLeaf`, with `fileDeps` in
`FileDeps` and `recordLeaf` in `RecordLeaf`) and `ScheduleError`. A leaf task is
`StartLeaf`, then `ReadFile` for each file it reads, then `WriteFile` for each it
writes, then `FinishLeaf`; each store access is one critical section of the
plan's lock, and other tasks may come between any two. A missing input fails the
leaf in `ReadFile`, a tool that rejects its input in `ToolError`. A failure
cancels the group; scheduling goes on, as in the code.

A file's content is the number of the leaf that wrote it last. Tools are
functions of what they read, so equal provenance is equal bytes, and "the
sequential result" (`IsSerial`) can be said without any tool.

`RecipeFiles` has the two footprints of each command side by side: `Declared`
from `recipeFiles`, `Actual` from `words`. Paths are sequences of names;
`Resolve` is `virtualPath`, `Stored` the case folding of the stores, `Matches`
the wildcards. A wildcard stands in the last name of a path, which is how the
recipes of the tests use it. Where one line reads and one writes, all reads come
first, which is the order of every branch of `words` but two: x3 reads and writes
record after record, and fart file after file. Both touch disjoint files per
record in a valid recipe.

A recipe called by another one is flattened here; `NestedRecipe` has the calls.

Two conditions on recipes are stated where a property needs them. `Covered`: a
leaf writes only what it declares, and reads nothing undeclared that another leaf
writes. `SingleReader`: no two leaves read the same version of a file that a
later leaf replaces. Together they are `Tame`. What happens to recipes
that are not tame is in section 3.

### RecipeInspect

`inspectRecipeGraph` walks the lines of a batch file with stamps of its own and prints
beside each command those it waits for. `StampsAfter` and `InspectFileDeps` are that
walk. Its input is not the scheduler's: a text has `lines`, the declared footprints
resolved against the directory the batch file was unpacked to
(`recipe_inspect.go:79`), and `leaves`, those resolved against the work directory of
the record that runs it (`reconstruct_plan.go:378`); and it numbers `echo`, `rem` and
`flushfilecache`, which the scheduler drops (`of`). The command prints the first number
of a wait and how many more there are; the model compares all of them.

`WaitsShown` compares the two, leaf by leaf. It is not true of every text: with work
directory `{app}`, `copy a b` and then `del {app}\b` wait in the scheduler and not in the
inspector (section 3). `AlikeShown` is what holds: the waits are right for
a text whose paths mean, up to the files' names, the same in both directories
(`Aligned`). For a line that calls another recipe the inspector shows no wait, while the
scheduler puts the called lines in its place or waits for everything before; such texts
are left out.

### NestedRecipe

Every goroutine that schedules has the lines it has still to do (`todo`); 0 is the
one that called `recipe`. A line that calls a recipe which exists is replaced by the
lines of that recipe, as they are at that moment (`ReadCalled`). Any other line is
spawned (`Spawn`) and then recorded in the stamps, in two steps (`LoadStamps`,
`StoreStamps`), since appending to `prior` and `unknown` loads and stores them. A
line that calls a recipe not there yet spawns a Control leaf, a barrier, which reads the recipe
when it runs (`ExpandRecipe`) and schedules its lines from its own goroutine. Two
things can then go wrong and both are behaviours of the model: an append is lost, or
the runtime notices two goroutines in the stamp maps and ends the program
(`Throw`). A Control leaf has finished when its function returned, whether the leaves
it spawned have finished or not; were it otherwise, a leaf that comes after the
recipe in the text and is spawned before its lines could be waited for by them
and wait for them, and the installation would hang (mutant `FinishExpandedWaits`).

`NestedSerial` therefore has conditions: the flattened recipe is tame; no called
recipe is rewritten by a line before the call (`NoneStale`); a recipe that
is produced by the recipe itself is called last (`ControlLast`); and no race was
detected. Each is necessary: TLC finds a violation without it. Of the lines of a
recipe only one thing is assumed (`NestedAssumption`): a call is what `scheduleWords`
makes of it, a barrier that reads the called recipe and declares no write (`IsCall`).

### StagingStore

One directory, `app` or `tmp`, with its index (`files`) and disk: `disk` gives each
spelling its inode and `content` each inode what it holds. The actors are commands
and a hash task with a script of operations each. An operation of a command takes
the plan's lock (`openAt`, `read`, `put`, `matches`, `remove`) and for part
of its way the store's; `create`, `ingest`, the Close of a created file and the look-up
of a hash task take only the latter. Every use of the index is a step of its own, so
that `Race` can say that two overlap of which one writes; the runtime may then end
the program. `Write` may fail and leave a file `Torn`.

The scripts never conflict in a file. Of leaves that is what the scheduler arranges
(`RecipeSchedule`). Of a hash task it is assumed: the scheduler looks at later commands
only, and a later extract or remove record may well be about a file that is being hashed,
which is `InstallSession`'s subject (run `install_overwritten`). The store is a staging directory on disk, as every
installation uses it (`inspect` and the tests keep theirs in memory). The disk is
case-sensitive: when `create` or `ingest` get a second spelling of a staged name, two
files are on the disk and the index decides, and the model calls the name `marred`
and asks nothing more about it. The left-overs of `remove` can also stand in the way of a
directory.

### InstallSession

The main goroutine's position is `pc` and the record `opi`. Contents are three:
no file, what the manifest lists, something else. Volumes may be missing,
damaged, listed with an MD5 or not. `HashTask` and `VolumeSum` are the tasks of
the session; they run whenever the scheduler of the runtime lets them, up to
`SessionDone`. `CleanUp` is the deferred Closes of the plan's stores; from there
on the command may also have closed Source (`srcOpen`).

Abstracted: a file is hashed in one step; the copy to Dest takes one step per
file; directories are left out; a damaged volume may or may not be caught by its
archive CRCs, but always by its MD5; whether the error of a task that is not a
checksum mismatch also cancels the session is left open, since the task group is
external.
A record list without any extract record, for which the code takes volumes to be
optional by their names, does not occur among the plans with a volume that is
required.

### SolidExtract

A solid's task is `StartSolid`, then `CheckContext` and `ReadMember` (the
semaphore, the read into a buffer and the spawn) for each member, then
`EndMembers` (the isolated group ends when its tasks do) and `ReadTail`. A write
task is `StartWrite`, `CreateFile`, `WriteChunk` per round of `copyCtx`, and
`CloseFile` with the checks, or `WriteStops` when cancelled. The two kinds of
destination are the disk (Create truncates, each writer has its own offset) and
the memory store (Close installs the writer's own buffer).

### FourX4

Every channel operation of `launch`, `take`, `Read` and `Close` is a step, and a
select with two ready cases may take either. A block is its number; whether it
decodes is part of the stream. `DecodeBlock` may fail a good block only when the
caller's context is cancelled, because `decode` runs under that context and not
under the group's.

`BlockStream` has one thread, which decodes block after block and answers a Read with
the next block, the end or an error. An error may overtake good blocks before the bad
one, and after a cancellation the end may come early. `KeepsOrder` says that `FourX4`
implements it, with the same variables `stream`, `ctx`, `caller`, `delivered` and
`outcome`, fairness included: every Read is answered.

### SREP

`FutureStream` defines the bytes of a stream (`Decoded`) without any memory: a
block's copies take their bytes from the block that announces them. A byte
is named by where it came from, so equal names are equal bytes. `FutureLZ` reads
such a stream block by block; what a stream means (`Valid`, `Bytes`) is a parameter of
it, which `SrepReader` fills in from `FutureStream`. `SrepReader` is the code: `ReadBlock`, `Decode` and the
kernel's loop with `Copy`, `BringBack`, `KeepCopy` and `Spill`.
`Spill` takes the copies that `Spilled` finds, the loop of `virtMem.save` round by round
(`Round`): it goes down the heap and skips the copies the comment at
`stream/srep/future.go:348-351` says it skips; and when it has taken the first copy of
all, its iterator is at the end, from where it starts over at the top and takes
copies it had skipped. The mark gets the destination of the last copy taken, which is
then not the least (`Misplaced`). From there on the reader is `astray`, a history
variable: a copy may come due while it is spilled.
The memory is a record of a free list, chunk links and chunk data, as `memMgr`; a
chunk is freed by linking it into the free list, and what it held stays in it.
`KeepsPromise` is the refinement: whatever is spilled, chained and brought back, and
however the input ends, `out` and `status` are those of `FutureLZ`, in which `lost` is
`astray`. A reader that has lost track of a copy may break a sound stream. It still never
delivers other bytes than the stream's: the copies it misses are found behind the
position or leave the literals short, and both are errors. What it delivers of a block that
is itself malformed is left open. `SpillAgrees` is the promise without this exception, and is violated
(run `srep_astray`).

Assumed (`SrepAssumption`): no block of a stream is larger than one on the disk (`next`
rejects those above 8 MiB), and one of those fits into the memory. A copy may be as long as
a block, and then leaves no place on the disk for its record's head and the tail
(`TooLong`, within 24 bytes of 8 MiB in the code): `virtMem.save` finds nothing to spill and the
stream is reported broken, which `FutureLZ` allows of a stream with such a copy (`Short`). `Far`, the place of the
barrier (the largest 64-bit number in the code), is behind every destination. No two
copies have the same destination (`DistinctAssumption`): the model's heap is a set, in
which a copy announced twice is one copy, while the treap of the code holds both. Such a
stream is malformed, and the code breaks at the second copy, unless both were in memory
and the first was spilled: `eraseDest` then takes every node of that destination out of
the heap, the second copy's bytes stay in their chunks, and the block may pass. Only the proofs about the bytes need that; the theorems about the
buffers, chunks, limit and marks do not. No copy is empty (`Stat`): the length 0 is that of a mark. The treap is the set of its
nodes. The memory limit is soft: a copy is saved whole once a chunk's room is left, and
a block is brought back without another look at the limit. `MemoryBounded`
allows the last chunk of one copy and what the copies of one block take over and above
their place on the disk, and no more. The buffers are of one size class. A header with sizes
no block can have is the trailer after the first block, and damage before it.

### SetupPlan and SetupScript

`SetupPlan` is `calls`: a state per instruction (`psState`: stack with references,
globals, parameters, flag), a worklist (`Visit`), joins (`Merge`), and then the calls
read off in the order of the text (`ReadCall`), procedures of the script analysed in
place (`EnterCall`, `LeaveCalls`). Instructions are the IFPS operations by name;
operations whose results the analysis drops are `blur`. Procedure names are
`extract` and `delete` for those with file work (`ISArcExtract`, `ISExec`, `EXEC`; `DELETEFILE`,
`DELTREE`), `expand` for those with a known result, `ask` and `outs` for others.

`SetupScript` also has what the repository has not: the machine. It runs a script
with unknown results and unknown globals at every combination of values (`Probes`)
and keeps the file work done (`trace`). `Converged` is about the analysis alone: calls are read
off only from a fixpoint. `Covers` compares the two, for scripts with
five conditions, each of which TLC shows to be necessary: no file work in a loop
(`Forward`); parameters are not assigned (`ParamsKept`: the analysis never writes
one, `plan.go:69`); called procedures leave globals alone (`GlobalsKept`: they are
analysed from unknown globals and without effect on the caller); external
procedures return results only (`ResultsOnly`); no reference is on the stack where
ways meet (`NoReferenceMeets`). The last is how compiled
Pascal looks, where an argument is pushed right before its call; the others are
assumptions about the script of an installer.

## 3. The runs

Passing runs, with the distinct states TLC finds (thousands):

| run | question | states |
|---|---|---|
| `recipe` | every recipe of one to three of eight commands over three files, some of four around a barrier, and batch files run in `{app}` or in their own directory, with lines that come to no task: order, serializability, and under fairness it returns; the waits shown are those kept where the directories mean the same files | 288k |
| `nested` | recipes that call recipes, up to three deep, which exist, are rewritten or are produced on the way, with errors: serializability under the conditions above, one scheduling goroutine unless a recipe is produced, and it returns, recursion included | 92k |
| `staging` | two commands and a hash task over four names (two spellings, a directory and a file of one name), scripts of up to three operations, a disk that fails: index and disk agree, right reads, one race only, the locks never lock up | 27k |
| `install` | up to two of nine records, some of three, two volumes, two files: complete, verified, no staging left, volumes kept only for a use to come, and under fairness it returns | 398k |
| `solid` | one or two solids, up to three members each, semaphore of two, disk and memory, a name twice: whole members, whole streams, no late write, last close wins in memory, and under fairness it returns | 130k |
| `fourx4` | streams of up to three blocks, two workers: order, conservation, honest ends, no leak, and the refinement of `BlockStream` | 64k |
| `srep` | streams of up to four blocks with up to five copies, memory for about three and up to three on a block of the disk, copies too long for the disk, and malformed and truncated streams: the refinement of `FutureLZ`, nothing lost or owned twice, bounded memory, reading ends | 96k |
| `setup` | about 1,600 scripts, of up to three of eleven phrases (assignments, file work, questions, calls, jumps ahead and back) and some by hand: the plan covers every run, calls are read off only from a fixpoint, and the analysis ends | 31k |

Why the bounds are enough to be interesting. Recipes of three commands have a
writer, a reader and a second writer of one file, and a barrier before or after
two others, which is every pattern the four stamps distinguish; proofs remove
the bound. Two records are enough for a file to be placed and then replaced,
removed or patched; a third is needed for a volume that stays decoded between
two uses, which the longer plans have. The semaphore of 2 (4 in the code) is
below the number of members of a solid, so the reader has to wait for writers.
Two workers and three blocks reach every order of completion with a held block;
the results channel holds two, fewer than the blocks in flight.
Three levels of recipes have a Control leaf inside an inlined recipe and the other way
round; the bound on depth, which recursive recipes reach, is `MaxDepth` 3. In the code it
is 32, of which each nested call takes two, one in `scheduleWords` and one in
`recipeLines`: about 15 calls deep. Two commands and a hash task are every kind of holder of the two locks.
Four copies of up to three bytes in chunks of two overflow a memory of seven
bytes, so that copies are chained, spilled, brought back and spilled again, with
numbers of disk blocks used twice. A block on the disk holds three records of copies of one byte, which is
what the walk needs to start over to any effect: of three copies it takes the last, then the
first, then from the top the one between. Both outcomes of a walk occur, and so do
streams that are read to the end astray and streams that break. The streams with blocks of seven have a copy of
five bytes, which just fits, and of six and seven, which do not. Three phrases give a branch around an assignment
before a use, a loop around one, and a join behind a join; runs of the machine
have 45 steps (`Fuel`), after which only endless loops are still running.
`Patience` is the code's 64 visits per instruction. An instruction is visited again
only when its state lost something, so that 64 is enough for any script that does not
carry a change through more than about a hundred variables in one loop.

Violation runs. Each checks one property that a document of the repository
states, and TLC shows how the code breaks it:

| run | what happens |
|---|---|
| `recipe_two_readers` | `lastUse` holds one reader: a rewrite overtakes the other |
| `install_overwritten` | an extract record replaces a file that was hashed before |
| `install_spurious_failure` | a hash task finds the store emptied after the copy |
| `srep_astray` | the walk of `virtMem.save` starts over and marks its block too late; a sound stream is reported broken |

Further disagreements can be seen with the modules, by a change of one of the cfgs:

- `LastCloseWins` for `MemoryLastCloseWins` in `Solid.cfg`: two writers of one file
  on disk mix their bytes, while `dest.go:13-14` says that the last close wins.
- `WaitsShown` for `AlikeShown` in `Recipe.cfg`: a batch file of `{tmp}` that is run in `{app}`
  and names a file with and without `{app}`; the scheduler's wait is not printed.
- In `RecipeTwoReaders.cfg`, one of five other recipes of `MCRecipe` for `TwoReaders`, with the paths
  and files `TreePaths`, `CasePaths` or `ToolPaths` and the start `TreeStart` or `ToolStart`:
  `RenameInDirectory` (the destination of `ren` in a subdirectory is declared elsewhere),
  `MoveIntoDirectory` (a move into a directory declares the directory), `TwoSpellings` (two
  spellings of a name are one file and two stamps), `RenamedTool` (a tool under another
  name declares nothing) and `DeletedTool` (the tool's binary is read and not declared). None
  of them is tame, each for another reason, and each violates `SerialReads`.

`TameSerial` and `VerifiedExit` say what remains true in spite of these: tame
recipes are serializable, and an installation whose records do not undo each
other never reports a false success. The README says that checksums are checked before
the final tree is written; the hash tasks spawned while records are applied are
joined only after it (`finishHashes` waits for its own). `VerifiedExit` is what
holds: nothing wrong is reported as a success.

### Fairness

All fairness is weak and of goroutines that can take a step: the Go runtime runs
each of them, the task group starts tasks whose dependencies are done when a pool
has room, and decoders, tools and reads of local files return. Nothing is assumed
of the user, of failures, or of a caller that has stopped reading. In
`SolidExtract` and `RecipeSchedule` fairness is of a whole kind of step, because
these systems run down: each step brings them closer to the end; the same holds of
`NestedRecipe`, where `Progress` is any step but a fault. In `StagingStore` each actor
is a goroutine that goes on (a lock is released after finitely many steps, and the
scripts end, which is why that run does not check for deadlock and `Returns` does). `SrepReader`
and `SetupPlan` have one thread, which runs on (`ReadsOn`, `RunsOn`: weak fairness
with its ENABLED written out; a reader in a loop of `virtMem.save` that did not end could
take no step, and `Ends` would fail). `BlockStream` answers a Read that waits (`Answer`).

### Assumptions about the task group

`taskgroup` and `progress` are not in the repository. The models take from their
use: a task starts after its dependencies returned nil; pools bound the tasks
that run; `GoIsolated`, `Isolate` and `Each` return after the tasks spawned below
them; a session's `Wait` returns after all its tasks, with the first error; a
task that has not begun when its context is cancelled is dropped.

## 4. The proofs

Every theorem below holds for all values of the constants under the named
assumptions of its module, and nothing else. The assumptions say what kind of thing a
constant is (recipes are sequences of leaves, limits are positive, volumes are sequences of
solids); three of them say more. `StagingAssumption`: actors that run side by side are
about different files, which `RecipeSchedule` is proved to arrange for the leaves of a tame
recipe, and which nothing arranges for a hash task and a later extract or remove record;
`ingest` is of the main goroutine and `create` of barrier leaves, so that beside them there
are hash tasks only; and a name's spellings lie in spellings of its directory.
`SrepAssumption` and `DistinctAssumption` are discussed above. TLC evaluates all of them
on the runs.

An invariant that a run checks is seldom inductive. Each proof module has the
strengthening it needs as a conjunction of named parts, proves `Init => IInv` and
`IInv /\ [Next]_vars => IInv'` part by part and action by action, and derives the
properties from it.

### Scheduler and inspector (`RecipeScheduleProofs`)

- `TypeCorrect`: `Spec => []TypeOK`.
- `OrderCorrect`: `Spec => [](WriteOrder /\ ReadOrder)`; `ReadersBefore` is its second half.
- `Serializable`: `Spec => []TameSerial`.
- `ShownTrue`: `InspectSpec => []AlikeShown`.

`WriteOrder` and `ReadOrder` are not inductive: the stamps forget. What makes
them hold is that what a stamp has forgotten is before what it remembers. The
strengthening is in parts:

- `Past`, `DepsEarlier`: tasks, stamps and dependencies name leaves spawned
  already, and a dependency an earlier one than its leaf.
- `StampW`, `StampR`: `lastWrite` and `lastUse` hold, for each file, the latest
  writer and the latest reader since it.
- `DepsSound`, `OverSound`: an earlier leaf that conflicts with a leaf is among
  its dependencies, or conflicts with one of them that lies in between. For
  readers this needs `SingleReader`.
- `OrderInv`: a started leaf's dependencies have finished; since the one
  in between has started, it has itself waited for the earlier leaf (`WriteOrder`, and `ReadersFirst`, which is `ReadOrder` without the
  condition on footprints).
- `StoreSound`, `TameInv`: each file holds the highest-numbered leaf that has
  written it, and everything read so far is the sequential provenance.

`ShownTrue` relates the scheduler's state to a function the inspector computes by
recursion over the lines of a text that it resolves on its own. That this function obeys its
recursion up to any length (`StampsRecursive`) is an induction. `SetInduction` (a set that has 0
and the successor of each of its numbers has all of them) follows from the well-foundedness of
the order, and the lemma uses it for the set of lengths up to which a function obeys the
recursion. `Mirror` then says that the inspector's stamps behind the line of the last leaf are
the scheduler's, with lines for leaves and files under the names the other directory gives
them; lines that come to no task leave the stamps as they are (`IdleLines`). It needs that
a renaming never makes two files one, and that a line declares what its leaf does
(`Aligned`); without the latter it is false (section 3). The
inspector removes the line itself from its waits and the scheduler does not; by `StampW`
and `StampR` no stamp names it.

### Nested recipes (`NestedRecipeProofs`)

- `StampsUnshared`: `NestedSpec => []OneScheduler`.

A second goroutine at the stamps is a Control leaf (`SchedulersControl`,
`RacedControl`); a Control leaf calls a recipe that was not there when the call was
scheduled (`ControlMissing`); and what was there and is gone was removed by a leaf
(`GoneRemoved`). The attempt to prove an earlier form, "only a recipe that is not there
from the start", failed for a good reason: a recipe may exist, be moved away by one
line and be produced again by another. TLC confirms that (script `Moved` in
`MCNested`), and `OneScheduler` now says so.

- `NestedSerializable`: `NestedSpec => []NestedSerial`, for every set of recipes, however
  they call each other and themselves.

The argument is that of `Serializable`, for leaves that come into being while others
run and in several goroutines. Its base is an order: under `ControlLast` the number of a
leaf is its rank in the text (`TextOrder`, `FlatIsProg`). The lines of a recipe that is
read lie below its call and so before all that remains of the caller (`InlinedLines`);
what comes after a Control leaf is below it, so only the goroutine that
began last can spawn (`LastSpawns`). Places are sequences of line numbers, and a few
lemmas say how "above" and "to the left" compose (`LeftOfBelow`, `BelowLeft`,
`BeforeOrder`). When a leaf is spawned every command is in the stamps (`CommandsStamped`);
a Control leaf need not be, because recording it may come after the leaves it spawns. The
invariant about dependencies therefore leaves Control leaves out, and a reader that the new leaf
overwrites may be neither a dependency nor followed by one: then a Control leaf lies
between, which has started, so that the reader is over (`NestedOver`, `NestedStart`). From there
`Written` and `NestedStore` give each leaf the sequential content (`NestedRead`,
`NestedWrite`). A recipe read while scheduling has the content it had at the start, for whoever
had written it would come before the call (`CallsFirst`). The invariant
(`NestedInv`) was checked with TLC on the scripts of `MCNested` and three more before it was proved.

### Installation (`InstallSessionProofs`)

- `InstallTypes`, `CompleteOnExit` (`ExitComplete`), `VerifiedOnExit` (`VerifiedExit`),
  `NothingLeft` (`NoStagingLeft`), `KeptOnlyForUse` (`KeptForUse`).

`Applied`: the store holds what the records before the present one leave, in every
path, and Dest follows it during the copy; that needs the last record that touches a path
(`LastBefore`), unique by its definition. `Counted`: `remaining` is the number of uses
from the present record on, so a decoded directory still open has a use to come.
`Frozen`: if records do not undo each other, no later record touches a hashed file.
`Recorded`: a task that failed has told the session before it is joined.

### Solid extraction (`SolidExtractProofs`)

- `ExtractTypes`, `ExtractsIntact` (`Intact`), `ReadsWholeStream` (`WholeStream`),
  `LastCloseWinsInMemory` (`MemoryLastCloseWins`), `NothingWritesLate` (`NoLateWrite`, an
  action property).

`ReadUp`: the loop has spawned a task for every member before `next`. `Joined`: a
solid that is done has all its tasks done without error, and `extractSolids` returns after
all solids. `Passed`, `InMemory`, `OnDisk`: what a task that is over has left: in memory
because Close installs a buffer of its own, on disk because no other task has its name.

### 4x4 reader (`FourX4Proofs`)

- `ReaderTypes`: `Spec => []TypeOK`, the channels' capacities included.
- `DeliveryInOrder` (`InOrder`), `EOFComplete` (`CompleteAtEOF`), `ErrorHonest`
  (`HonestError`), `BlocksConserved` (`Conserved`).
- `ReadsSequentially`: `Spec => Sequential!SafeSpec`, the refinement of `BlockStream`.

`CompleteAtEOF` says nothing of the states before the end, so it needs the whole
life of the pool (`IInv`): blocks under way were read before `seq` (`Early`); a block
that passed for good decoded (`Good`); until the caller cancels, errors are about the
stream (`Blamed`); while the group lives, a block that was read is handed out or
on its way (`Kept`); a group that ended without the caller's doing left an error
in `results`, which the caller meets before the end (`Told`); how the goroutines
end (`Ends`). At the end of `results` nothing is on its way and no error was
left, so the group is alive and every block was handed out. `DeliveryInOrder`
adds that `take` hands out `want` and nothing else. The refinement maps each step to one
of `BlockStream` or a stutter: a block handed out is the abstract reader's next, an
error or an end is one it may give at that point. `BlocksConserved` adds to `Kept` that no
block is in two places (`Apart`).

### Staging store (`StagingStoreProofs`)

- `StoreConsistent` (`StoreAgrees`), `ReadersServed` (`ReadsRight`), `OnlyRemoveRaces`
  (`RaceOnlyWithRemove`).

The locks do not exclude every pair of actors (`Locked` says which they do). What keeps
the store right is that a step leaves the index entries, the inodes and the bytes of every
file that is not its own as they were (`Kept`), for which no two names may share an
inode (`OneName`); `UnderWay` is how far a write has got and `Reading` that what a reader has
found is still its file. `OnlyRemoveRaces` goes through the pairs of steps that use
the index: two under the plan's lock, two under the store's, and what is left.

### SREP reader (`SrepReaderProofs`)

- `BuffersSafe` (`BuffersOwnedOnce`), `ChunksSafe` (`ChunksConserved`), `MemoryLimited`
  (`MemoryBounded`), `MarksSafe` (`OneMarkPerBlock`).
- `PromiseKept`: `Spec => Promise!Init /\ [][~astray => PromisedStep]_vars`: until a mark is
  astray, and in the step that puts it astray, each step is one of `FutureLZ` or a stutter.
- `SpillingSucceeds`: a step to make room breaks the stream only when a copy in memory is
  too long for a block on the disk. This holds astray, too.

The buffers: a slot is filled without a look at what it holds; `Empty` says that the slots of a
block are free again when the next one begins, however the last one ended.

The next three follow from one invariant of the kernel, `KernelInv`, whose parts are
proved in this order:

1. Memory (`Sound`): the free list and the chains of the copies in memory are finite, share no chunk
   and together are all chunks there are. `SaveSound`: `memMgr.save` adds one chain of the
   length the copy needs (`OneMore`); `FreeSound`: `memMgr.free` takes one away (`OneLess`).
2. Heap (`IsHeap`, `Stores`): a finite set with one barrier, in which every copy in memory has a
   chain of its own of just the chunks its length needs.
3. The walk of `virtMem.save` (`Walking`): the copies it takes are in memory, none is taken
   twice, since each is out of the heap of the rounds after it, and their records fit into the
   block (`Weighs`). Nothing is said of their order: the walk may start over. The barrier has no
   bytes in memory, so it is never spilled.
4. The load of `virtMem.restore` (`Loading`): each record costs memory at most its size in the block and
   `Extra`; with the blocks bounded by `DiskBlock` this is the bound of `MemoryBounded`.
5. The disk (`Disk`, `Marked`): the vacant numbers are distinct and are just the empty blocks, and a
   block in use has one mark, at the destination of a copy in it, the least one unless the reader is
   astray. A mark leaves the heap in the
   step that frees its block's number.

`Where` says how far the stream has got: what is left to do is of the block being
decoded, whose end is before `Far`, so that `BringBack` and `Copy` never take the barrier
for due. The model's folds are handled as partial results: `Takes`, `FreesAll`, `Loads`, `Walks` and
`Sizes` name a function from the number of rounds to the state reached, and that such a
function exists up to every length follows from `SetInduction`, here too.

The last two need the bytes, and what is still to be done. `ReaderInv` adds three parts to
`Where` and `KernelInv`, the last of them only until a mark is astray:

1. `DataInv`: the copies that have their bytes, in memory (a chain's chunks, read from its
   first on) or in a block on the disk, are the `Items`; no two of them, nor one and a copy
   without bytes, have the same destination. `Items` is the same set before and after spilling
   (`SpillKeeps`) and bringing a block back (`BringBackKeeps`), and a copy made or
   saved changes it by that one (`CopyKeeps`, `KeepCopyKeeps`).
2. `ListInv`: the copies still to be saved are copies the block announces, inside it and into
   later blocks, so that no copy to save is longer than the block. With `SrepAssumption` this is why
   a lack of room for a copy is a lack of room for a whole block (`NoRoomForBlock`).
3. `AccountInv`: the items' bytes are those of the stream at their sources, and the copies
   kept together with those still to be saved are exactly the copies still to come: none is
   lost, none is kept twice, and every other copy announced so far ends before
   the reader's position. In the middle of a block this is `Made`, a `Ledger` of the
   copies announced, those to come, and the positions that no copy covers, of which there are
   as many as literals used.

What the stream means is a recursive function over positions (`Original`). It obeys its
recursion because every copy of a valid stream goes forward (`ValidForward`, `OriginalIs`); from
that come the bytes of a copy and of the bare positions (`OriginalCopied`, `OriginalBare`). A
copy inside the block may read bytes it has just written; `InsideMeans` is an induction
over its length.

A step of the reader is then a step of the promise: `Deliver` because a block in the making whose
copies are all made is the stream's (`WholeMeans`, `RestDecides`), and a step that
breaks because the ledger shows that the block cannot fit: a copy due before the reader's
position overlaps one already made, a gap longer than the literals left has too many bare
positions, and so on (`CopyBreaks`, `RestDecides`). Lack of memory is no reason to break:
with memory short there is a copy in it, the walk of `virtMem.save` reaches it or one
above it, and it fits into an empty block unless it is too long (`SpillFinds`, `SpillsAlways`,
`RoomIsMade`); a stream with such a copy may break (`TooLongIsShort`).

Astray, the account is lost: a copy that has come due is missed, and found later behind the
position. That even then the bytes delivered are right, which `KeepsPromise` says as well, is checked by
TLC and not proved.

### Setup metadata (`SetupPlanProofs`)

- `SetupConverged`: `Spec => []Converged`.
- `SetupForgets`: `Spec => [][OnlyForgets]_vars`: no state is lost, none learns anything, and an
  instruction is analysed with one height of stack.

`Converged` says that the states of an analysis with an empty queue are a fixpoint:
what is known before an instruction (`Weaker`) is known on every way to it, from the start of
the procedure and from each instruction that may precede it. Everything `calls` reads off
rests on that, and a call of a procedure of the script suspends an analysis in such a state.

The invariant (`Analysed`) is about analyses under way. The states of one fit together:
their parameters are those of the start, and the queue holds instructions that have a state. An
instruction with a state that is not in the queue is `Settled`: its successors have states that
are weaker than what follows from it. A state that arrives (`Arrive`) only
weakens what is there, and queues the instruction if it changes it (`Later`, which arrivals
at both successors compose to). So a settled instruction that is not queued by a visit has
kept its own state, and its successors have only become weaker. The instruction visited is
settled by the visit: by `MergeWeaker` what two ways agree on is weaker than either, and it
is queued again if it is its own successor and its state has changed. That the call of a settled
instruction is one of a procedure of the script (`Rejected`) makes `EnterCall` begin an
analysis that has code. Of the values nothing is assumed: the theorem is for any script, with
any constants and addresses. `SetupForgets` is what the steps between two states of the
invariant do (`NextForgets`): a visit makes the last analysis a later one (`VisitFacts`).

### What stays with TLC, and why

- Liveness (`Returns` of the scheduler, the staging store and solid extraction, `Terminates`, `NoLeak`,
  `NestedReturns`, `Ends`, `Converges`, and the fairness of `BlockStream` in `KeepsOrder`): it needs fairness and ENABLED.
- `Covers` of `SetupPlan`: soundness of an abstract interpretation, for the
  machine of `SetupScript`. `SetupConverged` is the half of it that is about the analysis; the
  other relates a fixpoint to all runs of the machine. Of instruction sequences that no
  compiler emits it would ask for more conditions than the five: a variable must not be
  addressed before it is on the stack, where a chain of references (`Behind`) could
  later take another way than the machine's, and a call with a result must find its
  variable on the stack (`len(s.stack) > 1`, `plan.go:242`).
- The part of `KeepsPromise` that is about a reader astray, and that the loop of
  `virtMem.save` ends although it may start over (`WalkEnds`, of which `Ends` is the property): the
  theorems are about its steps, and a loop that does not end takes none.
- `RecipeFiles`: what its folds over path names compute for every sequence.

No module declares a RECURSIVE operator.

## 5. Not modelled, and why

- The codecs under `stream/` and `reconstruct/` are arithmetic on bytes, most of
  it ported or generated (`stream/mpz/lift.go`); the container and `setup.exe`
  parsers are sequential parsing. What they promise their callers, a stream of a
  known length or an error, is in the models.
- `internal/xtl`, `internal/chunkbuf`, `internal/pages`: helpers with small states.
- The pipe of `reconstruct/fsb`: one goroutine behind `io.Pipe`.
- `x3`'s nested use of the CPU pool: whether a task that waits for tasks of its own
  pool gives back its place is a matter of the task group, which is external.
- Logging, progress display, flags and formatting of errors.
- File permissions, directories and modes.

## 6. Plan

Done, in this order: scheduler, installation, solid extraction, 4x4 reader, the
first proofs about the scheduler and the 4x4 reader, nested recipes, the inspector, the
staging store, SREP, the refinement of the 4x4 reader, the analysis of setup
scripts; then the proofs about the installation, the solids, the staging store, nested recipes, the
inspector and the SREP buffers, the refinement of the 4x4 reader as a theorem, the memory,
the limit and the marks of the SREP kernel, the refinement of the SREP reader until a mark is
astray as a theorem, serializability of nested recipes, and what the analysis of setup scripts reaches and
only forgets on the way. Still to do, most important first:

1. `Covers` of `SetupPlan` as a theorem, from `SetupConverged`, with those two conditions.
2. The bytes of a SREP reader astray: a ledger that allows for copies missed.
3. `virtualPath` and pipeline strings against reference definitions; the counts of XTL
   duplicates.
