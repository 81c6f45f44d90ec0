--------------------------- MODULE RecipeSchedule ---------------------------
(***************************************************************************)
(* The scheduler that turns one recipe (a batch file of installer          *)
(* commands) into concurrently running tasks: reconstruct_schedule.go.     *)
(*                                                                         *)
(* The scheduling goroutine walks the commands in order.  For each one it  *)
(* computes the tasks it has to wait for from four stamps (lastWrite,      *)
(* lastUse, prior, unknown), spawns a task with those dependencies and     *)
(* updates the stamps.  Spawned tasks run as soon as their dependencies    *)
(* have finished, beside the scheduling goroutine and beside each other.   *)
(*                                                                         *)
(* A leaf carries two footprints, both computed by module RecipeFiles.     *)
(* "reads", "writes" and "glob" are what recipeFiles declares about the    *)
(* command ("bad": recipeFiles returns an error); "uses" and "puts" are    *)
(* what the command really touches when words executes it.  Of the uses,   *)
(* "needs" fail the command when the file is missing; of the puts, "drops" *)
(* remove the file and "keeps" rewrite it only where it exists.            *)
(* Every store access is a step of its own: each is one critical section   *)
(* of reconstructionPlan.mu.                                               *)
(*                                                                         *)
(* The content of a file is abstracted to its provenance: the number of    *)
(* the leaf that last wrote it, 0 for what the recipe found there.  Tools  *)
(* are deterministic functions of what they read, so a run whose reads     *)
(* have the provenance of the sequential run computes the same bytes.      *)
(***************************************************************************)
EXTENDS Naturals, Integers, Sequences, FiniteSets

CONSTANTS
  Files,      \* virtual paths
  Programs,   \* the recipes considered, each a sequence of leaves
  Initial     \* the sets of files that may exist when the recipe starts

Leaf == [reads : SUBSET Files, writes : SUBSET Files,
         glob : BOOLEAN, bad : BOOLEAN,
         uses : SUBSET Files, needs : SUBSET Files,
         puts : SUBSET Files, drops : SUBSET Files, keeps : SUBSET Files]

ASSUME RecipeAssumption ==
  /\ \A p \in Programs : p \in Seq(Leaf)
  /\ \A s \in Initial : s \subseteq Files

VARIABLES
  prog,       \* the recipe, flattened (constant)
  present,    \* files that exist in the staging stores
  sched,      \* number of leaves the scheduling goroutine has spawned
  lastWrite,  \* path -> last non-glob leaf declared to write it, 0 if none
  lastUse,    \* path -> last non-glob reader since that write, 0 if none
  prior,      \* every leaf spawned so far
  unknown,    \* the glob leaves spawned so far
  deps,       \* leaf -> leaves its task waits for
  started,    \* leaves whose task has begun to run
  finished,   \* leaves whose task has returned nil
  got,        \* leaf -> file -> provenance it read, Unread before
  wrote,      \* leaf -> files it has already written or removed
  store,      \* file -> provenance of its present content
  failed,     \* leaves whose task returned an error
  canceled,   \* the context of the recipe is cancelled
  result      \* what runScheduled returned

vars == <<prog, present, sched, lastWrite, lastUse, prior, unknown, deps,
          started, finished, got, wrote, store, failed, canceled, result>>

Unread == -1
Ids == 1..Len(prog)

stamps == <<lastWrite, lastUse, prior, unknown>>

-----------------------------------------------------------------------------
\* A leaf that is running: its task has begun and has not returned.
Running(i) == i \in started /\ i \notin finished /\ i \notin failed

\* fileDeps: the dependencies of a leaf, from the stamps (0 is no stamp).
FileDepsNoUse(l) ==
  IF l.glob THEN prior \cup unknown
  ELSE ({lastWrite[f] : f \in l.reads \cup l.writes} \ {0}) \cup unknown

FileDepsReadsOnly(l) ==
  IF l.glob THEN prior \cup unknown
  ELSE (({lastWrite[f] : f \in l.reads} \cup {lastUse[f] : f \in l.writes}) \ {0})
       \cup unknown

FileDepsSelf(l) ==
  IF l.glob THEN prior \cup unknown \cup {sched + 1}
  ELSE ({lastWrite[f] : f \in l.reads \cup l.writes} \ {0}) \cup unknown

FileDeps(l) ==
  IF l.glob THEN prior \cup unknown
  ELSE (({lastWrite[f] : f \in l.reads \cup l.writes} \cup {lastUse[f] : f \in l.writes})
         \ {0})
       \cup unknown

RecordLeafNoUnknown(id, l) ==
  /\ prior' = prior \cup {id}
  /\ unknown' = unknown
  /\ lastWrite' = [f \in Files |->
       IF ~l.glob /\ f \in l.writes THEN id ELSE lastWrite[f]]
  /\ lastUse' = [f \in Files |->
       IF l.glob THEN lastUse[f]
       ELSE IF f \in l.writes THEN 0
       ELSE IF f \in l.reads THEN id ELSE lastUse[f]]

RecordLeafNext(id, l) == RecordLeafNoUnknown(id + 1, l)

\* recordLeaf: the stamps after leaf id has been spawned.  A glob leaf only
\* joins prior and unknown; the others stamp what they read and write.
RecordLeaf(id, l) ==
  /\ prior' = prior \cup {id}
  /\ unknown' = IF l.glob THEN unknown \cup {id} ELSE unknown
  /\ lastWrite' = [f \in Files |->
       IF ~l.glob /\ f \in l.writes THEN id ELSE lastWrite[f]]
  /\ lastUse' = [f \in Files |->
       IF l.glob THEN lastUse[f]
       ELSE IF f \in l.writes THEN 0
       ELSE IF f \in l.reads THEN id ELSE lastUse[f]]

-----------------------------------------------------------------------------
\* resetStamps and the start of runScheduled.
Init ==
  /\ prog \in Programs
  /\ present \in Initial
  /\ sched = 0
  /\ lastWrite = [f \in Files |-> 0]
  /\ lastUse = [f \in Files |-> 0]
  /\ prior = {}
  /\ unknown = {}
  /\ deps = [i \in Ids |-> {}]
  /\ started = {}
  /\ finished = {}
  /\ got = [i \in Ids |-> [f \in Files |-> Unread]]
  /\ wrote = [i \in Ids |-> {}]
  /\ store = [f \in Files |-> 0]
  /\ failed = {}
  /\ canceled = FALSE
  /\ result = "none"

\* scheduleLeaf: the scheduling goroutine spawns the next leaf.  It never
\* looks at the context, so it goes on after a task has failed.
ScheduleLeaf ==
  /\ sched < Len(prog)
  /\ ~prog[sched + 1].bad
  /\ sched' = sched + 1
  /\ deps' = [deps EXCEPT ![sched + 1] = FileDeps(prog[sched + 1])]
  /\ RecordLeaf(sched + 1, prog[sched + 1])
  /\ UNCHANGED <<prog, present, started, finished, got, wrote, store, failed,
                 canceled, result>>

\* recipeFiles rejects the next command: scheduling stops with an error.
ScheduleError ==
  /\ sched < Len(prog)
  /\ prog[sched + 1].bad
  /\ sched + 1 \notin failed
  /\ failed' = failed \cup {sched + 1}
  /\ canceled' = TRUE
  /\ UNCHANGED <<prog, present, sched, stamps, deps, started, finished, got,
                 wrote, store, result>>

\* The task group starts a spawned task once its dependencies have finished;
\* words returns at once when the context is already cancelled.
StartLeaf(i) ==
  /\ i <= sched
  /\ i \notin started
  /\ deps[i] \subseteq finished
  /\ ~canceled
  /\ started' = started \cup {i}
  /\ UNCHANGED <<prog, present, sched, stamps, deps, finished, got, wrote,
                 store, failed, canceled, result>>

\* p.read or p.matches inside words: one file, an error when it is needed and
\* missing.
ReadFile(i, f) ==
  /\ Running(i)
  /\ f \in prog[i].uses
  /\ got[i][f] = Unread
  /\ wrote[i] = {}
  /\ got' = [got EXCEPT ![i][f] = store[f]]
  /\ LET missing == f \in prog[i].needs \ present IN
       /\ failed' = IF missing THEN failed \cup {i} ELSE failed
       /\ canceled' = (canceled \/ missing)
  /\ UNCHANGED <<prog, present, sched, stamps, deps, started, finished, wrote,
                 store, result>>

ReadAll(i) == \A f \in prog[i].uses : got[i][f] # Unread

\* p.put, p.create or p.remove inside words: one file.
WriteFile(i, f) ==
  /\ Running(i)
  /\ ReadAll(i)
  /\ f \in prog[i].puts \ wrote[i]
  /\ store' = [store EXCEPT ![f] = i]
  /\ present' = IF f \in prog[i].drops THEN present \ {f}
                ELSE IF f \in prog[i].keeps THEN present
                ELSE present \cup {f}
  /\ wrote' = [wrote EXCEPT ![i] = @ \cup {f}]
  /\ UNCHANGED <<prog, sched, stamps, deps, started, finished, got,
                 failed, canceled, result>>

\* words returns nil.
FinishLeaf(i) ==
  /\ Running(i)
  /\ ReadAll(i)
  /\ wrote[i] = prog[i].puts
  /\ finished' = finished \cup {i}
  /\ UNCHANGED <<prog, present, sched, stamps, deps, started, got, wrote,
                 store, failed, canceled, result>>

\* A tool rejects its input: the task fails and the group is cancelled.
ToolError(i) ==
  /\ Running(i)
  /\ failed' = failed \cup {i}
  /\ canceled' = TRUE
  /\ UNCHANGED <<prog, present, sched, stamps, deps, started, finished, got,
                 wrote, store, result>>

\* The session is cancelled from outside (interrupt, checksum mismatch).
CancelSession ==
  /\ ~canceled
  /\ result = "none"
  /\ canceled' = TRUE
  /\ UNCHANGED <<prog, present, sched, stamps, deps, started, finished, got,
                 wrote, store, failed, result>>

\* GoIsolated returns when the scheduling function and every task it spawned
\* are over; tasks that never started after a cancel count as over.
RunScheduledReturns ==
  /\ result = "none"
  /\ sched = Len(prog) \/ sched + 1 \in failed
  /\ \A i \in Ids : ~Running(i)
  /\ \/ finished = Ids /\ result' = "ok"
     \/ canceled /\ result' = "error"
  /\ UNCHANGED <<prog, present, sched, stamps, deps, started, finished, got,
                 wrote, store, failed, canceled>>

Returned == result # "none" /\ UNCHANGED vars

Next ==
  \/ ScheduleLeaf
  \/ ScheduleError
  \/ \E i \in Ids : StartLeaf(i)
  \/ \E i \in Ids, f \in Files : ReadFile(i, f)
  \/ \E i \in Ids, f \in Files : WriteFile(i, f)
  \/ \E i \in Ids : FinishLeaf(i)
  \/ \E i \in Ids : ToolError(i)
  \/ CancelSession
  \/ RunScheduledReturns
  \/ Returned

\* The Go runtime runs every runnable goroutine and the task group starts
\* every ready task.  Nothing is assumed of failures and of the user.
Fairness ==
  /\ WF_vars(ScheduleLeaf \/ ScheduleError)
  /\ WF_vars(\E i \in Ids : StartLeaf(i))
  /\ WF_vars(\E i \in Ids, f \in Files : ReadFile(i, f))
  /\ WF_vars(\E i \in Ids, f \in Files : WriteFile(i, f))
  /\ WF_vars(\E i \in Ids : FinishLeaf(i))
  /\ WF_vars(RunScheduledReturns)

Spec == Init /\ [][Next]_vars
FairSpec == Spec /\ Fairness

-----------------------------------------------------------------------------
(* What the stamps are meant to guarantee.                                 *)

\* Leaf j must not overtake leaf i: one of them is a glob, or i writes what
\* j declares.
Follows(p, i, j) ==
  \/ p[i].glob
  \/ p[j].glob
  \/ p[i].writes \cap (p[j].reads \cup p[j].writes) # {}

\* Leaf j overwrites what leaf i declares to read.
Overwrites(p, i, j) == p[i].reads \cap p[j].writes # {}

\* Every file a non-glob leaf writes is one recipeFiles declared, and so is
\* every file it reads, unless nobody writes that one.
Covered(p) ==
  \A i \in DOMAIN p : ~p[i].glob =>
    /\ p[i].puts \subseteq p[i].writes
    /\ \A f \in p[i].uses \ (p[i].reads \cup p[i].writes) :
         \A k \in DOMAIN p : f \notin p[k].puts

\* No two leaves read the same version of a file that a later leaf replaces:
\* between two pure readers of it some leaf writes it or is a glob.
SingleReader(p) ==
  \A i, j, k \in DOMAIN p : \A f \in Files :
    ( /\ i < j /\ j < k
      /\ f \in p[i].reads \ p[i].writes
      /\ f \in p[j].reads \ p[j].writes
      /\ f \in p[k].writes ) =>
    \E m \in i..k : p[m].glob \/ (m # k /\ f \in p[m].writes)

Tame(p) == Covered(p) /\ SingleReader(p)

\* v is the provenance file f has when the commands before j have run one
\* after the other.
IsSerial(p, v, j, f) ==
  \/ v = 0 /\ \A i \in DOMAIN p : i < j => f \notin p[i].puts
  \/ /\ v \in DOMAIN p
     /\ v < j
     /\ f \in p[v].puts
     /\ \A i \in DOMAIN p : (v < i /\ i < j) => f \notin p[i].puts

\* Type invariant: what the stamps, the task sets and the store may hold.
TypeOK ==
  /\ prog \in Seq(Leaf)
  /\ present \subseteq Files
  /\ sched \in 0..Len(prog)
  /\ lastWrite \in [Files -> 0..Len(prog)]
  /\ lastUse \in [Files -> 0..Len(prog)]
  /\ prior \subseteq Ids
  /\ unknown \subseteq Ids
  /\ deps \in [Ids -> SUBSET Ids]
  /\ started \subseteq Ids
  /\ finished \subseteq Ids
  /\ got \in [Ids -> [Files -> {Unread} \cup 0..Len(prog)]]
  /\ wrote \in [Ids -> SUBSET Files]
  /\ store \in [Files -> 0..Len(prog)]
  /\ failed \subseteq Ids
  /\ canceled \in BOOLEAN
  /\ result \in {"none", "ok", "error"}

\* The dependencies taken from the four stamps are enough, whatever the
\* recipe: a leaf never starts before every earlier leaf that writes a path
\* it declares, and a glob leaf is a barrier in both directions (fileDeps,
\* recordLeaf).
WriteOrder ==
  \A i, j \in Ids : (i < j /\ Follows(prog, i, j) /\ j \in started) => i \in finished

\* In a tame recipe a leaf that overwrites a path starts only after every
\* earlier leaf that declared to read it (the lastUse stamp of fileDeps).
ReadOrder ==
  Tame(prog) =>
    \A i, j \in Ids : (i < j /\ Overwrites(prog, i, j) /\ j \in started) => i \in finished

\* Every file a leaf reads has the content the sequential batch run would
\* have given it, whatever the interleaving of the tasks.
SerialReads ==
  \A j \in Ids : \A f \in Files :
    got[j][f] # Unread => IsSerial(prog, got[j][f], j, f)

\* Concurrent execution of a tame recipe is serializable: its reads are the
\* sequential ones, and when the recipe succeeds the files it leaves are too.
TameSerial ==
  Tame(prog) =>
    /\ SerialReads
    /\ result = "ok" =>
         \A f \in Files : IsSerial(prog, store[f], Len(prog) + 1, f)

\* runScheduled returns: the dependencies never make tasks wait in a circle.
Returns == <>(result # "none")

=============================================================================
