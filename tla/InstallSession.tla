--------------------------- MODULE InstallSession ---------------------------
(***************************************************************************)
(* One installation, from the volumes to the game tree: Extractor.extract  *)
(* with reconstruction records (extract.go, reconstruct.go,                *)
(* reconstruct_plan.go, reconstruct_schedule.go, checksum.go, run.go).     *)
(*                                                                         *)
(* The main goroutine applies the setup records one after the other to a   *)
(* staging store, verifies the files the installed manifest lists, copies  *)
(* the store to Dest and waits for the session.  Beside it run the tasks   *)
(* of the session: one MD5 check per listed volume, which cancels the      *)
(* session on a mismatch, and one hash task per manifest file that extract *)
(* has placed and that no later record may write.  The main goroutine      *)
(* waits for those only at the very end (withSession).                     *)
(*                                                                         *)
(* Contents are 0 (no file), 1 (what the manifest lists) and 2 (anything   *)
(* else).  Recipes are one record here: module RecipeSchedule has their    *)
(* inside.                                                                 *)
(***************************************************************************)
EXTENDS Naturals, Sequences, FiniteSets

CONSTANTS
  Vols,    \* volume names
  Paths,   \* installed files
  Plans    \* the installations considered

NoFile == 0
Listed == 1
Content == {NoFile, Listed, 2}

\* A setup record.  puts: what it leaves in the files it touches (a remove
\* record puts NoFile); declares, glob: what opsMayWrite learns of a command.
Record == [kind : {"extract", "command", "remove"}, vol : Vols, optional : BOOLEAN,
           touches : SUBSET Paths, puts : [Paths -> Content],
           declares : SUBSET Paths, glob : BOOLEAN]

\* An installation: its records, the manifest files, the volumes there are,
\* those with a listed MD5, and those whose bytes are damaged.
Plan == [ops : Seq(Record), want : SUBSET Paths, present : SUBSET Vols,
         sums : SUBSET Vols, damaged : SUBSET Vols]

ASSUME PlanAssumption == \A p \in Plans : p \in Plan

VARIABLES
  plan,      \* the installation (constant)
  pc,        \* where the main goroutine is
  opi,       \* the record it is at
  todo,      \* files the present record or the final copy still has to do
  store,     \* the app staging store
  appOpen,   \* its directory exists
  open,      \* volumes whose decoded staging directory exists
  remaining, \* volume -> extract records still to use it
  seen,      \* volumes decoded so far
  hashed,    \* manifest files for which a hash task was spawned
  late,      \* those spawned by finishHashes, which waits for them
  hash,      \* manifest file -> state of its hash task
  sum,       \* volume -> state of its MD5 task
  srcOpen,   \* Source can be opened: the command closes it after Extract
  dest,      \* the tree written to Dest
  canceled,  \* the session's context is cancelled
  failed,    \* the main goroutine has an error to return
  taskError, \* some task of the session returned an error
  faults,    \* interruptions and tool errors so far (history)
  result     \* what Extract returned

vars == <<plan, pc, opi, todo, store, appOpen, open, remaining, seen, hashed, late,
          hash, sum, srcOpen, dest, canceled, failed, taskError, faults, result>>

ops == plan.ops
op  == ops[opi]

States == {"none", "pending", "ok", "failed"}
tasks  == <<hash, sum, taskError, srcOpen>>

UsesRequired(v) ==
  {i \in DOMAIN ops : ops[i].kind = "extract" /\ ops[i].vol = v /\ ~ops[i].optional}

Uses(v) == {i \in DOMAIN ops : ops[i].kind = "extract" /\ ops[i].vol = v}

\* sourceComponents: a volume is optional when every record that uses it is.
Optional(v) == Uses(v) # {} /\ \A i \in Uses(v) : ops[i].optional

LaterMayWriteNever(p) == FALSE

\* opsMayWrite on the records after the present one: only commands count.
LaterMayWrite(p) ==
  \E i \in DOMAIN ops :
    i > opi /\ ops[i].kind = "command" /\ (ops[i].glob \/ p \in ops[i].declares)

-----------------------------------------------------------------------------
\* extract up to scheduleChecksums and the set-up of extractReconstructed:
\* the listed volumes are there and their MD5 tasks are spawned.
Init ==
  /\ plan \in Plans
  /\ pc = "op"
  /\ opi = 1
  /\ todo = {}
  /\ store = [p \in Paths |-> NoFile]
  /\ appOpen = TRUE
  /\ open = {}
  /\ remaining = [v \in Vols |-> Cardinality(Uses(v))]
  /\ seen = {}
  /\ hashed = {}
  /\ late = {}
  /\ hash = [p \in Paths |-> "none"]
  /\ sum = [v \in Vols |-> IF v \in plan.sums \cap plan.present THEN "pending" ELSE "none"]
  /\ srcOpen = TRUE
  /\ dest = [p \in Paths |-> NoFile]
  /\ canceled = FALSE
  /\ failed = FALSE
  /\ taskError = FALSE
  /\ faults = 0
  /\ result = "none"

\* An error return of the main goroutine: the deferred Closes come next.
Fail == pc' = "clean" /\ failed' = TRUE

\* The loop of run on an extract record whose volume is missing.
ExtractMissing ==
  /\ pc = "op" /\ opi <= Len(ops) /\ ~canceled
  /\ op.kind = "extract"
  /\ op.vol \notin plan.present
  /\ \/ op.optional /\ opi' = opi + 1 /\ UNCHANGED <<pc, failed>>
     \/ ~op.optional /\ Fail /\ UNCHANGED opi
  /\ UNCHANGED <<plan, todo, store, appOpen, open, remaining, seen, hashed, late, tasks,
                 dest, canceled, faults, result>>

\* waitDecoded finds the volume decoded, or decodes it: archive CRCs fail on
\* a damaged one, and a cancellation stops it.
ExtractDecode ==
  /\ pc = "op" /\ opi <= Len(ops) /\ ~canceled
  /\ op.kind = "extract"
  /\ op.vol \in plan.present \ open
  /\ \/ /\ open' = open \cup {op.vol}
        /\ pc' = "place"
        /\ UNCHANGED failed
     \/ /\ op.vol \in plan.damaged
        /\ Fail
        /\ UNCHANGED open
  /\ todo' = op.touches
  /\ seen' = IF pc' = "place" THEN seen \cup {op.vol} ELSE seen
  /\ remaining' = IF pc' = "place" THEN [remaining EXCEPT ![op.vol] = @ - 1] ELSE remaining
  /\ UNCHANGED <<plan, opi, store, appOpen, hashed, late, tasks, dest, canceled, faults,
                 result>>

ExtractDecoded ==
  /\ pc = "op" /\ opi <= Len(ops) /\ ~canceled
  /\ op.kind = "extract"
  /\ op.vol \in open
  /\ pc' = "place"
  /\ todo' = op.touches
  /\ seen' = seen \cup {op.vol}
  /\ remaining' = [remaining EXCEPT ![op.vol] = @ - 1]
  /\ UNCHANGED <<plan, opi, store, appOpen, open, hashed, late, tasks, dest, canceled,
                 failed, faults, result>>

\* store.ingest and scheduleHash for one file of the record.
PlaceFile(p) ==
  /\ pc = "place" /\ p \in todo /\ ~canceled
  /\ store' = [store EXCEPT ![p] = op.puts[p]]
  /\ todo' = todo \ {p}
  /\ LET spawn == p \in plan.want \ hashed /\ ~LaterMayWrite(p) IN
       /\ hashed' = IF spawn THEN hashed \cup {p} ELSE hashed
       /\ hash' = IF spawn THEN [hash EXCEPT ![p] = "pending"] ELSE hash
  /\ UNCHANGED <<plan, pc, opi, appOpen, open, remaining, seen, late, sum, srcOpen, dest,
                 canceled, failed, taskError, faults, result>>

\* The end of extract: the last record that uses a volume closes its staging.
KeepDecoded == open' = open

CloseDecoded == open' = IF remaining[op.vol] = 0 THEN open \ {op.vol} ELSE open

PlacedAll ==
  /\ pc = "place" /\ todo = {}
  /\ CloseDecoded
  /\ pc' = "op" /\ opi' = opi + 1
  /\ UNCHANGED <<plan, todo, store, appOpen, remaining, seen, hashed, late, tasks, dest,
                 canceled, failed, faults, result>>

PlaceCanceledKeeps ==
  /\ pc = "place" /\ todo # {} /\ canceled
  /\ Fail
  /\ UNCHANGED <<plan, opi, todo, store, appOpen, open, remaining, seen, hashed, late, tasks,
                 dest, canceled, faults, result>>

PlaceCanceled ==
  /\ pc = "place" /\ todo # {} /\ canceled
  /\ Fail
  /\ CloseDecoded
  /\ UNCHANGED <<plan, opi, todo, store, appOpen, remaining, seen, hashed, late, tasks,
                 dest, canceled, faults, result>>

\* A command record: its recipe writes its files one after the other.
BeginCommand ==
  /\ pc = "op" /\ opi <= Len(ops) /\ ~canceled
  /\ op.kind = "command"
  /\ pc' = "command"
  /\ todo' = op.touches
  /\ UNCHANGED <<plan, opi, store, appOpen, open, remaining, seen, hashed, late, tasks,
                 dest, canceled, failed, faults, result>>

CommandWrite(p) ==
  /\ pc = "command" /\ p \in todo
  /\ store' = [store EXCEPT ![p] = op.puts[p]]
  /\ todo' = todo \ {p}
  /\ UNCHANGED <<plan, pc, opi, appOpen, open, remaining, seen, hashed, late, tasks, dest,
                 canceled, failed, faults, result>>

\* The recipe is done.  Its scheduleHash loop names paths with their "app/"
\* prefix, which the manifest's keys do not have, and spawns nothing.
EndCommand ==
  /\ pc = "command" /\ todo = {}
  /\ pc' = "op" /\ opi' = opi + 1
  /\ UNCHANGED <<plan, todo, store, appOpen, open, remaining, seen, hashed, late, tasks,
                 dest, canceled, failed, faults, result>>

\* A tool returns an error, or the recipe is cancelled.
CommandFails ==
  /\ pc = "command"
  /\ Fail
  /\ \/ canceled /\ UNCHANGED faults
     \/ faults' = faults + 1
  /\ UNCHANGED <<plan, opi, todo, store, appOpen, open, remaining, seen, hashed, late,
                 tasks, dest, canceled, result>>

RemoveFiles ==
  /\ pc = "op" /\ opi <= Len(ops) /\ ~canceled
  /\ op.kind = "remove"
  /\ store' = [p \in Paths |-> IF p \in op.touches THEN NoFile ELSE store[p]]
  /\ opi' = opi + 1
  /\ UNCHANGED <<plan, pc, todo, appOpen, open, remaining, seen, hashed, late, tasks, dest,
                 canceled, failed, faults, result>>

\* contextError at the head of the loop.
OpCanceled ==
  /\ pc = "op" /\ opi <= Len(ops) /\ canceled
  /\ Fail
  /\ UNCHANGED <<plan, opi, todo, store, appOpen, open, remaining, seen, hashed, late,
                 tasks, dest, canceled, faults, result>>

-----------------------------------------------------------------------------
\* After the loop: every present volume that is not optional was decoded,
\* and finishHashes spawns the hash tasks that are left.
RequiredSeenSkipped == TRUE
RequiredSeen == \A v \in plan.present : Optional(v) \/ v \in seen

FinishHashes ==
  /\ pc = "op" /\ opi > Len(ops)
  /\ \/ /\ RequiredSeen /\ ~canceled
        /\ late' = plan.want \ hashed
        /\ hashed' = plan.want
        /\ hash' = [p \in Paths |-> IF p \in plan.want \ hashed THEN "pending" ELSE hash[p]]
        /\ pc' = "verify"
        /\ UNCHANGED failed
     \/ /\ ~RequiredSeen \/ canceled
        /\ Fail
        /\ UNCHANGED <<late, hashed, hash>>
  /\ UNCHANGED <<plan, opi, todo, store, appOpen, open, remaining, seen, sum, srcOpen, dest,
                 canceled, taskError, faults, result>>

VerifyReturnsOnSuccess ==
  /\ pc = "verify"
  /\ \A p \in late : hash[p] = "ok"
  /\ pc' = "write"
  /\ todo' = {p \in Paths : store[p] # NoFile}
  /\ UNCHANGED <<plan, opi, store, appOpen, open, remaining, seen, hashed, late, tasks,
                 dest, canceled, failed, faults, result>>

\* runScheduled("verify") returns when its own tasks are over.
VerifyReturns ==
  /\ pc = "verify"
  /\ \A p \in late : hash[p] \in {"ok", "failed"}
  /\ \/ /\ \A p \in late : hash[p] = "ok"
        /\ ~canceled
        /\ pc' = "write"
        /\ todo' = {p \in Paths : store[p] # NoFile}
        /\ UNCHANGED failed
     \/ /\ canceled \/ \E p \in late : hash[p] = "failed"
        /\ Fail
        /\ UNCHANGED todo
  /\ UNCHANGED <<plan, opi, store, appOpen, open, remaining, seen, hashed, late, tasks,
                 dest, canceled, faults, result>>

\* One task of "write dest".
WriteDest(p) ==
  /\ pc = "write" /\ p \in todo /\ ~canceled
  /\ dest' = [dest EXCEPT ![p] = store[p]]
  /\ todo' = todo \ {p}
  /\ UNCHANGED <<plan, pc, opi, store, appOpen, open, remaining, seen, hashed, late, tasks,
                 canceled, failed, faults, result>>

WriteCanceled ==
  /\ pc = "write" /\ todo # {} /\ canceled
  /\ Fail
  /\ UNCHANGED <<plan, opi, todo, store, appOpen, open, remaining, seen, hashed, late,
                 tasks, dest, canceled, faults, result>>

\* The tree is written; s.files = map[string][]byte{}.
WrittenAll ==
  /\ pc = "write" /\ todo = {}
  /\ store' = [p \in Paths |-> NoFile]
  /\ pc' = "clean"
  /\ UNCHANGED <<plan, opi, todo, appOpen, open, remaining, seen, hashed, late, tasks, dest,
                 canceled, failed, faults, result>>

\* The deferred s.Close and temp.Close.  The command runs Extract inside its
\* own session and closes Source before that session has ended.
CleanUp ==
  /\ pc = "clean"
  /\ appOpen' = FALSE
  /\ srcOpen' \in BOOLEAN
  /\ pc' = "wait"
  /\ UNCHANGED <<plan, opi, todo, store, open, remaining, seen, hashed, late, hash, sum,
                 taskError, dest, canceled, failed, faults, result>>

\* sess.Wait: the tasks that were never waited for, and the first error.
SessionDone ==
  /\ pc = "wait"
  /\ \A p \in Paths : hash[p] # "pending"
  /\ \A v \in Vols : sum[v] # "pending"
  /\ pc' = "done"
  /\ \/ ~failed /\ ~taskError /\ result' = "ok"
     \/ (failed \/ taskError \/ canceled) /\ result' = "error"
  /\ UNCHANGED <<plan, opi, todo, store, appOpen, open, remaining, seen, hashed, late,
                 tasks, dest, canceled, failed, faults>>

-----------------------------------------------------------------------------
\* A hash task: it reads the store when it runs.  Whether its error also
\* cancels the session is up to the task group.
HashTask(p) ==
  /\ hash[p] = "pending"
  /\ LET good == ~canceled /\ appOpen /\ store[p] = Listed IN
       /\ hash' = [hash EXCEPT ![p] = IF good THEN "ok" ELSE "failed"]
       /\ taskError' = (taskError \/ ~good)
       /\ canceled' \in (IF good THEN {canceled} ELSE {canceled, TRUE})
  /\ UNCHANGED <<plan, pc, opi, todo, store, appOpen, open, remaining, seen, hashed, late,
                 sum, srcOpen, dest, failed, faults, result>>

\* checkVolume: a mismatch cancels the session; so may an error of opening or
\* reading the volume.
VolumeSum(v) ==
  /\ sum[v] = "pending"
  /\ \/ /\ ~canceled /\ v \notin plan.damaged
        /\ sum' = [sum EXCEPT ![v] = "ok"]
        /\ UNCHANGED <<taskError, canceled>>
     \/ /\ canceled \/ v \in plan.damaged \/ ~srcOpen
        /\ sum' = [sum EXCEPT ![v] = "failed"]
        /\ taskError' = TRUE
        /\ canceled' \in (IF v \in plan.damaged /\ srcOpen THEN {TRUE} ELSE {canceled, TRUE})
  /\ UNCHANGED <<plan, pc, opi, todo, store, appOpen, open, remaining, seen, hashed, late,
                 hash, srcOpen, dest, failed, faults, result>>

\* The user interrupts.
Interrupt ==
  /\ ~canceled
  /\ result = "none"
  /\ canceled' = TRUE
  /\ faults' = faults + 1
  /\ UNCHANGED <<plan, pc, opi, todo, store, appOpen, open, remaining, seen, hashed, late,
                 tasks, dest, failed, result>>

Returned == pc = "done" /\ UNCHANGED vars

MainStep ==
  \/ ExtractMissing \/ ExtractDecode \/ ExtractDecoded
  \/ \E p \in Paths : PlaceFile(p)
  \/ PlacedAll \/ PlaceCanceled
  \/ BeginCommand
  \/ \E p \in Paths : CommandWrite(p)
  \/ EndCommand \/ CommandFails \/ RemoveFiles \/ OpCanceled
  \/ FinishHashes \/ VerifyReturns
  \/ \E p \in Paths : WriteDest(p)
  \/ WriteCanceled \/ WrittenAll \/ CleanUp \/ SessionDone

Next ==
  \/ MainStep
  \/ \E p \in Paths : HashTask(p)
  \/ \E v \in Vols : VolumeSum(v)
  \/ Interrupt
  \/ Returned

\* The main goroutine and every task run on; nobody has to interrupt.
Fairness ==
  /\ WF_vars(MainStep)
  /\ \A p \in Paths : WF_vars(HashTask(p))
  /\ \A v \in Vols : WF_vars(VolumeSum(v))

Spec == Init /\ [][Next]_vars
FairSpec == Spec /\ Fairness

-----------------------------------------------------------------------------
\* Records do not undo each other where opsMayWrite does not look: no file a
\* record extracts is touched by a later extract or remove record, or by a
\* command that does not declare it.
Tame ==
  \A i, j \in DOMAIN ops : \A p \in ops[i].touches \cap ops[j].touches :
    (i < j /\ ops[i].kind = "extract") =>
      ops[j].kind = "command" /\ (ops[j].glob \/ p \in ops[j].declares)

\* The records that count: extracts of missing volumes are skipped.
Counts(i) == ops[i].kind # "extract" \/ ops[i].vol \in plan.present

\* What the records leave in a file when they are applied in order.
Final(p) ==
  LET last == {i \in DOMAIN ops : Counts(i) /\ p \in ops[i].touches
                 /\ \A j \in DOMAIN ops : j > i /\ Counts(j) => p \notin ops[j].touches}
  IN IF last = {} THEN NoFile
     ELSE LET i == CHOOSE i \in last : TRUE IN
          IF ops[i].kind = "remove" THEN NoFile ELSE ops[i].puts[p]

TypeOK ==
  /\ plan \in Plans
  /\ pc \in {"op", "place", "command", "verify", "write", "clean", "wait", "done"}
  /\ opi \in 1..Len(ops) + 1
  /\ todo \subseteq Paths
  /\ store \in [Paths -> Content]
  /\ appOpen \in BOOLEAN
  /\ open \subseteq Vols
  /\ remaining \in [Vols -> 0..Len(ops)]
  /\ seen \subseteq Vols
  /\ hashed \subseteq plan.want
  /\ late \subseteq hashed
  /\ hash \in [Paths -> States]
  /\ sum \in [Vols -> States]
  /\ dest \in [Paths -> Content]
  /\ {canceled, failed, taskError, srcOpen} \subseteq BOOLEAN
  /\ faults \in 0..2
  /\ result \in {"none", "ok", "error"}

\* SPEC INV-05, "Exit 0 means every required Volume finished": on success
\* Dest is the whole tree the records describe and each required volume was
\* decoded, whatever the tasks of the session did meanwhile.
ExitComplete ==
  result = "ok" =>
    /\ \A p \in Paths : dest[p] = Final(p)
    /\ \A v \in plan.present : Optional(v) \/ v \in seen

\* No false success: when Extract returns nil every listed volume had its
\* MD5 and, if the records do not undo each other, every manifest file in
\* Dest has the listed content, although hash tasks outlive the copy.
VerifiedExit ==
  result = "ok" =>
    /\ \A v \in plan.sums \cap plan.present : v \notin plan.damaged
    /\ Tame => \A p \in plan.want : dest[p] = Listed

\* A successful installation leaves no staging directory behind: the counts
\* in remaining close each decoded volume after its last use.
NoStagingLeft == result = "ok" => open = {} /\ ~appOpen

\* A decoded volume is kept only for a record still to come, whichever way
\* the present record ends: what an error leaves on disk are volumes with
\* uses left (the deferred Close of extract, remaining).
KeptForUse == pc # "place" => \A v \in open : remaining[v] > 0

\* Extract always returns, after a cancellation too.
Terminates == <>(result # "none")

\* README: the manifest describes the tree a successful run has written.
ManifestHolds == result = "ok" => \A p \in plan.want : dest[p] = Listed

\* An installation whose volumes are sound and whose records produce the
\* listed files succeeds, unless it is interrupted or a tool fails.
SoundInstallSucceeds ==
  ( /\ faults = 0
    /\ plan.damaged = {}
    /\ plan.sums \subseteq plan.present
    /\ \A i \in DOMAIN ops : ops[i].kind = "extract" =>
         ops[i].optional \/ ops[i].vol \in plan.present
    /\ \A v \in plan.present : Uses(v) # {}
    /\ \A p \in plan.want : Final(p) = Listed ) => result # "error"

=============================================================================
