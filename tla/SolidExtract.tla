---------------------------- MODULE SolidExtract ----------------------------
(***************************************************************************)
(* Extraction of the solid blocks of one volume: extractSolids,            *)
(* extractSolid and writeMember (extract.go) into a Dest (dest.go) or a    *)
(* staging store (reconstruct.go).                                         *)
(*                                                                         *)
(* The solids of a volume run side by side, as many as the CPU pool lets.  *)
(* A solid is one decompressed stream: its task reads the members one      *)
(* after the other into buffers and spawns a task of the IO pool for each, *)
(* which writes the buffer to the destination and checks size and CRC.  A  *)
(* semaphore bounds the buffers of a solid.  Any error and the user may    *)
(* cancel the session.                                                     *)
(*                                                                         *)
(* A member is a path with Chunks writes; a file is, chunk by chunk, the   *)
(* member that wrote it.  On disk, Create truncates and every writer has   *)
(* its own offset; in memory, Close installs the writer's own buffer.      *)
(***************************************************************************)
EXTENDS Naturals, Sequences, FiniteSets

CONSTANTS
  Paths,     \* member paths
  Archives,  \* the volumes considered
  Kinds,     \* the destinations considered, among "disk" and "memory"
  Sem,       \* buffers a solid may hold (4 in extractSolid)
  Cpus, Ios, \* the limits of the two pools
  Chunks     \* writes per member (copyCtx)

NoMember == <<0, 0>>

Member == [path : Paths, sound : BOOLEAN]

\* A solid: its members, how many of them its stream holds, what follows.
Solid == [files : Seq(Member), good : Nat, tail : {"eof", "data", "error"}]

ASSUME SolidAssumption ==
  /\ \A a \in Archives : a \in Seq(Solid)
  /\ Kinds \subseteq {"disk", "memory"}
  /\ {Sem, Cpus, Ios, Chunks} \subseteq Nat \ {0}

VARIABLES
  arch,      \* the volume (constant)
  kind,      \* the destination (constant)
  at,        \* solid -> where its task is
  next,      \* solid -> the member it reads next
  bad,       \* solid -> it stopped with an error of its own
  task,      \* <<solid, member>> -> state of the member's write task
  off,       \* <<solid, member>> -> chunks written
  file,      \* path -> sequence of writers, chunk by chunk
  closed,    \* path -> the member that closed it last
  canceled,  \* the session's context is cancelled
  result     \* what extractSolids returned

vars == <<arch, kind, at, next, bad, task, off, file, closed, canceled, result>>

Solids == DOMAIN arch
Files(s) == arch[s].files
Tasks == UNION {{<<s, i>> : i \in DOMAIN Files(s)} : s \in Solids}
Path(t) == Files(t[1])[t[2]].path

\* Tasks whose fn runs now, and those that hold a place of the semaphore:
\* a task the group dropped never gave its place back.
Writing(t) == task[t] \in {"create", "write"}
HeldForever(s) == {t \in Tasks : t[1] = s /\ task[t] # "none"}
Held(s) == {t \in Tasks : t[1] = s /\ task[t] \in {"queued", "create", "write", "dropped"}}

Over(t) == task[t] \in {"none", "ok", "failed", "dropped"}

-----------------------------------------------------------------------------
Init ==
  /\ arch \in Archives
  /\ kind \in Kinds
  /\ at = [s \in Solids |-> "wait"]
  /\ next = [s \in Solids |-> 1]
  /\ bad = [s \in Solids |-> FALSE]
  /\ task = [t \in Tasks |-> "none"]
  /\ off = [t \in Tasks |-> 0]
  /\ file = [p \in Paths |-> <<>>]
  /\ closed = [p \in Paths |-> NoMember]
  /\ canceled = FALSE
  /\ result = "none"

\* An error goes to the task group, which may cancel the session for it.
MayCancel == canceled' \in {canceled, TRUE}

\* The CPU pool starts a solid.
StartSolid(s) ==
  /\ at[s] = "wait"
  /\ ~canceled
  /\ Cardinality({u \in Solids : at[u] \notin {"wait", "done", "failed"}}) < Cpus
  /\ at' = [at EXCEPT ![s] = "check"]
  /\ UNCHANGED <<arch, kind, next, bad, task, off, file, closed, canceled, result>>

\* The head of the loop: contextError.
CheckContext(s) ==
  /\ at[s] = "check"
  /\ \/ next[s] \notin DOMAIN Files(s) /\ at' = [at EXCEPT ![s] = "members"] /\ UNCHANGED bad
     \/ next[s] \in DOMAIN Files(s) /\ ~canceled /\ at' = [at EXCEPT ![s] = "acquire"]
        /\ UNCHANGED bad
     \/ next[s] \in DOMAIN Files(s) /\ canceled /\ at' = [at EXCEPT ![s] = "members"]
        /\ bad' = [bad EXCEPT ![s] = TRUE]
  /\ UNCHANGED <<arch, kind, next, task, off, file, closed, canceled, result>>

\* sem <- struct{}{}, then pages.Read and the spawn of the member's task; the
\* read fails at the end of a short stream, and may fail once cancelled.
ReadMember(s) ==
  /\ at[s] = "acquire"
  /\ Cardinality(Held(s)) < Sem
  /\ \/ /\ next[s] <= arch[s].good
        /\ task' = [task EXCEPT ![<<s, next[s]>>] = "queued"]
        /\ next' = [next EXCEPT ![s] = @ + 1]
        /\ at' = [at EXCEPT ![s] = "check"]
        /\ UNCHANGED bad
     \/ /\ next[s] > arch[s].good \/ canceled
        /\ bad' = [bad EXCEPT ![s] = TRUE]
        /\ at' = [at EXCEPT ![s] = "members"]
        /\ UNCHANGED <<task, next>>
  /\ UNCHANGED <<arch, kind, off, file, closed, canceled, result>>

\* <-ctx.Done() while waiting for the semaphore.
StopWaiting(s) ==
  /\ at[s] = "acquire"
  /\ canceled
  /\ bad' = [bad EXCEPT ![s] = TRUE]
  /\ at' = [at EXCEPT ![s] = "members"]
  /\ UNCHANGED <<arch, kind, next, task, off, file, closed, canceled, result>>

\* Isolate returns when the loop and every task it spawned are over.
EndMembersEarly(s) ==
  /\ at[s] = "members"
  /\ at' = [at EXCEPT ![s] = IF bad[s] THEN "failed" ELSE "tail"]
  /\ IF bad[s] THEN MayCancel ELSE UNCHANGED canceled
  /\ UNCHANGED <<arch, kind, next, bad, task, off, file, closed, result>>

EndMembers(s) ==
  /\ at[s] = "members"
  /\ \A t \in Tasks : t[1] = s => Over(t)
  /\ LET error == bad[s] \/ \E t \in Tasks : t[1] = s /\ task[t] \in {"failed", "dropped"} IN
       /\ at' = [at EXCEPT ![s] = IF error THEN "failed" ELSE "tail"]
       /\ IF error THEN MayCancel ELSE UNCHANGED canceled
  /\ UNCHANGED <<arch, kind, next, bad, task, off, file, closed, result>>

\* The read of one byte after the last member.
ReadTailAny(s) ==
  /\ at[s] = "tail"
  /\ at' = [at EXCEPT ![s] = IF arch[s].tail = "error" THEN "failed" ELSE "done"]
  /\ IF at'[s] = "failed" THEN MayCancel ELSE UNCHANGED canceled
  /\ UNCHANGED <<arch, kind, next, bad, task, off, file, closed, result>>

ReadTail(s) ==
  /\ at[s] = "tail"
  /\ \/ arch[s].tail = "eof" /\ at' = [at EXCEPT ![s] = "done"] /\ UNCHANGED canceled
     \/ /\ arch[s].tail # "eof" \/ canceled
        /\ at' = [at EXCEPT ![s] = "failed"]
        /\ MayCancel
  /\ UNCHANGED <<arch, kind, next, bad, task, off, file, closed, result>>

-----------------------------------------------------------------------------
(* The write task of a member.                                             *)

StartWrite(t) ==
  /\ task[t] = "queued"
  /\ Cardinality({u \in Tasks : Writing(u)}) < Ios
  /\ task' = [task EXCEPT ![t] = "create"]
  /\ UNCHANGED <<arch, kind, at, next, bad, off, file, closed, canceled, result>>

\* A cancelled group drops a task that has not begun.
DropWrite(t) ==
  /\ task[t] = "queued"
  /\ canceled
  /\ task' = [task EXCEPT ![t] = "dropped"]
  /\ UNCHANGED <<arch, kind, at, next, bad, off, file, closed, canceled, result>>

\* dst.Create: on disk it truncates the file.
CreateFile(t) ==
  /\ task[t] = "create"
  /\ task' = [task EXCEPT ![t] = "write"]
  /\ file' = IF kind = "disk" THEN [file EXCEPT ![Path(t)] = <<>>] ELSE file
  /\ UNCHANGED <<arch, kind, at, next, bad, off, closed, canceled, result>>

\* f with chunk n written by t; a writer past the end leaves a hole.
Put(f, n, t) ==
  [i \in 1..(IF Len(f) < n THEN n ELSE Len(f)) |->
     IF i = n THEN t ELSE IF i <= Len(f) THEN f[i] ELSE NoMember]

\* One round of copyCtx: at its own offset on disk, into its buffer in memory.
WriteChunk(t) ==
  /\ task[t] = "write"
  /\ off[t] < Chunks
  /\ ~canceled
  /\ off' = [off EXCEPT ![t] = @ + 1]
  /\ file' = IF kind = "disk"
             THEN [file EXCEPT ![Path(t)] = Put(@, off[t] + 1, t)]
             ELSE file
  /\ UNCHANGED <<arch, kind, at, next, bad, task, closed, canceled, result>>

\* What Close leaves in the file of t.
Installed(t) ==
  IF kind = "disk" THEN file[Path(t)] ELSE [i \in 1..off[t] |-> t]

\* ctxReader sees the cancellation: the file is closed as it is.
WriteStops(t) ==
  /\ task[t] = "write"
  /\ canceled
  /\ task' = [task EXCEPT ![t] = "failed"]
  /\ file' = [file EXCEPT ![Path(t)] = Installed(t)]
  /\ closed' = [closed EXCEPT ![Path(t)] = t]
  /\ UNCHANGED <<arch, kind, at, next, bad, off, canceled, result>>

\* The end of the buffer: Close, then the comparison of the CRC, which the
\* TeeReader took of the bytes on their way.
CloseUnchecked(t) ==
  /\ task[t] = "write"
  /\ off[t] = Chunks
  /\ file' = [file EXCEPT ![Path(t)] = Installed(t)]
  /\ closed' = [closed EXCEPT ![Path(t)] = t]
  /\ task' = [task EXCEPT ![t] = "ok"]
  /\ UNCHANGED <<arch, kind, at, next, bad, off, canceled, result>>

CloseShared(t) ==
  /\ task[t] = "write"
  /\ off[t] = Chunks
  /\ closed' = [closed EXCEPT ![Path(t)] = t]
  /\ task' = [task EXCEPT ![t] = "ok"]
  /\ file' = IF kind = "disk" \/ file[Path(t)] = <<>>
             THEN [file EXCEPT ![Path(t)] = Installed(t)] ELSE file
  /\ UNCHANGED <<arch, kind, at, next, bad, off, canceled, result>>

CloseFile(t) ==
  /\ task[t] = "write"
  /\ off[t] = Chunks
  /\ file' = [file EXCEPT ![Path(t)] = Installed(t)]
  /\ closed' = [closed EXCEPT ![Path(t)] = t]
  /\ \/ Files(t[1])[t[2]].sound /\ task' = [task EXCEPT ![t] = "ok"] /\ UNCHANGED canceled
     \/ ~Files(t[1])[t[2]].sound /\ task' = [task EXCEPT ![t] = "failed"] /\ MayCancel
  /\ UNCHANGED <<arch, kind, at, next, bad, off, result>>

\* The session is cancelled from outside.
Cancel ==
  /\ ~canceled
  /\ result = "none"
  /\ canceled' = TRUE
  /\ UNCHANGED <<arch, kind, at, next, bad, task, off, file, closed, result>>

\* Each returns: solids that never started after a cancel count as over.
SolidsReturn ==
  /\ result = "none"
  /\ \A s \in Solids : at[s] \in {"done", "failed"} \/ (at[s] = "wait" /\ canceled)
  /\ result' = IF \A s \in Solids : at[s] = "done" THEN "ok" ELSE "error"
  /\ UNCHANGED <<arch, kind, at, next, bad, task, off, file, closed, canceled>>

Returned == result # "none" /\ UNCHANGED vars

SolidStep(s) ==
  \/ StartSolid(s) \/ CheckContext(s) \/ ReadMember(s) \/ StopWaiting(s)
  \/ EndMembers(s) \/ ReadTail(s)

WriteStep(t) ==
  \/ StartWrite(t) \/ DropWrite(t) \/ CreateFile(t) \/ WriteChunk(t)
  \/ WriteStops(t) \/ CloseFile(t)

Next ==
  \/ \E s \in Solids : SolidStep(s)
  \/ \E t \in Tasks : WriteStep(t)
  \/ Cancel
  \/ SolidsReturn
  \/ Returned

\* Every task the pools admit runs on; reads and writes return.
Fairness ==
  /\ WF_vars(\E s \in Solids : SolidStep(s))
  /\ WF_vars(\E t \in Tasks : WriteStep(t))
  /\ WF_vars(SolidsReturn)

Spec == Init /\ [][Next]_vars
FairSpec == Spec /\ Fairness

-----------------------------------------------------------------------------
TypeOK ==
  /\ arch \in Archives
  /\ kind \in Kinds
  /\ at \in [Solids -> {"wait", "check", "acquire", "members", "tail", "done", "failed"}]
  /\ \A s \in Solids : next[s] \in 1..Len(Files(s)) + 1
  /\ bad \in [Solids -> BOOLEAN]
  /\ task \in [Tasks -> {"none", "queued", "create", "write", "ok", "failed", "dropped"}]
  /\ off \in [Tasks -> 0..Chunks]
  /\ \A p \in Paths : Len(file[p]) <= Chunks
  /\ closed \in [Paths -> Tasks \cup {NoMember}]
  /\ canceled \in BOOLEAN
  /\ result \in {"none", "ok", "error"}

\* A file in which every chunk comes from t.
Whole(t) == [i \in 1..Chunks |-> t]

DistinctNames == \A t, u \in Tasks : Path(t) = Path(u) => t = u

\* A volume extracts without an error only if every path holds all of one of
\* its members, with the listed CRC, however the writers of a solid and of
\* other solids interleave; on disk only if no name occurs twice.
Intact ==
  (result = "ok" /\ (kind = "memory" \/ DistinctNames)) =>
    \A s \in Solids : \A i \in DOMAIN Files(s) :
      \E t \in Tasks : /\ Path(t) = Files(s)[i].path
                       /\ Files(t[1])[t[2]].sound
                       /\ file[Path(t)] = Whole(t)

\* ... and only if every solid's stream held its members and nothing more.
WholeStream ==
  result = "ok" =>
    \A s \in Solids : arch[s].tail = "eof" /\ arch[s].good >= Len(Files(s))

\* Nothing writes to the destination after extractSolids has returned, so the
\* caller may read it, hash it or remove it.
NoLateWrite == [][result # "none" => file' = file]_vars

\* dest.go: "The same name is last-close-wins."
LastCloseWins ==
  result = "ok" => \A p \in Paths : closed[p] # NoMember => file[p] = Whole(closed[p])

\* The staging store in memory keeps that promise: each writer has a buffer of
\* its own, which Close installs in one step.
MemoryLastCloseWins == kind = "memory" => LastCloseWins

\* extractSolids returns, though solids, writers and the semaphore wait for
\* each other.
Returns == <>(result # "none")
=============================================================================
