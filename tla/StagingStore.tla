---------------------------- MODULE StagingStore ----------------------------
(***************************************************************************)
(* A staging directory of the reconstruction (app or tmp): an index of the *)
(* files in it, s.files, and the files themselves, on a disk whose names   *)
(* have a case while the index is searched without regard to it.  Commands *)
(* (leaves) use it under the lock of the plan and, in part, the lock of    *)
(* the store; a hash task, ingest and a created file use the latter only.  *)
(*                                                                         *)
(* Each actor runs a script of operations.  The scheduler orders leaves    *)
(* that touch the same file, so that the files of scripts are disjoint;    *)
(* what the scripts share is the index, the locks and the directories.     *)
(* That nobody removes or replaces a file while it is hashed is assumed:   *)
(* the scheduler sees to it for commands, and not for other records.       *)
(***************************************************************************)
EXTENDS Naturals, Sequences, FiniteSets

CONSTANTS
  Names,      \* names of files, each with a spelling
  Key,        \* the name of each without its case
  Dir,        \* the directory each is in: a name, or Top
  Top,
  Versions,
  Actors,
  Scenarios,  \* what is staged at first and what each actor does
  None        \* no file, no actor

Planned  == {"put", "read", "open", "remove", "removeTree", "matches"}
Writing  == {"put", "ingest", "create"}
Removing == {"remove", "removeTree"}
Does     == Planned \cup Writing \cup {"hash"}

Op == [do : Does, name : Names, ver : Versions]

Keys == {Key[n] : n \in Names}

\* Name n is that of a file in directory d, in any spelling.
Under(n, d) == Dir[n] # Top /\ Key[Dir[n]] = Key[d]

\* The files an operation is about: matches here lists one name.
Touched(op) ==
  {Key[op.name]} \cup
    IF op.do = "removeTree" THEN {Key[n] : n \in {n \in Names : Under(n, op.name)}} ELSE {}

Torn == "torn"  \* what a file holds between its creation and its last byte

ASSUME StagingAssumption ==
  /\ IsFiniteSet(Names) /\ Top \notin Names
  /\ Key \in [Names -> Keys] /\ Dir \in [Names -> Names \cup {Top}]
  \* spellings of one name are in spellings of one directory
  /\ \A m, n \in Names : Key[m] = Key[n] => \A d \in Names : Under(m, d) <=> Under(n, d)
  /\ None \notin Versions \cup Actors /\ Torn \notin Versions
  /\ \A s \in Scenarios :
       /\ s.staged \in [Names -> Versions \cup {None}]
       /\ s.script \in [Actors -> Seq(Op)]
       \* the scheduler orders leaves that conflict
       /\ \A a, b \in Actors : a # b =>
            \A i \in DOMAIN s.script[a], j \in DOMAIN s.script[b] :
              s.script[a][i].do \in Writing \cup Removing =>
                Touched(s.script[a][i]) \cap Touched(s.script[b][j]) = {}
       \* ingest is of the main goroutine and create of leaves that are
       \* barriers (x4, xdelta): beside them only hashes are taken
       /\ \A a, b \in Actors : a # b =>
            \A i \in DOMAIN s.script[a], j \in DOMAIN s.script[b] :
              s.script[a][i].do \in {"ingest", "create"} => s.script[b][j].do = "hash"

VARIABLES
  script,     \* the operations of each actor (constant)
  at,         \* the operation each is at
  step,       \* and what it does in it
  files,      \* the names in the index
  disk,       \* the inode of each name on the disk, or 0
  dirs,       \* the directories on the disk
  content,    \* the content of each inode
  planLock,   \* who holds p.mu
  storeLock,  \* who holds s.mu
  found,      \* the name a reader is to open, or None
  open,       \* the inode it has open, or 0
  failed,     \* why an actor's command failed: "", "missing", "clash", "disk"
  faulty,     \* whether the disk has had its fault
  fatal,      \* whether the runtime has stopped the program
  expect,     \* history: the version of each key, as the scripts have it
  seen,       \* history: what the last read of an actor found and should find
  marred      \* history: keys with two spellings or a write that failed half-way

storeVars   == <<files, disk, dirs, content>>
readVars    == <<found, open>>
historyVars == <<expect, seen, marred>>
vars == <<script, at, step, storeVars, planLock, storeLock, readVars, failed, faulty, fatal,
          historyVars>>

-----------------------------------------------------------------------------
Do(a)   == script[a][at[a]]
Name(a) == Do(a).name
KeyOf(a) == Key[Name(a)]

Same(n) == {m \in files : Key[m] = Key[n]}

Init ==
  \E s \in Scenarios :
    LET staged == {n \in Names : s.staged[n] # None}
        \* the name of each inode
        named  == CHOOSE f \in [1..Cardinality(staged) -> staged] :
                    \A n \in staged : \E i \in DOMAIN f : f[i] = n
    IN /\ script = s.script
       /\ files = staged
       /\ disk = [n \in Names |-> IF n \in staged
                                  THEN CHOOSE i \in DOMAIN named : named[i] = n ELSE 0]
       /\ dirs = {Dir[n] : n \in staged} \ {Top}
       /\ content = [i \in DOMAIN named |-> s.staged[named[i]]]
       /\ expect = [k \in Keys |->
                      IF \E n \in staged : Key[n] = k
                      THEN s.staged[CHOOSE n \in staged : Key[n] = k] ELSE None]
       /\ at = [a \in Actors |-> 1] /\ step = [a \in Actors |-> "idle"]
       /\ planLock = None /\ storeLock = None
       /\ found = [a \in Actors |-> None] /\ open = [a \in Actors |-> 0]
       /\ failed = [a \in Actors |-> ""] /\ faulty = FALSE /\ fatal = FALSE
       /\ seen = [a \in Actors |-> <<None, None>>]
       /\ marred = {k \in Keys : \E m, n \in staged : m # n /\ Key[m] = k /\ Key[n] = k}

-----------------------------------------------------------------------------
Alive(a) == ~fatal /\ failed[a] = ""

Ended(a) == failed[a] # "" \/ at[a] > Len(script[a])

Doing(a, s) == Alive(a) /\ step[a] = s

Goto(a, s) == step' = [step EXCEPT ![a] = s]

FreePlan(a) == planLock' = IF planLock = a THEN None ELSE planLock

\* Mutant: an error leaves the plan locked.
FailLocked(a, why) ==
  /\ failed' = [failed EXCEPT ![a] = why]
  /\ Goto(a, "idle")
  /\ UNCHANGED <<at, planLock>>

\* The operation is over, without an error or with one.
Return(a) ==
  /\ at' = [at EXCEPT ![a] = @ + 1]
  /\ Goto(a, "idle")
  /\ FreePlan(a)
  /\ UNCHANGED failed

Fail(a, why) ==
  /\ failed' = [failed EXCEPT ![a] = why]
  /\ Goto(a, "idle")
  /\ FreePlan(a)
  /\ UNCHANGED at

First(do) ==
  CASE do = "put" -> "wantDrop"
    [] do \in {"read", "open", "hash"} -> "wantLook"
    [] do \in Removing -> "delete"
    [] do = "matches" -> "list"
    [] do = "ingest" -> "unlink"
    [] do = "create" -> "make"

Begin(a) ==
  /\ Doing(a, "idle")
  /\ ~Ended(a)
  /\ IF Do(a).do \in Planned THEN planLock = None /\ planLock' = a ELSE UNCHANGED planLock
  /\ Goto(a, First(Do(a).do))
  /\ UNCHANGED <<script, at, storeVars, storeLock, readVars, failed, faulty, fatal, historyVars>>

Guarded == [wantDrop |-> "drop", wantLook |-> "look", wantEnter |-> "enter"]

\* Mutant: a look-up does not take the lock.
LockStoreToWrite(a) ==
  /\ Alive(a)
  /\ step[a] \in DOMAIN Guarded
  /\ step[a] = "wantLook" \/ storeLock = None
  /\ storeLock' = IF step[a] = "wantLook" THEN storeLock ELSE a
  /\ Goto(a, Guarded[step[a]])
  /\ UNCHANGED <<script, at, storeVars, planLock, readVars, failed, faulty, fatal, historyVars>>

\* s.mu is taken for the sections that follow.
LockStore(a) ==
  /\ Alive(a)
  /\ step[a] \in DOMAIN Guarded
  /\ storeLock = None
  /\ storeLock' = a
  /\ Goto(a, Guarded[step[a]])
  /\ UNCHANGED <<script, at, storeVars, planLock, readVars, failed, faulty, fatal, historyVars>>

\* Mutant: only the very spelling is dropped.
DropSpelling(a) ==
  /\ Doing(a, "drop")
  /\ files' = files \ {Name(a)}
  /\ disk' = [disk EXCEPT ![Name(a)] = 0]
  /\ storeLock' = None
  /\ Goto(a, "make")
  /\ UNCHANGED <<script, at, dirs, content, planLock, readVars, failed, faulty, fatal, historyVars>>

\* put, with both locks: every spelling of the name leaves the index, and its
\* file the disk.
Drop(a) ==
  /\ Doing(a, "drop")
  /\ files' = files \ Same(Name(a))
  /\ disk' = [n \in Names |-> IF n \in Same(Name(a)) THEN 0 ELSE disk[n]]
  /\ storeLock' = None
  /\ Goto(a, "make")
  /\ UNCHANGED <<script, at, dirs, content, planLock, readVars, failed, faulty, fatal, historyVars>>

\* ingest removes the file of that very name.
Unlink(a) ==
  /\ Doing(a, "unlink")
  /\ disk' = [disk EXCEPT ![Name(a)] = 0]
  /\ Goto(a, "make")
  /\ UNCHANGED <<script, at, files, dirs, content, planLock, storeLock, readVars, failed, faulty,
                 fatal, historyVars>>

InTheWay(n) ==
  {m \in Names : disk[m] # 0 /\ m = Dir[n]} \cup (IF n \in dirs THEN {n} ELSE {})

\* History: after a put that fails the index should not have the file; another
\* write leaves an entry, its own or the one there was, without a good file.
Spoiled(a) ==
  /\ expect' = [expect EXCEPT ![KeyOf(a)] = None]
  /\ marred' = IF Do(a).do = "put" THEN marred ELSE marred \cup {KeyOf(a)}
  /\ UNCHANGED seen

\* The directory is made and the file created, or cut to nothing in place.
Make(a) ==
  /\ Doing(a, "make")
  /\ LET n == Name(a)
     IN IF InTheWay(n) # {}
        THEN /\ Fail(a, "clash")
             /\ Spoiled(a)
             /\ UNCHANGED storeVars
        ELSE /\ dirs' = dirs \cup ({Dir[n]} \ {Top})
             /\ IF disk[n] = 0
                THEN /\ content' = Append(content, Torn)
                     /\ disk' = [disk EXCEPT ![n] = Len(content) + 1]
                ELSE /\ content' = [content EXCEPT ![disk[n]] = Torn]
                     /\ UNCHANGED disk
             /\ Goto(a, "write")
             /\ UNCHANGED <<files, at, planLock, failed, historyVars>>
  /\ UNCHANGED <<script, storeLock, readVars, faulty, fatal>>

Write(a) ==
  /\ Doing(a, "write")
  /\ content' = [content EXCEPT ![disk[Name(a)]] = Do(a).ver]
  /\ Goto(a, "wantEnter")
  /\ UNCHANGED <<script, at, files, disk, dirs, planLock, storeLock, readVars, failed, faulty,
                 fatal, historyVars>>

\* The disk is full, say.  A created file is closed all the same, and Close
\* puts it into the index.
WriteFails(a) ==
  /\ Doing(a, "write")
  /\ ~faulty
  /\ faulty' = TRUE
  /\ IF Do(a).do = "create"
     THEN Goto(a, "wantEnter") /\ UNCHANGED <<at, planLock, failed, historyVars>>
     ELSE Fail(a, "disk") /\ Spoiled(a)
  /\ UNCHANGED <<script, storeVars, storeLock, readVars, fatal>>

Enter(a) ==
  /\ Doing(a, "enter")
  /\ files' = files \cup {Name(a)}
  /\ storeLock' = None
  /\ IF content[disk[Name(a)]] = Torn
     THEN Fail(a, "disk") /\ Spoiled(a)
     ELSE /\ Return(a)
          /\ expect' = [expect EXCEPT ![KeyOf(a)] = Do(a).ver]
          /\ marred' = IF Same(Name(a)) \ {Name(a)} = {} THEN marred ELSE marred \cup {KeyOf(a)}
          /\ UNCHANGED seen
  /\ UNCHANGED <<script, disk, dirs, content, readVars, faulty, fatal>>

\* Mutant: the name itself only.
FoundSpelling(n) == {n} \cap files

\* lookup: the name itself, or the only one that differs in case.
Found(n) ==
  IF n \in files THEN {n} ELSE IF Cardinality(Same(n)) = 1 THEN Same(n) ELSE {}

Saw(a, got, should) ==
  /\ seen' = [seen EXCEPT ![a] = IF KeyOf(a) \in marred THEN <<None, None>> ELSE <<got, should>>]
  /\ UNCHANGED <<expect, marred>>

SawFile(a, got) == Saw(a, got, expect[KeyOf(a)])

\* require reads the file with both locks; openRead gives the store's back
\* before it opens the file.
Look(a) ==
  /\ Doing(a, "look")
  /\ storeLock' = None
  /\ IF Found(Name(a)) = {}
     THEN Fail(a, "missing") /\ SawFile(a, None) /\ UNCHANGED found
     ELSE LET n == CHOOSE n \in Found(Name(a)) : TRUE
          IN IF Do(a).do = "read"
             THEN /\ IF disk[n] = 0 THEN Fail(a, "missing") /\ SawFile(a, None)
                     ELSE Return(a) /\ SawFile(a, content[disk[n]])
                  /\ UNCHANGED found
             ELSE /\ found' = [found EXCEPT ![a] = n]
                  /\ Goto(a, "open")
                  /\ UNCHANGED <<at, planLock, failed, historyVars>>
  /\ UNCHANGED <<script, storeVars, open, faulty, fatal>>

OpenFile(a) ==
  /\ Doing(a, "open")
  /\ found' = [found EXCEPT ![a] = None]
  /\ IF disk[found[a]] = 0
     THEN Fail(a, "missing") /\ SawFile(a, None) /\ UNCHANGED open
     ELSE /\ open' = [open EXCEPT ![a] = disk[found[a]]]
          /\ FreePlan(a)
          /\ Goto(a, "readOpen")
          /\ UNCHANGED <<at, failed, historyVars>>
  /\ UNCHANGED <<script, storeVars, storeLock, faulty, fatal>>

\* The open file is read with no lock at all.
ReadOpen(a) ==
  /\ Doing(a, "readOpen")
  /\ Return(a)
  /\ SawFile(a, content[open[a]])
  /\ open' = [open EXCEPT ![a] = 0]
  /\ UNCHANGED <<script, storeVars, storeLock, found, faulty, fatal>>

Deleted(op) ==
  {n \in files : Key[n] = Key[op.name] \/ (op.do = "removeTree" /\ Under(n, op.name))}

\* remove, with the plan's lock only: the index forgets the files, the disk
\* keeps them.
Delete(a) ==
  /\ Doing(a, "delete")
  /\ files' = files \ Deleted(Do(a))
  /\ Return(a)
  /\ expect' = [k \in Keys |-> IF k \in Touched(Do(a)) THEN None ELSE expect[k]]
  /\ marred' = marred \ Touched(Do(a))
  /\ UNCHANGED <<script, disk, dirs, content, storeLock, readVars, faulty, fatal, seen>>

\* matches, with the plan's lock only.
List(a) ==
  /\ Doing(a, "list")
  /\ Return(a)
  /\ Saw(a, Same(Name(a)) # {}, expect[KeyOf(a)] # None)
  /\ UNCHANGED <<script, storeVars, storeLock, readVars, faulty, fatal>>

-----------------------------------------------------------------------------
\* Who is in the index, and how.
Writes(a) == step[a] \in {"drop", "enter", "delete"}
Uses(a)   == Writes(a) \/ step[a] \in {"look", "list"}

Race(a, b) == a # b /\ Writes(a) /\ Uses(b)

\* Go's runtime may notice that a map is used while it is written, and stop.
Throw ==
  /\ ~fatal
  /\ \E a, b \in Actors : Race(a, b)
  /\ fatal' = TRUE
  /\ UNCHANGED <<script, at, step, storeVars, planLock, storeLock, readVars, failed, faulty,
                 historyVars>>

Step(a) ==
  \/ Begin(a) \/ LockStore(a) \/ Drop(a) \/ Unlink(a) \/ Make(a) \/ Write(a) \/ WriteFails(a)
  \/ Enter(a) \/ Look(a) \/ OpenFile(a) \/ ReadOpen(a) \/ Delete(a) \/ List(a)

Next == (\E a \in Actors : Step(a)) \/ Throw

\* Every task that is started runs.
Spec == Init /\ [][Next]_vars /\ \A a \in Actors : WF_vars(Step(a))

-----------------------------------------------------------------------------
\* Nobody is in the middle of a write to key k.
Quiet(k) ==
  \A a \in Actors : step[a] # "idle" => k \notin Touched(Do(a)) \/ Do(a).do \notin Writing

\* When nothing is being written to a file, the index has it under one
\* spelling, with the version last written on the disk, or not at all: a put in
\* any spelling replaces it, one that fails leaves no entry, and what remove
\* left on the disk does not come back.
StoreAgrees ==
  \A k \in Keys \ marred : Quiet(k) =>
    LET n == {m \in files : Key[m] = k}
    IN IF expect[k] = None THEN n = {}
       ELSE \E m \in n : n = {m} /\ disk[m] # 0 /\ content[disk[m]] = expect[k]

\* A reader finds the version that was staged, however it opened the file and
\* whatever the others do to the index, the directories and other files.
ReadsRight == \A a \in Actors : seen[a][1] = seen[a][2]

\* The index is used while it is written in one case only: a command removes a
\* file under the plan's lock while a hash task looks one up under the store's.
RaceOnlyWithRemove ==
  \A a, b \in Actors : Race(a, b) => step[a] = "delete" /\ Do(b).do = "hash"

\* Every command returns: the two locks are always taken in the same order.
Returns == \A a \in Actors : <>(Ended(a) \/ fatal)

=============================================================================
