---------------------------- MODULE NestedRecipe ----------------------------
(***************************************************************************)
(* Recipes that call recipes: scheduleWords, recipeLines and expandRecipe  *)
(* (reconstruct_schedule.go, reconstruct_commands.go), on top of the       *)
(* stamps and the tasks of module RecipeSchedule.                          *)
(*                                                                         *)
(* A called recipe that exists is read while its caller is scheduled and   *)
(* its lines are scheduled in its place.  One that does not exist yet      *)
(* becomes a Control leaf, a task that reads it when it runs and schedules *)
(* its lines from there: from then on several goroutines use the stamps,   *)
(* which no lock protects.  recordLeaf is two steps here, the load of      *)
(* prior and unknown and the store of everything, so that an update can be *)
(* lost; of two overlapping uses of the stamp maps the Go runtime may also *)
(* find out, and ends the program.                                         *)
(*                                                                         *)
(* A leaf has finished when its function has returned, be the leaves it    *)
(* scheduled over or not.  A leaf carries its place in the recipe: <<2>>   *)
(* is the second line, <<2, 1>> the first line of the recipe called there. *)
(***************************************************************************)
EXTENDS RecipeSchedule, SequencesExt

CONSTANTS
  Scripts,  \* the recipes considered, with the recipes they call
  MaxDepth  \* how deep recipes may be nested (about 15 calls in the code: each
            \* takes two of 32 units of depth, scheduleWords and recipeLines)

Line == [reads : SUBSET Files, writes : SUBSET Files, glob : BOOLEAN, bad : BOOLEAN,
         uses : SUBSET Files, needs : SUBSET Files, puts : SUBSET Files,
         drops : SUBSET Files, keeps : SUBSET Files, recipe : BOOLEAN]

\* there: the files that exist; text: the lines of a recipe, as it is at the
\* start (TRUE) and as a leaf rewrites it (FALSE).
Script == [main : Seq(Line), there : SUBSET Files, text : [Files -> [BOOLEAN -> Seq(Line)]]]

\* A call reads the recipe, declares that and nothing it writes, and is a
\* barrier (scheduleLeaf for a recipe that is not there).
IsCall(l) ==
  /\ l.glob /\ l.writes = {} /\ l.puts = {}
  /\ l.uses = l.reads /\ \E f \in Files : l.reads = {f}

CallsOnly(lines) == \A k \in DOMAIN lines : lines[k].recipe => IsCall(lines[k])

ASSUME NestedAssumption ==
  /\ MaxDepth \in Nat
  /\ \A s \in Scripts :
       /\ s \in Script
       /\ CallsOnly(s.main)
       /\ \A f \in Files, old \in BOOLEAN : CallsOnly(s.text[f][old])

VARIABLES
  script,  \* what runs (constant)
  todo,    \* goroutine -> the lines it has yet to schedule
  at,      \* goroutine -> "line", "spawned" (after Go), "stamping" (in recordLeaf)
  loaded,  \* goroutine -> the prior and unknown that recordLeaf loaded
  last,    \* goroutine -> the leaf it spawned last
  calls,   \* what recipes were read while scheduling (history)
  raced    \* two goroutines used the stamps at once (history)

all == <<vars, script, todo, at, loaded, last, calls, raced>>

\* The goroutines that schedule: 0, and the Control leaves being expanded.
Schedulers == DOMAIN todo

Control == {i \in Ids : prog[i].recipe}

\* The recipe a line calls.
Called(line) == CHOOSE f \in line.reads : TRUE

\* f, and v at g (one goroutine more, or one field more).
Joined(f, g, v) == [h \in DOMAIN f \cup {g} |-> IF h = g THEN v ELSE f[h]]

Placed(lines, place) ==
  [k \in DOMAIN lines |-> Joined(lines[k], "pos", Append(place, k))]

\* The lines of recipe f called at that place, from the content it has now.
Lines(f, place) == Placed(script.text[f][store[f] = 0], place)

Nothing == [prior |-> {}, unknown |-> {}]

NestedInit ==
  /\ script \in Scripts
  /\ prog = <<>> /\ deps = <<>> /\ got = <<>> /\ wrote = <<>>
  /\ sched = 0
  /\ present = script.there
  /\ lastWrite = [f \in Files |-> 0] /\ lastUse = [f \in Files |-> 0]
  /\ prior = {} /\ unknown = {}
  /\ started = {} /\ finished = {} /\ failed = {}
  /\ store = [f \in Files |-> 0]
  /\ canceled = FALSE
  /\ result = "none"
  /\ todo = [g \in {0} |-> Placed(script.main, <<>>)]
  /\ at = [g \in {0} |-> "line"]
  /\ loaded = [g \in {0} |-> Nothing]
  /\ last = [g \in {0} |-> 0]
  /\ calls = {}
  /\ raced = FALSE

-----------------------------------------------------------------------------
(* Scheduling.                                                             *)

AtLine(g) == result = "none" /\ g \notin failed /\ at[g] = "line" /\ todo[g] # <<>>

Here(g) == Head(todo[g])

TooDeep(line) == Len(line.pos) >= MaxDepth

Exists(line) == line.recipe /\ Called(line) \in present

\* The lines of the recipe take the place of the call.
Inline(g) ==
  LET f == Called(Here(g)) IN
    /\ todo' = [todo EXCEPT ![g] = Lines(f, Here(g).pos) \o Tail(@)]
    /\ calls' = calls \cup {[file |-> f, pos |-> Here(g).pos, got |-> store[f]]}

ReadCalledResets(g) ==
  /\ AtLine(g) /\ Exists(Here(g)) /\ ~TooDeep(Here(g))
  /\ Inline(g)
  /\ lastWrite' = [f \in Files |-> 0] /\ lastUse' = [f \in Files |-> 0]
  /\ prior' = {} /\ unknown' = {}
  /\ UNCHANGED <<prog, present, sched, deps, started, finished, got, wrote, store, failed,
                 canceled, result, script, at, loaded, last, raced>>

\* scheduleWords on a recipe that exists: recipeLines on what it holds now.
ReadCalled(g) ==
  /\ AtLine(g) /\ Exists(Here(g)) /\ ~TooDeep(Here(g))
  /\ Inline(g)
  /\ UNCHANGED <<vars, script, at, loaded, last, raced>>

\* Goroutine g touches the stamps while another one is in recordLeaf.
Touches(g) == raced' = (raced \/ \E h \in Schedulers \ {g} : at[h] = "stamping")

MustSpawnAlways(line) == ~line.bad

\* A command that recipeFiles accepts, or the call of a recipe that is not
\* there.
MustSpawn(line) == ~line.bad /\ ~Exists(line)

\* fileDeps and Go in scheduleLeaf.
Spawn(g) ==
  /\ AtLine(g) /\ MustSpawn(Here(g))
  /\ prog' = Append(prog, Here(g))
  /\ sched' = sched + 1
  /\ deps' = Append(deps, FileDeps(Here(g)))
  /\ got' = Append(got, [f \in Files |-> Unread])
  /\ wrote' = Append(wrote, {})
  /\ todo' = [todo EXCEPT ![g] = Tail(@)]
  /\ at' = [at EXCEPT ![g] = "spawned"]
  /\ last' = [last EXCEPT ![g] = sched + 1]
  /\ Touches(g)
  /\ UNCHANGED <<present, stamps, started, finished, store, failed, canceled, result,
                 script, loaded, calls>>

\* recordLeaf begins: append loads the slices.
LoadStamps(g) ==
  /\ result = "none"
  /\ at[g] = "spawned"
  /\ at' = [at EXCEPT ![g] = "stamping"]
  /\ loaded' = [loaded EXCEPT ![g] = [prior |-> prior, unknown |-> unknown]]
  /\ Touches(g)
  /\ UNCHANGED <<vars, script, todo, last, calls>>

\* recordLeaf ends: what another goroutine appended meanwhile is lost.
StoreStamps(g) ==
  /\ result = "none"
  /\ at[g] = "stamping"
  /\ at' = [at EXCEPT ![g] = "line"]
  /\ LET id == last[g]
         l  == prog[id] IN
       /\ prior' = loaded[g].prior \cup {id}
       /\ unknown' = IF l.glob THEN loaded[g].unknown \cup {id} ELSE unknown
       /\ lastWrite' = [f \in Files |-> IF ~l.glob /\ f \in l.writes THEN id ELSE lastWrite[f]]
       /\ lastUse' = [f \in Files |->
            IF l.glob THEN lastUse[f]
            ELSE IF f \in l.writes THEN 0
            ELSE IF f \in l.reads THEN id ELSE lastUse[f]]
  /\ loaded' = [loaded EXCEPT ![g] = Nothing]
  /\ UNCHANGED <<prog, present, sched, deps, started, finished, got, wrote, store, failed,
                 canceled, result, script, todo, last, calls, raced>>

\* The next line is rejected, or nests too deep: scheduling stops there.
ScheduleFails(g) ==
  /\ AtLine(g)
  /\ Here(g).bad \/ (Exists(Here(g)) /\ TooDeep(Here(g)))
  /\ failed' = failed \cup {g}
  /\ canceled' = TRUE
  /\ UNCHANGED <<prog, present, sched, stamps, deps, started, finished, got, wrote, store,
                 result, script, todo, at, loaded, last, calls, raced>>

Scheduled(g) == todo[g] = <<>> /\ at[g] = "line"

\* The Go runtime sees a map being written while it is used, and throws.  The
\* uses are recordLeaf, fileDeps and the loop over lastWrite that ends recipe.
UsesMaps(g) ==
  \/ at[g] = "stamping" /\ ~prog[last[g]].glob
  \/ AtLine(g) /\ MustSpawn(Here(g)) /\ ~Here(g).glob
  \/ g = 0 /\ Scheduled(0)

Throw ==
  /\ result = "none"
  /\ \E g, h \in Schedulers :
       g # h /\ at[g] = "stamping" /\ UsesMaps(g) /\ UsesMaps(h)
  /\ result' = "thrown"
  /\ raced' = TRUE
  /\ UNCHANGED <<prog, present, sched, stamps, deps, started, finished, got, wrote, store,
                 failed, canceled, script, todo, at, loaded, last, calls>>

-----------------------------------------------------------------------------
(* The tasks.                                                              *)

\* expandRecipe in the task of a Control leaf reads the recipe, which an
\* earlier leaf should have written by now.
ExpandRecipe(c) ==
  /\ Running(c) /\ c \in Control \ Schedulers
  /\ LET f == Called(prog[c]) IN
       \/ /\ f \in present /\ ~TooDeep(prog[c])
          /\ got' = [got EXCEPT ![c][f] = store[f]]
          /\ todo' = Joined(todo, c, Lines(f, prog[c].pos))
          /\ at' = Joined(at, c, "line")
          /\ loaded' = Joined(loaded, c, Nothing)
          /\ last' = Joined(last, c, 0)
          /\ UNCHANGED <<failed, canceled>>
       \/ /\ f \notin present \/ TooDeep(prog[c])
          /\ failed' = failed \cup {c}
          /\ canceled' = TRUE
          /\ UNCHANGED <<got, todo, at, loaded, last>>
  /\ UNCHANGED <<prog, present, sched, stamps, deps, started, finished, wrote, store,
                 result, script, calls, raced>>

FinishExpandedWaits(c) ==
  /\ c \in Control \cap Schedulers
  /\ Scheduled(c)
  /\ \A i \in Ids : Len(prog[i].pos) > Len(prog[c].pos) => i \in finished
  /\ FinishLeaf(c)
  /\ UNCHANGED <<script, todo, at, loaded, last, calls, raced>>

\* expandRecipe returns when the lines are scheduled, not when they have run.
FinishExpanded(c) ==
  /\ c \in Control \cap Schedulers
  /\ Scheduled(c)
  /\ FinishLeaf(c)
  /\ UNCHANGED <<script, todo, at, loaded, last, calls, raced>>

\* A command, as in module RecipeSchedule.
RunCommand(i) ==
  /\ result = "none"
  /\ i \notin Control
  /\ \/ \E f \in Files : ReadFile(i, f) \/ WriteFile(i, f)
     \/ FinishLeaf(i)
  /\ UNCHANGED <<script, todo, at, loaded, last, calls, raced>>

StartTask(i) ==
  /\ result = "none"
  /\ StartLeaf(i)
  /\ UNCHANGED <<script, todo, at, loaded, last, calls, raced>>

Fault ==
  /\ result = "none"
  /\ CancelSession \/ \E i \in Ids \ Control : ToolError(i)
  /\ UNCHANGED <<script, todo, at, loaded, last, calls, raced>>

\* GoIsolated returns when the scheduling function and every task are over.
RecipeReturns ==
  /\ result = "none"
  /\ 0 \in failed \/ Scheduled(0)
  /\ \A i \in Ids : ~Running(i)
  /\ \/ finished = Ids /\ 0 \notin failed /\ result' = "ok"
     \/ canceled /\ result' = "error"
  /\ UNCHANGED <<prog, present, sched, stamps, deps, started, finished, got, wrote, store,
                 failed, canceled, script, todo, at, loaded, last, calls, raced>>

Over == result # "none" /\ UNCHANGED all

Schedule(g) ==
  ReadCalled(g) \/ Spawn(g) \/ LoadStamps(g) \/ StoreStamps(g) \/ ScheduleFails(g)

Task(i) == StartTask(i) \/ RunCommand(i) \/ ExpandRecipe(i) \/ FinishExpanded(i)

Progress ==
  \/ \E g \in Schedulers : Schedule(g)
  \/ \E i \in Ids : Task(i)
  \/ RecipeReturns

NestedNext == Progress \/ Fault \/ Throw \/ Over

\* Every goroutine runs on and every ready task is started.  A recipe has
\* finitely many steps, so fairness of all of them together is enough.
NestedSpec == NestedInit /\ [][NestedNext]_all /\ WF_all(Progress)

-----------------------------------------------------------------------------
(* What callers of recipes rely on.                                        *)

\* Place p comes before place q in the text.
Before(p, q) ==
  \/ IsStrictPrefix(p, q)
  \/ \E k \in 1..Len(p) : /\ k <= Len(q)
                          /\ p[k] < q[k]
                          /\ \A j \in 1..k - 1 : p[j] = q[j]

\* v is the provenance f has at place q when the lines run one after the
\* other.
InTextOrder(v, f, q) ==
  LET writers == {i \in Ids : f \in prog[i].puts /\ Before(prog[i].pos, q)} IN
    \/ v = 0 /\ writers = {}
    \/ v \in writers /\ \A i \in writers \ {v} : Before(prog[i].pos, prog[v].pos)

Serial ==
  /\ \A i \in Ids : \A f \in Files :
       got[i][f] # Unread => InTextOrder(got[i][f], f, prog[i].pos)
  /\ \A c \in calls : InTextOrder(c.got, c.file, c.pos)
  /\ \A f \in Files : InTextOrder(store[f], f, <<Len(script.main) + 1>>)

\* The leaves as one flat recipe.
Flat ==
  [k \in Ids |-> prog[CHOOSE i \in Ids :
     Cardinality({j \in Ids : Before(prog[j].pos, prog[i].pos)}) = k - 1]]

\* No line before the call of a recipe that exists rewrites it.
NoneStale ==
  \A c \in calls : \A i \in Ids : c.file \in prog[i].puts => ~Before(prog[i].pos, c.pos)

\* Nothing comes after the call of a recipe that did not exist.
ControlLast ==
  \A c \in Control, i \in Ids :
    Before(prog[c].pos, prog[i].pos) => IsPrefix(prog[c].pos, prog[i].pos)

\* Nested recipes are serializable under three conditions: the flat recipe is
\* tame, no recipe is rewritten before a call that reads it early, and a
\* recipe the recipe itself produces is called last.  Then every command, in
\* whatever task it was scheduled, reads what the batch run would have given
\* it (scheduleWords, scheduleLeaf, expandRecipe).
NestedSerial ==
  (result = "ok" /\ ~raced /\ Tame(Flat) /\ NoneStale /\ ControlLast) => Serial

\* The stamps need no lock as long as every recipe called exists from the start
\* and none has been moved away: then one goroutine alone uses them.
OneScheduler ==
  raced => \E i \in Control :
    LET f == Called(prog[i])
    IN f \notin script.there \/ \E j \in Ids : f \in prog[j].drops \cap wrote[j]

\* A recipe always returns, recursive ones too, and although the leaves of a
\* Control leaf may wait for leaves that come after it in the text.
NestedReturns == <>(result # "none")

=============================================================================
