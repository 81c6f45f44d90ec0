------------------------- MODULE SolidExtractProofs -------------------------
(***************************************************************************)
(* Proofs about the extraction of the solids of one volume, for any        *)
(* volume, any limits of the pools and any number of writes per member.    *)
(*                                                                         *)
(* A solid is done only when its loop has read every member (ReadUp) and   *)
(* every write task it spawned is over and right (Joined).  What a task    *)
(* that is over has left is the member from beginning to end: in memory    *)
(* because Close installs a buffer of its own (InMemory), on disk because  *)
(* no other task has the name (OnDisk).                                    *)
(***************************************************************************)
EXTENDS SolidExtract, TLAPS

States == {"none", "queued", "create", "write", "ok", "failed", "dropped"}

Writers == Tasks \cup {NoMember}

Sound(t) == Files(t[1])[t[2]].sound

\* The chunks that t has written, and nothing else.
Own(t) == [i \in 1..off[t] |-> t]

Types ==
  /\ arch \in Archives
  /\ kind \in Kinds
  /\ at \in [Solids -> {"wait", "check", "acquire", "members", "tail", "done", "failed"}]
  /\ next \in [Solids -> Nat]
  /\ \A s \in Solids : next[s] \in 1..Len(Files(s)) + 1
  /\ bad \in [Solids -> BOOLEAN]
  /\ task \in [Tasks -> States]
  /\ off \in [Tasks -> 0..Chunks]
  /\ file \in [Paths -> Seq(Writers)]
  /\ \A p \in Paths : Len(file[p]) <= Chunks
  /\ closed \in [Paths -> Writers]
  /\ canceled \in BOOLEAN
  /\ result \in {"none", "ok", "error"}

\* The loop of extractSolid spawns one task per member, in order, as far as
\* the stream goes.
ReadUp ==
  /\ \A s \in Solids :
       /\ next[s] <= arch[s].good + 1
       /\ at[s] = "acquire" => next[s] \in DOMAIN Files(s)
       /\ at[s] = "wait" => next[s] = 1
       /\ at[s] \in {"members", "tail", "done"} => bad[s] \/ next[s] = Len(Files(s)) + 1
  /\ \A t \in Tasks : task[t] # "none" <=> t[2] < next[t[1]]

\* A solid that has ended has joined its tasks, and the volume its solids.
Joined ==
  /\ \A t \in Tasks : at[t[1]] \in {"tail", "done"} => task[t] = "ok"
  /\ \A t \in Tasks : at[t[1]] = "failed" => Over(t)
  /\ \A s \in Solids : at[s] \in {"tail", "done"} => ~bad[s]
  /\ \A s \in Solids : at[s] = "done" => arch[s].tail = "eof"
  /\ result # "none" => \A s \in Solids :
       at[s] \in {"done", "failed"} \/ (at[s] = "wait" /\ canceled)
  /\ result = "ok" => \A s \in Solids : at[s] = "done"

\* A task without an error has written all of a sound member and closed it.
Passed ==
  \A t \in Tasks :
    /\ task[t] \in {"none", "queued", "create", "dropped"} => off[t] = 0
    /\ task[t] = "ok" => off[t] = Chunks /\ Sound(t) /\ closed[Path(t)] \in Tasks

\* In memory a path holds the buffer of the writer that closed it last.
InMemory ==
  kind = "memory" =>
    \A p \in Paths : closed[p] # NoMember =>
      /\ Path(closed[p]) = p
      /\ task[closed[p]] \in {"ok", "failed"}
      /\ file[p] = Own(closed[p])

\* On disk a path that only one member has holds what this one has written.
OnDisk ==
  (kind = "disk" /\ DistinctNames) =>
    \A t \in Tasks : task[t] \in {"write", "ok"} => file[Path(t)] = Own(t)

IInv == Types /\ ReadUp /\ Joined /\ Passed /\ InMemory /\ OnDisk

-----------------------------------------------------------------------------
(* The volume is a constant.                                               *)

LEMMA Volume ==
  ASSUME arch \in Archives
  PROVE  /\ Chunks \in Nat \ {0}
         /\ \A s \in Solids :
              /\ arch[s].good \in Nat /\ Len(Files(s)) \in Nat
              /\ DOMAIN Files(s) = 1..Len(Files(s))
         /\ \A t \in Tasks :
              /\ t[1] \in Solids /\ t[2] \in DOMAIN Files(t[1]) /\ t[2] \in Nat
              /\ Path(t) \in Paths /\ Sound(t) \in BOOLEAN
              /\ t # NoMember
         /\ \A s \in Solids : \A i \in DOMAIN Files(s) : <<s, i>> \in Tasks
         /\ \A t, u \in Tasks : (t[1] = u[1] /\ t[2] = u[2]) => t = u
<1>1. arch \in Seq(Solid) /\ Chunks \in Nat \ {0}
  BY SolidAssumption
<1>2. ASSUME NEW s \in Solids
      PROVE  /\ s \in Nat \ {0} /\ arch[s].good \in Nat /\ Files(s) \in Seq(Member)
  <2>1. s \in Nat \ {0} /\ arch[s] \in Solid
    BY <1>1, <1>2 DEF Solids
  <2> QED
    BY <2>1 DEF Files, Solid
<1>3. ASSUME NEW s \in Solids
      PROVE  /\ Len(Files(s)) \in Nat /\ DOMAIN Files(s) = 1..Len(Files(s))
             /\ \A i \in DOMAIN Files(s) : Files(s)[i] \in Member
  <2>1. Files(s) \in Seq(Member)
    BY <1>2
  <2> QED
    BY <2>1
<1>4. ASSUME NEW t \in Tasks
      PROVE  \E s \in Solids : \E i \in DOMAIN Files(s) : t = <<s, i>>
  BY <1>4 DEF Tasks
<1>5. ASSUME NEW t \in Tasks
      PROVE  /\ t[1] \in Solids /\ t[2] \in DOMAIN Files(t[1]) /\ t[2] \in Nat
             /\ t = <<t[1], t[2]>>
             /\ Path(t) \in Paths /\ Sound(t) \in BOOLEAN
             /\ t # NoMember
  <2>1. PICK s \in Solids : \E i \in DOMAIN Files(s) : t = <<s, i>>
    BY <1>4
  <2>2. PICK i \in DOMAIN Files(s) : t = <<s, i>>
    BY <2>1
  <2>3. t[1] = s /\ t[2] = i
    BY <2>2
  <2>4. i \in Nat /\ Files(s)[i] \in Member
    BY <1>3
  <2>5. Path(t) \in Paths /\ Sound(t) \in BOOLEAN
    BY <2>3, <2>4 DEF Path, Sound, Member
  <2>6. t # NoMember
    BY <1>2, <2>2 DEF NoMember
  <2> QED
    BY <2>2, <2>3, <2>4, <2>5, <2>6
<1>6. \A s \in Solids : \A i \in DOMAIN Files(s) : <<s, i>> \in Tasks
  BY DEF Tasks
<1>7. \A t, u \in Tasks : (t[1] = u[1] /\ t[2] = u[2]) => t = u
  BY <1>5
<1> QED
  BY <1>1, <1>2, <1>3, <1>5, <1>6, <1>7

LEMMA Constant == [Next]_vars => arch' = arch /\ kind' = kind
<1> SUFFICES ASSUME [Next]_vars PROVE arch' = arch /\ kind' = kind
  OBVIOUS
<1>1. ASSUME NEW s \in Solids, SolidStep(s) PROVE arch' = arch /\ kind' = kind
  BY <1>1 DEF SolidStep, StartSolid, CheckContext, ReadMember, StopWaiting, EndMembers, ReadTail
<1>2. ASSUME NEW t \in Tasks, WriteStep(t) PROVE arch' = arch /\ kind' = kind
  BY <1>2 DEF WriteStep, StartWrite, DropWrite, CreateFile, WriteChunk, WriteStops, CloseFile
<1> QED
  BY <1>1, <1>2 DEF Next, Cancel, SolidsReturn, Returned, vars

LEMMA VolumeOnly ==
  ASSUME arch' = arch
  PROVE  /\ Solids' = Solids /\ Tasks' = Tasks /\ Writers' = Writers
         /\ \A s : Files(s)' = Files(s)
         /\ \A t : Path(t)' = Path(t)
         /\ \A t : Sound(t)' <=> Sound(t)
         /\ DistinctNames' <=> DistinctNames
<1>1. Solids' = Solids /\ \A s : Files(s)' = Files(s)
  BY DEF Solids, Files
<1>2. Tasks' = Tasks
  BY <1>1 DEF Tasks
<1>3. /\ \A t : Path(t)' = Path(t)
      /\ \A t : Sound(t)' <=> Sound(t)
  BY <1>1 DEF Path, Sound
<1> QED
  BY <1>1, <1>2, <1>3 DEF Writers, DistinctNames

-----------------------------------------------------------------------------
(* The file operations.                                                    *)

\* Writing chunk n: no chunk but n changes, and the file has n chunks or more.
LEMMA PutResult ==
  ASSUME NEW f \in Seq(Writers), NEW n \in 1..Chunks, NEW t \in Tasks, Len(f) <= Chunks,
         arch \in Archives
  PROVE  /\ Put(f, n, t) \in Seq(Writers) /\ Len(Put(f, n, t)) <= Chunks
         /\ f = [i \in 1..n - 1 |-> t] => Put(f, n, t) = [i \in 1..n |-> t]
<1> DEFINE m == IF Len(f) < n THEN n ELSE Len(f)
<1>1. Chunks \in Nat /\ Len(f) \in Nat /\ m \in Nat /\ m <= Chunks
  BY Volume
<1>2. Put(f, n, t) = [i \in 1..m |-> IF i = n THEN t ELSE IF i <= Len(f) THEN f[i] ELSE NoMember]
  BY DEF Put
<1>3. \A i \in 1..m : (IF i = n THEN t ELSE IF i <= Len(f) THEN f[i] ELSE NoMember) \in Writers
  BY <1>1 DEF Writers
<1>4. Put(f, n, t) \in [1..m -> Writers]
  BY <1>2, <1>3
<1>5. Put(f, n, t) \in Seq(Writers) /\ Len(Put(f, n, t)) = m
  BY <1>1, <1>4
<1>6. ASSUME f = [i \in 1..n - 1 |-> t] PROVE Put(f, n, t) = [i \in 1..n |-> t]
  <2>1. Len(f) = n - 1 /\ \A i \in 1..n - 1 : f[i] = t
    BY <1>6
  <2>2. m = n
    BY <2>1
  <2>3. \A i \in 1..m : (IF i = n THEN t ELSE IF i <= Len(f) THEN f[i] ELSE NoMember) = t
    BY <1>1, <2>1, <2>2
  <2> QED
    BY <1>2, <2>2, <2>3
<1> QED
  BY <1>1, <1>5, <1>6

LEMMA OwnFile ==
  ASSUME Types, NEW t \in Tasks
  PROVE  /\ off[t] \in 0..Chunks
         /\ Own(t) \in Seq(Writers) /\ Len(Own(t)) = off[t]
         /\ off[t] = 0 => Own(t) = <<>>
         /\ off[t] = Chunks => Own(t) = Whole(t)
<1>1. off[t] \in 0..Chunks /\ off[t] \in Nat /\ Chunks \in Nat
  BY Volume DEF Types
<1>2. Own(t) \in [1..off[t] -> Writers]
  BY DEF Own, Writers
<1>3. Own(t) \in Seq(Writers) /\ Len(Own(t)) = off[t]
  BY <1>1, <1>2
<1>4. off[t] = 0 => Own(t) = <<>>
  BY <1>1 DEF Own
<1>5. off[t] = Chunks => Own(t) = Whole(t)
  BY DEF Own, Whole
<1> QED
  BY <1>1, <1>3, <1>4, <1>5

\* What a write task may do to its file, from its state before and after.
LEMMA WriteEffect ==
  ASSUME Types, NEW t \in Tasks, WriteStep(t)
  PROVE  /\ UNCHANGED <<at, next, bad, result>>
         /\ task[t] \in {"queued", "create", "write"}
         /\ task' = [task EXCEPT ![t] = task'[t]] /\ task'[t] \in States \ {"none"}
         /\ canceled' = canceled \/ canceled' = TRUE
         /\ \/ /\ UNCHANGED <<off, file, closed>>
               /\ task[t] = "queued" /\ task'[t] \in {"create", "dropped"}
            \/ /\ UNCHANGED <<off, closed>>
               /\ file' = IF kind = "disk" THEN [file EXCEPT ![Path(t)] = <<>>] ELSE file
               /\ task[t] = "create" /\ task'[t] = "write"
            \/ /\ off[t] < Chunks /\ off' = [off EXCEPT ![t] = off[t] + 1] /\ UNCHANGED closed
               /\ file' = IF kind = "disk"
                          THEN [file EXCEPT ![Path(t)] = Put(file[Path(t)], off[t] + 1, t)]
                          ELSE file
               /\ task[t] = "write" /\ task'[t] = "write"
            \/ /\ UNCHANGED off /\ closed' = [closed EXCEPT ![Path(t)] = t]
               /\ file' = [file EXCEPT ![Path(t)] = IF kind = "disk" THEN file[Path(t)]
                                                    ELSE Own(t)]
               /\ task[t] = "write"
               /\ task'[t] = "failed" \/ (task'[t] = "ok" /\ off[t] = Chunks /\ Sound(t))
<1>0. task \in [Tasks -> States] /\ task[t] \in States
  BY DEF Types
<1>1. CASE StartWrite(t)
  BY <1>0, <1>1 DEF StartWrite, States
<1>2. CASE DropWrite(t)
  BY <1>0, <1>2 DEF DropWrite, States
<1>3. CASE CreateFile(t)
  BY <1>0, <1>3 DEF CreateFile, States
<1>4. CASE WriteChunk(t)
  BY <1>0, <1>4 DEF WriteChunk, States
<1>5. CASE WriteStops(t)
  BY <1>0, <1>5 DEF WriteStops, Installed, Own, States
<1>6. CASE CloseFile(t)
  <2>1. /\ \/ Sound(t) /\ task' = [task EXCEPT ![t] = "ok"] /\ canceled' = canceled
           \/ task' = [task EXCEPT ![t] = "failed"] /\ canceled' \in {canceled, TRUE}
    BY <1>6 DEF CloseFile, MayCancel, Sound
  <2>2. /\ UNCHANGED <<at, next, bad, result, off>>
        /\ task[t] = "write" /\ off[t] = Chunks
        /\ closed' = [closed EXCEPT ![Path(t)] = t]
        /\ file' = [file EXCEPT ![Path(t)] = IF kind = "disk" THEN file[Path(t)] ELSE Own(t)]
    BY <1>6 DEF CloseFile, Installed, Own
  <2>3. task'[t] = "failed" \/ (task'[t] = "ok" /\ Sound(t))
    BY <1>0, <2>1
  <2>4. task' = [task EXCEPT ![t] = task'[t]] /\ (canceled' = canceled \/ canceled' = TRUE)
    BY <1>0, <2>1
  <2> QED
    BY <2>2, <2>3, <2>4 DEF States
<1> QED
  BY <1>1, <1>2, <1>3, <1>4, <1>5, <1>6 DEF WriteStep

\* What a step of a solid's task does.
LEMMA SolidEffect ==
  ASSUME Types, NEW s \in Solids, SolidStep(s)
  PROVE  /\ UNCHANGED <<off, file, closed, result>>
         /\ canceled' = canceled \/ canceled' = TRUE
         /\ at' = [at EXCEPT ![s] = at'[s]]
         /\ bad' = bad \/ (bad' = [bad EXCEPT ![s] = TRUE] /\ at'[s] = "members")
         /\ \/ /\ UNCHANGED <<next, task>>
               /\ \/ at[s] = "wait" /\ ~canceled /\ at'[s] = "check"
                  \/ at[s] = "check" /\ next[s] \in DOMAIN Files(s) /\ at'[s] = "acquire"
                  \/ at[s] = "check" /\ next[s] \notin DOMAIN Files(s) /\ at'[s] = "members"
                  \/ at[s] \in {"check", "acquire"} /\ bad'[s] /\ at'[s] = "members"
                  \/ /\ at[s] = "members" /\ at'[s] = "tail" /\ ~bad[s] /\ bad' = bad
                     /\ \A t \in Tasks : t[1] = s => task[t] \in {"none", "ok"}
                  \/ /\ at[s] = "members" /\ at'[s] = "failed" /\ bad' = bad
                     /\ \A t \in Tasks : t[1] = s => Over(t)
                  \/ at[s] = "tail" /\ at'[s] = "done" /\ arch[s].tail = "eof" /\ bad' = bad
                  \/ at[s] = "tail" /\ at'[s] = "failed" /\ bad' = bad
            \/ /\ at[s] = "acquire" /\ at'[s] = "check" /\ next[s] <= arch[s].good
               /\ task' = [task EXCEPT ![<<s, next[s]>>] = "queued"]
               /\ next' = [next EXCEPT ![s] = next[s] + 1] /\ bad' = bad
<1>0. /\ at \in [Solids -> {"wait", "check", "acquire", "members", "tail", "done", "failed"}]
      /\ bad \in [Solids -> BOOLEAN] /\ task \in [Tasks -> States]
  BY DEF Types
<1>1. CASE StartSolid(s)
  BY <1>0, <1>1 DEF StartSolid
<1>2. CASE CheckContext(s)
  BY <1>0, <1>2 DEF CheckContext
<1>3. CASE ReadMember(s)
  BY <1>0, <1>3 DEF ReadMember
<1>4. CASE StopWaiting(s)
  BY <1>0, <1>4 DEF StopWaiting
<1>5. CASE EndMembers(s)
  <2> DEFINE error == bad[s] \/ \E t \in Tasks : t[1] = s /\ task[t] \in {"failed", "dropped"}
  <2>1. /\ at[s] = "members" /\ \A t \in Tasks : t[1] = s => Over(t)
        /\ at' = [at EXCEPT ![s] = IF error THEN "failed" ELSE "tail"]
        /\ UNCHANGED <<next, bad, task, off, file, closed, result>>
    BY <1>5 DEF EndMembers
  <2>2. canceled' = canceled \/ canceled' = TRUE
    BY <1>5 DEF EndMembers, MayCancel
  <2>3. CASE error
    <3>1. at'[s] = "failed" /\ at' = [at EXCEPT ![s] = at'[s]]
      BY <1>0, <2>1, <2>3
    <3> HIDE DEF error
    <3> QED
      BY <2>1, <2>2, <3>1
  <2>4. CASE ~error
    <3>1. at'[s] = "tail" /\ at' = [at EXCEPT ![s] = at'[s]] /\ ~bad[s]
      BY <1>0, <2>1, <2>4
    <3>2. \A t \in Tasks : t[1] = s => task[t] \in {"none", "ok"}
      BY <2>1, <2>4 DEF Over
    <3> HIDE DEF error
    <3> QED
      BY <2>1, <2>2, <3>1, <3>2
  <2> QED
    BY <2>3, <2>4
<1>6. CASE ReadTail(s)
  BY <1>0, <1>6 DEF ReadTail, MayCancel
<1> QED
  BY <1>1, <1>2, <1>3, <1>4, <1>5, <1>6 DEF SolidStep

\* The member that a solid reads next has a task that is still to come.
LEMMA NextTask ==
  ASSUME Types, ReadUp, NEW s \in Solids, at[s] = "acquire"
  PROVE  /\ <<s, next[s]>> \in Tasks /\ next[s] \in 1..Len(Files(s))
         /\ task[<<s, next[s]>>] = "none"
<1>1. next[s] \in DOMAIN Files(s) /\ arch \in Archives
  BY DEF ReadUp, Types
<1>2. <<s, next[s]>> \in Tasks /\ next[s] \in 1..Len(Files(s))
  BY <1>1, Volume
<1> DEFINE m == <<s, next[s]>>
<1>3. m[1] = s /\ m[2] = next[s] /\ m \in Tasks /\ next[s] \in Nat
  BY <1>2 DEF Types
<1> HIDE DEF m
<1>4. ~(m[2] < next[m[1]])
  BY <1>3
<1>5. task[m] = "none"
  BY <1>3, <1>4 DEF ReadUp
<1> QED
  BY <1>2, <1>5 DEF m

\* The other steps: a cancellation, the return of extractSolids and nothing.
LEMMA RestEffect ==
  ASSUME Cancel \/ SolidsReturn \/ Returned \/ UNCHANGED vars
  PROVE  /\ UNCHANGED <<at, next, bad, task, off, file, closed>>
         /\ canceled' = canceled \/ canceled' = TRUE
         /\ \/ result' = result
            \/ /\ canceled' = canceled
               /\ \A s \in Solids : at[s] \in {"done", "failed"} \/ (at[s] = "wait" /\ canceled)
               /\ result' = IF \A s \in Solids : at[s] = "done" THEN "ok" ELSE "error"
  BY DEF Cancel, SolidsReturn, Returned, vars

-----------------------------------------------------------------------------
LEMMA InitInv == Init => IInv
<1> SUFFICES ASSUME Init PROVE IInv
  OBVIOUS
<1>1. arch \in Archives
  BY DEF Init
<1>2. /\ \A s \in Solids : Len(Files(s)) \in Nat /\ arch[s].good \in Nat /\ 1 \in 1..Len(Files(s)) + 1
      /\ Chunks \in Nat \ {0}
      /\ \A t \in Tasks : t[1] \in Solids /\ ~(t[2] < 1)
  <2>1. \A s \in Solids : Len(Files(s)) \in Nat /\ arch[s].good \in Nat /\ 1 \in 1..Len(Files(s)) + 1
    BY <1>1, Volume
  <2>2. ASSUME NEW t \in Tasks PROVE t[1] \in Solids /\ ~(t[2] < 1)
    <3>1. t[1] \in Solids /\ t[2] \in 1..Len(Files(t[1]))
      BY <1>1, Volume
    <3> QED
      BY <2>1, <3>1
  <2> QED
    BY <1>1, <2>1, <2>2, Volume
<1>3. Types
  <2>1. off \in [Tasks -> 0..Chunks]
    BY <1>2 DEF Init
  <2>2. file \in [Paths -> Seq(Writers)] /\ \A p \in Paths : Len(file[p]) <= Chunks
    BY <1>2 DEF Init
  <2> QED
    BY <1>2, <2>1, <2>2 DEF Init, Types, States, Writers
<1>4. ReadUp
  BY <1>2 DEF Init, ReadUp
<1>5. Joined /\ Passed
  BY <1>2 DEF Init, Joined, Passed
<1>6. InMemory /\ OnDisk
  BY DEF Init, InMemory, OnDisk
<1> QED
  BY <1>3, <1>4, <1>5, <1>6 DEF IInv

LEMMA TypesStep == IInv /\ [Next]_vars => Types'
<1> SUFFICES ASSUME IInv, [Next]_vars PROVE Types'
  OBVIOUS
<1>0. /\ Types /\ ReadUp /\ arch' = arch /\ kind' = kind /\ arch \in Archives
      /\ Solids' = Solids /\ Tasks' = Tasks /\ Writers' = Writers
      /\ \A s : Files(s)' = Files(s)
  BY Constant, VolumeOnly DEF IInv, Types
<1>1. ASSUME NEW s \in Solids, SolidStep(s) PROVE Types'
  <2>0. UNCHANGED <<off, file, closed, result>> /\ (canceled' = canceled \/ canceled' = TRUE)
    BY <1>0, <1>1, SolidEffect
  <2>1. at' \in [Solids -> {"wait", "check", "acquire", "members", "tail", "done", "failed"}]
    <3>1. /\ at' = [at EXCEPT ![s] = at'[s]]
          /\ at'[s] \in {"wait", "check", "acquire", "members", "tail", "done", "failed"}
      BY <1>0, <1>1, SolidEffect
    <3> QED
      BY <1>0, <3>1 DEF Types
  <2>2. bad' \in [Solids -> BOOLEAN]
    BY <1>0, <1>1, SolidEffect DEF Types
  <2>3. /\ task' \in [Tasks -> States] /\ next' \in [Solids -> Nat]
        /\ \A u \in Solids : next'[u] \in 1..Len(Files(u)) + 1
    <3>1. CASE UNCHANGED <<next, task>>
      BY <1>0, <3>1 DEF Types
    <3>2. CASE /\ at[s] = "acquire"
               /\ task' = [task EXCEPT ![<<s, next[s]>>] = "queued"]
               /\ next' = [next EXCEPT ![s] = next[s] + 1]
      <4>1. next[s] \in 1..Len(Files(s)) /\ Len(Files(s)) \in Nat
        BY <1>0, <3>2, NextTask, Volume
      <4>2. next[s] + 1 \in Nat /\ next[s] + 1 \in 1..Len(Files(s)) + 1
        BY <4>1
      <4> QED
        BY <1>0, <3>2, <4>2 DEF Types, States
    <3> QED
      BY <1>0, <1>1, <3>1, <3>2, SolidEffect
  <2> QED
    BY <1>0, <2>0, <2>1, <2>2, <2>3 DEF Types
<1>2. ASSUME NEW t \in Tasks, WriteStep(t) PROVE Types'
  <2>0. UNCHANGED <<at, next, bad, result>> /\ (canceled' = canceled \/ canceled' = TRUE)
    BY <1>0, <1>2, WriteEffect
  <2>1. task' \in [Tasks -> States]
    <3>1. task' = [task EXCEPT ![t] = task'[t]] /\ task'[t] \in States
      BY <1>0, <1>2, WriteEffect
    <3> QED
      BY <1>0, <3>1 DEF Types
  <2>2. Path(t) \in Paths /\ file[Path(t)] \in Seq(Writers) /\ Len(file[Path(t)]) <= Chunks
        /\ Chunks \in Nat
    BY <1>0, Volume DEF Types
  <2>3. off' \in [Tasks -> 0..Chunks]
    <3>1. off' = off \/ (off[t] < Chunks /\ off' = [off EXCEPT ![t] = off[t] + 1])
      BY <1>0, <1>2, WriteEffect
    <3>2. off[t] \in 0..Chunks
      BY <1>0, OwnFile
    <3>3. off[t] < Chunks => off[t] + 1 \in 0..Chunks
      BY <2>2, <3>2
    <3> QED
      BY <1>0, <3>1, <3>3 DEF Types
  <2>4. closed' \in [Paths -> Writers]
    <3>1. closed' = closed \/ closed' = [closed EXCEPT ![Path(t)] = t]
      BY <1>0, <1>2, WriteEffect
    <3> QED
      BY <1>0, <3>1 DEF Types, Writers
  <2>5. file' \in [Paths -> Seq(Writers)] /\ \A p \in Paths : Len(file'[p]) <= Chunks
    <3>1. ASSUME NEW f \in Seq(Writers), Len(f) <= Chunks, file' = [file EXCEPT ![Path(t)] = f]
          PROVE  file' \in [Paths -> Seq(Writers)] /\ \A p \in Paths : Len(file'[p]) <= Chunks
      BY <1>0, <2>2, <3>1 DEF Types
    <3>2. <<>> \in Seq(Writers) /\ Len(<<>>) <= Chunks
      BY <2>2
    <3>3. Own(t) \in Seq(Writers) /\ Len(Own(t)) <= Chunks
      BY <1>0, <2>2, OwnFile
    <3>4. off[t] < Chunks => /\ Put(file[Path(t)], off[t] + 1, t) \in Seq(Writers)
                             /\ Len(Put(file[Path(t)], off[t] + 1, t)) <= Chunks
      <4>1. off[t] < Chunks => off[t] + 1 \in 1..Chunks
        BY <1>0, <2>2, OwnFile
      <4> QED
        BY <1>0, <2>2, <4>1, PutResult
    <3>5. CASE file' = file
      BY <1>0, <3>5 DEF Types
    <3>6. CASE file' = [file EXCEPT ![Path(t)] = <<>>]
      BY <3>1, <3>2, <3>6
    <3>7. CASE off[t] < Chunks /\ file' = [file EXCEPT ![Path(t)] = Put(file[Path(t)], off[t] + 1, t)]
      BY <3>1, <3>4, <3>7
    <3>8. CASE file' = [file EXCEPT ![Path(t)] = IF kind = "disk" THEN file[Path(t)] ELSE Own(t)]
      BY <2>2, <3>1, <3>3, <3>8
    <3> QED
      BY <1>0, <1>2, <3>5, <3>6, <3>7, <3>8, WriteEffect
  <2> QED
    BY <1>0, <2>0, <2>1, <2>3, <2>4, <2>5 DEF Types
<1>3. CASE Cancel \/ SolidsReturn \/ Returned \/ UNCHANGED vars
  BY <1>0, <1>3, RestEffect DEF Types
<1> QED
  BY <1>1, <1>2, <1>3 DEF Next

LEMMA ReadUpStep == IInv /\ [Next]_vars => ReadUp'
<1> SUFFICES ASSUME IInv, [Next]_vars PROVE ReadUp'
  OBVIOUS
<1>0. /\ Types /\ ReadUp /\ arch' = arch /\ arch \in Archives
      /\ Solids' = Solids /\ Tasks' = Tasks
      /\ \A s : Files(s)' = Files(s)
  BY Constant, VolumeOnly DEF IInv, Types
<1>1. ASSUME NEW s \in Solids, SolidStep(s) PROVE ReadUp'
  <2>0. /\ at' = [at EXCEPT ![s] = at'[s]]
        /\ bad' = bad \/ (bad' = [bad EXCEPT ![s] = TRUE] /\ at'[s] = "members")
        /\ at \in [Solids -> {"wait", "check", "acquire", "members", "tail", "done", "failed"}]
        /\ bad \in [Solids -> BOOLEAN]
    BY <1>0, <1>1, SolidEffect DEF Types
  <2>1. CASE UNCHANGED <<next, task>>
    <3>1. /\ at'[s] = "acquire" => next[s] \in DOMAIN Files(s)
          /\ at'[s] # "wait"
          /\ at'[s] \in {"members", "tail", "done"} => bad'[s] \/ next[s] = Len(Files(s)) + 1
      <4>1. next[s] \in DOMAIN Files(s) \/ next[s] = Len(Files(s)) + 1
        <5>1. /\ Len(Files(s)) \in Nat /\ DOMAIN Files(s) = 1..Len(Files(s))
              /\ next[s] \in 1..Len(Files(s)) + 1
          BY <1>0, Volume DEF Types
        <5> QED
          BY <5>1
      <4>2. at[s] \in {"members", "tail"} => bad[s] \/ next[s] = Len(Files(s)) + 1
        BY <1>0 DEF ReadUp
      <4>3. at[s] = "members" /\ at'[s] = "tail" => ~bad[s]
        BY <1>0, <1>1, <2>1, SolidEffect
      <4>4. bad[s] => bad'[s]
        BY <2>0
      <4> QED
        BY <1>0, <1>1, <2>1, <4>1, <4>2, <4>3, <4>4, SolidEffect DEF Types
    <3>2. ASSUME NEW u \in Solids, u # s PROVE at'[u] = at[u] /\ bad'[u] = bad[u]
      BY <2>0, <3>2
    <3>3. \A u \in Solids : next'[u] <= arch[u].good + 1
      BY <1>0, <2>1 DEF ReadUp
    <3>4. \A u \in Solids :
            /\ at'[u] = "acquire" => next'[u] \in DOMAIN Files(u)
            /\ at'[u] = "wait" => next'[u] = 1
            /\ at'[u] \in {"members", "tail", "done"} => bad'[u] \/ next'[u] = Len(Files(u)) + 1
      BY <1>0, <2>1, <3>1, <3>2 DEF ReadUp
    <3>5. \A t \in Tasks : task'[t] # "none" <=> t[2] < next'[t[1]]
      BY <1>0, <2>1 DEF ReadUp
    <3> QED
      BY <1>0, <3>3, <3>4, <3>5 DEF ReadUp
  <2>2. CASE /\ at[s] = "acquire" /\ at'[s] = "check" /\ next[s] <= arch[s].good
             /\ task' = [task EXCEPT ![<<s, next[s]>>] = "queued"]
             /\ next' = [next EXCEPT ![s] = next[s] + 1] /\ bad' = bad
    <3> DEFINE m == <<s, next[s]>>
    <3>0. m \in Tasks /\ m[1] = s /\ m[2] = next[s]
      BY <1>0, <2>2, NextTask
    <3>1. /\ next[s] \in Nat /\ arch[s].good \in Nat
          /\ next \in [Solids -> Nat] /\ task \in [Tasks -> States]
      BY <1>0, Volume DEF Types
    <3>2. \A u \in Solids : next'[u] <= arch[u].good + 1
      BY <1>0, <2>2, <3>1 DEF ReadUp
    <3>3. \A u \in Solids :
            /\ at'[u] = "acquire" => next'[u] \in DOMAIN Files(u)
            /\ at'[u] = "wait" => next'[u] = 1
            /\ at'[u] \in {"members", "tail", "done"} => bad'[u] \/ next'[u] = Len(Files(u)) + 1
      BY <1>0, <2>0, <2>2, <3>1 DEF ReadUp
    <3>4. ASSUME NEW t \in Tasks PROVE task'[t] # "none" <=> t[2] < next'[t[1]]
      <4>0. /\ t[1] \in Solids /\ t[2] \in Nat
            /\ task[t] # "none" <=> t[2] < next[t[1]]
        BY <1>0, Volume DEF ReadUp
      <4>1. task' = [task EXCEPT ![m] = "queued"]
        BY <2>2
      <4>2. t[1] = s /\ t[2] = next[s] => t = m
        BY <1>0, <3>0, Volume
      <4> HIDE DEF m
      <4>3. CASE t = m
        <5>1. task'[t] = "queued" /\ t[2] < next'[t[1]]
          BY <2>2, <3>0, <3>1, <4>1, <4>3
        <5> QED
          BY <5>1
      <4>4. CASE t # m
        <5>1. task'[t] = task[t]
          BY <3>1, <4>1, <4>4
        <5>2. t[2] < next'[t[1]] <=> t[2] < next[t[1]]
          BY <2>2, <3>1, <4>0, <4>2, <4>4
        <5> QED
          BY <4>0, <5>1, <5>2
      <4> QED
        BY <4>3, <4>4
    <3> QED
      BY <1>0, <3>2, <3>3, <3>4 DEF ReadUp
  <2> QED
    BY <1>0, <1>1, <2>1, <2>2, SolidEffect
<1>2. ASSUME NEW t \in Tasks, WriteStep(t) PROVE ReadUp'
  <2>1. UNCHANGED <<at, next, bad>>
    BY <1>0, <1>2, WriteEffect
  <2>2. /\ task' = [task EXCEPT ![t] = task'[t]] /\ task'[t] # "none" /\ task[t] # "none"
        /\ task \in [Tasks -> States]
    BY <1>0, <1>2, WriteEffect DEF Types
  <2>3. \A u \in Tasks : task'[u] # "none" <=> task[u] # "none"
    BY <2>2
  <2> QED
    BY <1>0, <2>1, <2>3 DEF ReadUp
<1>3. CASE Cancel \/ SolidsReturn \/ Returned \/ UNCHANGED vars
  BY <1>0, <1>3, RestEffect DEF ReadUp
<1> QED
  BY <1>1, <1>2, <1>3 DEF Next

LEMMA JoinedStep == IInv /\ [Next]_vars => Joined'
<1> SUFFICES ASSUME IInv, [Next]_vars PROVE Joined'
  OBVIOUS
<1>0. /\ Types /\ ReadUp /\ Joined /\ arch' = arch /\ arch \in Archives
      /\ Solids' = Solids /\ Tasks' = Tasks
  BY Constant, VolumeOnly DEF IInv, Types
<1>1. ASSUME NEW s \in Solids, SolidStep(s) PROVE Joined'
  <2>0. /\ at' = [at EXCEPT ![s] = at'[s]] /\ result' = result
        /\ canceled' = canceled \/ canceled' = TRUE
        /\ bad' = bad \/ (bad' = [bad EXCEPT ![s] = TRUE] /\ at'[s] = "members")
        /\ at \in [Solids -> {"wait", "check", "acquire", "members", "tail", "done", "failed"}]
        /\ bad \in [Solids -> BOOLEAN] /\ canceled \in BOOLEAN
    BY <1>0, <1>1, SolidEffect DEF Types
  <2>1. at[s] \notin {"done", "failed"} /\ ~(at[s] = "wait" /\ canceled)
    BY <1>0, <1>1, SolidEffect
  <2>2. result' = "none"
    BY <1>0, <2>0, <2>1 DEF Joined
  <2>3. \A u \in Solids : u # s => at'[u] = at[u] /\ bad'[u] = bad[u]
    BY <2>0
  <2>4. \A t \in Tasks : t[1] \in Solids /\ (t[1] # s => task'[t] = task[t])
    <3>1. ASSUME NEW t \in Tasks, t[1] # s PROVE task'[t] = task[t]
      <4>1. task' = task \/ (at[s] = "acquire" /\ task' = [task EXCEPT ![<<s, next[s]>>] = "queued"])
        BY <1>0, <1>1, SolidEffect
      <4>2. task \in [Tasks -> States] /\ t # <<s, next[s]>>
        BY <1>0, <3>1 DEF Types
      <4> QED
        BY <4>1, <4>2
    <3> QED
      BY <1>0, <3>1, Volume
  <2>5. CASE at'[s] \notin {"tail", "done", "failed"}
    <3>1. \A u \in Solids : at'[u] \in {"tail", "done", "failed"} => u # s /\ at'[u] = at[u]
      BY <2>3, <2>5
    <3>2. \A t \in Tasks : at'[t[1]] \in {"tail", "done"} => task'[t] = "ok"
      BY <1>0, <2>4, <3>1 DEF Joined
    <3>3. \A t \in Tasks : at'[t[1]] = "failed" => task'[t] \in {"none", "ok", "failed", "dropped"}
      BY <1>0, <2>4, <3>1 DEF Joined, Over
    <3>4. \A u \in Solids : at'[u] \in {"tail", "done"} => ~bad'[u]
      BY <1>0, <2>3, <3>1 DEF Joined
    <3>5. \A u \in Solids : at'[u] = "done" => arch[u].tail = "eof"
      BY <1>0, <3>1 DEF Joined
    <3> QED
      BY <1>0, <2>2, <3>2, <3>3, <3>4, <3>5 DEF Joined, Over
  <2>6. CASE at'[s] \in {"tail", "done", "failed"}
    <3>1. /\ UNCHANGED <<next, task, bad>>
          /\ \/ /\ at[s] = "members" /\ at'[s] = "tail" /\ ~bad[s]
                /\ \A t \in Tasks : t[1] = s => task[t] \in {"none", "ok"}
             \/ /\ at[s] = "members" /\ at'[s] = "failed"
                /\ \A t \in Tasks : t[1] = s => Over(t)
             \/ at[s] = "tail" /\ at'[s] = "done" /\ arch[s].tail = "eof"
             \/ at[s] = "tail" /\ at'[s] = "failed"
      BY <1>0, <1>1, <2>6, SolidEffect
    <3>2. ASSUME NEW t \in Tasks, t[1] = s, at[s] = "members", ~bad[s] PROVE task[t] # "none"
      <4>1. next[s] = Len(Files(s)) + 1 /\ t[2] \in DOMAIN Files(s)
        BY <1>0, <3>2, Volume DEF ReadUp
      <4>2. Len(Files(s)) \in Nat /\ DOMAIN Files(s) = 1..Len(Files(s))
        BY <1>0, Volume
      <4>3. t[2] < next[t[1]]
        BY <3>2, <4>1, <4>2
      <4> QED
        BY <1>0, <4>3 DEF ReadUp
    <3>3. \A t \in Tasks : t[1] = s /\ at'[s] \in {"tail", "done"} => task[t] = "ok"
      BY <1>0, <3>1, <3>2 DEF Joined
    <3>4. \A t \in Tasks : t[1] = s /\ at'[s] = "failed" => Over(t)
      BY <1>0, <3>1 DEF Joined, Over
    <3>5. (at'[s] \in {"tail", "done"} => ~bad[s]) /\ (at'[s] = "done" => arch[s].tail = "eof")
      BY <1>0, <3>1 DEF Joined
    <3>6. \A t \in Tasks : at'[t[1]] \in {"tail", "done"} => task'[t] = "ok"
      BY <1>0, <2>3, <2>4, <3>1, <3>3 DEF Joined
    <3>7. \A t \in Tasks : at'[t[1]] = "failed" => task'[t] \in {"none", "ok", "failed", "dropped"}
      BY <1>0, <2>3, <2>4, <3>1, <3>4 DEF Joined, Over
    <3>8. \A u \in Solids : at'[u] \in {"tail", "done"} => ~bad'[u]
      BY <1>0, <2>3, <3>1, <3>5 DEF Joined
    <3>9. \A u \in Solids : at'[u] = "done" => arch[u].tail = "eof"
      BY <1>0, <2>3, <3>5 DEF Joined
    <3> QED
      BY <1>0, <2>2, <3>6, <3>7, <3>8, <3>9 DEF Joined, Over
  <2> QED
    BY <2>5, <2>6
<1>2. ASSUME NEW t \in Tasks, WriteStep(t) PROVE Joined'
  <2>1. UNCHANGED <<at, bad, result>> /\ (canceled' = canceled \/ canceled' = TRUE)
    BY <1>0, <1>2, WriteEffect
  <2>2. /\ task' = [task EXCEPT ![t] = task'[t]] /\ task[t] \in {"queued", "create", "write"}
        /\ task \in [Tasks -> States] /\ canceled \in BOOLEAN
    BY <1>0, <1>2, WriteEffect DEF Types
  <2>3. at[t[1]] \notin {"tail", "done", "failed"}
    BY <1>0, <2>2 DEF Joined, Over
  <2>4. \A u \in Tasks : at[u[1]] \in {"tail", "done", "failed"} => task'[u] = task[u]
    BY <2>2, <2>3
  <2>5. \A u \in Tasks : at'[u[1]] \in {"tail", "done"} => task'[u] = "ok"
    BY <1>0, <2>1, <2>4 DEF Joined
  <2>6. \A u \in Tasks : at'[u[1]] = "failed" => task'[u] \in {"none", "ok", "failed", "dropped"}
    BY <1>0, <2>1, <2>4 DEF Joined, Over
  <2>7. result' # "none" => \A s \in Solids :
          at'[s] \in {"done", "failed"} \/ (at'[s] = "wait" /\ canceled')
    BY <1>0, <2>1, <2>2 DEF Joined
  <2> QED
    BY <1>0, <2>1, <2>5, <2>6, <2>7 DEF Joined, Over
<1>3. CASE Cancel \/ SolidsReturn \/ Returned \/ UNCHANGED vars
  <2>1. UNCHANGED <<at, bad, task>> /\ (canceled' = canceled \/ canceled' = TRUE)
    BY <1>3, RestEffect
  <2>2. canceled \in BOOLEAN
    BY <1>0 DEF Types
  <2>3. result' # "none" => \A s \in Solids :
          at'[s] \in {"done", "failed"} \/ (at'[s] = "wait" /\ canceled')
    <3>1. CASE result' = result
      BY <1>0, <2>1, <2>2, <3>1 DEF Joined
    <3>2. CASE /\ canceled' = canceled
               /\ \A s \in Solids : at[s] \in {"done", "failed"} \/ (at[s] = "wait" /\ canceled)
      BY <2>1, <3>2
    <3> QED
      BY <1>3, <3>1, <3>2, RestEffect
  <2>4. result' = "ok" => \A s \in Solids : at'[s] = "done"
    BY <1>0, <1>3, <2>1, RestEffect DEF Joined
  <2> QED
    BY <1>0, <2>1, <2>3, <2>4 DEF Joined, Over
<1> QED
  BY <1>1, <1>2, <1>3 DEF Next

\* A step changes the state of one task, a solid's one that had not begun.
LEMMA OtherTasks ==
  ASSUME Types, ReadUp, NEW s \in Solids, SolidStep(s), NEW t \in Tasks
  PROVE  task'[t] = task[t] \/ (task[t] = "none" /\ task'[t] = "queued")
<1>1. CASE task' = task
  BY <1>1
<1>2. CASE at[s] = "acquire" /\ task' = [task EXCEPT ![<<s, next[s]>>] = "queued"]
  <2>1. task[<<s, next[s]>>] = "none" /\ <<s, next[s]>> \in Tasks /\ task \in [Tasks -> States]
    BY <1>2, NextTask DEF Types
  <2> QED
    BY <1>2, <2>1
<1> QED
  BY <1>1, <1>2, SolidEffect

LEMMA PassedStep == IInv /\ [Next]_vars => Passed'
<1> SUFFICES ASSUME IInv, [Next]_vars PROVE Passed'
  OBVIOUS
<1>0. /\ Types /\ ReadUp /\ Passed /\ arch' = arch /\ arch \in Archives
      /\ Solids' = Solids /\ Tasks' = Tasks
      /\ \A t : Path(t)' = Path(t)
      /\ \A t : Sound(t)' <=> Sound(t)
  BY Constant, VolumeOnly DEF IInv, Types
<1>1. ASSUME NEW s \in Solids, SolidStep(s) PROVE Passed'
  <2>1. UNCHANGED <<off, closed>>
    BY <1>0, <1>1, SolidEffect
  <2>2. \A t \in Tasks : task'[t] = task[t] \/ (task[t] = "none" /\ task'[t] = "queued")
    BY <1>0, <1>1, OtherTasks
  <2> QED
    BY <1>0, <2>1, <2>2 DEF Passed
<1>2. ASSUME NEW t \in Tasks, WriteStep(t) PROVE Passed'
  <2>1. task' = [task EXCEPT ![t] = task'[t]] /\ task \in [Tasks -> States]
    BY <1>0, <1>2, WriteEffect DEF Types
  <2>2. off \in [Tasks -> 0..Chunks] /\ closed \in [Paths -> Writers]
    BY <1>0 DEF Types
  <2>3. ASSUME NEW u \in Tasks, u # t PROVE task'[u] = task[u] /\ off'[u] = off[u]
    <3>1. off' = off \/ off' = [off EXCEPT ![t] = off[t] + 1]
      BY <1>0, <1>2, WriteEffect
    <3> QED
      BY <2>1, <2>2, <2>3, <3>1
  <2>4. ASSUME NEW u \in Tasks, closed[Path(u)] \in Tasks PROVE closed'[Path(u)] \in Tasks
    <3>1. closed' = closed \/ closed' = [closed EXCEPT ![Path(t)] = t]
      BY <1>0, <1>2, WriteEffect
    <3>2. Path(u) \in Paths
      BY <1>0, Volume
    <3> QED
      BY <2>2, <2>4, <3>1, <3>2
  <2>5. task'[t] \in {"none", "queued", "create", "dropped"} => off'[t] = 0
    <3>1. task'[t] \in {"none", "queued", "create", "dropped"} => off' = off /\ task[t] = "queued"
      BY <1>0, <1>2, WriteEffect
    <3> QED
      BY <1>0, <3>1 DEF Passed
  <2>6. task'[t] = "ok" => off'[t] = Chunks /\ Sound(t) /\ closed'[Path(t)] \in Tasks
    <3>1. task'[t] = "ok" => /\ off' = off /\ off[t] = Chunks /\ Sound(t)
                             /\ closed' = [closed EXCEPT ![Path(t)] = t]
      BY <1>0, <1>2, WriteEffect
    <3>2. Path(t) \in Paths
      BY <1>0, Volume
    <3> QED
      BY <2>2, <3>1, <3>2
  <2>7. ASSUME NEW u \in Tasks
        PROVE  /\ task'[u] \in {"none", "queued", "create", "dropped"} => off'[u] = 0
               /\ task'[u] = "ok" => off'[u] = Chunks /\ Sound(u) /\ closed'[Path(u)] \in Tasks
    <3>1. CASE u = t
      BY <2>5, <2>6, <3>1
    <3>2. CASE u # t
      BY <1>0, <2>3, <2>4, <3>2 DEF Passed
    <3> QED
      BY <3>1, <3>2
  <2> QED
    BY <1>0, <2>7 DEF Passed
<1>3. CASE Cancel \/ SolidsReturn \/ Returned \/ UNCHANGED vars
  BY <1>0, <1>3, RestEffect DEF Passed
<1> QED
  BY <1>1, <1>2, <1>3 DEF Next

LEMMA InMemoryStep == IInv /\ [Next]_vars => InMemory'
<1> SUFFICES ASSUME IInv, [Next]_vars, kind = "memory" PROVE InMemory'
  BY Constant DEF InMemory
<1>0. /\ Types /\ ReadUp /\ InMemory /\ arch' = arch /\ kind' = kind /\ arch \in Archives
      /\ Tasks' = Tasks
      /\ \A t : Path(t)' = Path(t)
      /\ closed \in [Paths -> Writers] /\ file \in [Paths -> Seq(Writers)]
      /\ off \in [Tasks -> 0..Chunks] /\ task \in [Tasks -> States]
  BY Constant, VolumeOnly DEF IInv, Types
<1>1. ASSUME NEW p \in Paths, closed[p] # NoMember
      PROVE  /\ closed[p] \in Tasks /\ Path(closed[p]) = p
             /\ task[closed[p]] \in {"ok", "failed"}
             /\ file[p] = Own(closed[p])
  BY <1>0, <1>1 DEF InMemory, Writers
\* It is enough that what was closed stays and what is closed now is its own.
<1>2. ASSUME \A p \in Paths : closed'[p] # NoMember =>
               /\ Path(closed'[p]) = p
               /\ task'[closed'[p]] \in {"ok", "failed"}
               /\ file'[p] = [i \in 1..off'[closed'[p]] |-> closed'[p]]
      PROVE  InMemory'
  BY <1>0, <1>2 DEF InMemory, Own
<1>3. ASSUME NEW s \in Solids, SolidStep(s) PROVE InMemory'
  <2>1. UNCHANGED <<off, file, closed>>
    BY <1>0, <1>3, SolidEffect
  <2>2. \A t \in Tasks : task'[t] = task[t] \/ task[t] = "none"
    BY <1>0, <1>3, OtherTasks
  <2> QED
    BY <1>1, <1>2, <2>1, <2>2 DEF Own
<1>4. ASSUME NEW t \in Tasks, WriteStep(t) PROVE InMemory'
  <2>0. /\ task' = [task EXCEPT ![t] = task'[t]] /\ task[t] \notin {"ok", "failed"}
        /\ Path(t) \in Paths /\ t # NoMember
    BY <1>0, <1>4, WriteEffect, Volume
  <2>1. ASSUME NEW p \in Paths, closed[p] # NoMember
        PROVE  /\ closed[p] # t /\ task'[closed[p]] = task[closed[p]]
               /\ off' = off \/ off' = [off EXCEPT ![t] = off[t] + 1]
               /\ off'[closed[p]] = off[closed[p]]
    <3>1. closed[p] # t /\ closed[p] \in Tasks
      BY <1>1, <2>0, <2>1
    <3>2. off' = off \/ off' = [off EXCEPT ![t] = off[t] + 1]
      BY <1>0, <1>4, WriteEffect
    <3> QED
      BY <1>0, <2>0, <3>1, <3>2
  <2>2. CASE UNCHANGED <<file, closed>>
    BY <1>1, <1>2, <2>1, <2>2 DEF Own
  <2>3. CASE /\ off' = off /\ closed' = [closed EXCEPT ![Path(t)] = t]
             /\ file' = [file EXCEPT ![Path(t)] = Own(t)]
             /\ task'[t] \in {"ok", "failed"}
    <3>1. ASSUME NEW p \in Paths, closed'[p] # NoMember
          PROVE  /\ Path(closed'[p]) = p
                 /\ task'[closed'[p]] \in {"ok", "failed"}
                 /\ file'[p] = [i \in 1..off'[closed'[p]] |-> closed'[p]]
      <4>1. CASE p = Path(t)
        <5>1. closed'[p] = t /\ file'[p] = Own(t)
          BY <1>0, <2>0, <2>3, <4>1
        <5> QED
          BY <2>3, <4>1, <5>1 DEF Own
      <4>2. CASE p # Path(t)
        <5>1. closed'[p] = closed[p] /\ file'[p] = file[p]
          BY <1>0, <2>3, <4>2
        <5> QED
          BY <1>1, <2>1, <2>3, <3>1, <5>1 DEF Own
      <4> QED
        BY <4>1, <4>2
    <3> QED
      BY <1>2, <3>1
  <2>4. kind # "disk"
    OBVIOUS
  <2> QED
    BY <1>0, <1>4, <2>2, <2>3, <2>4, WriteEffect
<1>5. CASE Cancel \/ SolidsReturn \/ Returned \/ UNCHANGED vars
  <2>1. UNCHANGED <<off, file, closed, task>>
    BY <1>5, RestEffect
  <2> QED
    BY <1>1, <1>2, <2>1 DEF Own
<1> QED
  BY <1>3, <1>4, <1>5 DEF Next

LEMMA OnDiskStep == IInv /\ [Next]_vars => OnDisk'
<1> SUFFICES ASSUME IInv, [Next]_vars, kind = "disk", DistinctNames PROVE OnDisk'
  <2>1. (kind' = "disk" /\ DistinctNames') => (kind = "disk" /\ DistinctNames)
        \/ ~[Next]_vars
    BY Constant, VolumeOnly
  <2> QED
    BY <2>1 DEF OnDisk
<1>0. /\ Types /\ ReadUp /\ Passed /\ arch' = arch /\ kind' = kind /\ arch \in Archives
      /\ Tasks' = Tasks
      /\ \A t : Path(t)' = Path(t)
      /\ file \in [Paths -> Seq(Writers)] /\ \A p \in Paths : Len(file[p]) <= Chunks
      /\ off \in [Tasks -> 0..Chunks] /\ task \in [Tasks -> States]
  BY Constant, VolumeOnly DEF IInv, Types
<1>1. \A t \in Tasks : task[t] \in {"write", "ok"} => file[Path(t)] = Own(t)
  BY DEF IInv, OnDisk
<1>2. ASSUME \A u \in Tasks : task'[u] \in {"write", "ok"} =>
               file'[Path(u)] = [i \in 1..off'[u] |-> u]
      PROVE  OnDisk'
  BY <1>0, <1>2 DEF OnDisk, Own
<1>3. ASSUME NEW s \in Solids, SolidStep(s) PROVE OnDisk'
  <2>1. UNCHANGED <<off, file>>
    BY <1>0, <1>3, SolidEffect
  <2>2. \A t \in Tasks : task'[t] = task[t] \/ task'[t] = "queued"
    BY <1>0, <1>3, OtherTasks
  <2> QED
    BY <1>1, <1>2, <2>1, <2>2 DEF Own
<1>4. ASSUME NEW t \in Tasks, WriteStep(t) PROVE OnDisk'
  <2>0. /\ task' = [task EXCEPT ![t] = task'[t]]
        /\ Path(t) \in Paths /\ off[t] \in 0..Chunks /\ Chunks \in Nat
    BY <1>0, <1>4, WriteEffect, Volume
  \* A task of another path notices nothing.
  <2>1. ASSUME NEW u \in Tasks, u # t, NEW f, file' = [file EXCEPT ![Path(t)] = f],
               off' = off \/ off' = [off EXCEPT ![t] = off[t] + 1],
               task'[u] \in {"write", "ok"}
        PROVE  file'[Path(u)] = [i \in 1..off'[u] |-> u]
    <3>1. Path(u) # Path(t) /\ Path(u) \in Paths
      BY <1>0, <2>1, Volume DEF DistinctNames
    <3>2. task'[u] = task[u] /\ off'[u] = off[u] /\ file'[Path(u)] = file[Path(u)]
      BY <1>0, <2>0, <2>1, <3>1
    <3> QED
      BY <1>1, <2>1, <3>2 DEF Own
  <2>2. CASE UNCHANGED <<off, file>> /\ task'[t] \in {"create", "dropped"}
    <3>1. \A u \in Tasks : task'[u] \in {"write", "ok"} => task'[u] = task[u]
      BY <1>0, <2>0, <2>2
    <3> QED
      BY <1>1, <1>2, <2>2, <3>1 DEF Own
  <2>3. CASE off' = off /\ file' = [file EXCEPT ![Path(t)] = <<>>] /\ task[t] = "create"
    <3>1. off[t] = 0 /\ file'[Path(t)] = <<>> /\ Own(t) = <<>>
      BY <1>0, <2>0, <2>3, OwnFile DEF Passed
    <3>2. file'[Path(t)] = [i \in 1..off'[t] |-> t]
      BY <2>3, <3>1 DEF Own
    <3> QED
      BY <1>2, <2>1, <2>3, <3>2
  <2>4. CASE /\ off[t] < Chunks /\ off' = [off EXCEPT ![t] = off[t] + 1] /\ task[t] = "write"
             /\ file' = [file EXCEPT ![Path(t)] = Put(file[Path(t)], off[t] + 1, t)]
    <3> DEFINE f == file[Path(t)]
               n == off[t] + 1
    <3>1. f \in Seq(Writers) /\ Len(f) <= Chunks /\ n \in 1..Chunks /\ off'[t] = n
      BY <1>0, <2>0, <2>4
    <3>2. f = [i \in 1..n - 1 |-> t]
      BY <1>1, <2>0, <2>4 DEF Own
    <3>3. file'[Path(t)] = Put(f, n, t)
      BY <1>0, <2>0, <2>4
    <3> HIDE DEF f, n
    <3>4. Put(f, n, t) = [i \in 1..n |-> t]
      BY <1>0, <3>1, <3>2, PutResult
    <3>5. file'[Path(t)] = [i \in 1..off'[t] |-> t]
      BY <3>1, <3>3, <3>4
    <3> QED
      <4>1. ASSUME NEW u \in Tasks, u # t, task'[u] \in {"write", "ok"}
            PROVE  file'[Path(u)] = [i \in 1..off'[u] |-> u]
        BY <2>1, <2>4, <4>1
      <4> QED
        BY <1>2, <3>5, <4>1
  <2>5. CASE /\ off' = off /\ task[t] = "write"
             /\ file' = [file EXCEPT ![Path(t)] = file[Path(t)]]
    <3>1. file'[Path(t)] = [i \in 1..off'[t] |-> t]
      BY <1>0, <1>1, <2>0, <2>5 DEF Own
    <3> QED
      BY <1>2, <2>1, <2>5, <3>1
  <2> QED
    BY <1>0, <1>4, <2>2, <2>3, <2>4, <2>5, WriteEffect
<1>5. CASE Cancel \/ SolidsReturn \/ Returned \/ UNCHANGED vars
  <2>1. UNCHANGED <<off, file, task>>
    BY <1>5, RestEffect
  <2> QED
    BY <1>1, <1>2, <2>1 DEF Own
<1> QED
  BY <1>3, <1>4, <1>5 DEF Next

LEMMA Inductive == Spec => []IInv
<1>1. IInv /\ [Next]_vars => IInv'
  BY TypesStep, ReadUpStep, JoinedStep, PassedStep, InMemoryStep, OnDiskStep DEF IInv
<1> QED
  BY InitInv, <1>1, PTL DEF Spec

-----------------------------------------------------------------------------
(* Every variable keeps its type: the loop stays within the members of its *)
(* solid and no writer goes past the end of its member (extractSolid,      *)
(* copyCtx).                                                               *)
THEOREM ExtractTypes == Spec => []TypeOK
<1>1. IInv => TypeOK
  BY DEF IInv, Types, TypeOK, States, Writers
<1> QED
  BY Inductive, <1>1, PTL

\* A volume that extractSolids returned without an error has all its tasks ok.
LEMMA AllOk ==
  ASSUME IInv, result = "ok"
  PROVE  /\ \A s \in Solids : ~bad[s] /\ next[s] = Len(Files(s)) + 1 /\ at[s] = "done"
         /\ \A t \in Tasks : task[t] = "ok" /\ off[t] = Chunks /\ Sound(t)
                             /\ closed[Path(t)] \in Tasks
<1>1. \A s \in Solids : at[s] = "done"
  BY DEF IInv, Joined
<1>2. \A s \in Solids : ~bad[s] /\ next[s] = Len(Files(s)) + 1
  BY <1>1 DEF IInv, Joined, ReadUp
<1>3. \A t \in Tasks : t[1] \in Solids
  BY Volume DEF IInv, Types
<1>4. \A t \in Tasks : task[t] = "ok"
  BY <1>1, <1>3 DEF IInv, Joined
<1> QED
  BY <1>1, <1>2, <1>4 DEF IInv, Passed

(* A volume extracts without an error only if every path holds all of a    *)
(* member of that name with the listed CRC (writeMember, the Dest of       *)
(* dest.go), on disk if no name occurs twice.                              *)
THEOREM ExtractsIntact == Spec => []Intact
<1>1. ASSUME IInv, result = "ok", kind = "memory" \/ DistinctNames,
             NEW s \in Solids, NEW i \in DOMAIN Files(s)
      PROVE  \E t \in Tasks : /\ Path(t) = Files(s)[i].path
                              /\ Files(t[1])[t[2]].sound
                              /\ file[Path(t)] = Whole(t)
  <2> DEFINE m == <<s, i>>
  <2>0. Types /\ arch \in Archives
    BY <1>1 DEF IInv, Types
  <2>1. m \in Tasks /\ m[1] = s /\ m[2] = i /\ Path(m) = Files(s)[i].path
    BY <2>0, Volume DEF Path
  <2> HIDE DEF m
  <2>2. /\ \A t \in Tasks : task[t] = "ok" /\ off[t] = Chunks /\ Sound(t)
        /\ closed[Path(m)] \in Tasks
    BY <1>1, <2>1, AllOk
  <2>3. CASE kind = "memory"
    <3> DEFINE t == closed[Path(m)]
    <3>1. t \in Tasks /\ t # NoMember /\ Path(m) \in Paths
      BY <2>0, <2>1, <2>2, Volume
    <3>2. Path(t) = Path(m) /\ file[Path(m)] = Own(t)
      BY <1>1, <2>3, <3>1 DEF IInv, InMemory
    <3>3. Own(t) = Whole(t) /\ Sound(t)
      BY <2>0, <2>2, <3>1, OwnFile
    <3> HIDE DEF t
    <3> QED
      BY <2>1, <3>1, <3>2, <3>3 DEF Sound
  <2>4. CASE kind # "memory"
    <3>1. kind = "disk" /\ DistinctNames
      BY <1>1, <2>0, <2>4, SolidAssumption DEF Types
    <3>2. file[Path(m)] = Own(m)
      BY <1>1, <2>1, <2>2, <3>1 DEF IInv, OnDisk
    <3>3. Own(m) = Whole(m) /\ Sound(m)
      BY <2>0, <2>1, <2>2, OwnFile
    <3> QED
      BY <2>1, <3>2, <3>3 DEF Sound
  <2> QED
    BY <2>3, <2>4
<1>2. IInv => Intact
  BY <1>1 DEF Intact
<1> QED
  BY Inductive, <1>2, PTL

(* ... and only if the stream of every solid held its members and ended    *)
(* there (the read of one byte after the last member in extractSolid).     *)
THEOREM ReadsWholeStream == Spec => []WholeStream
<1>1. ASSUME IInv, result = "ok", NEW s \in Solids
      PROVE  arch[s].tail = "eof" /\ arch[s].good >= Len(Files(s))
  <2>1. at[s] = "done" /\ next[s] = Len(Files(s)) + 1
    BY <1>1, AllOk
  <2>2. arch[s].tail = "eof" /\ next[s] <= arch[s].good + 1
    BY <1>1, <2>1 DEF IInv, Joined, ReadUp
  <2>3. arch[s].good \in Nat /\ Len(Files(s)) \in Nat
    BY <1>1, Volume DEF IInv, Types
  <2> QED
    BY <2>1, <2>2, <2>3
<1>2. IInv => WholeStream
  BY <1>1 DEF WholeStream
<1> QED
  BY Inductive, <1>2, PTL

(* In memory a name that occurs twice holds all of the member that was     *)
(* closed last (storeWriter.Close of reconstruct.go, the promise of        *)
(* dest.go).                                                               *)
THEOREM LastCloseWinsInMemory == Spec => []MemoryLastCloseWins
<1>1. ASSUME IInv, kind = "memory", result = "ok", NEW p \in Paths, closed[p] # NoMember
      PROVE  file[p] = Whole(closed[p])
  <2>1. closed[p] \in Tasks /\ file[p] = Own(closed[p]) /\ Types
    BY <1>1 DEF IInv, InMemory, Types, Writers
  <2>2. off[closed[p]] = Chunks
    BY <1>1, <2>1, AllOk
  <2> QED
    BY <2>1, <2>2, OwnFile
<1>2. IInv => MemoryLastCloseWins
  BY <1>1 DEF MemoryLastCloseWins, LastCloseWins
<1> QED
  BY Inductive, <1>2, PTL

(* Once extractSolids has returned no task writes, so the caller may read, *)
(* hash or remove what was extracted (Isolate joins the tasks of a solid,  *)
(* Each the solids).                                                       *)
THEOREM NothingWritesLate == Spec => NoLateWrite
<1>1. IInv /\ [Next]_vars => [result # "none" => file' = file]_vars
  <2> SUFFICES ASSUME IInv, [Next]_vars, result # "none" PROVE file' = file
    OBVIOUS
  <2>0. Types /\ ReadUp /\ arch \in Archives
    BY DEF IInv, Types
  <2>1. ASSUME NEW t \in Tasks PROVE task[t] \notin {"queued", "create", "write"}
    <3>1. t[1] \in Solids /\ t[2] \in 1..Len(Files(t[1])) /\ Len(Files(t[1])) \in Nat
      BY <2>0, Volume
    <3>2. at[t[1]] \in {"done", "failed", "wait"}
      BY <3>1 DEF IInv, Joined
    <3>3. at[t[1]] = "wait" => ~(t[2] < next[t[1]])
      BY <2>0, <3>1 DEF ReadUp
    <3> QED
      BY <2>0, <3>2, <3>3 DEF IInv, ReadUp, Joined, Over
  <2>2. \A s \in Solids : SolidStep(s) => file' = file
    BY <2>0, SolidEffect
  <2>3. \A t \in Tasks : ~WriteStep(t)
    BY <2>0, <2>1, WriteEffect
  <2> QED
    BY <2>2, <2>3, RestEffect DEF Next
<1> QED
  BY Inductive, <1>1, PTL DEF Spec, NoLateWrite

=============================================================================
