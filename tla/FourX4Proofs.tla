---------------------------- MODULE FourX4Proofs ----------------------------
(***************************************************************************)
(* Proofs about the 4x4 reader, for any number of workers and blocks: its  *)
(* types, the order of the blocks it hands out, and what the end of the    *)
(* stream and an error tell the caller.                                    *)
(*                                                                         *)
(* The argument for the end of the stream.  While nobody has cancelled the *)
(* group, a block read from the source is somewhere (Kept), and the group  *)
(* is cancelled only by the caller or after an error went into results,    *)
(* where the caller finds it before the end (Told).  So at the end every   *)
(* block was handed out, and each of them had decoded (Good).              *)
(***************************************************************************)
EXTENDS FourX4, FiniteSetTheorems, TLAPS

Pending(w) == worker[w].at \in {"decode", "send"}

Faulty == stream.bad # {} \/ stream.broken

\* Blocks under way were read before seq.
Early ==
  /\ want <= seq
  /\ \A b \in hold : b < seq
  /\ \A i \in 1..Len(results) : ~results[i].err => results[i].seq < seq
  /\ \A w \in Workers : Pending(w) => worker[w].seq < seq
  /\ \A i \in 1..Len(jobs) : jobs[i] < seq
  /\ producer = "send" => seq < stream.blocks

\* Blocks that passed for good have decoded.
Good ==
  /\ \A b \in 0..MaxBlocks : b < want => b \notin stream.bad
  /\ \A b \in hold : b \notin stream.bad
  /\ \A i \in 1..Len(results) : ~results[i].err => results[i].seq \notin stream.bad
  /\ \A w \in Workers :
       (worker[w].at = "send" /\ ~worker[w].err) => worker[w].seq \notin stream.bad

\* Without a cancellation every error under way is about the stream.
Blamed ==
  ctx = "live" =>
    /\ \A i \in 1..Len(results) : results[i].err => Faulty
    /\ \A w \in Workers : (worker[w].at = "send" /\ worker[w].err) => Faulty
    /\ producer = "fail" => stream.broken
    /\ outcome = "error" => Faulty

\* While the group lives, a block that was read is handed out or on its way.
Held(b) ==
  \/ b < want
  \/ b \in hold
  \/ \E i \in 1..Len(results) : results[i].seq = b /\ ~results[i].err
  \/ \E w \in Workers : Pending(w) /\ worker[w].seq = b
  \/ \E i \in 1..Len(jobs) : jobs[i] = b

Kept == group = "live" => \A b \in 0..MaxBlocks : b < seq => Held(b)

\* A group that ends without the caller's doing has left an error for it.
Told ==
  /\ group = "live" => \A i \in 1..Len(results) : ~results[i].err
  /\ (group = "done" /\ ctx = "live" /\ outcome # "closed") =>
       outcome = "error" \/ \E i \in 1..Len(results) : results[i].err

\* How the goroutines end.
Ends ==
  /\ jobsShut => producer = "exit"
  /\ (group = "live" /\ producer = "exit") => seq = stream.blocks /\ ~stream.broken
  /\ \A w \in Workers :
       (group = "live" /\ worker[w].at = "exit") => jobs = <<>> /\ jobsShut
  /\ shut => producer = "exit" /\ \A w \in Workers : worker[w].at = "exit"
  /\ caller = "take" => outcome = "data"

IInv == TypeOK /\ Early /\ Good /\ Blamed /\ Kept /\ Told /\ Ends /\ CompleteAtEOF

-----------------------------------------------------------------------------
Results == [seq : 0..MaxBlocks, err : BOOLEAN]

WorkerStates == [at : {"idle", "decode", "send", "exit"}, seq : 0..MaxBlocks, err : BOOLEAN]

JobQueues == {<<>>} \cup {<<b>> : b \in 0..MaxBlocks}

LEMMA Bounds == Cardinality(Workers) \in Nat /\ MaxBlocks \in Nat
  BY FourX4Assumption, FS_CardinalityType

\* Sending to and receiving from the results channel, element by element.
LEMMA Sent ==
  ASSUME NEW s \in Seq(Results), NEW r \in Results
  PROVE  /\ Append(s, r) \in Seq(Results)
         /\ Len(Append(s, r)) = Len(s) + 1
         /\ \A i \in 1..Len(s) : Append(s, r)[i] = s[i]
         /\ Append(s, r)[Len(s) + 1] = r
  OBVIOUS

LEMMA Received ==
  ASSUME NEW s \in Seq(Results), s # <<>>
  PROVE  /\ Tail(s) \in Seq(Results)
         /\ Len(s) \in Nat \ {0}
         /\ Len(Tail(s)) = Len(s) - 1
         /\ \A i \in 1..Len(s) - 1 : Tail(s)[i] = s[i + 1]
         /\ Head(s) = s[1] /\ s[1] \in Results
  OBVIOUS

-----------------------------------------------------------------------------
(* The types.                                                              *)

LEMMA InitInv == Init => IInv
<1> SUFFICES ASSUME Init PROVE IInv
  OBVIOUS
<1>1. stream \in Streams /\ stream.blocks \in 0..MaxBlocks
  BY DEF Init, Streams
<1>2. Idle \in WorkerStates
  BY Bounds DEF Idle, WorkerStates
<1>3. worker \in [Workers -> WorkerStates]
  BY <1>2 DEF Init
<1>4. /\ results \in Seq(Results) /\ Len(results) = 0
      /\ delivered \in Seq(0..MaxBlocks)
      /\ jobs \in JobQueues /\ Len(jobs) = 0
  BY DEF Init, JobQueues
<1>5. /\ seq \in 0..stream.blocks /\ want \in 0..stream.blocks
      /\ Len(results) <= Cardinality(Workers)
  BY <1>1, <1>4, Bounds DEF Init
<1>6. TypeOK
  BY <1>1, <1>3, <1>4, <1>5 DEF Init, TypeOK, WorkerStates, Results, JobQueues
<1>7. \A w \in Workers : worker[w].at = "idle"
  BY DEF Init, Idle
<1>8. Early /\ Good /\ Blamed
  BY <1>1, <1>4, <1>7, Bounds DEF Init, Early, Good, Blamed, Pending
<1>9. Kept /\ Told /\ Ends /\ CompleteAtEOF
  BY <1>1, <1>4, <1>7, Bounds DEF Init, Kept, Told, Ends, CompleteAtEOF
<1> QED
  BY <1>6, <1>8, <1>9 DEF IInv

\* What the jobs channel does.
LEMMA JobsChannel ==
  ASSUME TypeOK
  PROVE  /\ jobs \in JobQueues
         /\ jobs # <<>> => Len(jobs) = 1 /\ jobs = <<jobs[1]>> /\ Head(jobs) = jobs[1]
                            /\ jobs[1] \in 0..MaxBlocks /\ Tail(jobs) = <<>>
         /\ jobs = <<>> => Len(jobs) = 0
<1>1. jobs \in JobQueues
  BY DEF TypeOK, JobQueues
<1>2. CASE jobs = <<>>
  BY <1>1, <1>2
<1>3. CASE jobs # <<>>
  <2>1. PICK b \in 0..MaxBlocks : jobs = <<b>>
    BY <1>1, <1>3 DEF JobQueues
  <2> QED
    BY <1>1, <2>1
<1> QED
  BY <1>2, <1>3

\* What a worker's step does to it.
LEMMA WorkerChange ==
  ASSUME TypeOK, NEW w \in Workers, WorkerStep(w)
  PROVE  /\ worker' \in [Workers -> WorkerStates]
         /\ \A v \in Workers \ {w} : worker'[v] = worker[v]
         /\ ReceiveJob(w) => worker'[w] = [at |-> "decode", seq |-> jobs[1], err |-> FALSE]
         /\ JobsEnd(w) \/ WorkerStops(w) => worker'[w].at = "exit"
         /\ DecodeBlock(w) =>
              /\ worker'[w].at = "send" /\ worker'[w].seq = worker[w].seq
              /\ worker[w].seq \in stream.bad => worker'[w].err
              /\ worker'[w].err => worker[w].seq \in stream.bad \/ ctx = "done"
         /\ SendResult(w) =>
              IF worker[w].err THEN worker'[w].at = "exit" ELSE worker'[w] = Idle
<1>1. worker \in [Workers -> WorkerStates]
  BY DEF TypeOK, WorkerStates
<1>2. worker[w] \in WorkerStates
  BY <1>1
<1>3. CASE ReceiveJob(w)
  <2> DEFINE r == [at |-> "decode", seq |-> Head(jobs), err |-> FALSE]
  <2>1. Head(jobs) = jobs[1] /\ jobs[1] \in 0..MaxBlocks
    BY <1>3, JobsChannel DEF ReceiveJob
  <2>2. worker' = [worker EXCEPT ![w] = r] /\ r \in WorkerStates
    BY <1>3, <2>1 DEF ReceiveJob, WorkerStates
  <2> HIDE DEF r
  <2>3. /\ worker' \in [Workers -> WorkerStates] /\ worker'[w] = r
        /\ \A v \in Workers \ {w} : worker'[v] = worker[v]
    BY <1>1, <2>2
  <2> USE DEF r
  <2>4. worker'[w] = [at |-> "decode", seq |-> jobs[1], err |-> FALSE]
    BY <2>1, <2>3
  <2>5. worker[w].at = "idle" /\ jobs # <<>>
    BY <1>3 DEF ReceiveJob
  <2>6. ~JobsEnd(w) /\ ~WorkerStops(w) /\ ~DecodeBlock(w) /\ ~SendResult(w)
    BY <2>5 DEF JobsEnd, WorkerStops, DecodeBlock, SendResult
  <2> QED
    BY <2>3, <2>4, <2>6
<1>4. CASE JobsEnd(w) \/ WorkerStops(w)
  <2>1. worker' = [worker EXCEPT ![w] = [worker[w] EXCEPT !.at = "exit"]]
    BY <1>4 DEF JobsEnd, WorkerStops
  <2>2. [worker[w] EXCEPT !.at = "exit"] \in WorkerStates
    BY <1>2 DEF WorkerStates
  <2>3. /\ worker' \in [Workers -> WorkerStates]
        /\ \A v \in Workers \ {w} : worker'[v] = worker[v]
        /\ worker'[w].at = "exit"
    BY <1>1, <1>2, <2>1, <2>2 DEF WorkerStates
  <2>4. ~ReceiveJob(w) /\ ~DecodeBlock(w)
    BY <1>4 DEF JobsEnd, WorkerStops, ReceiveJob, DecodeBlock
  <2>5. SendResult(w) => worker[w].err
    <3> SUFFICES ASSUME SendResult(w), ~worker[w].err PROVE FALSE
      OBVIOUS
    <3>1. [worker EXCEPT ![w] = Idle][w] = Idle
      BY <1>1
    <3>2. worker' = [worker EXCEPT ![w] = Idle]
      BY DEF SendResult
    <3>3. worker'[w].at = "idle"
      BY <3>1, <3>2 DEF Idle
    <3> QED
      BY <2>3, <3>3
  <2> QED
    BY <2>3, <2>4, <2>5
<1>5. CASE DecodeBlock(w)
  <2>1. PICK err \in BOOLEAN :
          /\ worker[w].seq \in stream.bad => err
          /\ err => worker[w].seq \in stream.bad \/ ctx = "done"
          /\ worker' = [worker EXCEPT ![w].at = "send", ![w].err = err]
    BY <1>5 DEF DecodeBlock
  <2> DEFINE r == [worker[w] EXCEPT !.at = "send", !.err = err]
  <2>2. /\ r \in WorkerStates /\ r.at = "send" /\ r.seq = worker[w].seq /\ r.err = err
        /\ worker' = [worker EXCEPT ![w] = r]
    BY <1>1, <1>2, <2>1 DEF WorkerStates
  <2> HIDE DEF r
  <2>3. /\ worker' \in [Workers -> WorkerStates] /\ worker'[w] = r
        /\ \A v \in Workers \ {w} : worker'[v] = worker[v]
    BY <1>1, <2>2
  <2>4. ~ReceiveJob(w) /\ ~SendResult(w) /\ ~JobsEnd(w) /\ ~WorkerStops(w)
    BY <1>5 DEF JobsEnd, ReceiveJob, SendResult, WorkerStops, DecodeBlock
  <2> QED
    BY <2>1, <2>2, <2>3, <2>4
<1>6. CASE SendResult(w)
  <2>1. ~ReceiveJob(w) /\ ~DecodeBlock(w) /\ ~JobsEnd(w)
    BY <1>6 DEF JobsEnd, ReceiveJob, DecodeBlock, SendResult
  <2>2. CASE worker[w].err
    <3>1. worker' = [worker EXCEPT ![w] = [worker[w] EXCEPT !.at = "exit"]]
      BY <1>6, <2>2 DEF SendResult
    <3>2. [worker[w] EXCEPT !.at = "exit"] \in WorkerStates
      BY <1>2 DEF WorkerStates
    <3>3. /\ worker' \in [Workers -> WorkerStates]
          /\ \A v \in Workers \ {w} : worker'[v] = worker[v]
          /\ worker'[w].at = "exit"
      BY <1>1, <1>2, <3>1, <3>2 DEF WorkerStates
    <3> QED
      BY <2>1, <2>2, <3>3
  <2>3. CASE ~worker[w].err
    <3>1. worker' = [worker EXCEPT ![w] = Idle] /\ Len(results') = Len(results) + 1
      BY <1>6, <2>3, Sent, <1>2 DEF SendResult, TypeOK, Results, WorkerStates
    <3>2. Idle \in WorkerStates
      BY Bounds DEF WorkerStates, Idle
    <3>3. /\ worker' \in [Workers -> WorkerStates]
          /\ \A v \in Workers \ {w} : worker'[v] = worker[v]
          /\ worker'[w] = Idle
      BY <1>1, <1>2, <3>1, <3>2
    <3>4. ~WorkerStops(w)
      <4> SUFFICES ASSUME WorkerStops(w) PROVE FALSE
        OBVIOUS
      <4>1. results' = results /\ Len(results) \in Nat
        BY DEF WorkerStops, TypeOK
      <4> QED
        BY <3>1, <4>1
    <3> QED
      BY <2>1, <2>3, <3>3, <3>4
  <2> QED
    BY <2>2, <2>3
<1> QED
  BY <1>3, <1>4, <1>5, <1>6 DEF WorkerStep

\* Receiving a result: the caller's step, case by case.
LEMMA ResultTaken ==
  ASSUME TypeOK, TakeResult
  PROVE  /\ results' = Tail(results) /\ Len(results) \in Nat \ {0}
         /\ results[1] \in Results
         /\ results' \in Seq(Results) /\ Len(results') = Len(results) - 1
         /\ 1 \in 1..Len(results)
         /\ \A i \in 1..Len(results') :
              i + 1 \in 1..Len(results) /\ results'[i] = results[i + 1]
         /\ \A i \in 1..Len(results) :
              i = 1 \/ (i - 1 \in 1..Len(results') /\ results'[i - 1] = results[i])
         /\ \/ /\ results[1].err /\ outcome' = "error" /\ caller' = "idle"
               /\ hold' = hold /\ want' = want /\ delivered' = delivered
            \/ /\ ~results[1].err /\ results[1].seq = want
               /\ want' = want + 1 /\ delivered' = Append(delivered, want)
               /\ caller' = "idle" /\ outcome' = outcome /\ hold' = hold
            \/ /\ ~results[1].err /\ hold' = hold \cup {results[1].seq}
               /\ caller' = caller /\ want' = want
               /\ delivered' = delivered /\ outcome' = outcome
<1>1. results \in Seq(Results) /\ results # <<>> /\ results' = Tail(results)
  BY DEF TypeOK, TakeResult, Results
<1>2. /\ results' \in Seq(Results) /\ Len(results) \in Nat \ {0}
      /\ Len(results') = Len(results) - 1
      /\ \A i \in 1..Len(results) - 1 : results'[i] = results[i + 1]
      /\ Head(results) = results[1] /\ results[1] \in Results
  BY <1>1, Received
<1>3. /\ 1 \in 1..Len(results)
      /\ \A i \in 1..Len(results') :
           i + 1 \in 1..Len(results) /\ results'[i] = results[i + 1]
      /\ \A i \in 1..Len(results) :
           i = 1 \/ (i - 1 \in 1..Len(results') /\ results'[i - 1] = results[i])
  BY <1>2
<1> QED
  BY <1>1, <1>2, <1>3 DEF TakeResult, Deliver

\* Sending one: block b, in error or not, joins the channel.
Sends(b, e) ==
  /\ results' \in Seq(Results)
  /\ Len(results') <= Cardinality(Workers)
  /\ \A i \in 1..Len(results) : i \in 1..Len(results') /\ results'[i] = results[i]
  /\ \A i \in 1..Len(results') :
       \/ results'[i].seq = b /\ results'[i].err = e
       \/ i \in 1..Len(results) /\ results'[i] = results[i]
  /\ \E i \in 1..Len(results') : results'[i].seq = b /\ results'[i].err = e

LEMMA ResultSent ==
  ASSUME TypeOK, NEW b \in 0..MaxBlocks, NEW e \in BOOLEAN,
         results' = Append(results, [seq |-> b, err |-> e]), Room
  PROVE  Sends(b, e)
<1> DEFINE r == [seq |-> b, err |-> e]
<1>1. results \in Seq(Results) /\ r \in Results
  BY DEF TypeOK, Results
<1>2. r.seq = b /\ r.err = e
  OBVIOUS
<1>3. results' = Append(results, r)
  OBVIOUS
<1> HIDE DEF r
<1>4. /\ results' \in Seq(Results) /\ Len(results') = Len(results) + 1
      /\ \A i \in 1..Len(results) : results'[i] = results[i]
      /\ results'[Len(results) + 1] = r
  BY <1>1, <1>3, Sent
<1>5. Len(results) \in Nat
  BY <1>1
<1>6. /\ \A i \in 1..Len(results) : i \in 1..Len(results')
      /\ \A i \in 1..Len(results') : i = Len(results) + 1 \/ i \in 1..Len(results)
      /\ Len(results) + 1 \in 1..Len(results')
      /\ Len(results') <= Cardinality(Workers)
  BY <1>4, <1>5, Bounds DEF Room
<1> QED
  BY <1>2, <1>4, <1>6 DEF Sends

LEMMA ErrorSent ==
  ASSUME TypeOK, SendReadError
  PROVE  Sends(seq, TRUE)
<1>1. seq \in 0..MaxBlocks
  BY Bounds DEF TypeOK, Streams
<1> QED
  BY <1>1, ResultSent DEF SendReadError

LEMMA BlockSent ==
  ASSUME TypeOK, NEW w \in Workers, SendResult(w)
  PROVE  Sends(worker[w].seq, worker[w].err)
<1>1. worker[w].seq \in 0..MaxBlocks /\ worker[w].err \in BOOLEAN
  BY DEF TypeOK
<1> QED
  BY <1>1, ResultSent DEF SendResult

\* What a worker's step does to the rest.
LEMMA WorkerEffect ==
  ASSUME TypeOK, NEW w \in Workers, WorkerStep(w)
  PROVE  /\ UNCHANGED <<stream, ctx, launched, producer, seq, jobsShut, shut,
                        caller, hold, want, delivered, outcome>>
         /\ ReceiveJob(w) => jobs' = <<>> /\ jobs # <<>>
         /\ ~ReceiveJob(w) => jobs' = jobs
         /\ ~SendResult(w) => results' = results /\ group' = group
         /\ SendResult(w) => group' = IF worker[w].err THEN "done" ELSE group
<1>1. UNCHANGED <<stream, ctx, launched, producer, seq, jobsShut, shut,
                  caller, hold, want, delivered, outcome>>
  BY DEF WorkerStep, ReceiveJob, JobsEnd, DecodeBlock, SendResult, WorkerStops, reader
<1>2. ReceiveJob(w) => jobs' = <<>> /\ jobs # <<>>
  BY JobsChannel DEF ReceiveJob
<1>3. ~ReceiveJob(w) => jobs' = jobs
  BY DEF WorkerStep, JobsEnd, DecodeBlock, SendResult, WorkerStops
<1>4. ~SendResult(w) => results' = results /\ group' = group
  BY DEF WorkerStep, ReceiveJob, JobsEnd, DecodeBlock, WorkerStops
<1>5. SendResult(w) => group' = IF worker[w].err THEN "done" ELSE group
  BY DEF SendResult
<1> QED
  BY <1>1, <1>2, <1>3, <1>4, <1>5

-----------------------------------------------------------------------------
\* Each step keeps the types.
LEMMA TypeStep == IInv /\ [Next]_vars => TypeOK'
<1> SUFFICES ASSUME IInv, [Next]_vars PROVE TypeOK'
  OBVIOUS
<1> USE Bounds
<1>0. /\ TypeOK /\ stream \in Streams /\ stream.blocks \in 0..MaxBlocks
      /\ Early
  BY DEF IInv, TypeOK, Streams
<1>1. CASE BeginRead
  BY <1>0, <1>1 DEF BeginRead, pool, TypeOK
<1>2. CASE TakeHeld
  <2>1. want < seq /\ want \in 0..MaxBlocks
    BY <1>0, <1>2 DEF TakeHeld, Early, TypeOK
  <2>2. want' \in 0..stream.blocks /\ delivered' \in Seq(0..MaxBlocks)
    BY <1>0, <1>2, <2>1 DEF TakeHeld, Deliver, TypeOK
  <2> QED
    BY <1>0, <1>2, <2>2 DEF TakeHeld, Deliver, pool, TypeOK
<1>3. CASE TakeResult
  <2>1. ~results[1].err => results[1].seq < seq
    BY <1>0, <1>3, ResultTaken DEF Early
  <2>2. want \in Nat /\ seq \in 0..stream.blocks /\ delivered \in Seq(0..MaxBlocks)
        /\ hold \subseteq 0..MaxBlocks
    BY <1>0 DEF TypeOK
  <2>3. results[1].seq \in 0..MaxBlocks
    BY <1>0, <1>3, ResultTaken DEF Results
  <2>4. \/ want' = want /\ delivered' = delivered
        \/ want < seq /\ want' = want + 1 /\ delivered' = Append(delivered, want)
    BY <1>0, <1>3, ResultTaken, <2>1
  <2>5. want' \in 0..stream.blocks /\ delivered' \in Seq(0..MaxBlocks)
    <3>1. CASE want' = want /\ delivered' = delivered
      BY <1>0, <2>2, <3>1 DEF TypeOK
    <3>2. CASE want < seq /\ want' = want + 1 /\ delivered' = Append(delivered, want)
      <4>1. want' \in 0..stream.blocks /\ want \in 0..MaxBlocks
        BY <1>0, <2>2, <3>2
      <4> QED
        BY <2>2, <3>2, <4>1
    <3> QED
      BY <2>4, <3>1, <3>2
  <2>6. hold' \subseteq 0..MaxBlocks
    BY <1>0, <1>3, ResultTaken, <2>2, <2>3
  <2>7. /\ results' \in Seq(Results) /\ Len(results') <= Cardinality(Workers)
        /\ caller' \in {"idle", "take"} /\ outcome' \in {"data", "eof", "error", "closed"}
    <3>1. /\ Len(results) <= Cardinality(Workers) /\ caller \in {"idle", "take"}
          /\ outcome \in {"data", "eof", "error", "closed"}
      BY <1>0 DEF TypeOK
    <3>2. results' \in Seq(Results) /\ Len(results') <= Cardinality(Workers)
      BY <1>0, <1>3, <3>1, ResultTaken
    <3>3. /\ caller' = caller \/ caller' = "idle"
          /\ outcome' = outcome \/ outcome' = "error"
      BY <1>0, <1>3, ResultTaken
    <3> QED
      BY <3>1, <3>2, <3>3
  <2>8. UNCHANGED <<stream, ctx, group, launched, producer, seq, jobs, jobsShut, worker, shut>>
    BY <1>3 DEF TakeResult
  <2> QED
    BY <1>0, <2>5, <2>6, <2>7, <2>8 DEF TypeOK, Results
<1>4. CASE TakeEnd \/ Close \/ Cancel \/ Done \/ UNCHANGED vars
  <2>1. UNCHANGED <<stream, launched, producer, seq, jobs, jobsShut, worker, results, shut,
                    hold, want, delivered>>
    BY <1>4 DEF TakeEnd, Close, Cancel, Done, vars, pool, reader
  <2>2. /\ ctx' = ctx \/ ctx' = "done"
        /\ group' = group \/ group' = "done"
        /\ caller' = caller \/ caller' = "idle"
        /\ outcome' = outcome \/ outcome' \in {"eof", "closed"}
    BY <1>4 DEF TakeEnd, Close, Cancel, Done, vars, reader
  <2> QED
    BY <1>0, <2>1, <2>2 DEF TypeOK
<1>5. CASE ReadJob \/ ProducerStops
  BY <1>0, <1>5 DEF ReadJob, ProducerStops, reader, TypeOK
<1>6. CASE SendJob
  <2>1. seq < stream.blocks
    BY <1>0, <1>6 DEF SendJob, Early
  <2>2. seq' \in 0..stream.blocks /\ jobs' \in JobQueues
    BY <1>0, <1>6, <2>1 DEF SendJob, TypeOK, JobQueues
  <2> QED
    BY <1>0, <1>6, <2>2 DEF SendJob, reader, TypeOK, JobQueues
<1>7. CASE SendReadError
  <2>1. results' \in Seq(Results) /\ Len(results') <= Cardinality(Workers)
    BY <1>0, <1>7, ErrorSent DEF Sends
  <2> QED
    BY <1>0, <1>7, <2>1 DEF SendReadError, reader, TypeOK, Results
<1>8. ASSUME NEW w \in Workers, WorkerStep(w) PROVE TypeOK'
  <2>0. worker' \in [Workers -> WorkerStates]
    BY <1>0, <1>8, WorkerChange
  <2>1. CASE ReceiveJob(w)
    <3>1. jobs' \in JobQueues
      BY <1>0, <2>1, JobsChannel DEF ReceiveJob, JobQueues
    <3> QED
      BY <1>0, <2>0, <2>1, <3>1 DEF ReceiveJob, reader, TypeOK, WorkerStates, JobQueues
  <2>2. CASE JobsEnd(w) \/ DecodeBlock(w) \/ WorkerStops(w)
    BY <1>0, <2>0, <2>2 DEF JobsEnd, DecodeBlock, WorkerStops, reader, TypeOK, WorkerStates
  <2>3. CASE SendResult(w)
    <3>1. results' \in Seq(Results) /\ Len(results') <= Cardinality(Workers)
      BY <1>0, <2>3, BlockSent DEF Sends
    <3>2. group' = "done" \/ group' = group
      BY <2>3 DEF SendResult
    <3>3. UNCHANGED <<stream, ctx, launched, producer, seq, jobs, jobsShut, shut, caller, hold,
                      want, delivered, outcome>>
      BY <2>3 DEF SendResult, reader
    <3> QED
      BY <1>0, <2>0, <3>1, <3>2, <3>3 DEF TypeOK, WorkerStates, Results
  <2> QED
    BY <1>8, <2>1, <2>2, <2>3 DEF WorkerStep
<1>9. CASE CloseResults
  BY <1>0, <1>9 DEF CloseResults, reader, TypeOK
<1> QED
  BY <1>1, <1>2, <1>3, <1>4, <1>5, <1>6, <1>7, <1>8, <1>9 DEF Next, TakeStep, ProducerStep

\* What the numbers of the state are.
LEMMA Numbers ==
  ASSUME TypeOK
  PROVE  /\ seq \in Nat /\ want \in Nat /\ Len(results) \in Nat /\ hold \subseteq Nat
         /\ stream.blocks \in Nat /\ seq <= stream.blocks /\ stream.blocks <= MaxBlocks
         /\ \A w \in Workers : worker[w].seq \in 0..MaxBlocks
         /\ \A i \in 1..Len(results) : results[i].seq \in 0..MaxBlocks
<1>1. results \in Seq(Results) /\ worker \in [Workers -> WorkerStates]
  BY DEF TypeOK, Results, WorkerStates
<1>2. \A w \in Workers : worker[w].seq \in 0..MaxBlocks
  BY <1>1 DEF WorkerStates
<1>3. \A i \in 1..Len(results) : results[i].seq \in 0..MaxBlocks
  <2> SUFFICES ASSUME NEW i \in 1..Len(results) PROVE results[i].seq \in 0..MaxBlocks
    OBVIOUS
  <2>1. results[i] \in Results
    BY <1>1
  <2> QED
    BY <2>1 DEF Results
<1>4. /\ stream.blocks \in 0..MaxBlocks /\ seq \in 0..stream.blocks
      /\ want \in 0..stream.blocks /\ hold \subseteq 0..MaxBlocks
  BY DEF TypeOK, Streams
<1>5. stream.blocks \in Nat /\ stream.blocks <= MaxBlocks
  BY <1>4, Bounds
<1>6. seq \in Nat /\ want \in Nat /\ seq <= stream.blocks /\ hold \subseteq Nat
  BY <1>4, <1>5
<1>7. Len(results) \in Nat
  BY <1>1
<1> QED
  BY <1>2, <1>3, <1>5, <1>6, <1>7

\* Blocks under way stay before seq.
LEMMA EarlyStep == IInv /\ [Next]_vars => Early'
<1> SUFFICES ASSUME IInv, [Next]_vars PROVE Early'
  OBVIOUS
<1>0. TypeOK /\ Early
  BY DEF IInv
<1>a. /\ seq \in Nat /\ want \in Nat /\ Len(results) \in Nat /\ hold \subseteq Nat
      /\ stream.blocks \in Nat
  BY <1>0, Numbers
<1>1. CASE BeginRead \/ TakeEnd \/ Close \/ Cancel \/ Done \/ CloseResults \/ UNCHANGED vars
  BY <1>0, <1>1 DEF BeginRead, TakeEnd, Close, Cancel, Done, CloseResults, vars, pool, reader,
     Early, Pending
<1>2. CASE TakeHeld
  <2>1. want' = want + 1 /\ want \in hold /\ hold' \subseteq hold
    BY <1>2 DEF TakeHeld, Deliver
  <2>2. want' <= seq /\ \A b \in hold' : b < seq
    BY <1>0, <1>a, <2>1 DEF Early
  <2> QED
    BY <1>0, <1>2, <2>2 DEF TakeHeld, pool, Early, Pending
<1>3. CASE TakeResult
  <2>1. ~results[1].err => results[1].seq < seq
    BY <1>0, <1>3, ResultTaken DEF Early
  <2>2. \/ want' = want
        \/ want' = want + 1 /\ want < seq
    BY <1>0, <1>3, ResultTaken, <2>1
  <2>b. want' <= seq
    BY <1>0, <1>a, <2>2 DEF Early
  <2>c. \A b \in hold' : b < seq
    BY <1>0, <1>3, ResultTaken, <2>1 DEF Early
  <2>3. \A i \in 1..Len(results') : ~results'[i].err => results'[i].seq < seq
    BY <1>0, <1>3, ResultTaken DEF Early
  <2> QED
    BY <1>0, <1>3, <2>b, <2>c, <2>3 DEF TakeResult, Early, Pending
<1>4. CASE ReadJob \/ ProducerStops
  BY <1>0, <1>a, <1>4 DEF ReadJob, ProducerStops, reader, Early, Pending, TypeOK
<1>5. CASE SendJob
  <2>1. /\ jobs' = <<seq>> /\ seq' = seq + 1 /\ producer' = "read"
        /\ UNCHANGED <<worker, results, want, hold>>
    BY <1>5 DEF SendJob, reader
  <2>2. \A i \in 1..Len(jobs') : jobs'[i] < seq'
    BY <1>a, <2>1
  <2>3. \A w \in Workers : Pending(w) => worker[w].seq < seq + 1
    BY <1>0, <1>a, Numbers DEF Early
  <2>4. \A i \in 1..Len(results) : ~results[i].err => results[i].seq < seq + 1
    BY <1>0, <1>a, Numbers DEF Early
  <2>5. want <= seq + 1 /\ \A b \in hold : b < seq + 1
    BY <1>0, <1>a DEF Early
  <2> QED
    BY <2>1, <2>2, <2>3, <2>4, <2>5 DEF Early, Pending
<1>6. CASE SendReadError
  <2>1. \A i \in 1..Len(results') : ~results'[i].err => results'[i].seq < seq
    <3> SUFFICES ASSUME NEW i \in 1..Len(results'), ~results'[i].err
                 PROVE  results'[i].seq < seq
      OBVIOUS
    <3>1. i \in 1..Len(results) /\ results'[i] = results[i]
      BY <1>0, <1>6, ErrorSent DEF Sends
    <3> QED
      BY <1>0, <3>1 DEF Early
  <2> QED
    BY <1>0, <1>6, <2>1 DEF SendReadError, reader, Early, Pending
<1>7. ASSUME NEW w \in Workers, WorkerStep(w) PROVE Early'
  <2>0. \A v \in Workers \ {w} : worker'[v] = worker[v]
    BY <1>0, <1>7, WorkerChange
  <2>a. UNCHANGED <<stream, seq, producer, want, hold>>
    BY <1>0, <1>7, WorkerEffect
  <2>1. \A v \in Workers : Pending(v)' => worker'[v].seq < seq
    <3>1. \A v \in Workers \ {w} : Pending(v)' => worker'[v].seq < seq
      BY <1>0, <2>0 DEF Early, Pending
    <3>2. CASE ReceiveJob(w)
      <4>1. worker'[w].seq = jobs[1]
        BY <1>0, <1>7, <3>2, WorkerChange
      <4>2. 1 \in 1..Len(jobs)
        BY <1>0, <3>2, JobsChannel DEF ReceiveJob
      <4> QED
        BY <1>0, <3>1, <4>1, <4>2 DEF Early
    <3>3. CASE JobsEnd(w) \/ WorkerStops(w)
      BY <1>0, <1>7, <3>1, <3>3, WorkerChange DEF Pending
    <3>4. CASE DecodeBlock(w)
      BY <1>0, <1>7, <3>1, <3>4, WorkerChange DEF Pending, DecodeBlock, Early
    <3>5. CASE SendResult(w)
      BY <1>0, <1>7, <3>1, <3>5, WorkerChange DEF Pending, Idle
    <3> QED
      BY <1>7, <3>2, <3>3, <3>4, <3>5 DEF WorkerStep
  <2>2. \A i \in 1..Len(results') : ~results'[i].err => results'[i].seq < seq
    <3>1. CASE SendResult(w)
      <4>1. ~worker[w].err => worker[w].seq < seq
        BY <1>0, <3>1 DEF SendResult, Early, Pending
      <4>2. Sends(worker[w].seq, worker[w].err)
        BY <1>0, <3>1, BlockSent
      <4> QED
        BY <1>0, <4>1, <4>2 DEF Sends, Early
    <3>2. CASE ~SendResult(w)
      BY <1>0, <1>7, <3>2, WorkerEffect DEF Early
    <3> QED
      BY <3>1, <3>2
  <2>3. \A i \in 1..Len(jobs') : jobs'[i] < seq
    <3>1. CASE jobs' = <<>>
      BY <3>1
    <3>2. CASE jobs' = jobs
      BY <1>0, <3>2 DEF Early
    <3> QED
      BY <1>0, <1>7, <3>1, <3>2, WorkerEffect
  <2> QED
    BY <1>0, <2>a, <2>1, <2>2, <2>3 DEF Early
<1> QED
  BY <1>1, <1>2, <1>3, <1>4, <1>5, <1>6, <1>7 DEF Next, TakeStep, ProducerStep

\* Only decoded blocks pass for good.
LEMMA GoodStep == IInv /\ [Next]_vars => Good'
<1> SUFFICES ASSUME IInv, [Next]_vars PROVE Good'
  OBVIOUS
<1>0. TypeOK /\ Good
  BY DEF IInv
<1>a. want \in Nat /\ Len(results) \in Nat
  BY <1>0, Numbers
<1>1. CASE BeginRead \/ TakeEnd \/ Close \/ Cancel \/ Done \/ CloseResults \/ ReadJob
           \/ ProducerStops \/ SendJob \/ UNCHANGED vars
  BY <1>0, <1>1 DEF BeginRead, TakeEnd, Close, Cancel, Done, CloseResults, ReadJob,
     ProducerStops, SendJob, vars, pool, reader, Good
<1>2. CASE TakeHeld
  <2>1. want' = want + 1 /\ want \notin stream.bad /\ hold' \subseteq hold
    BY <1>0, <1>2 DEF TakeHeld, Deliver, Good
  <2>2. \A b \in 0..MaxBlocks : b < want' => b \notin stream.bad
    BY <1>0, <1>a, <2>1, Bounds DEF Good
  <2> QED
    BY <1>0, <1>2, <2>1, <2>2 DEF TakeHeld, pool, Good
<1>3. CASE TakeResult
  <2>1. ~results[1].err => results[1].seq \notin stream.bad
    BY <1>0, <1>3, ResultTaken DEF Good
  <2>2. want' = want \/ (want' = want + 1 /\ want \notin stream.bad)
    BY <1>0, <1>3, ResultTaken, <2>1
  <2>3. \A b \in 0..MaxBlocks : b < want' => b \notin stream.bad
    BY <1>0, <1>a, <2>2, Bounds DEF Good
  <2>4. \A b \in hold' : b \notin stream.bad
    BY <1>0, <1>3, ResultTaken, <2>1 DEF Good
  <2>5. \A i \in 1..Len(results') : ~results'[i].err => results'[i].seq \notin stream.bad
    BY <1>0, <1>3, ResultTaken DEF Good
  <2> QED
    BY <1>0, <1>3, <2>3, <2>4, <2>5 DEF TakeResult, Good
<1>4. CASE SendReadError
  <2>1. Sends(seq, TRUE)
    BY <1>0, <1>4, ErrorSent
  <2>2. \A i \in 1..Len(results') : ~results'[i].err => results'[i].seq \notin stream.bad
    BY <1>0, <2>1 DEF Sends, Good
  <2> QED
    BY <1>0, <1>4, <2>2 DEF SendReadError, reader, Good
<1>5. ASSUME NEW w \in Workers, WorkerStep(w) PROVE Good'
  <2>0. UNCHANGED <<stream, want, hold>> /\ \A v \in Workers \ {w} : worker'[v] = worker[v]
    BY <1>0, <1>5, WorkerChange, WorkerEffect
  <2>1. \A i \in 1..Len(results') : ~results'[i].err => results'[i].seq \notin stream.bad
    <3>1. CASE SendResult(w)
      <4>1. ~worker[w].err => worker[w].seq \notin stream.bad
        BY <1>0, <3>1 DEF SendResult, Good
      <4>2. Sends(worker[w].seq, worker[w].err)
        BY <1>0, <3>1, BlockSent
      <4> QED
        BY <1>0, <4>1, <4>2 DEF Sends, Good
    <3>2. CASE ~SendResult(w)
      BY <1>0, <1>5, <3>2, WorkerEffect DEF Good
    <3> QED
      BY <3>1, <3>2
  <2>2. (worker'[w].at = "send" /\ ~worker'[w].err) => worker'[w].seq \notin stream.bad
    <3>1. CASE DecodeBlock(w)
      BY <1>0, <1>5, <3>1, WorkerChange
    <3>2. CASE ~DecodeBlock(w)
      <4>1. worker'[w].at # "send"
        BY <1>0, <1>5, <3>2, WorkerChange DEF WorkerStep, Idle
      <4> QED
        BY <4>1
    <3> QED
      BY <3>1, <3>2
  <2> QED
    BY <1>0, <2>0, <2>1, <2>2 DEF Good
<1> QED
  BY <1>1, <1>2, <1>3, <1>4, <1>5 DEF Next, TakeStep, ProducerStep

\* Errors under way are about the stream until the caller cancels.
LEMMA BlamedStep == IInv /\ [Next]_vars => Blamed'
<1> SUFFICES ASSUME IInv, [Next]_vars, ctx' = "live" PROVE Blamed'
  BY DEF Blamed
<1>0. TypeOK /\ Blamed
  BY DEF IInv
<1>a. stream' = stream /\ ctx = "live" /\ (Faulty' <=> Faulty)
  <2>1. stream' = stream /\ ctx = "live"
    <3>1. ASSUME NEW w \in Workers, WorkerStep(w) PROVE stream' = stream /\ ctx' = ctx
      BY <1>0, <3>1, WorkerEffect
    <3> QED
      BY <3>1 DEF Next, TakeStep, ProducerStep, BeginRead, TakeHeld, TakeResult, TakeEnd, Close,
         Cancel, ReadJob, SendJob, SendReadError, ProducerStops, CloseResults, Done, vars
  <2> QED
    BY <2>1 DEF Faulty
<1>b. /\ \A i \in 1..Len(results) : results[i].err => Faulty
      /\ \A w \in Workers : (worker[w].at = "send" /\ worker[w].err) => Faulty
      /\ producer = "fail" => stream.broken
      /\ outcome = "error" => Faulty
  BY <1>0, <1>a DEF Blamed
<1>1. CASE BeginRead \/ TakeHeld \/ TakeEnd \/ Close \/ Done \/ CloseResults \/ UNCHANGED vars
  BY <1>a, <1>b, <1>1 DEF BeginRead, TakeHeld, Deliver, TakeEnd, Close, Done, CloseResults, vars,
     pool, reader, Blamed
<1>2. CASE Cancel
  BY <1>a, <1>2 DEF Cancel
<1>3. CASE TakeResult
  <2>1. outcome' = "error" => Faulty
    BY <1>0, <1>b, <1>3, ResultTaken
  <2>2. \A i \in 1..Len(results') : results'[i].err => Faulty
    BY <1>0, <1>b, <1>3, ResultTaken
  <2> QED
    BY <1>a, <1>b, <1>3, <2>1, <2>2 DEF TakeResult, Blamed
<1>4. CASE ReadJob \/ SendJob \/ ProducerStops
  BY <1>a, <1>b, <1>4 DEF ReadJob, SendJob, ProducerStops, reader, Blamed
<1>5. CASE SendReadError
  <2>1. Faulty
    BY <1>b, <1>5 DEF SendReadError, Faulty
  <2> QED
    BY <1>a, <2>1, <1>5 DEF SendReadError, Blamed
<1>6. ASSUME NEW w \in Workers, WorkerStep(w) PROVE Blamed'
  <2>0. UNCHANGED <<producer, outcome>> /\ \A v \in Workers \ {w} : worker'[v] = worker[v]
    BY <1>0, <1>6, WorkerChange, WorkerEffect
  <2>1. \A i \in 1..Len(results') : results'[i].err => Faulty
    <3>1. CASE SendResult(w)
      <4>1. worker[w].err => Faulty
        BY <1>b, <3>1 DEF SendResult
      <4>2. Sends(worker[w].seq, worker[w].err)
        BY <1>0, <3>1, BlockSent
      <4> QED
        BY <1>b, <4>1, <4>2 DEF Sends
    <3>2. CASE ~SendResult(w)
      BY <1>0, <1>b, <1>6, <3>2, WorkerEffect
    <3> QED
      BY <3>1, <3>2
  <2>2. (worker'[w].at = "send" /\ worker'[w].err) => Faulty
    <3>1. CASE DecodeBlock(w)
      <4>1. worker'[w].err => worker[w].seq \in stream.bad
        BY <1>0, <1>a, <1>6, <3>1, WorkerChange
      <4> QED
        BY <4>1 DEF Faulty
    <3>2. CASE ~DecodeBlock(w)
      <4>1. worker'[w].at # "send"
        BY <1>0, <1>6, <3>2, WorkerChange DEF WorkerStep, Idle
      <4> QED
        BY <4>1
    <3> QED
      BY <3>1, <3>2
  <2> QED
    BY <1>a, <1>b, <2>0, <2>1, <2>2 DEF Blamed
<1> QED
  BY <1>1, <1>2, <1>3, <1>4, <1>5, <1>6 DEF Next, TakeStep, ProducerStep

\* While the group lives, no block that was read gets lost.
LEMMA KeptStep == IInv /\ [Next]_vars => Kept'
<1> SUFFICES ASSUME IInv, [Next]_vars, group' = "live", NEW b \in 0..MaxBlocks, b < seq'
             PROVE  Held(b)'
  BY DEF Kept, Held
<1>0. TypeOK /\ Kept /\ Told
  BY DEF IInv
<1>a. /\ seq \in Nat /\ want \in Nat /\ b \in Nat
      /\ group = "live" => \A i \in 1..Len(results) : ~results[i].err
      /\ (group = "live" /\ b < seq) => Held(b)
  BY <1>0, Numbers, Bounds DEF Told, Kept, Held
<1>1. CASE BeginRead \/ TakeEnd \/ Close \/ Cancel \/ Done \/ CloseResults \/ ReadJob
           \/ ProducerStops \/ UNCHANGED vars
  <2>1. /\ group = "live" /\ UNCHANGED <<seq, want, hold, results, worker, jobs>>
    BY <1>1 DEF BeginRead, TakeEnd, Close, Cancel, Done, CloseResults, ReadJob, ProducerStops,
       vars, pool, reader
  <2> QED
    BY <1>a, <2>1 DEF Held, Pending
<1>2. CASE TakeHeld
  <2>1. /\ group = "live" /\ UNCHANGED <<seq, results, worker, jobs>>
        /\ want' = want + 1 /\ hold' = hold \ {want}
    BY <1>2 DEF TakeHeld, Deliver, pool
  <2>2. b < want \/ b = want => b < want'
    BY <1>a, <2>1
  <2> QED
    BY <1>a, <2>1, <2>2 DEF Held, Pending
<1>3. CASE TakeResult
  <2>1. group = "live" /\ UNCHANGED <<seq, worker, jobs>>
    BY <1>3 DEF TakeResult
  <2>2. /\ b < want => b < want'
        /\ b \in hold => b \in hold'
        /\ results[1].seq = b => b < want' \/ b \in hold'
    <3>1. ~results[1].err
      BY <1>0, <1>3, <1>a, <2>1, ResultTaken
    <3>2. \/ results[1].seq = want /\ want' = want + 1 /\ hold' = hold
          \/ hold' = hold \cup {results[1].seq} /\ want' = want
      BY <1>0, <1>3, <3>1, ResultTaken
    <3> QED
      BY <1>a, <3>2
  <2>3. ASSUME NEW i \in 1..Len(results), results[i].seq = b, ~results[i].err
        PROVE  Held(b)'
    <3>1. CASE i = 1
      BY <2>2, <2>3, <3>1 DEF Held
    <3>2. CASE i # 1
      <4>1. i - 1 \in 1..Len(results') /\ results'[i - 1] = results[i]
        BY <1>0, <1>3, <3>2, ResultTaken
      <4> QED
        BY <2>3, <4>1 DEF Held
    <3> QED
      BY <3>1, <3>2
  <2> QED
    BY <1>a, <2>1, <2>2, <2>3 DEF Held, Pending
<1>4. CASE SendJob
  <2>1. /\ group = "live" /\ UNCHANGED <<want, hold, results, worker>>
        /\ jobs = <<>> /\ jobs' = <<seq>> /\ seq' = seq + 1
    BY <1>4 DEF SendJob, reader
  <2>2. CASE b = seq
    <3>1. 1 \in 1..Len(jobs') /\ jobs'[1] = b
      BY <2>1, <2>2
    <3> QED
      BY <3>1 DEF Held
  <2>3. CASE b # seq
    <3>1. b < seq
      BY <1>a, <2>1, <2>3
    <3>2. ~ \E i \in 1..Len(jobs) : jobs[i] = b
      BY <2>1
    <3> QED
      BY <1>a, <2>1, <3>1, <3>2 DEF Held, Pending
  <2> QED
    BY <2>2, <2>3
<1>5. CASE SendReadError
  BY <1>5 DEF SendReadError
<1>6. ASSUME NEW w \in Workers, WorkerStep(w) PROVE Held(b)'
  <2>0. /\ UNCHANGED <<seq, want, hold>> /\ group = "live"
        /\ \A v \in Workers \ {w} : worker'[v] = worker[v]
    BY <1>0, <1>6, WorkerChange, WorkerEffect
  <2>a. Held(b)
    BY <1>a, <2>0
  <2>1. ASSUME b < want \/ b \in hold PROVE Held(b)'
    BY <2>0, <2>1 DEF Held
  <2>2. ASSUME NEW i \in 1..Len(results), results[i].seq = b, ~results[i].err
        PROVE  Held(b)'
    <3>1. i \in 1..Len(results') /\ results'[i] = results[i]
      BY <1>0, <1>6, BlockSent, WorkerEffect DEF Sends
    <3> QED
      BY <2>2, <3>1 DEF Held
  <2>3. ASSUME NEW v \in Workers \ {w}, Pending(v), worker[v].seq = b PROVE Held(b)'
    BY <2>0, <2>3 DEF Held, Pending
  <2>4. ASSUME Pending(w), worker[w].seq = b PROVE Held(b)'
    <3>1. CASE DecodeBlock(w)
      <4>1. Pending(w)' /\ worker'[w].seq = b
        BY <1>0, <1>6, <2>4, <3>1, WorkerChange DEF Pending
      <4> QED
        BY <4>1 DEF Held
    <3>2. CASE SendResult(w)
      <4>1. ~worker[w].err
        BY <1>0, <1>6, <3>2, WorkerEffect
      <4>2. \E i \in 1..Len(results') : results'[i].seq = b /\ results'[i].err = worker[w].err
        BY <1>0, <2>4, <3>2, BlockSent DEF Sends
      <4> QED
        BY <4>1, <4>2 DEF Held
    <3>3. ~ReceiveJob(w) /\ ~JobsEnd(w) /\ ~WorkerStops(w)
      BY <2>0, <2>4 DEF Pending, ReceiveJob, JobsEnd, WorkerStops
    <3> QED
      BY <1>6, <3>1, <3>2, <3>3 DEF WorkerStep
  <2>5. ASSUME NEW i \in 1..Len(jobs), jobs[i] = b PROVE Held(b)'
    <3>1. CASE ReceiveJob(w)
      <4>1. i = 1
        BY <1>0, <3>1, JobsChannel DEF ReceiveJob
      <4>2. Pending(w)' /\ worker'[w].seq = b
        BY <1>0, <1>6, <2>5, <3>1, <4>1, WorkerChange DEF Pending
      <4> QED
        BY <4>2 DEF Held
    <3>2. CASE ~ReceiveJob(w)
      <4>1. jobs' = jobs
        BY <1>0, <1>6, <3>2, WorkerEffect
      <4> QED
        BY <2>5, <4>1 DEF Held
    <3> QED
      BY <3>1, <3>2
  <2> QED
    BY <2>a, <2>1, <2>2, <2>3, <2>4, <2>5 DEF Held
<1> QED
  BY <1>1, <1>2, <1>3, <1>4, <1>5, <1>6 DEF Next, TakeStep, ProducerStep

\* An error of the goroutines reaches the caller.
LEMMA ToldStep == IInv /\ [Next]_vars => Told'
<1> SUFFICES ASSUME IInv, [Next]_vars PROVE Told'
  OBVIOUS
<1>0. TypeOK /\ Told /\ Ends
  BY DEF IInv
<1>1. CASE BeginRead \/ Close \/ Cancel \/ Done \/ CloseResults \/ ReadJob \/ SendJob
           \/ ProducerStops \/ UNCHANGED vars
  BY <1>0, <1>1 DEF BeginRead, Close, Cancel, Done, CloseResults, ReadJob, SendJob, ProducerStops,
     vars, pool, reader, Told, TypeOK
<1>2. CASE TakeHeld
  BY <1>0, <1>2 DEF TakeHeld, Deliver, pool, Told
<1>3. CASE TakeEnd
  <2>1. /\ UNCHANGED <<group, ctx, results>> /\ results = <<>> /\ outcome = "data"
    BY <1>0, <1>3 DEF TakeEnd, pool, Ends
  <2>2. ~ \E i \in 1..Len(results) : results[i].err
    BY <2>1
  <2> QED
    BY <1>0, <2>1, <2>2 DEF Told
<1>4. CASE TakeResult
  <2>1. UNCHANGED <<group, ctx>> /\ outcome = "data"
    BY <1>0, <1>4 DEF TakeResult, Ends
  <2>2. group = "live" => \A i \in 1..Len(results') : ~results'[i].err
    BY <1>0, <1>4, ResultTaken DEF Told
  <2>3. ASSUME NEW i \in 1..Len(results), results[i].err
        PROVE  outcome' = "error" \/ \E k \in 1..Len(results') : results'[k].err
    <3>1. CASE i = 1
      BY <1>0, <1>4, <2>3, <3>1, ResultTaken
    <3>2. CASE i # 1
      <4>1. i - 1 \in 1..Len(results') /\ results'[i - 1] = results[i]
        BY <1>0, <1>4, <3>2, ResultTaken
      <4> QED
        BY <2>3, <4>1
    <3> QED
      BY <3>1, <3>2
  <2>4. (group = "done" /\ ctx = "live") => \E i \in 1..Len(results) : results[i].err
    BY <1>0, <2>1 DEF Told
  <2> QED
    BY <2>1, <2>2, <2>3, <2>4 DEF Told
<1>5. CASE SendReadError
  <2>1. \E i \in 1..Len(results') : results'[i].err
    BY <1>0, <1>5, ErrorSent DEF Sends
  <2> QED
    BY <1>5, <2>1 DEF SendReadError, Told
<1>6. ASSUME NEW w \in Workers, WorkerStep(w) PROVE Told'
  <2>0. UNCHANGED <<ctx, outcome>>
    BY <1>0, <1>6, WorkerEffect
  <2>1. CASE SendResult(w)
    <3>1. Sends(worker[w].seq, worker[w].err) /\ worker[w].err \in BOOLEAN
      BY <1>0, <2>1, BlockSent DEF TypeOK
    <3>2. CASE worker[w].err
      <4>1. group' = "done" /\ \E i \in 1..Len(results') : results'[i].err
        BY <1>0, <1>6, <2>1, <3>1, <3>2, WorkerEffect DEF Sends
      <4> QED
        BY <4>1 DEF Told
    <3>3. CASE ~worker[w].err
      <4>1. group' = group
        BY <1>0, <1>6, <2>1, <3>3, WorkerEffect
      <4>2. group = "live" => \A i \in 1..Len(results') : ~results'[i].err
        BY <1>0, <3>1, <3>3 DEF Sends, Told
      <4>3. (\E i \in 1..Len(results) : results[i].err)
              => \E i \in 1..Len(results') : results'[i].err
        BY <3>1 DEF Sends
      <4> QED
        BY <1>0, <2>0, <4>1, <4>2, <4>3 DEF Told
    <3> QED
      BY <3>1, <3>2, <3>3
  <2>2. CASE ~SendResult(w)
    BY <1>0, <1>6, <2>0, <2>2, WorkerEffect DEF Told
  <2> QED
    BY <2>1, <2>2
<1> QED
  BY <1>1, <1>2, <1>3, <1>4, <1>5, <1>6 DEF Next, TakeStep, ProducerStep

\* How the goroutines end.
LEMMA EndsStep == IInv /\ [Next]_vars => Ends'
<1> SUFFICES ASSUME IInv, [Next]_vars PROVE Ends'
  OBVIOUS
<1>0. TypeOK /\ Ends
  BY DEF IInv
<1>1. CASE BeginRead \/ TakeEnd \/ Close \/ Cancel \/ Done \/ UNCHANGED vars
  BY <1>0, <1>1 DEF BeginRead, TakeEnd, Close, Cancel, Done, vars, pool, reader, Ends
<1>2. CASE TakeHeld
  BY <1>0, <1>2 DEF TakeHeld, Deliver, pool, Ends
<1>3. CASE TakeResult
  <2>1. caller' = "take" => outcome' = "data"
    BY <1>0, <1>3, ResultTaken DEF TakeResult, Ends
  <2> QED
    BY <1>0, <1>3, <2>1 DEF TakeResult, Ends
<1>4. CASE ReadJob
  BY <1>0, <1>4 DEF ReadJob, reader, Ends, TypeOK
<1>5. CASE SendJob
  <2>1. ~jobsShut /\ ~shut /\ group' = group
    BY <1>0, <1>5 DEF SendJob, Ends
  <2>2. \A w \in Workers : group = "live" => worker[w].at # "exit"
    BY <1>0, <2>1 DEF Ends
  <2> QED
    BY <1>0, <1>5, <2>1, <2>2 DEF SendJob, reader, Ends
<1>6. CASE SendReadError \/ ProducerStops
  BY <1>0, <1>6 DEF SendReadError, ProducerStops, reader, Ends
<1>7. CASE CloseResults
  BY <1>0, <1>7 DEF CloseResults, reader, Ends
<1>8. ASSUME NEW w \in Workers, WorkerStep(w) PROVE Ends'
  <2>0. /\ UNCHANGED <<stream, producer, seq, jobsShut, shut, caller, outcome>>
        /\ \A v \in Workers \ {w} : worker'[v] = worker[v]
        /\ group' = "live" => group = "live"
        /\ jobs = <<>> => jobs' = <<>>
    BY <1>0, <1>8, WorkerChange, WorkerEffect
  <2>1. worker[w].at # "exit"
    BY <1>8 DEF WorkerStep, ReceiveJob, JobsEnd, DecodeBlock, SendResult, WorkerStops
  <2>2. ~shut
    BY <1>0, <2>1 DEF Ends
  <2>3. (group' = "live" /\ worker'[w].at = "exit") => jobs' = <<>> /\ jobsShut
    <3>1. CASE ReceiveJob(w)
      BY <1>0, <1>8, <3>1, WorkerChange
    <3>2. CASE JobsEnd(w)
      BY <2>0, <3>2 DEF JobsEnd
    <3>3. CASE DecodeBlock(w)
      BY <1>0, <1>8, <3>3, WorkerChange
    <3>4. CASE SendResult(w)
      <4>1. CASE worker[w].err
        BY <3>4, <4>1 DEF SendResult
      <4>2. CASE ~worker[w].err
        BY <1>0, <1>8, <3>4, <4>2, WorkerChange DEF Idle
      <4> QED
        BY <4>1, <4>2
    <3>5. CASE WorkerStops(w)
      BY <3>5 DEF WorkerStops
    <3> QED
      BY <1>8, <3>1, <3>2, <3>3, <3>4, <3>5 DEF WorkerStep
  <2>4. \A v \in Workers : (group' = "live" /\ worker'[v].at = "exit") => jobs' = <<>> /\ jobsShut
    BY <1>0, <2>0, <2>3 DEF Ends
  <2> QED
    BY <1>0, <2>0, <2>2, <2>4 DEF Ends
<1> QED
  BY <1>1, <1>2, <1>3, <1>4, <1>5, <1>6, <1>7, <1>8 DEF Next, TakeStep, ProducerStep

\* The last block was handed out when take meets the end of results: the
\* goroutines are gone, no error was left, so what Kept counts was delivered.
LEMMA CompleteStep == IInv /\ [Next]_vars => CompleteAtEOF'
<1> SUFFICES ASSUME IInv, [Next]_vars PROVE CompleteAtEOF'
  OBVIOUS
<1>0. /\ TypeOK /\ Good /\ Kept /\ Told /\ Ends /\ CompleteAtEOF
  BY DEF IInv
<1>1. CASE TakeEnd
  <2> SUFFICES ASSUME ctx = "live"
               PROVE  want = stream.blocks /\ stream.bad = {} /\ ~stream.broken
    BY <1>1 DEF TakeEnd, pool, CompleteAtEOF
  <2>1. /\ want \notin hold /\ results = <<>> /\ shut /\ outcome = "data"
    BY <1>0, <1>1 DEF TakeEnd, Ends
  <2>2. \A i \in 1..Len(results) : FALSE
    BY <2>1
  <2>3. group = "live"
    BY <1>0, <2>1, <2>2 DEF Told, TypeOK
  <2>4. producer = "exit" /\ \A w \in Workers : worker[w].at = "exit"
    BY <1>0, <2>1 DEF Ends
  <2>5. seq = stream.blocks /\ ~stream.broken
    BY <1>0, <2>3, <2>4 DEF Ends
  <2>6. PICK w \in Workers : TRUE
    BY FourX4Assumption
  <2>7. jobs = <<>>
    BY <1>0, <2>3, <2>4, <2>6 DEF Ends
  <2>8. want = stream.blocks
    <3>1. ~Held(want)
      <4>1. \A i \in 1..Len(jobs) : FALSE
        BY <2>7
      <4> QED
        BY <1>0, <2>1, <2>2, <2>4, <4>1, Numbers DEF Held, Pending
    <3>2. want \in 0..stream.blocks /\ stream.blocks \in 0..MaxBlocks
      BY <1>0 DEF TypeOK, Streams
    <3>3. want \in 0..MaxBlocks
      BY <3>2, Bounds
    <3>4. ~(want < seq)
      BY <1>0, <2>3, <3>1, <3>3 DEF Kept
    <3> QED
      BY <2>5, <3>2, <3>4, Bounds
  <2>9. stream.bad = {}
    <3>1. stream.bad \subseteq 0..MaxBlocks /\ \A b \in stream.bad : b < stream.blocks
      BY <1>0 DEF TypeOK, Streams
    <3> QED
      BY <1>0, <2>8, <3>1 DEF Good
  <2> QED
    BY <2>5, <2>8, <2>9
<1>2. CASE TakeHeld \/ TakeResult
  <2>1. outcome = "data"
    BY <1>0, <1>2 DEF TakeHeld, TakeResult, Ends
  <2>2. outcome' # "eof"
    BY <1>0, <1>2, <2>1, ResultTaken DEF TakeHeld, Deliver
  <2> QED
    BY <2>2 DEF CompleteAtEOF
<1>3. CASE BeginRead \/ Close \/ Cancel \/ Done \/ ReadJob \/ SendJob \/ SendReadError
           \/ ProducerStops \/ CloseResults \/ UNCHANGED vars
  BY <1>0, <1>3 DEF BeginRead, Close, Cancel, Done, ReadJob, SendJob, SendReadError, ProducerStops,
     CloseResults, vars, pool, reader, CompleteAtEOF
<1>4. ASSUME NEW w \in Workers, WorkerStep(w) PROVE CompleteAtEOF'
  BY <1>0, <1>4, WorkerEffect DEF CompleteAtEOF
<1> QED
  BY <1>1, <1>2, <1>3, <1>4 DEF Next, TakeStep, ProducerStep

-----------------------------------------------------------------------------
LEMMA Inductive == Spec => []IInv
<1>1. IInv /\ [Next]_vars => IInv'
  <2> SUFFICES ASSUME IInv, [Next]_vars PROVE IInv'
    OBVIOUS
  <2>1. TypeOK' /\ Early' /\ Good' /\ Blamed'
    BY TypeStep, EarlyStep, GoodStep, BlamedStep
  <2>2. Kept' /\ Told' /\ Ends' /\ CompleteAtEOF'
    BY KeptStep, ToldStep, EndsStep, CompleteStep
  <2> QED
    BY <2>1, <2>2 DEF IInv
<1> QED
  BY InitInv, <1>1, PTL DEF Spec

\* Blocks leave in stream order: whichever worker finishes first, take hands
\* out the one that Read wants next and holds the others.
THEOREM DeliveryInOrder == Spec => []InOrder
<1>1. Init => InOrder
  BY DEF Init, InOrder
<1>2. IInv /\ InOrder /\ [Next]_vars => InOrder'
  <2> SUFFICES ASSUME IInv, InOrder, [Next]_vars PROVE InOrder'
    OBVIOUS
  <2>0. TypeOK /\ delivered \in Seq(0..MaxBlocks) /\ want \in Nat
    BY Numbers DEF IInv, TypeOK
  <2>1. \/ want' = want /\ delivered' = delivered
        \/ want' = want + 1 /\ delivered' = Append(delivered, want) /\ want \in 0..MaxBlocks
    <3>1. CASE TakeHeld
      BY <2>0, <3>1 DEF TakeHeld, Deliver, TypeOK
    <3>2. CASE TakeResult
      BY <2>0, <3>2, ResultTaken DEF Results
    <3>3. ASSUME NEW w \in Workers, WorkerStep(w) PROVE want' = want /\ delivered' = delivered
      BY <2>0, <3>3, WorkerEffect
    <3> QED
      BY <3>1, <3>2, <3>3 DEF Next, TakeStep, ProducerStep, BeginRead, TakeEnd, Close, Cancel,
         ReadJob, SendJob, SendReadError, ProducerStops, CloseResults, Done, vars, pool, reader
  <2>2. CASE want' = want /\ delivered' = delivered
    BY <2>2 DEF InOrder
  <2>3. CASE /\ want' = want + 1 /\ delivered' = Append(delivered, want)
             /\ want \in 0..MaxBlocks
    <3>1. /\ Len(delivered') = Len(delivered) + 1 /\ Len(delivered) = want
          /\ delivered'[Len(delivered) + 1] = want
          /\ \A i \in 1..Len(delivered) : delivered'[i] = delivered[i]
      BY <2>0, <2>3 DEF InOrder
    <3>2. \A i \in 1..Len(delivered') : delivered'[i] = i - 1
      <4> SUFFICES ASSUME NEW i \in 1..Len(delivered') PROVE delivered'[i] = i - 1
        OBVIOUS
      <4>1. CASE i = want + 1
        BY <2>0, <3>1, <4>1
      <4>2. CASE i # want + 1
        <5>1. i \in 1..Len(delivered)
          BY <2>0, <3>1, <4>2
        <5> QED
          BY <3>1, <5>1 DEF InOrder
      <4> QED
        BY <4>1, <4>2
    <3> QED
      BY <2>0, <2>3, <3>1, <3>2 DEF InOrder
  <2> QED
    BY <2>1, <2>2, <2>3
<1> QED
  BY Inductive, <1>1, <1>2, PTL DEF Spec

\* io.EOF from Read is the end of a sound stream whose blocks were all handed
\* out, unless the caller's context was cancelled.
THEOREM EOFComplete == Spec => []CompleteAtEOF
<1>1. IInv => CompleteAtEOF
  BY DEF IInv
<1> QED
  BY Inductive, <1>1, PTL

\* An error from Read is about the stream unless the caller's context was
\* cancelled: the goroutines' own cancellation never reaches the caller.
THEOREM ErrorHonest == Spec => []HonestError
<1>1. IInv => HonestError
  BY DEF IInv, Blamed, Faulty, HonestError
<1> QED
  BY Inductive, <1>1, PTL

\* The types, and with them the capacities of the jobs and results channels.
THEOREM ReaderTypes == Spec => []TypeOK
<1>1. IInv => TypeOK
  BY DEF IInv
<1> QED
  BY Inductive, <1>1, PTL

-----------------------------------------------------------------------------
(* The reader implements the one without threads.                          *)

\* What the caller of the sequential reader has, seen from the goroutines'
\* state: want counts the blocks handed out.
LEMMA InOrderInvariant == Spec => [](IInv /\ InOrder)
  BY Inductive, DeliveryInOrder, PTL

LEMMA HandsOut ==
  ASSUME IInv, InOrder, caller = "take", want' = want + 1, want < seq,
         want \notin stream.bad, delivered' = Append(delivered, want), caller' = "idle",
         UNCHANGED <<stream, ctx, outcome>>
  PROVE  Sequential!HandOut
<1>1. Len(delivered) = want
  BY DEF InOrder
<1>2. want < stream.blocks
  BY Numbers DEF IInv
<1> QED
  BY <1>1, <1>2 DEF Sequential!HandOut

\* Every step of a goroutine is no step of the sequential reader; every step
\* of the caller is the same step there.
LEMMA StepRefines == IInv /\ InOrder /\ [Next]_vars => [Sequential!Next]_(Sequential!vars)
<1> SUFFICES ASSUME IInv, InOrder, [Next]_vars
             PROVE  Sequential!Next \/ UNCHANGED Sequential!vars
  OBVIOUS
<1>0. TypeOK /\ Early /\ Good /\ Blamed /\ Ends
  BY DEF IInv
<1>a. Faulty => ~Sequential!Sound
  BY DEF Faulty, Sequential!Sound
<1>1. CASE BeginRead
  BY <1>1 DEF BeginRead, Sequential!Next, Sequential!Ask
<1>2. CASE TakeHeld
  <2>1. want < seq /\ want \notin stream.bad
    BY <1>0, <1>2 DEF TakeHeld, Early, Good
  <2>2. Sequential!HandOut
    BY <1>2, <2>1, HandsOut DEF TakeHeld, Deliver
  <2> QED
    BY <2>2 DEF Sequential!Next, Sequential!Answer
<1>3. CASE TakeResult
  <2>1. caller = "take" /\ UNCHANGED <<stream, ctx>>
    BY <1>3 DEF TakeResult
  <2>2. 1 \in 1..Len(results)
    BY <1>0, <1>3, ResultTaken
  <2>3. CASE /\ results[1].err /\ outcome' = "error" /\ caller' = "idle"
             /\ delivered' = delivered
    <3>1. ctx = "done" \/ ~Sequential!Sound
      BY <1>0, <1>a, <2>2, <2>3 DEF Blamed, TypeOK
    <3>2. Sequential!Fail
      BY <2>1, <2>3, <3>1 DEF Sequential!Fail, Sequential!Cancelled
    <3> QED
      BY <3>2 DEF Sequential!Next, Sequential!Answer
  <2>4. CASE /\ ~results[1].err /\ results[1].seq = want
             /\ want' = want + 1 /\ delivered' = Append(delivered, want)
             /\ caller' = "idle" /\ outcome' = outcome
    <3>1. want < seq /\ want \notin stream.bad
      BY <1>0, <2>2, <2>4 DEF Early, Good
    <3>2. Sequential!HandOut
      BY <2>1, <2>4, <3>1, HandsOut
    <3> QED
      BY <3>2 DEF Sequential!Next, Sequential!Answer
  <2>5. CASE UNCHANGED <<caller, delivered, outcome>>
    BY <2>1, <2>5 DEF Sequential!vars
  <2> QED
    BY <1>0, <1>3, <2>3, <2>4, <2>5, ResultTaken
<1>4. CASE TakeEnd
  <2>1. /\ caller = "take" /\ outcome' = "eof" /\ caller' = "idle"
        /\ UNCHANGED <<stream, ctx, want, delivered>>
    BY <1>4 DEF TakeEnd
  <2>2. ctx = "live" => Sequential!Sound /\ Len(delivered) = stream.blocks
    BY <2>1, CompleteStep DEF CompleteAtEOF, InOrder, Sequential!Sound
  <2>3. Sequential!End
    BY <1>0, <2>1, <2>2 DEF Sequential!End, Sequential!Cancelled, TypeOK
  <2> QED
    BY <2>3 DEF Sequential!Next, Sequential!Answer
<1>5. CASE Close
  BY <1>5 DEF Close, Sequential!Next, Sequential!Close
<1>6. CASE Cancel
  BY <1>6 DEF Cancel, reader, Sequential!Next, Sequential!Cancel, Sequential!Cancelled
<1>7. CASE ReadJob \/ SendJob \/ SendReadError \/ ProducerStops \/ CloseResults \/ Done
           \/ UNCHANGED vars
  BY <1>7 DEF ReadJob, SendJob, SendReadError, ProducerStops, CloseResults, Done, vars, reader,
     Sequential!vars
<1>8. ASSUME NEW w \in Workers, WorkerStep(w) PROVE UNCHANGED Sequential!vars
  BY <1>0, <1>8, WorkerEffect DEF Sequential!vars
<1> QED
  BY <1>1, <1>2, <1>3, <1>4, <1>5, <1>6, <1>7, <1>8 DEF Next, TakeStep, ProducerStep

\* The goroutines, channels and held blocks of reader.go implement a reader
\* that decodes block after block in the caller's thread: whatever the order
\* in which workers finish, the caller cannot tell the difference.
THEOREM ReadsSequentially == Spec => Sequential!SafeSpec
<1>1. Init => Sequential!Init
  BY DEF Init, Sequential!Init
<1> QED
  BY InOrderInvariant, <1>1, StepRefines, PTL DEF Spec, Sequential!SafeSpec

-----------------------------------------------------------------------------
(* No block is lost or decoded twice.                                      *)

\* While the group lives, the places a block may be in exclude each other:
\* handed out (below want), held, in results, with a worker, in jobs.
ResultsApart ==
  \A i \in 1..Len(results) :
    /\ want <= results[i].seq /\ results[i].seq \notin hold
    /\ \A k \in 1..Len(results) : results[k].seq = results[i].seq => k = i

WorkersApart ==
  \A w \in Workers : Pending(w) =>
    /\ want <= worker[w].seq /\ worker[w].seq \notin hold
    /\ \A i \in 1..Len(results) : results[i].seq # worker[w].seq
    /\ \A v \in Workers : (Pending(v) /\ worker[v].seq = worker[w].seq) => v = w

JobsApart ==
  \A j \in 1..Len(jobs) :
    /\ want <= jobs[j] /\ jobs[j] \notin hold
    /\ \A i \in 1..Len(results) : results[i].seq # jobs[j]
    /\ \A w \in Workers : Pending(w) => worker[w].seq # jobs[j]

Apart ==
  group = "live" => /\ \A b \in hold : want <= b
                    /\ ResultsApart /\ WorkersApart /\ JobsApart

\* A step that hands out block want (the one in hold or in the first result)
\* keeps the others apart: none of them has its number.
LEMMA ApartStep == IInv /\ Apart /\ [Next]_vars => Apart'
<1> SUFFICES ASSUME IInv, Apart, [Next]_vars, group' = "live"
             PROVE  /\ \A b \in hold' : want' <= b
                    /\ ResultsApart' /\ WorkersApart' /\ JobsApart'
  BY DEF Apart
<1>0. TypeOK /\ Early /\ Told
  BY DEF IInv
<1>g. group = "live"
  <2>1. ASSUME NEW w \in Workers, WorkerStep(w) PROVE group = "live"
    BY <1>0, <2>1, WorkerEffect
  <2> QED
    BY <2>1 DEF Next, TakeStep, ProducerStep, BeginRead, TakeHeld, TakeResult, TakeEnd, Close,
       Cancel, ReadJob, SendJob, SendReadError, ProducerStops, CloseResults, Done, vars
<1>a. /\ \A b \in hold : want <= b
      /\ ResultsApart /\ WorkersApart /\ JobsApart
  BY <1>g DEF Apart
<1>b. /\ seq \in Nat /\ want \in Nat /\ Len(results) \in Nat /\ hold \subseteq Nat
      /\ \A w \in Workers : worker[w].seq \in Nat
      /\ \A i \in 1..Len(results) : results[i].seq \in Nat
      /\ \A j \in 1..Len(jobs) : jobs[j] \in Nat
  <2>1. \A j \in 1..Len(jobs) : jobs[j] \in Nat
    BY <1>0, JobsChannel, Bounds
  <2> QED
    BY <1>0, <2>1, Numbers, Bounds
<1>1. CASE BeginRead \/ TakeEnd \/ Close \/ Cancel \/ Done \/ CloseResults \/ ReadJob
           \/ ProducerStops \/ UNCHANGED vars
  <2>1. UNCHANGED <<want, hold, results, worker, jobs>>
    BY <1>1 DEF BeginRead, TakeEnd, Close, Cancel, Done, CloseResults, ReadJob, ProducerStops,
       vars, pool, reader
  <2> QED
    BY <1>a, <2>1 DEF ResultsApart, WorkersApart, JobsApart, Pending
<1>2. CASE TakeHeld
  <2>1. /\ UNCHANGED <<results, worker, jobs>> /\ want \in hold
        /\ want' = want + 1 /\ hold' = hold \ {want}
    BY <1>2 DEF TakeHeld, Deliver, pool
  <2>2. ASSUME NEW b \in hold' PROVE want' <= b
    <3>1. b \in hold /\ b \in Nat /\ b # want /\ want <= b
      BY <1>a, <1>b, <2>1
    <3> QED
      BY <1>b, <2>1, <3>1
  <2>3. ResultsApart'
    BY <1>a, <1>b, <2>1 DEF ResultsApart
  <2>4. WorkersApart'
    BY <1>a, <1>b, <2>1 DEF WorkersApart, Pending
  <2>5. JobsApart'
    BY <1>a, <1>b, <2>1 DEF JobsApart, Pending
  <2> QED
    BY <2>2, <2>3, <2>4, <2>5
<1>3. CASE TakeResult
  <2>1. UNCHANGED <<worker, jobs>> /\ want \notin hold /\ 1 \in 1..Len(results)
    BY <1>0, <1>3, ResultTaken DEF TakeResult
  <2>2. ~results[1].err
    BY <1>0, <1>g, <2>1 DEF Told
  <2>3. \A i \in 1..Len(results') :
          /\ i + 1 \in 1..Len(results) /\ results'[i] = results[i + 1] /\ i + 1 # 1
    BY <1>0, <1>3, ResultTaken
  <2>4. \/ results[1].seq = want /\ want' = want + 1 /\ hold' = hold
        \/ hold' = hold \cup {results[1].seq} /\ want' = want
    BY <1>0, <1>3, <2>2, ResultTaken
  <2>5. want <= results[1].seq
    BY <1>a, <2>1 DEF ResultsApart
  <2>6. \A b : b # results[1].seq /\ b \in Nat /\ want <= b /\ b \notin hold
                 => want' <= b /\ b \notin hold'
    BY <1>b, <2>4
  <2>7. ASSUME NEW b \in hold' PROVE want' <= b
    <3>1. \/ want' = want + 1 /\ b \in hold
          \/ want' = want /\ (b \in hold \/ b = results[1].seq)
      BY <2>4
    <3>2. b \in hold => b \in Nat /\ b # want /\ want <= b
      BY <1>a, <1>b, <2>1
    <3> QED
      BY <1>b, <2>5, <3>1, <3>2
  <2>8. ResultsApart'
    <3> SUFFICES ASSUME NEW i \in 1..Len(results')
                 PROVE  /\ want' <= results'[i].seq /\ results'[i].seq \notin hold'
                        /\ \A k \in 1..Len(results') :
                             results'[k].seq = results'[i].seq => k = i
      BY DEF ResultsApart
    <3>1. i + 1 \in 1..Len(results) /\ results'[i] = results[i + 1] /\ i + 1 # 1
      BY <2>3
    <3>2. /\ results[i + 1].seq # results[1].seq /\ want <= results[i + 1].seq
          /\ results[i + 1].seq \notin hold /\ results[i + 1].seq \in Nat
      BY <1>a, <1>b, <2>1, <3>1 DEF ResultsApart
    <3>3. want' <= results'[i].seq /\ results'[i].seq \notin hold'
      BY <2>6, <3>1, <3>2
    <3>4. ASSUME NEW k \in 1..Len(results'), results'[k].seq = results'[i].seq PROVE k = i
      <4>1. k + 1 \in 1..Len(results) /\ results'[k] = results[k + 1]
        BY <2>3
      <4>2. k + 1 = i + 1
        BY <1>a, <3>1, <3>4, <4>1 DEF ResultsApart
      <4> QED
        BY <4>2
    <3> QED
      BY <3>3, <3>4
  <2>9. WorkersApart'
    <3> SUFFICES ASSUME NEW w \in Workers, Pending(w)
                 PROVE  /\ want' <= worker[w].seq /\ worker[w].seq \notin hold'
                        /\ \A i \in 1..Len(results') : results'[i].seq # worker[w].seq
      BY <1>a, <2>1 DEF WorkersApart, Pending
    <3>1. /\ worker[w].seq # results[1].seq /\ worker[w].seq \in Nat
          /\ want <= worker[w].seq /\ worker[w].seq \notin hold
          /\ \A i \in 1..Len(results) : results[i].seq # worker[w].seq
      BY <1>a, <1>b, <2>1 DEF WorkersApart
    <3> QED
      BY <2>3, <2>6, <3>1
  <2>10. JobsApart'
    <3> SUFFICES ASSUME NEW j \in 1..Len(jobs)
                 PROVE  /\ want' <= jobs[j] /\ jobs[j] \notin hold'
                        /\ \A i \in 1..Len(results') : results'[i].seq # jobs[j]
      BY <1>a, <2>1 DEF JobsApart, Pending
    <3>1. /\ jobs[j] # results[1].seq /\ jobs[j] \in Nat
          /\ want <= jobs[j] /\ jobs[j] \notin hold
          /\ \A i \in 1..Len(results) : results[i].seq # jobs[j]
      BY <1>a, <1>b, <2>1 DEF JobsApart
    <3> QED
      BY <2>3, <2>6, <3>1
  <2> QED
    BY <2>7, <2>8, <2>9, <2>10
<1>4. CASE SendJob
  <2>1. /\ UNCHANGED <<want, hold, results, worker>> /\ jobs' = <<seq>> /\ seq' = seq + 1
    BY <1>4 DEF SendJob, reader
  <2>2. /\ want <= seq /\ seq \notin hold
        /\ \A i \in 1..Len(results) : results[i].seq # seq
        /\ \A w \in Workers : Pending(w) => worker[w].seq # seq
    BY <1>0, <1>b, <1>g DEF Early, Told
  <2>3. \A j \in 1..Len(jobs') : jobs'[j] = seq
    BY <2>1
  <2> QED
    BY <1>a, <2>1, <2>2, <2>3 DEF ResultsApart, WorkersApart, JobsApart, Pending
<1>5. CASE SendReadError
  BY <1>5 DEF SendReadError
<1>6. ASSUME NEW w \in Workers, WorkerStep(w)
      PROVE  /\ \A b \in hold' : want' <= b
             /\ ResultsApart' /\ WorkersApart' /\ JobsApart'
  <2>0. /\ UNCHANGED <<want, hold>>
        /\ \A v \in Workers \ {w} : worker'[v] = worker[v]
    BY <1>0, <1>6, WorkerChange, WorkerEffect
  <2>h. \A v \in Workers \ {w} : (Pending(v)' <=> Pending(v))
    BY <2>0 DEF Pending
  <2>1. CASE ReceiveJob(w)
    <3>1. /\ results' = results /\ jobs' = <<>> /\ worker'[w].seq = jobs[1]
          /\ 1 \in 1..Len(jobs)
      <4>1. results' = results
        BY <2>1 DEF ReceiveJob
      <4>2. jobs' = <<>> /\ jobs # <<>>
        BY <1>0, <1>6, <2>1, WorkerEffect
      <4>3. Len(jobs) = 1
        BY <1>0, <4>2, JobsChannel
      <4>4. worker'[w].seq = jobs[1]
        BY <1>0, <1>6, <2>1, WorkerChange
      <4> QED
        BY <4>1, <4>2, <4>3, <4>4
    <3>2. /\ want <= jobs[1] /\ jobs[1] \notin hold
          /\ \A i \in 1..Len(results) : results[i].seq # jobs[1]
          /\ \A v \in Workers : Pending(v) => worker[v].seq # jobs[1]
      BY <1>a, <3>1 DEF JobsApart
    <3>3. WorkersApart'
      BY <1>a, <2>0, <2>h, <3>1, <3>2 DEF WorkersApart
    <3> QED
      BY <1>a, <2>0, <3>1, <3>3 DEF ResultsApart, JobsApart
  <2>2. CASE JobsEnd(w) \/ WorkerStops(w)
    <3>1. results' = results /\ jobs' = jobs /\ ~Pending(w)'
      BY <1>0, <1>6, <2>2, WorkerChange DEF JobsEnd, WorkerStops, Pending
    <3>2. \A v \in Workers : Pending(v)' => Pending(v) /\ worker'[v] = worker[v]
      BY <2>0, <2>h, <3>1
    <3> QED
      BY <1>a, <2>0, <3>1, <3>2 DEF ResultsApart, WorkersApart, JobsApart
  <2>3. CASE DecodeBlock(w)
    <3>1. /\ results' = results /\ jobs' = jobs /\ Pending(w)
          /\ worker'[w].seq = worker[w].seq
      BY <1>0, <1>6, <2>3, WorkerChange DEF DecodeBlock, Pending
    <3>2. \A v \in Workers : Pending(v)' => Pending(v) /\ worker'[v].seq = worker[v].seq
      BY <2>0, <2>h, <3>1
    <3> QED
      BY <1>a, <2>0, <3>1, <3>2 DEF ResultsApart, WorkersApart, JobsApart
  <2>4. CASE SendResult(w)
    <3> DEFINE b == worker[w].seq
               n == Len(results) + 1
    <3>1. ~worker[w].err
      BY <1>0, <1>6, <1>g, <2>4, WorkerEffect DEF TypeOK
    <3>2. jobs' = jobs /\ Pending(w) /\ ~Pending(w)'
      BY <1>0, <1>6, <2>4, <3>1, WorkerChange, WorkerEffect DEF SendResult, Pending, Idle
    <3>3. /\ Len(results') = n
          /\ \A i \in 1..Len(results) : results'[i] = results[i]
          /\ results'[n].seq = b
      <4>1. worker[w].seq \in 0..MaxBlocks
        BY <1>0, Numbers
      <4>2. [seq |-> b, err |-> FALSE] \in Results /\ results \in Seq(Results)
        BY <1>0, <4>1 DEF Results, TypeOK
      <4>3. results' = Append(results, [seq |-> b, err |-> FALSE])
        BY <2>4, <3>1, <1>0 DEF SendResult, TypeOK
      <4> QED
        BY <4>2, <4>3, Sent
    <3>4. /\ \A i \in 1..Len(results') : i = n \/ i \in 1..Len(results)
      BY <1>b, <3>3
    <3>5. /\ want <= b /\ b \notin hold
          /\ \A i \in 1..Len(results) : results[i].seq # b
          /\ \A v \in Workers : (Pending(v) /\ worker[v].seq = b) => v = w
          /\ \A j \in 1..Len(jobs) : jobs[j] # b
      BY <1>a, <3>2 DEF WorkersApart, JobsApart
    <3> HIDE DEF b, n
    <3>6. ResultsApart'
      BY <1>a, <2>0, <3>3, <3>4, <3>5 DEF ResultsApart
    <3>7. \A v \in Workers : Pending(v)' =>
            Pending(v) /\ worker'[v] = worker[v] /\ worker[v].seq # b
      BY <2>0, <2>h, <3>2, <3>5
    <3>8. WorkersApart'
      BY <1>a, <2>0, <3>3, <3>4, <3>7 DEF WorkersApart
    <3>9. JobsApart'
      BY <1>a, <2>0, <3>2, <3>3, <3>4, <3>5, <3>7 DEF JobsApart
    <3> QED
      BY <1>a, <2>0, <3>6, <3>8, <3>9
  <2> QED
    BY <1>6, <2>1, <2>2, <2>3, <2>4 DEF WorkerStep
<1> QED
  BY <1>1, <1>2, <1>3, <1>4, <1>5, <1>6 DEF Next, TakeStep, ProducerStep

\* Kept puts a block that was read somewhere, Apart in no second place.
LEMMA PlacesOnce == IInv /\ Apart => Conserved
<1> SUFFICES ASSUME IInv, Apart, group = "live", NEW b \in 0..MaxBlocks
             PROVE  Places(b) = IF b < seq THEN 1 ELSE 0
  BY DEF Conserved
<1>0. TypeOK /\ Early /\ Told /\ Kept
  BY DEF IInv
<1>a. /\ \A c \in hold : want <= c
      /\ ResultsApart /\ WorkersApart /\ JobsApart
  BY DEF Apart
<1>b. /\ seq \in Nat /\ want \in Nat /\ b \in Nat
  BY <1>0, Numbers, Bounds
<1> DEFINE H == IF b < want THEN 1 ELSE 0
           E == IF b \in hold THEN 1 ELSE 0
           R == {i \in 1..Len(results) : results[i].seq = b}
           W == {w \in Workers : worker[w].at \in {"decode", "send"} /\ worker[w].seq = b}
           J == {i \in 1..Len(jobs) : jobs[i] = b}
<1>c. Places(b) = H + E + Cardinality(R) + Cardinality(W) + Cardinality(J)
  BY DEF Places
<1>d. /\ Cardinality({}) = 0 /\ \A x : Cardinality({x}) = 1
  BY FS_EmptySet, FS_Singleton
<1>e. \A w : w \in W <=> w \in Workers /\ Pending(w) /\ worker[w].seq = b
  BY DEF Pending
<1>1. CASE ~(b < seq)
  <2>1. H = 0 /\ E = 0
    BY <1>0, <1>b, <1>1, Numbers DEF Early
  <2>2. R = {} /\ J = {}
    BY <1>0, <1>1 DEF Early, Told
  <2>3. W = {}
    BY <1>0, <1>1, <1>e DEF Early
  <2> HIDE DEF H, E, R, W, J
  <2> QED
    BY <1>1, <1>c, <1>d, <2>1, <2>2, <2>3
<1>2. CASE b < seq
  <2>0. Held(b)
    BY <1>0, <1>2 DEF Kept
  <2>1. CASE b < want
    <3>1. H = 1 /\ E = 0 /\ R = {} /\ J = {} /\ W = {}
      <4>1. \A c : want <= c => c # b
        BY <1>b, <2>1
      <4> QED
        BY <1>a, <1>e, <2>1, <4>1 DEF ResultsApart, WorkersApart, JobsApart
    <3> HIDE DEF H, E, R, W, J
    <3> QED
      BY <1>2, <1>c, <1>d, <3>1
  <2>2. CASE b \in hold
    <3>1. H = 0
      BY <1>a, <1>b, <2>2
    <3>2. E = 1 /\ R = {} /\ J = {} /\ W = {}
      BY <1>a, <1>e, <2>2 DEF ResultsApart, WorkersApart, JobsApart
    <3> HIDE DEF H, E, R, W, J
    <3> QED
      BY <1>2, <1>c, <1>d, <3>1, <3>2
  <2>3. ASSUME NEW i \in 1..Len(results), results[i].seq = b
        PROVE  Places(b) = IF b < seq THEN 1 ELSE 0
    <3>1. want <= b /\ b \notin hold
      BY <1>a, <2>3 DEF ResultsApart
    <3>2. R = {i}
      BY <1>a, <2>3 DEF ResultsApart
    <3>3. J = {} /\ W = {}
      BY <1>a, <1>e, <2>3 DEF WorkersApart, JobsApart
    <3>4. H = 0 /\ E = 0
      BY <1>b, <3>1
    <3>5. Cardinality(R) = 1
      BY <1>d, <3>2
    <3>6. Cardinality(J) = 0 /\ Cardinality(W) = 0
      BY <1>d, <3>3
    <3> HIDE DEF H, E, R, W, J
    <3> QED
      BY <1>2, <1>c, <3>4, <3>5, <3>6
  <2>4. ASSUME NEW w \in Workers, Pending(w), worker[w].seq = b
        PROVE  Places(b) = IF b < seq THEN 1 ELSE 0
    <3>1. want <= b /\ b \notin hold
      BY <1>a, <2>4 DEF WorkersApart
    <3>2. W = {w}
      BY <1>a, <1>e, <2>4 DEF WorkersApart
    <3>3. R = {} /\ J = {}
      BY <1>a, <2>4 DEF WorkersApart, JobsApart
    <3>4. H = 0 /\ E = 0
      BY <1>b, <3>1
    <3> HIDE DEF H, E, R, W, J
    <3> QED
      BY <1>2, <1>c, <1>d, <3>2, <3>3, <3>4
  <2>5. ASSUME NEW j \in 1..Len(jobs), jobs[j] = b
        PROVE  Places(b) = IF b < seq THEN 1 ELSE 0
    <3>1. want <= b /\ b \notin hold
      BY <1>a, <2>5 DEF JobsApart
    <3>2. J = {j}
      <4>1. \A k \in 1..Len(jobs) : k = j
        BY <1>0, JobsChannel
      <4> QED
        BY <2>5, <4>1
    <3>3. R = {} /\ W = {}
      BY <1>a, <1>e, <2>5 DEF JobsApart
    <3>4. H = 0 /\ E = 0
      BY <1>b, <3>1
    <3>5. Cardinality(J) = 1
      BY <1>d, <3>2
    <3>6. Cardinality(R) = 0 /\ Cardinality(W) = 0
      BY <1>d, <3>3
    <3> HIDE DEF H, E, R, W, J
    <3> QED
      BY <1>2, <1>c, <3>4, <3>5, <3>6
  <2> QED
    BY <2>0, <2>1, <2>2, <2>3, <2>4, <2>5 DEF Held
<1> QED
  BY <1>1, <1>2

\* Until an error or a cancellation each block that was read is in one place,
\* and only in one: handed out, held, in a channel or with a worker.
THEOREM BlocksConserved == Spec => []Conserved
<1>1. Init => Apart
  <2> SUFFICES ASSUME Init PROVE Apart
    OBVIOUS
  <2>1. /\ hold = {} /\ Len(results) = 0 /\ Len(jobs) = 0
        /\ \A w \in Workers : worker[w].at = "idle"
    BY DEF Init, Idle
  <2> QED
    BY <2>1 DEF Apart, ResultsApart, WorkersApart, JobsApart, Pending
<1> QED
  BY Inductive, <1>1, ApartStep, PlacesOnce, PTL DEF Spec
=============================================================================
