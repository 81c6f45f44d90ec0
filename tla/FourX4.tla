------------------------------- MODULE FourX4 -------------------------------
(***************************************************************************)
(* The concurrent reader of a 4x4 stream (stream/fourx4/reader.go).        *)
(*                                                                         *)
(* launch starts one goroutine that reads block after block from the       *)
(* source and sends them down the jobs channel, Workers goroutines that    *)
(* decode jobs and send the results down the results channel in whatever   *)
(* order they finish, and one goroutine that closes results when the       *)
(* others have returned.  The caller's Read takes results, keeps the early *)
(* ones in hold, and hands out the blocks in stream order.  The caller may *)
(* Close between two reads and its context may be cancelled at any time.   *)
(*                                                                         *)
(* A block is a number; its bytes are left out.  Every channel operation   *)
(* is one step, and a select with two ready cases may take either.         *)
(***************************************************************************)
EXTENDS Naturals, Sequences, FiniteSets

CONSTANTS
  Workers,   \* the decoding goroutines (threads)
  MaxBlocks  \* bound on the number of blocks of a stream

ASSUME FourX4Assumption ==
  /\ IsFiniteSet(Workers) /\ Workers # {}
  /\ MaxBlocks \in Nat

\* A stream: its number of blocks, those that do not decode, and whether it
\* ends in a truncated block or header instead of a clean end.
Streams == {s \in [blocks : 0..MaxBlocks, bad : SUBSET (0..MaxBlocks), broken : BOOLEAN] :
              \A b \in s.bad : b < s.blocks}

VARIABLES
  stream,    \* what the source holds (constant)
  ctx,       \* "live" or "done": the context given to NewReader
  group,     \* "live" or "done": the errgroup's context, derived from it
  launched,  \* start.Do(launch) has run
  producer,  \* the reading goroutine: "read", "send", "fail", "exit"
  seq,       \* the number of the block the producer is at
  jobs,      \* channel of block numbers, capacity 1
  jobsShut,  \* jobs is closed
  worker,    \* per worker: [at : "idle", "decode", "send" or "exit", ...]
  results,   \* channel of [seq, err], capacity Cardinality(Workers)
  shut,      \* results is closed
  caller,    \* "idle" between reads, "take" inside take
  hold,      \* blocks that arrived early
  want,      \* the next block to hand out
  delivered, \* the blocks handed out, in order
  outcome    \* what Read returns from now on: "data", "eof", "error", "closed"

vars == <<stream, ctx, group, launched, producer, seq, jobs, jobsShut, worker,
          results, shut, caller, hold, want, delivered, outcome>>

reader == <<caller, hold, want, delivered, outcome>>
pool   == <<producer, seq, jobs, jobsShut, worker, results, shut>>

Idle == [at |-> "idle", seq |-> 0, err |-> FALSE]

RoomOffByOne == Len(results) <= Cardinality(Workers)

Room == Len(results) < Cardinality(Workers)

\* Every goroutine that launch started has returned.
Quiet == ~launched \/ (producer = "exit" /\ shut /\ \A w \in Workers : worker[w].at = "exit")

-----------------------------------------------------------------------------
Init ==
  /\ stream \in Streams
  /\ ctx = "live"
  /\ group = "live"
  /\ launched = FALSE
  /\ producer = "read"
  /\ seq = 0
  /\ jobs = <<>>
  /\ jobsShut = FALSE
  /\ worker = [w \in Workers |-> Idle]
  /\ results = <<>>
  /\ shut = FALSE
  /\ caller = "idle"
  /\ hold = {}
  /\ want = 0
  /\ delivered = <<>>
  /\ outcome = "data"

\* Read, with its buffer used up: start.Do(launch), then take.
BeginRead ==
  /\ caller = "idle"
  /\ outcome = "data"
  /\ launched' = TRUE
  /\ group' = IF ctx = "done" THEN "done" ELSE group
  /\ caller' = "take"
  /\ UNCHANGED <<stream, ctx, pool, hold, want, delivered, outcome>>

\* take hands out block b: b is the next one.
Deliver(b) ==
  /\ want' = want + 1
  /\ delivered' = Append(delivered, b)
  /\ caller' = "idle"
  /\ UNCHANGED outcome

\* The first lookup of take: the next block arrived earlier.
TakeHeldKeeps ==
  /\ caller = "take"
  /\ want \in hold
  /\ hold' = hold
  /\ Deliver(want)
  /\ UNCHANGED <<stream, ctx, group, launched, pool>>

TakeHeld ==
  /\ caller = "take"
  /\ want \in hold
  /\ hold' = hold \ {want}
  /\ Deliver(want)
  /\ UNCHANGED <<stream, ctx, group, launched, pool>>

\* Receiving a result inside take: an error ends the stream, the next block
\* is handed out, an early one is held.
TakeResultAnyOrder ==
  /\ caller = "take"
  /\ want \notin hold
  /\ results # <<>>
  /\ results' = Tail(results)
  /\ LET b == Head(results) IN
       IF b.err THEN outcome' = "error" /\ caller' = "idle" /\ UNCHANGED <<hold, want, delivered>>
       ELSE Deliver(b.seq) /\ UNCHANGED hold
  /\ UNCHANGED <<stream, ctx, group, launched, producer, seq, jobs, jobsShut, worker, shut>>

TakeResult ==
  /\ caller = "take"
  /\ want \notin hold
  /\ results # <<>>
  /\ results' = Tail(results)
  /\ LET b == Head(results) IN
       \/ /\ b.err
          /\ outcome' = "error"
          /\ caller' = "idle"
          /\ UNCHANGED <<hold, want, delivered>>
       \/ /\ ~b.err /\ b.seq = want
          /\ Deliver(b.seq)
          /\ UNCHANGED hold
       \/ /\ ~b.err /\ b.seq # want
          /\ hold' = hold \cup {b.seq}
          /\ UNCHANGED <<caller, want, delivered, outcome>>
  /\ UNCHANGED <<stream, ctx, group, launched, producer, seq, jobs, jobsShut, worker, shut>>

\* The range over results ends: take returns io.EOF.
TakeEnd ==
  /\ caller = "take"
  /\ want \notin hold
  /\ results = <<>>
  /\ shut
  /\ outcome' = "eof"
  /\ caller' = "idle"
  /\ UNCHANGED <<stream, ctx, group, launched, pool, hold, want, delivered>>

\* Close, by the goroutine that reads: cancel and forget the buffer.
Close ==
  /\ caller = "idle"
  /\ outcome # "closed"
  /\ outcome' = "closed"
  /\ group' = IF launched THEN "done" ELSE group
  /\ UNCHANGED <<stream, ctx, launched, pool, caller, hold, want, delivered>>

\* The context given to NewReader is cancelled.
Cancel ==
  /\ ctx = "live"
  /\ ctx' = "done"
  /\ group' = "done"
  /\ UNCHANGED <<stream, launched, pool, reader>>

-----------------------------------------------------------------------------
(* The goroutines.                                                         *)

\* readJob: the next block, the clean end of the stream, or an error.
ReadJobEndIsError ==
  /\ launched
  /\ producer = "read"
  /\ producer' = IF seq < stream.blocks THEN "send" ELSE "fail"
  /\ UNCHANGED <<stream, ctx, group, launched, seq, jobs, jobsShut, worker, results, shut,
                 reader>>

\* A block cut short taken for the end of the stream.
ReadJobCutIsEnd ==
  /\ launched
  /\ producer = "read"
  /\ producer' = IF seq < stream.blocks THEN "send" ELSE "exit"
  /\ jobsShut' = (producer' = "exit")
  /\ UNCHANGED <<stream, ctx, group, launched, seq, jobs, worker, results, shut, reader>>

ReadJob ==
  /\ launched
  /\ producer = "read"
  /\ \/ /\ seq < stream.blocks
        /\ producer' = "send"
        /\ UNCHANGED jobsShut
     \/ /\ seq = stream.blocks /\ ~stream.broken
        /\ producer' = "exit"
        /\ jobsShut' = TRUE
     \/ /\ seq = stream.blocks /\ stream.broken
        /\ producer' = "fail"
        /\ UNCHANGED jobsShut
  /\ UNCHANGED <<stream, ctx, group, launched, seq, jobs, worker, results, shut, reader>>

\* jobs <- j
SendJob ==
  /\ producer = "send"
  /\ jobs = <<>>
  /\ jobs' = <<seq>>
  /\ seq' = seq + 1
  /\ producer' = "read"
  /\ UNCHANGED <<stream, ctx, group, launched, jobsShut, worker, results, shut, reader>>

\* results <- block{seq: seq, err: err}: the error goes out first, then the
\* goroutine returns it and the group is cancelled.
SendReadError ==
  /\ producer = "fail"
  /\ Room
  /\ results' = Append(results, [seq |-> seq, err |-> TRUE])
  /\ producer' = "exit"
  /\ jobsShut' = TRUE
  /\ group' = "done"
  /\ UNCHANGED <<stream, ctx, launched, seq, jobs, worker, shut, reader>>

\* <-ctx.Done() in either select of the producer.
ProducerStops ==
  /\ producer \in {"send", "fail"}
  /\ group = "done"
  /\ producer' = "exit"
  /\ jobsShut' = TRUE
  /\ UNCHANGED <<stream, ctx, group, launched, seq, jobs, worker, results, shut, reader>>

\* j := range jobs
ReceiveJob(w) ==
  /\ launched
  /\ worker[w].at = "idle"
  /\ jobs # <<>>
  /\ jobs' = Tail(jobs)
  /\ worker' = [worker EXCEPT ![w] = [at |-> "decode", seq |-> Head(jobs), err |-> FALSE]]
  /\ UNCHANGED <<stream, ctx, group, launched, producer, seq, jobsShut, results, shut, reader>>

\* The range over jobs ends: the worker returns nil.
JobsEnd(w) ==
  /\ worker[w].at = "idle"
  /\ jobs = <<>>
  /\ jobsShut
  /\ worker' = [worker EXCEPT ![w].at = "exit"]
  /\ UNCHANGED <<stream, ctx, group, launched, producer, seq, jobs, jobsShut, results,
                 shut, reader>>

\* decode, under the context of NewReader: a good block may fail too once
\* that is cancelled.
DecodeBlock(w) ==
  /\ worker[w].at = "decode"
  /\ \E err \in BOOLEAN :
       /\ worker[w].seq \in stream.bad => err
       /\ err => worker[w].seq \in stream.bad \/ ctx = "done"
       /\ worker' = [worker EXCEPT ![w].at = "send", ![w].err = err]
  /\ UNCHANGED <<stream, ctx, group, launched, producer, seq, jobs, jobsShut, results,
                 shut, reader>>

\* results <- block{...}; a worker that sent an error returns it, which
\* cancels the group.
SendResultDropErr(w) ==
  /\ worker[w].at = "send"
  /\ IF worker[w].err
     THEN /\ UNCHANGED results
          /\ worker' = [worker EXCEPT ![w].at = "exit"]
          /\ group' = "done"
     ELSE /\ Room
          /\ results' = Append(results, [seq |-> worker[w].seq, err |-> FALSE])
          /\ worker' = [worker EXCEPT ![w] = Idle]
          /\ UNCHANGED group
  /\ UNCHANGED <<stream, ctx, launched, producer, seq, jobs, jobsShut, shut, reader>>

SendResult(w) ==
  /\ worker[w].at = "send"
  /\ Room
  /\ results' = Append(results, [seq |-> worker[w].seq, err |-> worker[w].err])
  /\ IF worker[w].err
     THEN worker' = [worker EXCEPT ![w].at = "exit"] /\ group' = "done"
     ELSE worker' = [worker EXCEPT ![w] = Idle] /\ UNCHANGED group
  /\ UNCHANGED <<stream, ctx, launched, producer, seq, jobs, jobsShut, shut, reader>>

\* <-ctx.Done() in the select of a worker: the block is dropped.
WorkerStopsWithRoom(w) ==
  /\ worker[w].at = "send"
  /\ group = "done"
  /\ Room
  /\ worker' = [worker EXCEPT ![w].at = "exit"]
  /\ UNCHANGED <<stream, ctx, group, launched, producer, seq, jobs, jobsShut, results,
                 shut, reader>>

WorkerStops(w) ==
  /\ worker[w].at = "send"
  /\ group = "done"
  /\ worker' = [worker EXCEPT ![w].at = "exit"]
  /\ UNCHANGED <<stream, ctx, group, launched, producer, seq, jobs, jobsShut, results,
                 shut, reader>>

\* g.Wait returns, close(results).
CloseResults ==
  /\ launched
  /\ ~shut
  /\ producer = "exit"
  /\ \A w \in Workers : worker[w].at = "exit"
  /\ shut' = TRUE
  /\ UNCHANGED <<stream, ctx, group, launched, producer, seq, jobs, jobsShut, worker,
                 results, reader>>

\* The caller has what it wanted and the goroutines are gone.
Done == outcome # "data" /\ Quiet /\ UNCHANGED vars

ProducerStep == ReadJob \/ SendJob \/ SendReadError \/ ProducerStops
WorkerStep(w) ==
  ReceiveJob(w) \/ JobsEnd(w) \/ DecodeBlock(w) \/ SendResult(w) \/ WorkerStops(w)
TakeStep == TakeHeld \/ TakeResult \/ TakeEnd

Next ==
  \/ BeginRead \/ TakeStep \/ Close \/ Cancel
  \/ ProducerStep
  \/ \E w \in Workers : WorkerStep(w)
  \/ CloseResults
  \/ Done

\* The Go runtime runs every goroutine that can take a step, and reads of the
\* source and decoders return.  Nothing makes the caller read on or close.
Fairness ==
  /\ WF_vars(TakeStep)
  /\ WF_vars(ProducerStep)
  /\ \A w \in Workers : WF_vars(WorkerStep(w))
  /\ WF_vars(CloseResults)

Spec == Init /\ [][Next]_vars
FairSpec == Spec /\ Fairness

-----------------------------------------------------------------------------
TypeOK ==
  /\ stream \in Streams
  /\ ctx \in {"live", "done"}
  /\ group \in {"live", "done"}
  /\ launched \in BOOLEAN
  /\ producer \in {"read", "send", "fail", "exit"}
  /\ seq \in 0..stream.blocks
  /\ jobs \in {<<>>} \cup {<<b>> : b \in 0..MaxBlocks}
  /\ jobsShut \in BOOLEAN
  /\ worker \in [Workers -> [at : {"idle", "decode", "send", "exit"},
                             seq : 0..MaxBlocks, err : BOOLEAN]]
  /\ results \in Seq([seq : 0..MaxBlocks, err : BOOLEAN])
  /\ Len(results) <= Cardinality(Workers)
  /\ shut \in BOOLEAN
  /\ caller \in {"idle", "take"}
  /\ hold \subseteq 0..MaxBlocks
  /\ want \in 0..stream.blocks
  /\ delivered \in Seq(0..MaxBlocks)
  /\ outcome \in {"data", "eof", "error", "closed"}

\* The bytes come out in stream order without a gap or a repetition, however
\* the workers race (take, hold, want).
InOrder ==
  /\ Len(delivered) = want
  /\ \A i \in 1..Len(delivered) : delivered[i] = i - 1

\* No block is lost or decoded twice: until an error or a cancellation, each
\* block read from the source is in exactly one place.
Places(b) ==
  (IF b < want THEN 1 ELSE 0)
  + (IF b \in hold THEN 1 ELSE 0)
  + Cardinality({i \in 1..Len(results) : results[i].seq = b})
  + Cardinality({w \in Workers : worker[w].at \in {"decode", "send"} /\ worker[w].seq = b})
  + Cardinality({i \in 1..Len(jobs) : jobs[i] = b})

Conserved == group = "live" => \A b \in 0..MaxBlocks : Places(b) = IF b < seq THEN 1 ELSE 0

\* io.EOF means the end: unless the caller's context was cancelled, Read
\* returns it only after every block of a sound stream was handed out, and a
\* bad block or a truncated stream never ends in it.
CompleteAtEOF ==
  (outcome = "eof" /\ ctx = "live") =>
    want = stream.blocks /\ stream.bad = {} /\ ~stream.broken

\* An error is about the stream: without a cancellation Read returns one only
\* when some block is bad or the stream is broken.
HonestError ==
  (outcome = "error" /\ ctx = "live") => stream.bad # {} \/ stream.broken

\* The goroutines and channels of reader.go implement the decoder without
\* threads: whatever order the workers finish in, however the caller closes
\* or cancels, what Read returns is what decoding block after block returns, and
\* it returns: no circle of full and empty channels (jobs, results) stops it.
Sequential ==
  INSTANCE BlockStream
    WITH Streams <- Streams, stream <- stream, ctx <- ctx, caller <- caller,
         delivered <- delivered, outcome <- outcome

KeepsOrder == Sequential!Spec

\* No goroutine is left behind once the stream ended, failed, was closed or
\* was cancelled while no Read is waiting for it.
NoLeak == (launched /\ (outcome # "data" \/ ctx = "done")) ~> Quiet

=============================================================================
