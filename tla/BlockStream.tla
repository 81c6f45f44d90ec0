---------------------------- MODULE BlockStream ----------------------------
(***************************************************************************)
(* What the 4x4 reader promises its caller (stream/fourx4/reader.go): it   *)
(* behaves as if one thread decoded block after block.  The caller asks,   *)
(* and gets the next block, the end or an error; the goroutines and the    *)
(* channels that find the answer are not here.                             *)
(*                                                                         *)
(* An error may overtake good blocks that come before the bad one, and     *)
(* after a cancellation the answer may also be an early end.               *)
(***************************************************************************)
EXTENDS Naturals, Sequences

CONSTANT Streams  \* what a source may hold: [blocks, bad, broken]

VARIABLES
  stream,    \* what this source holds
  ctx,       \* "live" or "done": the context given to NewReader
  caller,    \* "idle", or "take" while a Read waits for its answer
  delivered, \* the blocks handed out
  outcome    \* "data" until the end, an error or Close

vars == <<stream, ctx, caller, delivered, outcome>>

Sound == stream.bad = {} /\ ~stream.broken

Cancelled == ctx = "done"

Init ==
  /\ stream \in Streams
  /\ ctx = "live"
  /\ caller = "idle"
  /\ delivered = <<>>
  /\ outcome = "data"

Ask ==
  /\ caller = "idle"
  /\ outcome = "data"
  /\ caller' = "take"
  /\ UNCHANGED <<stream, ctx, delivered, outcome>>

HandOut ==
  /\ caller = "take"
  /\ Len(delivered) < stream.blocks
  /\ Len(delivered) \notin stream.bad
  /\ delivered' = Append(delivered, Len(delivered))
  /\ caller' = "idle"
  /\ UNCHANGED <<stream, ctx, outcome>>

\* The end of the stream, after the last block of a sound one.
End ==
  /\ caller = "take"
  /\ Cancelled \/ (Sound /\ Len(delivered) = stream.blocks)
  /\ outcome' = "eof"
  /\ caller' = "idle"
  /\ UNCHANGED <<stream, ctx, delivered>>

Fail ==
  /\ caller = "take"
  /\ Cancelled \/ ~Sound
  /\ outcome' = "error"
  /\ caller' = "idle"
  /\ UNCHANGED <<stream, ctx, delivered>>

Answer == HandOut \/ End \/ Fail

Close ==
  /\ caller = "idle"
  /\ outcome # "closed"
  /\ outcome' = "closed"
  /\ UNCHANGED <<stream, ctx, caller, delivered>>

Cancel ==
  /\ ~Cancelled
  /\ ctx' = "done"
  /\ UNCHANGED <<stream, caller, delivered, outcome>>

Next == Ask \/ Answer \/ Close \/ Cancel

SafeSpec == Init /\ [][Next]_vars

\* A Read that was asked is answered.
Spec == SafeSpec /\ WF_vars(Answer)

=============================================================================
