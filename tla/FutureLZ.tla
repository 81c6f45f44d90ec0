------------------------------ MODULE FutureLZ ------------------------------
(***************************************************************************)
(* What a reader of an SREP stream promises, whatever memory it has: block *)
(* after block the bytes the stream means, an error where the stream is    *)
(* malformed, and the end of the stream only after the last block.  What a *)
(* stream means is FutureStream's.  A reader may run short of room for a   *)
(* stream, and it may lose track of a copy: then a well-formed stream may  *)
(* end in an error, too, but its blocks never have other bytes.            *)
(***************************************************************************)
EXTENDS Naturals, Sequences

CONSTANTS
  Streams,      \* the streams considered
  Valid(_, _),  \* Valid(s, k): blocks 1 to k of s are well-formed
  Bytes(_, _),  \* Bytes(s, k): the bytes of block k
  Short(_)      \* Short(s): there may be no room for a copy of s

VARIABLES
  stream,  \* the stream (constant)
  done,    \* number of blocks read so far
  out,     \* the bytes of those blocks
  status,  \* "going", or how reading ended
  lost     \* the reader has lost track of a copy

futureVars == <<stream, done, out, status, lost>>

Init ==
  /\ stream \in Streams
  /\ done = 0
  /\ out = <<>>
  /\ status = "going"
  /\ lost = FALSE

AllRead == done = Len(stream.blocks)

\* A block that is not well-formed is delivered by a reader that has lost track
\* alone, with any bytes.
NextBlock ==
  /\ status = "going"
  /\ ~AllRead
  /\ done' = done + 1
  /\ Valid(stream, done + 1) \/ lost
  /\ Valid(stream, done + 1) => out' = out \o Bytes(stream, done + 1)
  /\ UNCHANGED <<stream, status, lost>>

Break ==
  /\ status = "going"
  /\ ~AllRead
  /\ status' = "broken"
  /\ ~Valid(stream, done + 1) \/ lost \/ Short(stream)
  /\ UNCHANGED <<stream, done, out, lost>>

LoseTrack ==
  /\ status = "going"
  /\ lost' = TRUE
  /\ UNCHANGED <<stream, done, out, status>>

\* A stream may end with a header of zeros, with its input, or, after its
\* first block, with whatever the container has behind it.
Finish ==
  /\ status = "going"
  /\ AllRead
  /\ stream.end \in {"eof", "zero"} \/ (stream.end = "trailer" /\ done > 0)
  /\ status' = "end"
  /\ UNCHANGED <<stream, done, out, lost>>

\* The input breaks off, or is no stream at all.
InputFails ==
  /\ status = "going"
  /\ AllRead
  /\ stream.end = "cut" \/ (stream.end = "trailer" /\ done = 0)
  /\ status' = "failed"
  /\ UNCHANGED <<stream, done, out, lost>>

\* The caller gives up: its context is cancelled, or it closes the reader.
GiveUp ==
  /\ status' = "closed" \/ (status = "going" /\ status' = "canceled")
  /\ UNCHANGED <<stream, done, out, lost>>

Next == NextBlock \/ Break \/ LoseTrack \/ Finish \/ InputFails \/ GiveUp

Spec == Init /\ [][Next]_futureVars

=============================================================================
