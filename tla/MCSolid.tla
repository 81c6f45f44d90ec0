------------------------------ MODULE MCSolid ------------------------------
(***************************************************************************)
(* Volumes for TLC: two solids of up to three members, sound and damaged.  *)
(***************************************************************************)
EXTENDS SolidExtract

M(p, sound) == [path |-> p, sound |-> sound]
S(files, good, tail) == [files |-> files, good |-> good, tail |-> tail]

\* More members than the semaphore admits, next to a second solid.
Three == <<M("a", TRUE), M("b", TRUE), M("c", TRUE)>>

Sound == <<S(Three, 3, "eof"), S(<<M("d", TRUE)>>, 1, "eof")>>

Damaged == {
  <<S(<<M("a", FALSE), M("b", TRUE), M("c", TRUE)>>, 3, "eof")>>,
  <<S(Three, 2, "eof")>>,
  <<S(Three, 3, "data")>>,
  <<S(Three, 3, "error")>>,
  <<S(<<M("a", TRUE), M("b", TRUE)>>, 2, "eof"), S(<<M("d", FALSE)>>, 1, "eof")>> }

DistinctArchives == {Sound} \cup Damaged

\* The same name twice: in one solid, and in two.
TwiceArchives == {
  <<S(<<M("a", TRUE), M("a", TRUE), M("b", TRUE)>>, 3, "eof")>>,
  <<S(<<M("a", TRUE)>>, 1, "eof"), S(<<M("a", TRUE)>>, 1, "eof")>> }

AllArchives == DistinctArchives \cup TwiceArchives
=============================================================================
