------------------------------ MODULE MCNested ------------------------------
(***************************************************************************)
(* Small scripts of nested recipes for TLC.  The commands are copies,      *)
(* moves and rewrites of three files; r and q are recipes.                 *)
(***************************************************************************)
EXTENDS NestedRecipe

Command(reads, writes, drops) ==
  [reads |-> reads, writes |-> writes, glob |-> FALSE, bad |-> FALSE, uses |-> reads,
   needs |-> reads, puts |-> writes, drops |-> drops, keeps |-> {}, recipe |-> FALSE]

Copy(f, g) == Command({f}, {g}, {})
Move(f, g) == Command({f}, {f, g}, {f})
Rewrite(f) == [Command({f}, {f}, {}) EXCEPT !.needs = {}, !.keeps = {f}]
Sweep(f)   == [Command({}, {f}, {f}) EXCEPT !.glob = TRUE]
Rejected   == [Command({}, {}, {}) EXCEPT !.bad = TRUE]
Call(r)    == [Command({r}, {}, {}) EXCEPT !.glob = TRUE, !.recipe = TRUE]

Texts(r, q) == [f \in Files |-> CASE f = "r" -> r [] f = "q" -> q
                                  [] OTHER -> [old \in BOOLEAN |-> <<>>]]

Same(lines) == [old \in BOOLEAN |-> lines]

A(main, there, r, q) == [main |-> main, there |-> there, text |-> Texts(r, q)]

\* The called recipe exists.
There == A(<<Copy("a", "b"), Call("r"), Rewrite("b")>>, {"a", "r"},
           Same(<<Rewrite("b"), Copy("b", "a")>>), Same(<<>>))

\* It is rewritten by the line before the call.
Stale == A(<<Copy("a", "r"), Call("r"), Rewrite("b")>>, {"a", "r"},
           [old \in BOOLEAN |-> IF old THEN <<Copy("a", "b")>> ELSE <<Rewrite("a")>>], Same(<<>>))

\* It is produced by the recipe and called last.
Produced == A(<<Copy("a", "r"), Copy("a", "b"), Call("r")>>, {"a"},
              Same(<<Rewrite("a"), Sweep("b"), Move("a", "b")>>), Same(<<>>))

\* It is produced and other lines follow.
Followed == A(<<Copy("a", "r"), Call("r"), Rewrite("a")>>, {"a"},
              Same(<<Copy("a", "b"), Rewrite("b")>>), Same(<<>>))

\* It exists, is moved away and produced again.
Moved == A(<<Move("r", "b"), Copy("b", "r"), Call("r"), Rewrite("a")>>, {"a", "r"},
           Same(<<Rewrite("a")>>), Same(<<>>))

\* A produced recipe produces another.
Twice == A(<<Copy("a", "r"), Call("r")>>, {"a"},
           Same(<<Copy("a", "q"), Call("q")>>), Same(<<Copy("a", "b"), Rewrite("b")>>))

\* A recipe that calls itself, there or produced; one that never appears; one
\* with a line that is rejected.
Loop      == A(<<Copy("a", "b"), Call("r")>>, {"a", "r"},
               Same(<<Rewrite("b"), Call("r")>>), Same(<<>>))
LateLoop  == A(<<Copy("a", "r"), Call("r")>>, {"a"},
               Same(<<Rewrite("a"), Call("r")>>), Same(<<>>))
Missing   == A(<<Copy("a", "b"), Call("q")>>, {"a"}, Same(<<>>), Same(<<>>))
BadInside == A(<<Copy("a", "r"), Call("r")>>, {"a"}, Same(<<Rewrite("a"), Rejected>>), Same(<<>>))

AllScripts ==
  {There, Stale, Produced, Followed, Moved, Twice, Loop, LateLoop, Missing, BadInside}

=============================================================================
