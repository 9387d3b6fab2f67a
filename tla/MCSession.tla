----------------------------- MODULE MCSession -----------------------------
(* Model-checking instance of Session: a file git tracks, one it does not  *)
(* know, and an ignored protected one.                                     *)
EXTENDS Session

CONSTANTS tracked, fresh, secret, c1, c2

MCFiles   == {tracked, fresh, secret}
MCChunks  == {c1, c2}
Tree(t, n, s) == [f \in MCFiles |-> CASE f = tracked -> t [] f = fresh -> n [] f = secret -> s]
MCIndex   == Tree({c1}, Absent, Absent)
Dirty     == Tree({c1, c2}, {c2}, {c1})

EditOf(f, old, new) == [file |-> f, action |-> "edit", old |-> old, new |-> new]
WriteOf(f, new)     == [file |-> f, action |-> "write", old |-> new, new |-> new]
MCReplies ==
  {<<>>,
   <<WriteOf(secret, c2), EditOf(tracked, c1, c2)>>,
   <<WriteOf(fresh, c1)>>}
MCTrees   == {Dirty}
=============================================================================
