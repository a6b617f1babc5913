---------------------------- MODULE MCPostSearch ----------------------------
(* A small instance of PostSearch for TLC. *)
EXTENDS PostSearch, TLC

CONSTANTS f1, f2

\* f1 has three pages in two blocks, f2 exactly one block, which its answers do
\* not say; fewer posts, or none, are thread starters.
SmallSize == f1 :> (FALSE :> 5 @@ TRUE :> 2) @@ f2 :> (FALSE :> 4 @@ TRUE :> 0)
=============================================================================
