---------------------------- MODULE MCReplyTree ----------------------------
(* Three page files, two of which sort differently by name, for TLC.        *)
EXTENDS ReplyTree, TLC

CONSTANTS d1, d2, a1, a2, s1

ReplySymmetry == Permutations({d1, d2}) \cup Permutations({a1, a2})
=============================================================================
