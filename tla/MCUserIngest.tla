---------------------------- MODULE MCUserIngest ----------------------------
(* A small instance of UserIngest for TLC.                                  *)
EXTENDS UserIngest

CONSTANTS u1, u2, u3

\* The second version of the parser raises on pages of u2, which the first parses.
MCRaising == [v \in 1..MAX_VERSION |-> IF v = 1 THEN {} ELSE {u2}]
=============================================================================
