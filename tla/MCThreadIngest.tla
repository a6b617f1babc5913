--------------------------- MODULE MCThreadIngest ---------------------------
(* Small instances of ThreadIngest for TLC, and two statements of the       *)
(* repository about the index.                                              *)
EXTENDS ThreadIngest, TLC

CONSTANTS p1, p2, t1, t2, t3, t4

ProcSymmetry == Permutations({p1, p2})

\* The index is there and holds the rows.
IndexComplete == \A tab \in Tables : schema[tab] # "none" /\ index[tab] = row

(* "FTS indexes dropped; they will remain off during parsing."              *)
(* (scripts/thread_parser.py:1220): once a bulk run has ended because       *)
(* nothing is left to parse, they are back.  A run that dies between its    *)
(* DROP and the rebuild while every row is stored (an overwriting run on a  *)
(* complete database, or any after its last flush) leaves no index, and     *)
(* every later resuming run returns before it looks at it.                  *)
IndexBackAfterParsing == \A p \in Procs : ended[p] = "nothing" /\ Quiet => IndexComplete

(* "Verify external-content FTS remains consistent after thread UPSERTs."   *)
(* (scripts/test_fts_updates.py:1).  The test runs its --thread commands one *)
(* after the other.  Two that overlap and both report success: one writes   *)
(* its thread after the other has dropped the triggers and before it has    *)
(* created them again, and the index keeps the thread's old text.           *)
UpsertsKeepIndex ==
  Quiet /\ (\A p \in Procs : ended[p] = "done")
    => \A tab \in Tables, t \in Threads : Found(tab, t) \in {0, row[t]}
=============================================================================
