------------------------- MODULE MCRequestPipeline -------------------------
(* Small instances of RequestPipeline for TLC. *)
EXTENDS RequestPipeline, TLC

CONSTANTS s1, s2, w1, w2, ip1

\* two requests of one address, on two workers or on one
WorkersOfTwo   == s1 :> w1 @@ s2 :> w2
OneWorker      == s1 :> w1 @@ s2 :> w1
SameAddress    == s1 :> ip1 @@ s2 :> ip1
=============================================================================
