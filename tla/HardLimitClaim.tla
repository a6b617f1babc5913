--------------------------- MODULE HardLimitClaim ---------------------------
(***************************************************************************)
(* README.md of the repository says of BLOCK_HARD_LIMIT: "Searches/minute  *)
(* before temporary IP block".  This module counts the searches an address *)
(* asks for, admitted or denied, within one second of RequestPipeline.     *)
(***************************************************************************)
EXTENDS MCRequestPipeline

VARIABLE attempts   \* attempts[ip]: its searches since the clock last moved

ClaimInit == Init /\ attempts = [ip \in Ips |-> 0]

\* One answered search of s: denied, challenged or served.
AnswerSearch(s) ==
  /\ path[s] = "search"
  /\ CheckDenies(s) \/ CheckAdmits(s) \/ CheckChallenges(s)
  /\ attempts' = [attempts EXCEPT ![IpOf[s]] = @ + 1]

ClaimNext ==
  \/ \E s \in Slots : AnswerSearch(s)
  \/ \E s \in Slots :
       /\ Arrive(s, "search") \/ VerifyFails(s) \/ EndpointReturns(s)
       /\ UNCHANGED attempts
  \/ Tick /\ attempts' = [ip \in Ips |-> 0]

ClaimSpec == ClaimInit /\ [][ClaimNext]_<<vars, attempts>>

(* "Searches/minute before temporary IP block" (README.md:195): an address  *)
(* that has asked for more than BLOCK_HARD_LIMIT searches within a window   *)
(* is blocked.  check counts only the searches it admitted, so the count    *)
(* stays at SEARCH_RATE_LIMIT and the block is never set.                   *)
HardLimitBlocks ==
  \A ip \in Ips : attempts[ip] > BLOCK_HARD_LIMIT => flags[ip].blocked > clock
=============================================================================
