-------------------------- MODULE RequestPipeline --------------------------
(***************************************************************************)
(* BotProtectionMiddleware.dispatch (app/main.py) over the limiter.        *)
(*                                                                         *)
(* A slot is a request in flight: it belongs to one Uvicorn worker and one *)
(* client address, and serves one request after another.  dispatch runs on *)
(* the event loop of its worker: a limiter call is synchronous, so while   *)
(* one waits for the SQLite lock (pc in Locking) no other request of that  *)
(* worker moves.  Requests of one worker interleave at the two awaits      *)
(* (pc = "verify" and pc = "endpoint"), requests of different workers      *)
(* anywhere.                                                               *)
(***************************************************************************)
EXTENDS RateLimiter

CONSTANTS
  Slots,
  WorkerOf,     \* WorkerOf[s]: the process that runs slot s
  IpOf,         \* IpOf[s]: the address its requests come from
  Workers,
  RequestPaths, \* the classes of paths this instance asks for
  FailingPaths, \* those whose endpoint may answer with a status >= 400
  HORIZON       \* bound: the clock stops HORIZON seconds after EPOCH

ASSUME SlotAssumption ==
  /\ WorkerOf \in [Slots -> Workers]
  /\ IpOf \in [Slots -> Ips]
  /\ RequestPaths \subseteq {"search", "read", "other"}
  /\ HORIZON \in Nat

VARIABLES
  pc,     \* where dispatch is
  path,   \* the class of the request's path
  now     \* the `now` of the limiter call under way, 0 outside one

pipeline == <<pc, path, now>>
vars == <<clock, tables, history, pipeline>>

Paths   == {"search", "read", "other"}   \* SEARCH_PATHS, READ_PATHS, the rest of /api/
Locking == {"honeypot", "check", "pass", "failure"}
Places  == Locking \cup {"idle", "verify", "endpoint"}

TypeOK ==
  /\ LimiterTypeOK
  /\ pc \in [Slots -> Places]
  /\ path \in [Slots -> Paths]
  /\ now \in [Slots -> Int]

Init ==
  /\ LimiterInit
  /\ pc = [s \in Slots |-> "idle"]
  /\ path = [s \in Slots |-> "other"]
  /\ now = [s \in Slots |-> 0]

-----------------------------------------------------------------------------
\* The event loop of the worker of s is not inside a limiter call.
LoopFree(s) == \A r \in Slots : WorkerOf[r] = WorkerOf[s] => pc[r] \notin Locking

\* now = time.time(), before BEGIN IMMEDIATE
StartCall(s, call) ==
  /\ LoopFree(s)
  /\ pc' = [pc EXCEPT ![s] = call]
  /\ now' = [now EXCEPT ![s] = clock]

\* Bug: no busy timeout, the call waits as long as it takes.
HoldsLockLate(s, call) == pc[s] = call

\* BEGIN IMMEDIATE got the lock before the busy timeout.
HoldsLock(s, call) ==
  /\ pc[s] = call
  /\ clock - now[s] <= BUSY_TIMEOUT

Goto(s, place) ==
  /\ pc' = [pc EXCEPT ![s] = place]
  /\ now' = [now EXCEPT ![s] = 0]
  /\ path' = IF place = "idle" THEN [path EXCEPT ![s] = "other"] ELSE path

-----------------------------------------------------------------------------
ArriveHoneypot(s) ==
  /\ pc[s] = "idle"
  /\ StartCall(s, "honeypot")
  /\ UNCHANGED <<clock, tables, history, path>>

Arrive(s, p) ==
  /\ pc[s] = "idle"
  /\ StartCall(s, "check")
  /\ path' = [path EXCEPT ![s] = p]
  /\ UNCHANGED <<clock, tables, history>>

\* 403 and no further step
Honeypot(s) ==
  /\ HoldsLock(s, "honeypot")
  /\ MarkHoneypot(IpOf[s], now[s])
  /\ Goto(s, "idle")
  /\ UNCHANGED clock

\* check answers with a denial: 429, the endpoint never runs
CheckDenies(s) ==
  /\ HoldsLock(s, "check")
  /\ \/ DenyCooldown(IpOf[s], now[s])
     \/ path[s] = "search" /\ DenyHardLimit(IpOf[s], now[s])
     \/ path[s] # "other" /\ DenyRateLimit(path[s], IpOf[s], now[s])
  /\ Goto(s, "idle")
  /\ UNCHANGED clock

CheckAdmits(s) ==
  /\ HoldsLock(s, "check")
  /\ \/ path[s] = "search" /\ AdmitSearch(IpOf[s], now[s])
     \/ path[s] = "read" /\ AdmitRead(IpOf[s], now[s])
     \/ path[s] = "other" /\ AdmitOther(IpOf[s], now[s])
  /\ Goto(s, "endpoint")
  /\ UNCHANGED clock

\* await verify_turnstile
CheckChallenges(s) ==
  /\ HoldsLock(s, "check")
  /\ path[s] = "search"
  /\ AdmitChallenge(IpOf[s], now[s])
  /\ Goto(s, "verify")
  /\ UNCHANGED clock

\* no token, a refused one, or the 5 s timeout of the siteverify call: 429
VerifyFails(s) ==
  /\ pc[s] = "verify"
  /\ LoopFree(s)
  /\ Goto(s, "idle")
  /\ UNCHANGED <<clock, tables, history>>

VerifySucceeds(s) ==
  /\ pc[s] = "verify"
  /\ StartCall(s, "pass")
  /\ UNCHANGED <<clock, tables, history, path>>

Pass(s) ==
  /\ HoldsLock(s, "pass")
  /\ MarkTurnstilePassed(IpOf[s], now[s])
  /\ Goto(s, "endpoint")
  /\ UNCHANGED clock

\* A status below 400, or an exception of the endpoint: it passes through
\* call_next, so record_failure is not reached either.
EndpointReturns(s) ==
  /\ pc[s] = "endpoint"
  /\ LoopFree(s)
  /\ Goto(s, "idle")
  /\ UNCHANGED <<clock, tables, history>>

\* status_code >= 400
EndpointFails(s) ==
  /\ pc[s] = "endpoint"
  /\ path[s] \in FailingPaths
  /\ StartCall(s, "failure")
  /\ UNCHANGED <<clock, tables, history, path>>

Failure(s) ==
  /\ HoldsLock(s, "failure")
  /\ RecordFailure(IpOf[s], now[s])
  /\ Goto(s, "idle")
  /\ UNCHANGED clock

\* Bug: only check gives up, the other calls try again for ever.
OnlyCheckTimesOut(s) ==
  /\ pc[s] = "check"
  /\ clock - now[s] >= BUSY_TIMEOUT
  /\ Goto(s, "idle")
  /\ UNCHANGED <<clock, tables, history>>

\* "database is locked": BEGIN IMMEDIATE raises, the request ends in a 500
\* that nobody counts.
LockTimesOut(s) ==
  /\ pc[s] \in Locking
  /\ clock - now[s] >= BUSY_TIMEOUT
  /\ Goto(s, "idle")
  /\ UNCHANGED <<clock, tables, history>>

\* A worker process dies and is started again: its requests are gone, an open
\* transaction is rolled back, the file stays.
WorkerCrash(w) ==
  /\ \E s \in Slots : WorkerOf[s] = w /\ pc[s] # "idle"
  /\ pc' = [s \in Slots |-> IF WorkerOf[s] = w THEN "idle" ELSE pc[s]]
  /\ now' = [s \in Slots |-> IF WorkerOf[s] = w THEN 0 ELSE now[s]]
  /\ path' = [s \in Slots |-> IF WorkerOf[s] = w THEN "other" ELSE path[s]]
  /\ UNCHANGED <<clock, tables, history>>

Tick ==
  /\ clock < EPOCH + HORIZON
  /\ TimePasses
  /\ UNCHANGED pipeline

SlotStep(s) ==
  \/ Honeypot(s) \/ CheckDenies(s) \/ CheckAdmits(s) \/ CheckChallenges(s)
  \/ VerifyFails(s) \/ VerifySucceeds(s) \/ Pass(s)
  \/ EndpointReturns(s) \/ EndpointFails(s) \/ Failure(s)
  \/ LockTimesOut(s)

Next ==
  \/ \E s \in Slots : ArriveHoneypot(s)
  \/ \E s \in Slots, p \in RequestPaths : Arrive(s, p)
  \/ \E s \in Slots : SlotStep(s)
  \/ \E w \in Workers : WorkerCrash(w)
  \/ Tick

Spec == Init /\ [][Next]_vars

-----------------------------------------------------------------------------
(* The event loop is a FIFO queue: a slot that may run again and again does. *)
FairSpec == Spec /\ \A s \in Slots : SF_vars(SlotStep(s))

(* Whatever the workers interleave, the tables only ever see transactions   *)
(* of the limiter with a time at most one lock wait old.                    *)
PipelineUsesLimiter == LimiterSpec

\* A limiter call never has a `now` from the future.
ReadBefore == \A s \in Slots : now[s] <= clock

(* Every request is answered: no worker waits for the lock for ever, and    *)
(* the two awaits are resumed.                                              *)
EveryRequestAnswered == \A s \in Slots : pc[s] # "idle" ~> pc[s] = "idle"
=============================================================================
