----------------------- MODULE RequestPipelineProofs -----------------------
(***************************************************************************)
(* The middleware implements the limiter: whatever the workers interleave, *)
(* for any number of them, every promise of RateLimiter holds of it.       *)
(***************************************************************************)
EXTENDS RequestPipeline, RateLimiterProofs

\* The part of the state the limiter does not know.
PipelineTypeOK ==
  /\ pc \in [Slots -> Places]
  /\ path \in [Slots -> Paths]
  /\ now \in [Slots -> Int]

\* TypeOK and ReadBefore are inductive together with the limiter's own
\* invariant.
PipelineInv == LimiterInv /\ PipelineTypeOK /\ ReadBefore

LEMMA PipelineStarts == Init => PipelineInv
<1> SUFFICES ASSUME Init PROVE PipelineInv
  OBVIOUS
<1>1. LimiterInv
  BY InitHolds DEF Init
<1>2. PipelineTypeOK
  BY DEF Init, PipelineTypeOK, Places, Paths
<1>3. ReadBefore
  BY TimeAssumption DEF Init, LimiterInit, ReadBefore
<1> QED BY <1>1, <1>2, <1>3 DEF PipelineInv

\* A call that holds the lock runs with a time the limiter allows.
LEMMA LockedTime ==
  ASSUME PipelineInv, NEW s \in Slots, NEW call, HoldsLock(s, call)
  PROVE  IpOf[s] \in Ips /\ now[s] \in (clock - BUSY_TIMEOUT)..clock
<1>1. clock \in Int /\ now[s] \in Int /\ now[s] <= clock
  BY DEF PipelineInv, PipelineTypeOK, ReadBefore, LimiterInv, LimiterTypeOK
<1>2. clock - now[s] <= BUSY_TIMEOUT /\ BUSY_TIMEOUT \in Int
  BY TimeAssumption DEF HoldsLock
<1> QED BY <1>1, <1>2, SlotAssumption

\* A transaction of the limiter, at a time it allows, leaves the clock alone.
LEMMA LockedStep ==
  ASSUME PipelineInv, NEW s \in Slots, NEW call, HoldsLock(s, call),
         Transaction(IpOf[s], now[s]), UNCHANGED clock
  PROVE  LimiterNext
BY LockedTime DEF LimiterNext

\* Every step of the pipeline is a step of the limiter or leaves it alone.
LEMMA StepImplements ==
  ASSUME PipelineInv, [Next]_vars
  PROVE  [LimiterNext]_limiterVars
<1>1. CASE \E s \in Slots : ArriveHoneypot(s)
  BY <1>1 DEF ArriveHoneypot, limiterVars
<1>2. CASE \E s \in Slots, p \in RequestPaths : Arrive(s, p)
  BY <1>2 DEF Arrive, limiterVars
<1>3. CASE \E s \in Slots : SlotStep(s)
  <2> PICK s \in Slots : SlotStep(s)
    BY <1>3
  <2>1. CASE Honeypot(s)
    <3>1. HoldsLock(s, "honeypot") /\ Transaction(IpOf[s], now[s]) /\ UNCHANGED clock
      BY <2>1 DEF Honeypot, Transaction
    <3> QED BY <3>1, LockedStep
  <2>2. CASE CheckDenies(s)
    <3>1. HoldsLock(s, "check") /\ UNCHANGED clock
      BY <2>2 DEF CheckDenies
    <3>2. CASE DenyCooldown(IpOf[s], now[s])
      BY <3>1, <3>2 DEF DenyCooldown, limiterVars
    <3>3. CASE path[s] = "search" /\ DenyHardLimit(IpOf[s], now[s])
      BY <3>1, <3>3, LockedStep DEF Transaction
    <3>4. CASE path[s] # "other" /\ DenyRateLimit(path[s], IpOf[s], now[s])
      <4>1. path[s] \in Limited
        BY <3>4 DEF PipelineInv, PipelineTypeOK, Paths, Limited
      <4> QED BY <3>1, <3>4, <4>1, LockedStep DEF Transaction
    <3> QED BY <2>2, <3>2, <3>3, <3>4 DEF CheckDenies
  <2>3. CASE CheckAdmits(s)
    <3>1. HoldsLock(s, "check") /\ UNCHANGED clock
      BY <2>3 DEF CheckAdmits
    <3>2. CASE AdmitOther(IpOf[s], now[s])
      BY <3>1, <3>2 DEF AdmitOther, limiterVars
    <3>3. CASE AdmitSearch(IpOf[s], now[s]) \/ AdmitRead(IpOf[s], now[s])
      BY <3>1, <3>3, LockedStep DEF Transaction
    <3> QED BY <2>3, <3>2, <3>3 DEF CheckAdmits
  <2>4. CASE CheckChallenges(s)
    <3>1. HoldsLock(s, "check") /\ Transaction(IpOf[s], now[s]) /\ UNCHANGED clock
      BY <2>4 DEF CheckChallenges, Transaction
    <3> QED BY <3>1, LockedStep
  <2>5. CASE Pass(s)
    <3>1. HoldsLock(s, "pass") /\ Transaction(IpOf[s], now[s]) /\ UNCHANGED clock
      BY <2>5 DEF Pass, Transaction
    <3> QED BY <3>1, LockedStep
  <2>6. CASE Failure(s)
    <3>1. HoldsLock(s, "failure") /\ Transaction(IpOf[s], now[s]) /\ UNCHANGED clock
      BY <2>6 DEF Failure, Transaction
    <3> QED BY <3>1, LockedStep
  <2>7. CASE VerifyFails(s) \/ VerifySucceeds(s) \/ EndpointReturns(s)
             \/ EndpointFails(s) \/ LockTimesOut(s)
    BY <2>7 DEF VerifyFails, VerifySucceeds, EndpointReturns, EndpointFails,
                LockTimesOut, limiterVars
  <2> QED BY <2>1, <2>2, <2>3, <2>4, <2>5, <2>6, <2>7 DEF SlotStep
<1>4. CASE \E w \in Workers : WorkerCrash(w)
  BY <1>4 DEF WorkerCrash, limiterVars
<1>5. CASE Tick
  BY <1>5 DEF Tick, LimiterNext
<1>6. CASE UNCHANGED vars
  BY <1>6 DEF vars, limiterVars
<1> QED BY <1>1, <1>2, <1>3, <1>4, <1>5, <1>6 DEF Next

\* What a step does to the slots, whichever step it is.
SlotsMove ==
  \/ UNCHANGED pipeline
  \/ \E s \in Slots, call \in Locking : StartCall(s, call) /\ UNCHANGED path
  \/ \E s \in Slots, call \in Locking, p \in Paths :
       StartCall(s, call) /\ path' = [path EXCEPT ![s] = p]
  \/ \E s \in Slots, place \in Places : Goto(s, place)
  \/ \E w \in Workers :
       /\ pc' = [s \in Slots |-> IF WorkerOf[s] = w THEN "idle" ELSE pc[s]]
       /\ now' = [s \in Slots |-> IF WorkerOf[s] = w THEN 0 ELSE now[s]]
       /\ path' = [s \in Slots |-> IF WorkerOf[s] = w THEN "other" ELSE path[s]]

LEMMA StepMoves == [Next]_vars => SlotsMove
<1> SUFFICES ASSUME [Next]_vars PROVE SlotsMove
  OBVIOUS
<1> USE DEF Locking, Places
<1>1. CASE \E s \in Slots : ArriveHoneypot(s)
  BY <1>1 DEF ArriveHoneypot, SlotsMove
<1>2. CASE \E s \in Slots, p \in RequestPaths : Arrive(s, p)
  BY <1>2, SlotAssumption DEF Arrive, SlotsMove, Paths
<1>3. CASE \E s \in Slots : SlotStep(s)
  <2> PICK s \in Slots : SlotStep(s)
    BY <1>3
  <2>1. CASE \E call \in Locking : StartCall(s, call) /\ UNCHANGED path
    BY <2>1 DEF SlotsMove
  <2>2. CASE \E place \in Places : Goto(s, place)
    BY <2>2 DEF SlotsMove
  <2> QED BY <2>1, <2>2
          DEF SlotStep, Honeypot, CheckDenies, CheckAdmits, CheckChallenges, Pass,
              Failure, VerifyFails, VerifySucceeds, EndpointReturns, EndpointFails,
              LockTimesOut
<1>4. CASE \E w \in Workers : WorkerCrash(w)
  BY <1>4 DEF WorkerCrash, SlotsMove
<1>5. CASE Tick \/ UNCHANGED vars
  BY <1>5 DEF Tick, vars, pipeline, SlotsMove
<1> QED BY <1>1, <1>2, <1>3, <1>4, <1>5 DEF Next

LEMMA PipelineKeeps ==
  ASSUME PipelineInv, [Next]_vars
  PROVE  PipelineInv'
<1>1. [LimiterNext]_limiterVars
  BY StepImplements
<1>2. LimiterInv'
  BY <1>1, LimiterInductive DEF PipelineInv
<1>3. clock \in Nat /\ clock' \in Nat /\ clock <= clock'
  <2>1. clock \in Nat /\ clock' \in Nat
    BY <1>2 DEF PipelineInv, LimiterInv, LimiterTypeOK
  <2>2. clock' = clock \/ clock' = clock + 1
    BY <1>1 DEF LimiterNext, TimePasses, limiterVars
  <2> QED BY <2>1, <2>2
<1>4. SlotsMove
  BY StepMoves
<1>5. PipelineTypeOK'
  <2> USE <1>3 DEF PipelineInv, PipelineTypeOK, Locking, Places, Paths
  <2>1. CASE UNCHANGED pipeline
    BY <2>1 DEF pipeline
  <2>2. CASE \E s \in Slots, call \in Locking : StartCall(s, call) /\ UNCHANGED path
    BY <2>2 DEF StartCall
  <2>3. CASE \E s \in Slots, call \in Locking, p \in Paths :
               StartCall(s, call) /\ path' = [path EXCEPT ![s] = p]
    BY <2>3 DEF StartCall
  <2>4. CASE \E s \in Slots, place \in Places : Goto(s, place)
    BY <2>4 DEF Goto
  <2> QED BY <1>4, <2>1, <2>2, <2>3, <2>4 DEF SlotsMove
<1>6. ReadBefore'
  <2> USE <1>3 DEF PipelineInv, PipelineTypeOK, ReadBefore
  <2>1. CASE UNCHANGED pipeline
    BY <2>1 DEF pipeline
  <2>2. CASE \E s \in Slots, call \in Locking : StartCall(s, call)
    BY <2>2 DEF StartCall
  <2>3. CASE \E s \in Slots, place \in Places : Goto(s, place)
    BY <2>3 DEF Goto
  <2> QED BY <1>4, <2>1, <2>2, <2>3 DEF SlotsMove
<1> QED BY <1>2, <1>5, <1>6 DEF PipelineInv

-----------------------------------------------------------------------------
(* In every behaviour of the middleware the limiter's invariant holds, and  *)
(* no limiter call runs with a time from the future.                        *)
THEOREM PipelineInvariant == Spec => []PipelineInv
BY PipelineStarts, PipelineKeeps, PTL DEF Spec

(* Every variable of the middleware and of the limiter keeps its type.      *)
THEOREM PipelineTypes == Spec => []TypeOK
<1>1. PipelineInv => TypeOK
  BY DEF PipelineInv, PipelineTypeOK, LimiterInv, TypeOK
<1> QED BY <1>1, PipelineInvariant, PTL

(* dispatch, with any number of workers and requests, crashes and lock      *)
(* timeouts included, implements the limiter.                               *)
THEOREM PipelineImplementsLimiter == Spec => PipelineUsesLimiter
<1>1. Init => LimiterInit
  BY DEF Init
<1>2. PipelineInv /\ [Next]_vars => [LimiterNext]_limiterVars
  BY StepImplements
<1> QED BY <1>1, <1>2, PipelineInvariant, PTL DEF Spec, PipelineUsesLimiter, LimiterSpec

(* What the limiter promises of an address holds of the requests: the       *)
(* stored rows, the admissions and the unverified searches of any span, the *)
(* block after failures, the revocation by a honeypot, Retry-After.         *)
THEOREM PipelinePromises ==
  Spec => [](/\ StoredWithinLimit /\ AdmissionRate /\ UnverifiedRate
             /\ FailuresBlock /\ HoneypotRevokes /\ RetryAfterSuffices)
BY PipelineImplementsLimiter, NeverOverLimit, SlidingWindow, SoftLimit,
   FailureCooldown, HoneypotRevocation, RetryAfterHonest, PTL
   DEF PipelineUsesLimiter

(* A blocked address gets nothing admitted for the cooldown, less the       *)
(* longest lock wait, whatever its requests in flight do.                   *)
THEOREM PipelineCooldown == Spec => CooldownHolds
BY PipelineImplementsLimiter, Cooldown, PTL DEF PipelineUsesLimiter
=============================================================================
