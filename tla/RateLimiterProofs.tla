------------------------- MODULE RateLimiterProofs -------------------------
(***************************************************************************)
(* The promises of RateLimiter, for every number of addresses and every    *)
(* value of the limits, windows and lock wait.                             *)
(***************************************************************************)
EXTENDS RateLimiter, FiniteSetTheorems, WellFoundedInduction, TLAPS

\* The times a transaction may run with.
LagTimes == (clock - BUSY_TIMEOUT)..clock

\* A step of a transaction of ip at t, as the proofs take it.
Step(ip, t) == t \in LagTimes /\ Transaction(ip, t) /\ UNCHANGED clock

-----------------------------------------------------------------------------
(* The operators.                                                          *)

LEMMA LimitTypes ==
  ASSUME NEW kind \in Kinds
  PROVE  Limit[kind] \in Nat /\ Window[kind] \in Nat /\ Cap(kind) \in Nat
BY LimitAssumption, TimeAssumption DEF Kinds, Limit, Window, Cap, SmallerOf

LEMMA ConstantTypes == Soft \in Nat /\ Grace \in Nat
BY LimitAssumption, TimeAssumption DEF Soft, Grace, SmallerOf, LargerOf

LEMMA LagTypes ==
  ASSUME LimiterTypeOK, NEW t \in LagTimes
  PROVE  t \in Int /\ t <= clock /\ t >= clock - BUSY_TIMEOUT
BY TimeAssumption DEF LagTimes, LimiterTypeOK

\* A finite set with one more element.
LEMMA OneMore ==
  ASSUME NEW S, NEW x, IsFiniteSet(S)
  PROVE  /\ IsFiniteSet(S \cup {x})
         /\ Cardinality(S) \in Nat
         /\ Cardinality(S \cup {x}) \in Nat
         /\ Cardinality(S \cup {x}) <= Cardinality(S) + 1
BY FS_AddElement, FS_CardinalityType

\* A part of a finite set is finite and no larger.
LEMMA Part ==
  ASSUME NEW S, NEW T \in SUBSET S, IsFiniteSet(S)
  PROVE  /\ IsFiniteSet(T)
         /\ Cardinality(T) \in Nat /\ Cardinality(S) \in Nat
         /\ Cardinality(T) <= Cardinality(S)
BY FS_Subset, FS_CardinalityType

LEMMA NewRowType ==
  ASSUME LimiterTypeOK, FiniteRows,
         NEW kind \in Kinds, NEW ip \in Ips, NEW t \in Int
  PROVE  NewRow(kind, ip, t) \in Row
<1> DEFINE S == {e \in logged[kind][ip] : e.ts = t /\ e.at = clock}
<1>1. IsFiniteSet(logged[kind][ip])
  BY DEF FiniteRows
<1>2. Cardinality(S) \in Nat
  <2>1. S \in SUBSET logged[kind][ip]
    OBVIOUS
  <2> QED BY <1>1, <2>1, Part
<1> HIDE DEF S
<1>3. [ts |-> t, at |-> clock, n |-> Cardinality(S)] \in Row
  BY <1>2 DEF Row, LimiterTypeOK
<1> QED BY <1>3 DEF NewRow, S

LEMMA LiveType ==
  ASSUME LimiterTypeOK, FiniteRows, NEW kind \in Kinds, NEW ip \in Ips, NEW t \in Int
  PROVE  /\ Live(kind, ip, t) \in SUBSET events[kind][ip]
         /\ Live(kind, ip, t) \in SUBSET Row
         /\ IsFiniteSet(Live(kind, ip, t))
         /\ Count(kind, ip, t) \in Nat
         /\ Count(kind, ip, t) <= Cardinality(events[kind][ip])
<1>1. Live(kind, ip, t) \in SUBSET events[kind][ip]
  BY DEF Live
<1>2. events[kind][ip] \in SUBSET Row
  BY DEF LimiterTypeOK
<1>3. IsFiniteSet(events[kind][ip])
  BY DEF FiniteRows
<1> QED BY <1>1, <1>2, <1>3, Part DEF Count

\* A set of naturals has a least element.
LEMMA LeastNatural ==
  ASSUME NEW T \in SUBSET Nat, T # {}
  PROVE  \E x \in T : \A y \in T : x <= y
<1> DEFINE R == OpToRel(<, Nat)
<1>1. \E x \in T : \A y \in T : ~ (<<y, x>> \in R)
  BY NatLessThanWellFounded, WFMin, Zenon
<1>2. \A x \in T, y \in T : y < x => <<y, x>> \in R
  BY DEF OpToRel
<1> HIDE DEF R
<1>3. \E x \in T : \A y \in T : ~ (y < x)
  BY <1>1, <1>2, Zenon
<1> QED BY <1>3

\* SELECT MIN(ts) finds the least time stamp of the rows that are counted.
LEMMA OldestIsLeast ==
  ASSUME LimiterTypeOK, NEW kind \in Kinds, NEW ip \in Ips, NEW t \in Int,
         Live(kind, ip, t) # {}
  PROVE  /\ \E e \in Live(kind, ip, t) : Oldest(Live(kind, ip, t)) = e.ts
         /\ \A e \in Live(kind, ip, t) : Oldest(Live(kind, ip, t)) <= e.ts
<1> DEFINE rows == Live(kind, ip, t)
           base == t - Window[kind]
           T == {e.ts - base : e \in rows}
<1>1. base \in Int /\ \A e \in rows : e.ts \in Int /\ e.ts >= base
  BY LimitTypes DEF Live, LimiterTypeOK, Row
<1> HIDE DEF rows, base
<1>2. T \in SUBSET Nat /\ T # {}
  <2>1. rows # {}
    BY DEF rows
  <2> QED BY <1>1, <2>1
<1>3. PICK x \in T : \A y \in T : x <= y
  BY <1>2, LeastNatural
<1>4. PICK e \in rows : x = e.ts - base
  OBVIOUS
<1>5. ASSUME NEW d \in rows
      PROVE  e.ts <= d.ts
  <2>1. d.ts - base \in T
    OBVIOUS
  <2>2. x <= d.ts - base
    BY <1>3, <2>1
  <2> QED BY <1>1, <1>4, <2>2
<1>6. \E ts \in {d.ts : d \in rows} : \A d \in rows : ts <= d.ts
  BY <1>5
<1>7. Oldest(rows) \in {d.ts : d \in rows} /\ \A d \in rows : Oldest(rows) <= d.ts
  BY <1>6, Zenon DEF Oldest
<1> QED BY <1>7 DEF rows

\* Coming back after Retry-After is no earlier than a window after that row.
LEMMA RetryAfterType ==
  ASSUME LimiterTypeOK, NEW kind \in Kinds, NEW ip \in Ips, NEW t \in Int
  PROVE  /\ RetryAfter(kind, ip, t) \in Int
         /\ Live(kind, ip, t) # {} =>
              \E e \in Live(kind, ip, t) :
                t + RetryAfter(kind, ip, t) >= e.ts + Window[kind]
<1>1. CASE Live(kind, ip, t) = {}
  BY <1>1, LimitTypes DEF RetryAfter, LargerOf
<1>2. CASE Live(kind, ip, t) # {}
  <2>1. PICK e \in Live(kind, ip, t) : Oldest(Live(kind, ip, t)) = e.ts
    BY <1>2, OldestIsLeast
  <2>2. e.ts \in Int
    BY DEF Live, LimiterTypeOK, Row
  <2>3. RetryAfter(kind, ip, t) = LargerOf(1, Window[kind] - (t - e.ts))
    BY <1>2, <2>1 DEF RetryAfter
  <2> QED BY <2>2, <2>3, LimitTypes DEF LargerOf
<1> QED BY <1>1, <1>2

-----------------------------------------------------------------------------
(* What a step does to each table, which is all the invariants look at.    *)

RowsKeep == UNCHANGED <<events, logged>>

RowsPruned(kind, ip, t) == Prune(kind, ip, t) /\ UNCHANGED logged

RowsAdded(kind, ip, t) ==
  /\ kind \in Limited => Count(kind, ip, t) < Cap(kind)
  /\ PruneAndAdd(kind, ip, t)

LEMMA StepRows ==
  ASSUME LimiterTypeOK, NEW ip \in Ips, NEW t \in LagTimes, Step(ip, t)
  PROVE  \/ RowsKeep
         \/ \E kind \in Kinds : RowsPruned(kind, ip, t) /\ UNCHANGED <<unproved>>
         \/ \E kind \in Kinds : RowsAdded(kind, ip, t)
<1>1. CASE DenyHardLimit(ip, t)
  BY <1>1 DEF DenyHardLimit, RowsPruned, Kinds
<1>2. CASE \E kind \in Limited : DenyRateLimit(kind, ip, t)
  BY <1>2 DEF DenyRateLimit, RowsPruned, Kinds, Limited
<1>3. ASSUME NEW kind \in Limited, Admit(kind, ip, t)
      PROVE  RowsAdded(kind, ip, t)
  BY <1>3, LimitAssumption DEF Admit, RowsAdded, Cap, Limited, Limit, SmallerOf
<1>4. CASE AdmitSearch(ip, t) \/ AdmitChallenge(ip, t) \/ AdmitRead(ip, t)
  BY <1>3, <1>4 DEF AdmitSearch, AdmitChallenge, AdmitRead, Limited, Kinds
<1>5. CASE RecordFailure(ip, t)
  BY <1>5 DEF RecordFailure, RowsAdded, Kinds, Limited
<1>6. CASE MarkHoneypot(ip, t) \/ MarkTurnstilePassed(ip, t)
  BY <1>6 DEF MarkHoneypot, MarkTurnstilePassed, RowsKeep, history
<1> QED BY <1>1, <1>2, <1>4, <1>5, <1>6 DEF Step, Transaction

LEMMA StepFlags ==
  ASSUME NEW ip \in Ips, NEW t \in LagTimes, Step(ip, t)
  PROVE  \/ UNCHANGED <<flags, offence, honeypot>>
         \/ SetBlocked(ip, t) /\ UNCHANGED honeypot
         \/ MarkHoneypot(ip, t)
         \/ MarkTurnstilePassed(ip, t)
<1>1. CASE DenyHardLimit(ip, t)
  BY <1>1 DEF DenyHardLimit
<1>2. CASE \E kind \in Limited : DenyRateLimit(kind, ip, t)
  BY <1>2 DEF DenyRateLimit
<1>3. CASE AdmitSearch(ip, t) \/ AdmitChallenge(ip, t) \/ AdmitRead(ip, t)
  BY <1>3 DEF AdmitSearch, AdmitChallenge, AdmitRead, Admit
<1>4. CASE RecordFailure(ip, t)
  BY <1>4 DEF RecordFailure
<1> QED BY <1>1, <1>2, <1>3, <1>4 DEF Step, Transaction

LEMMA StepUnproved ==
  ASSUME NEW ip \in Ips, NEW t \in LagTimes, Step(ip, t)
  PROVE  \/ UNCHANGED unproved
         \/ /\ AdmitSearch(ip, t)
            /\ ~IsVerified(ip, t)
            /\ unproved' = [unproved EXCEPT ![ip] = @ \cup {NewRow("search", ip, t)}]
<1>1. CASE AdmitSearch(ip, t)
  BY <1>1 DEF AdmitSearch
<1>2. CASE AdmitChallenge(ip, t) \/ AdmitRead(ip, t)
  BY <1>2 DEF AdmitChallenge, AdmitRead
<1>3. CASE DenyHardLimit(ip, t) \/ \E kind \in Limited : DenyRateLimit(kind, ip, t)
  BY <1>3 DEF DenyHardLimit, DenyRateLimit
<1>4. CASE RecordFailure(ip, t) \/ MarkHoneypot(ip, t) \/ MarkTurnstilePassed(ip, t)
  BY <1>4 DEF RecordFailure, MarkHoneypot, MarkTurnstilePassed, history
<1> QED BY <1>1, <1>2, <1>3, <1>4 DEF Step, Transaction

LEMMA StepPromise ==
  ASSUME NEW ip \in Ips, NEW t \in LagTimes, Step(ip, t)
  PROVE  \/ UNCHANGED promise
         \/ \E kind \in Limited : DenyRateLimit(kind, ip, t)
         \/ \E kind \in Limited : Admit(kind, ip, t)
<1>1. CASE AdmitSearch(ip, t) \/ AdmitChallenge(ip, t) \/ AdmitRead(ip, t)
  BY <1>1 DEF AdmitSearch, AdmitChallenge, AdmitRead, Limited
<1>2. CASE DenyHardLimit(ip, t)
  BY <1>2 DEF DenyHardLimit
<1>3. CASE RecordFailure(ip, t) \/ MarkHoneypot(ip, t) \/ MarkTurnstilePassed(ip, t)
  BY <1>3 DEF RecordFailure, MarkHoneypot, MarkTurnstilePassed, history
<1> QED BY <1>1, <1>2, <1>3 DEF Step, Transaction

-----------------------------------------------------------------------------
(* Types and finiteness.                                                   *)

LEMMA InitHolds == LimiterInit => LimiterInv
<1> SUFFICES ASSUME LimiterInit PROVE LimiterInv
  OBVIOUS
<1> USE TimeAssumption
<1>1. LimiterTypeOK /\ clock >= EPOCH
  BY DEF LimiterInit, LimiterTypeOK
<1>2. /\ \A kind \in Kinds, ip \in Ips : events[kind][ip] = {} /\ logged[kind][ip] = {}
      /\ \A ip \in Ips : unproved[ip] = {}
      /\ \A kind \in Kinds, ip \in Ips : promise[kind][ip] = 0
  BY DEF LimiterInit
<1>3. FiniteRows /\ Stamped /\ Retained /\ UnprovedLogged
  BY <1>2, FS_EmptySet DEF FiniteRows, Stamped, Retained, UnprovedLogged, Recent
<1>4. StoredWithinLimit
  <2> SUFFICES ASSUME NEW kind \in Limited, NEW ip \in Ips
               PROVE  Cardinality(events[kind][ip]) <= Cap(kind)
    BY DEF StoredWithinLimit
  <2>1. kind \in Kinds
    BY DEF Limited, Kinds
  <2>2. Cardinality(events[kind][ip]) = 0
    BY <1>2, <2>1, FS_EmptySet
  <2> QED BY <2>1, <2>2, LimitTypes
<1>5. UnverifiedRate
  <2> SUFFICES ASSUME NEW ip \in Ips
               PROVE  Cardinality(Recent(unproved[ip], SEARCH_RATE_WINDOW - BUSY_TIMEOUT)) <= Soft
    BY DEF UnverifiedRate
  <2>1. Recent(unproved[ip], SEARCH_RATE_WINDOW - BUSY_TIMEOUT) = {}
    BY <1>2 DEF Recent
  <2> QED BY <2>1, FS_EmptySet, ConstantTypes
<1>6. OffenceKept /\ HoneypotRevokes
  BY DEF LimiterInit, OffenceKept, HoneypotRevokes
<1>7. FailuresOffend
  BY <1>2 DEF FailuresOffend, Recent, Kinds
<1>8. RetryAfterSuffices
  BY <1>2 DEF RetryAfterSuffices, Limited, Kinds
<1> QED BY <1>1, <1>3, <1>4, <1>5, <1>6, <1>7, <1>8 DEF LimiterInv

LEMMA RowsAfterAdd ==
  ASSUME LimiterTypeOK, FiniteRows,
         NEW kind \in Kinds, NEW ip \in Ips, NEW t \in Int, PruneAndAdd(kind, ip, t)
  PROVE  /\ events' \in [Kinds -> [Ips -> SUBSET Row]]
         /\ logged' \in [Kinds -> [Ips -> SUBSET Row]]
         /\ events'[kind][ip] = Live(kind, ip, t) \cup {NewRow(kind, ip, t)}
         /\ logged'[kind][ip] = logged[kind][ip] \cup {NewRow(kind, ip, t)}
         /\ \A k \in Kinds, a \in Ips :
              k # kind \/ a # ip => /\ events'[k][a] = events[k][a]
                                    /\ logged'[k][a] = logged[k][a]
<1>1. NewRow(kind, ip, t) \in Row /\ Live(kind, ip, t) \in SUBSET Row
  BY NewRowType, LiveType
<1>2. /\ events' = [events EXCEPT ![kind][ip] = Live(kind, ip, t) \cup {NewRow(kind, ip, t)}]
      /\ logged' = [logged EXCEPT ![kind][ip] = logged[kind][ip] \cup {NewRow(kind, ip, t)}]
  BY DEF PruneAndAdd
<1>3. /\ events \in [Kinds -> [Ips -> SUBSET Row]]
      /\ logged \in [Kinds -> [Ips -> SUBSET Row]]
  BY DEF LimiterTypeOK
<1> QED BY <1>1, <1>2, <1>3

LEMMA RowsAfterPrune ==
  ASSUME LimiterTypeOK,
         NEW kind \in Kinds, NEW ip \in Ips, NEW t \in Int, Prune(kind, ip, t)
  PROVE  /\ events' \in [Kinds -> [Ips -> SUBSET Row]]
         /\ events'[kind][ip] = Live(kind, ip, t)
         /\ \A k \in Kinds, a \in Ips :
              k # kind \/ a # ip => events'[k][a] = events[k][a]
BY DEF LimiterTypeOK, Prune, Live

LEMMA StepTypes ==
  ASSUME LimiterTypeOK, FiniteRows, NEW ip \in Ips, NEW t \in LagTimes, Step(ip, t)
  PROVE  LimiterTypeOK'
<1>0. t \in Int /\ clock' = clock
  BY LagTypes DEF Step
<1>1. /\ events' \in [Kinds -> [Ips -> SUBSET Row]]
      /\ logged' \in [Kinds -> [Ips -> SUBSET Row]]
  <2>1. CASE RowsKeep
    BY <2>1 DEF RowsKeep, LimiterTypeOK
  <2>2. CASE \E kind \in Kinds : RowsPruned(kind, ip, t)
    BY <1>0, <2>2, RowsAfterPrune DEF RowsPruned, LimiterTypeOK
  <2>3. CASE \E kind \in Kinds : RowsAdded(kind, ip, t)
    BY <1>0, <2>3, RowsAfterAdd DEF RowsAdded
  <2> QED BY <2>1, <2>2, <2>3, StepRows
<1>2. /\ flags' \in [Ips -> [blocked : Int, turnstile : Int]]
      /\ offence' \in [Ips -> Int]
      /\ honeypot' \in [Ips -> Int]
  <2> USE DEF LimiterTypeOK
  <2>1. CASE UNCHANGED <<flags, offence, honeypot>>
    BY <2>1
  <2>2. CASE SetBlocked(ip, t) /\ UNCHANGED honeypot
    BY <1>0, <2>2, TimeAssumption DEF SetBlocked
  <2>3. CASE MarkHoneypot(ip, t)
    BY <1>0, <2>3, TimeAssumption DEF MarkHoneypot
  <2>4. CASE MarkTurnstilePassed(ip, t)
    BY <1>0, <2>4, ConstantTypes DEF MarkTurnstilePassed, history
  <2> QED BY <2>1, <2>2, <2>3, <2>4, StepFlags
<1>3. unproved' \in [Ips -> SUBSET Row]
  <2>1. NewRow("search", ip, t) \in Row
    BY <1>0, NewRowType DEF Kinds
  <2>2. unproved \in [Ips -> SUBSET Row]
    BY DEF LimiterTypeOK
  <2>3. \/ UNCHANGED unproved
        \/ unproved' = [unproved EXCEPT ![ip] = unproved[ip] \cup {NewRow("search", ip, t)}]
    BY StepUnproved
  <2> QED BY <2>1, <2>2, <2>3
<1>4. promise' \in [Kinds -> [Ips -> Int]]
  <2>0. /\ promise \in [Kinds -> [Ips -> Int]]
        /\ Limited \subseteq Kinds
    BY DEF LimiterTypeOK, Limited, Kinds
  <2>1. CASE \E kind \in Limited : DenyRateLimit(kind, ip, t)
    <3> PICK kind \in Limited : DenyRateLimit(kind, ip, t)
      BY <2>1
    <3>1. t + RetryAfter(kind, ip, t) \in Int
      BY <1>0, <2>0, RetryAfterType
    <3>2. promise' = [promise EXCEPT ![kind][ip] = t + RetryAfter(kind, ip, t)]
      BY DEF DenyRateLimit
    <3> QED BY <2>0, <3>1, <3>2
  <2>2. CASE \E kind \in Limited : Admit(kind, ip, t)
    <3> PICK kind \in Limited : Admit(kind, ip, t)
      BY <2>2
    <3>1. promise' = [promise EXCEPT ![kind][ip] = 0]
      BY DEF Admit
    <3> QED BY <2>0, <3>1
  <2> QED BY <2>1, <2>2, StepPromise DEF LimiterTypeOK
<1> QED BY <1>0, <1>1, <1>2, <1>3, <1>4 DEF LimiterTypeOK

LEMMA StepFinite ==
  ASSUME LimiterTypeOK, FiniteRows, NEW ip \in Ips, NEW t \in LagTimes, Step(ip, t)
  PROVE  FiniteRows'
<1>0. t \in Int
  BY LagTypes
<1>1. \A k \in Kinds, a \in Ips : IsFiniteSet(events'[k][a]) /\ IsFiniteSet(logged'[k][a])
  <2> SUFFICES ASSUME NEW k \in Kinds, NEW a \in Ips
               PROVE  IsFiniteSet(events'[k][a]) /\ IsFiniteSet(logged'[k][a])
    OBVIOUS
  <2>0. IsFiniteSet(events[k][a]) /\ IsFiniteSet(logged[k][a])
    BY DEF FiniteRows
  <2>1. CASE RowsKeep
    BY <2>0, <2>1 DEF RowsKeep
  <2>2. CASE \E kind \in Kinds : RowsPruned(kind, ip, t)
    <3> PICK kind \in Kinds : RowsPruned(kind, ip, t)
      BY <2>2
    <3>1. logged'[k][a] = logged[k][a]
      BY DEF RowsPruned
    <3>2. Prune(kind, ip, t)
      BY DEF RowsPruned
    <3>3. CASE k = kind /\ a = ip
      BY <1>0, <2>0, <3>1, <3>2, <3>3, RowsAfterPrune, LiveType
    <3>4. CASE k # kind \/ a # ip
      BY <1>0, <2>0, <3>1, <3>2, <3>4, RowsAfterPrune
    <3> QED BY <3>3, <3>4
  <2>3. CASE \E kind \in Kinds : RowsAdded(kind, ip, t)
    <3> PICK kind \in Kinds : RowsAdded(kind, ip, t)
      BY <2>3
    <3>1. PruneAndAdd(kind, ip, t)
      BY DEF RowsAdded
    <3>2. CASE k = kind /\ a = ip
      <4>1. IsFiniteSet(Live(kind, ip, t))
        BY <1>0, LiveType
      <4>2. /\ IsFiniteSet(Live(kind, ip, t) \cup {NewRow(kind, ip, t)})
            /\ IsFiniteSet(logged[k][a] \cup {NewRow(kind, ip, t)})
        BY <2>0, <4>1, OneMore
      <4> QED BY <1>0, <3>1, <3>2, <4>2, RowsAfterAdd
    <3>3. CASE k # kind \/ a # ip
      BY <1>0, <2>0, <3>1, <3>3, RowsAfterAdd
    <3> QED BY <3>2, <3>3
  <2> QED BY <2>1, <2>2, <2>3, StepRows
<1>2. \A a \in Ips : IsFiniteSet(unproved'[a])
  <2> SUFFICES ASSUME NEW a \in Ips
               PROVE  IsFiniteSet(unproved'[a])
    OBVIOUS
  <2>0. IsFiniteSet(unproved[a]) /\ unproved \in [Ips -> SUBSET Row]
    BY DEF FiniteRows, LimiterTypeOK
  <2>1. IsFiniteSet(unproved[a] \cup {NewRow("search", ip, t)})
    BY <2>0, OneMore
  <2>2. unproved'[a] \in {unproved[a], unproved[a] \cup {NewRow("search", ip, t)}}
    BY <2>0, StepUnproved
  <2> QED BY <2>0, <2>1, <2>2
<1> QED BY <1>1, <1>2 DEF FiniteRows

-----------------------------------------------------------------------------
(* The rows: what is kept, how much is stored.                             *)

LEMMA StepStamped ==
  ASSUME LimiterTypeOK, FiniteRows, Stamped,
         NEW ip \in Ips, NEW t \in LagTimes, Step(ip, t)
  PROVE  Stamped'
<1>0. t \in Int /\ t <= clock /\ t >= clock - BUSY_TIMEOUT /\ clock' = clock /\ clock \in Int
  BY LagTypes DEF Step, LimiterTypeOK
<1>1. CASE UNCHANGED logged
  BY <1>0, <1>1 DEF Stamped
<1>2. CASE \E kind \in Kinds : RowsAdded(kind, ip, t)
  <2> PICK kind \in Kinds : PruneAndAdd(kind, ip, t)
    BY <1>2 DEF RowsAdded
  <2> SUFFICES ASSUME NEW k \in Kinds, NEW a \in Ips, NEW e \in logged'[k][a]
               PROVE  e.at <= clock /\ e.ts >= e.at - BUSY_TIMEOUT
    BY <1>0 DEF Stamped
  <2>1. CASE e \in logged[k][a]
    BY <2>1 DEF Stamped
  <2>2. CASE e \notin logged[k][a]
    <3>1. e = NewRow(kind, ip, t)
      BY <1>0, <2>2, RowsAfterAdd
    <3> QED BY <1>0, <3>1, TimeAssumption DEF NewRow
  <2> QED BY <2>1, <2>2
<1> QED BY <1>1, <1>2, StepRows DEF RowsKeep, RowsPruned

\* A transaction keeps every row committed in the window less the lock wait.
LEMMA LiveKeepsRecent ==
  ASSUME LimiterTypeOK, Stamped, Retained,
         NEW kind \in Kinds, NEW ip \in Ips, NEW t \in LagTimes
  PROVE  Recent(logged[kind][ip], Window[kind] - BUSY_TIMEOUT) \subseteq Live(kind, ip, t)
<1> SUFFICES ASSUME NEW e \in Recent(logged[kind][ip], Window[kind] - BUSY_TIMEOUT)
             PROVE  e \in Live(kind, ip, t)
  OBVIOUS
<1>1. e \in logged[kind][ip] /\ e.at >= clock - (Window[kind] - BUSY_TIMEOUT)
  BY DEF Recent
<1>2. e.ts >= e.at - BUSY_TIMEOUT /\ e \in events[kind][ip]
  BY <1>1 DEF Stamped, Retained
<1>3. e.ts \in Int /\ e.at \in Int /\ clock \in Int
  BY <1>1 DEF LimiterTypeOK, Row
<1>4. e.ts >= t - Window[kind]
  BY <1>1, <1>2, <1>3, LagTypes, LimitTypes, TimeAssumption
<1> QED BY <1>2, <1>4 DEF Live

LEMMA StepRetained ==
  ASSUME LimiterTypeOK, FiniteRows, Stamped, Retained,
         NEW ip \in Ips, NEW t \in LagTimes, Step(ip, t)
  PROVE  Retained'
<1>0. t \in Int /\ clock' = clock
  BY LagTypes DEF Step
<1> SUFFICES ASSUME NEW k \in Kinds, NEW a \in Ips,
                    NEW e \in logged'[k][a],
                    e.at >= clock - (Window[k] - BUSY_TIMEOUT)
             PROVE  e \in events'[k][a]
  BY <1>0 DEF Retained, Recent
<1>1. e \in logged[k][a] => e \in Recent(logged[k][a], Window[k] - BUSY_TIMEOUT)
  BY DEF Recent
<1>2. e \in logged[k][a] => e \in events[k][a]
  BY <1>1 DEF Retained
<1>3. CASE RowsKeep
  BY <1>2, <1>3 DEF RowsKeep
<1>4. CASE \E kind \in Kinds : RowsPruned(kind, ip, t)
  <2> PICK kind \in Kinds : RowsPruned(kind, ip, t)
    BY <1>4
  <2>1. Prune(kind, ip, t) /\ e \in logged[k][a]
    BY DEF RowsPruned
  <2>2. CASE k = kind /\ a = ip
    BY <1>0, <1>1, <2>1, <2>2, LiveKeepsRecent, RowsAfterPrune
  <2>3. CASE k # kind \/ a # ip
    BY <1>0, <1>2, <2>1, <2>3, RowsAfterPrune
  <2> QED BY <2>2, <2>3
<1>5. CASE \E kind \in Kinds : RowsAdded(kind, ip, t)
  <2> PICK kind \in Kinds : PruneAndAdd(kind, ip, t)
    BY <1>5 DEF RowsAdded
  <2>1. CASE k = kind /\ a = ip
    <3>1. e \in logged[k][a] \/ e = NewRow(kind, ip, t)
      BY <1>0, <2>1, RowsAfterAdd
    <3>2. events'[k][a] = Live(kind, ip, t) \cup {NewRow(kind, ip, t)}
      BY <1>0, <2>1, RowsAfterAdd
    <3>3. e \in logged[k][a] => e \in Live(kind, ip, t)
      BY <1>1, <2>1, LiveKeepsRecent
    <3> QED BY <3>1, <3>2, <3>3
  <2>2. CASE k # kind \/ a # ip
    BY <1>0, <1>2, <2>2, RowsAfterAdd
  <2> QED BY <2>1, <2>2
<1> QED BY <1>3, <1>4, <1>5, StepRows

LEMMA StepUnprovedLogged ==
  ASSUME LimiterTypeOK, FiniteRows, UnprovedLogged,
         NEW ip \in Ips, NEW t \in LagTimes, Step(ip, t)
  PROVE  UnprovedLogged'
<1>0. t \in Int /\ "search" \in Kinds
  BY LagTypes DEF Kinds
<1>1. \A k \in Kinds, a \in Ips : logged[k][a] \subseteq logged'[k][a]
  <2>1. CASE \E kind \in Kinds : RowsAdded(kind, ip, t)
    <3> PICK kind \in Kinds : PruneAndAdd(kind, ip, t)
      BY <2>1 DEF RowsAdded
    <3> QED BY <1>0, RowsAfterAdd
  <2> QED BY <2>1, StepRows DEF RowsKeep, RowsPruned
<1>2. CASE UNCHANGED unproved
  BY <1>0, <1>1, <1>2 DEF UnprovedLogged
<1>3. CASE /\ AdmitSearch(ip, t)
           /\ unproved' = [unproved EXCEPT ![ip] = @ \cup {NewRow("search", ip, t)}]
  <2>1. PruneAndAdd("search", ip, t)
    BY <1>3 DEF AdmitSearch, Admit
  <2>2. NewRow("search", ip, t) \in logged'["search"][ip]
    BY <1>0, <2>1, RowsAfterAdd
  <2> QED BY <1>0, <1>1, <1>3, <2>2 DEF UnprovedLogged, LimiterTypeOK
<1> QED BY <1>2, <1>3, StepUnproved

LEMMA StepStored ==
  ASSUME LimiterTypeOK, FiniteRows, StoredWithinLimit,
         NEW ip \in Ips, NEW t \in LagTimes, Step(ip, t)
  PROVE  StoredWithinLimit'
<1>0. t \in Int /\ Limited \subseteq Kinds
  BY LagTypes DEF Limited, Kinds
<1> SUFFICES ASSUME NEW k \in Limited, NEW a \in Ips
             PROVE  Cardinality(events'[k][a]) <= Cap(k)
  BY DEF StoredWithinLimit, Cap
<1>1. Cardinality(events[k][a]) <= Cap(k)
  BY DEF StoredWithinLimit
<1>2. CASE RowsKeep
  BY <1>1, <1>2 DEF RowsKeep
<1>3. CASE \E kind \in Kinds : RowsPruned(kind, ip, t)
  <2> PICK kind \in Kinds : Prune(kind, ip, t)
    BY <1>3 DEF RowsPruned
  <2>1. CASE k = kind /\ a = ip
    <3>1. events'[k][a] = Live(k, a, t)
      BY <1>0, <2>1, RowsAfterPrune
    <3>2. Count(k, a, t) \in Nat /\ Count(k, a, t) <= Cardinality(events[k][a])
      BY <1>0, LiveType
    <3>3. Cardinality(events[k][a]) \in Nat /\ Cap(k) \in Nat
      BY <1>0, FS_CardinalityType, LimitTypes DEF FiniteRows
    <3> QED BY <1>1, <3>1, <3>2, <3>3 DEF Count
  <2>2. CASE k # kind \/ a # ip
    BY <1>0, <1>1, <2>2, RowsAfterPrune
  <2> QED BY <2>1, <2>2
<1>4. CASE \E kind \in Kinds : RowsAdded(kind, ip, t)
  <2> PICK kind \in Kinds : RowsAdded(kind, ip, t)
    BY <1>4
  <2>0. PruneAndAdd(kind, ip, t)
    BY DEF RowsAdded
  <2>1. CASE k = kind /\ a = ip
    <3>1. events'[k][a] = Live(k, a, t) \cup {NewRow(k, a, t)}
      BY <1>0, <2>0, <2>1, RowsAfterAdd
    <3>2. Count(k, a, t) < Cap(k)
      BY <2>1 DEF RowsAdded
    <3>3. /\ Cardinality(Live(k, a, t) \cup {NewRow(k, a, t)}) \in Nat
          /\ Cardinality(Live(k, a, t) \cup {NewRow(k, a, t)})
               <= Cardinality(Live(k, a, t)) + 1
          /\ Cardinality(Live(k, a, t)) \in Nat
      BY <1>0, LiveType, OneMore
    <3> QED BY <1>0, <3>1, <3>2, <3>3, LimitTypes DEF Count
  <2>2. CASE k # kind \/ a # ip
    BY <1>0, <1>1, <2>0, <2>2, RowsAfterAdd
  <2> QED BY <2>1, <2>2
<1> QED BY <1>2, <1>3, <1>4, StepRows

LEMMA StepUnverified ==
  ASSUME LimiterTypeOK, FiniteRows, Stamped, Retained, UnprovedLogged, UnverifiedRate,
         NEW ip \in Ips, NEW t \in LagTimes, Step(ip, t)
  PROVE  UnverifiedRate'
<1> DEFINE span == SEARCH_RATE_WINDOW - BUSY_TIMEOUT
<1>0. t \in Int /\ clock' = clock /\ "search" \in Kinds /\ Window["search"] = SEARCH_RATE_WINDOW
  BY LagTypes DEF Step, Kinds, Window
<1> SUFFICES ASSUME TURNSTILE_ENABLED, NEW a \in Ips
             PROVE  Cardinality(Recent(unproved'[a], span)) <= Soft
  BY <1>0 DEF UnverifiedRate, Recent
<1>1. Cardinality(Recent(unproved[a], span)) <= Soft
  BY DEF UnverifiedRate
<1>2. CASE unproved'[a] = unproved[a]
  BY <1>1, <1>2
<1>3. CASE unproved'[a] # unproved[a]
  <2>1. /\ AdmitSearch(ip, t)
        /\ ~IsVerified(ip, t)
        /\ a = ip
        /\ unproved'[a] = unproved[a] \cup {NewRow("search", ip, t)}
    BY <1>3, StepUnproved DEF LimiterTypeOK
  <2>2. Count("search", ip, t) < Soft
    <3>1. ~ (Count("search", ip, t) >= Soft)
      BY <2>1 DEF AdmitSearch, MustChallenge
    <3> QED BY <1>0, <3>1, LiveType, ConstantTypes
  <2>3. Recent(unproved[a], span) \in SUBSET Live("search", ip, t)
    <3>1. Recent(unproved[a], span) \subseteq Recent(logged["search"][a], span)
      BY DEF UnprovedLogged, Recent
    <3> QED BY <1>0, <2>1, <3>1, LiveKeepsRecent
  <2>4. /\ IsFiniteSet(Recent(unproved[a], span))
        /\ Cardinality(Recent(unproved[a], span)) <= Count("search", ip, t)
    BY <1>0, <2>3, LiveType, Part DEF Count
  <2>5. Recent(unproved'[a], span)
          \in SUBSET (Recent(unproved[a], span) \cup {NewRow("search", ip, t)})
    BY <2>1 DEF Recent
  <2>6. /\ Cardinality(Recent(unproved'[a], span)) \in Nat
        /\ Cardinality(Recent(unproved[a], span)) \in Nat
        /\ Cardinality(Recent(unproved'[a], span))
             <= Cardinality(Recent(unproved[a], span)) + 1
    <3> HIDE DEF span
    <3> DEFINE S == Recent(unproved[a], span)
               U == S \cup {NewRow("search", ip, t)}
    <3>1. /\ IsFiniteSet(U) /\ Cardinality(S) \in Nat /\ Cardinality(U) \in Nat
          /\ Cardinality(U) <= Cardinality(S) + 1
      BY <2>4, OneMore
    <3>2. /\ Cardinality(Recent(unproved'[a], span)) \in Nat
          /\ Cardinality(Recent(unproved'[a], span)) <= Cardinality(U)
      BY <2>5, <3>1, Part
    <3> QED BY <3>1, <3>2
  <2>7. Count("search", ip, t) \in Nat
    BY <1>0, LiveType
  <2> QED BY <2>2, <2>4, <2>6, <2>7, ConstantTypes
<1> QED BY <1>2, <1>3

-----------------------------------------------------------------------------
(* The flags: a block outlives its offence.                                *)

LEMMA StepOffence ==
  ASSUME LimiterTypeOK, clock >= EPOCH, OffenceKept,
         NEW ip \in Ips, NEW t \in LagTimes, Step(ip, t)
  PROVE  OffenceKept'
<1>0. t \in Int /\ t <= clock /\ t >= clock - BUSY_TIMEOUT /\ clock' = clock
  BY LagTypes DEF Step
<1> USE TimeAssumption DEF OffenceKept, LimiterTypeOK
<1>1. CASE UNCHANGED <<flags, offence, honeypot>>
  BY <1>0, <1>1
<1>2. CASE SetBlocked(ip, t) /\ UNCHANGED honeypot
  BY <1>0, <1>2 DEF SetBlocked
<1>3. CASE MarkHoneypot(ip, t)
  BY <1>0, <1>3 DEF MarkHoneypot
<1>4. CASE MarkTurnstilePassed(ip, t)
  <2>1. \A a \in Ips : flags'[a].blocked = flags[a].blocked
    BY <1>4 DEF MarkTurnstilePassed
  <2> QED BY <1>0, <1>4, <2>1 DEF MarkTurnstilePassed, history
<1> QED BY <1>1, <1>2, <1>3, <1>4, StepFlags

LEMMA StepHoneypot ==
  ASSUME LimiterTypeOK, OffenceKept, HoneypotRevokes,
         NEW ip \in Ips, NEW t \in LagTimes, Step(ip, t)
  PROVE  HoneypotRevokes'
<1>0. t \in Int /\ t <= clock /\ t >= clock - BUSY_TIMEOUT /\ clock' = clock
  BY LagTypes DEF Step
<1> USE DEF HoneypotRevokes, LimiterTypeOK
<1>1. CASE UNCHANGED <<flags, offence, honeypot>>
  BY <1>1
<1>2. CASE SetBlocked(ip, t) /\ UNCHANGED honeypot
  <2>1. \A a \in Ips : flags'[a].turnstile = flags[a].turnstile
    BY <1>2 DEF SetBlocked
  <2> QED BY <1>2, <2>1
<1>3. CASE MarkHoneypot(ip, t)
  BY <1>0, <1>3 DEF MarkHoneypot
<1>4. CASE MarkTurnstilePassed(ip, t)
  <2>1. \A a \in Ips : flags'[a].turnstile
                         = IF a = ip THEN t + Grace ELSE flags[a].turnstile
    BY <1>4 DEF MarkTurnstilePassed
  <2>2. UNCHANGED honeypot /\ \A a \in Ips : honeypot[a] <= clock
    BY <1>4 DEF MarkTurnstilePassed, history, OffenceKept
  <2>3. ASSUME NEW a \in Ips, flags'[a].turnstile # 0
        PROVE  flags'[a].turnstile - Grace >= honeypot'[a] - BUSY_TIMEOUT
    <3>1. honeypot'[a] \in Int /\ honeypot'[a] <= clock /\ clock \in Int
      BY <2>2
    <3>2. CASE a = ip
      <4>1. flags'[a].turnstile = t + Grace
        BY <2>1, <3>2
      <4> QED BY <1>0, <3>1, <4>1, ConstantTypes, TimeAssumption
    <3>3. CASE a # ip
      BY <2>1, <2>2, <2>3, <3>3
    <3> QED BY <3>2, <3>3
  <2> QED BY <2>3
<1> QED BY <1>1, <1>2, <1>3, <1>4, StepFlags

\* A failure that fills the limit of the recent ones is an offence, now.
LEMMA StepFailures ==
  ASSUME LimiterTypeOK, FiniteRows, Stamped, Retained, OffenceKept, FailuresOffend,
         clock >= EPOCH, NEW ip \in Ips, NEW t \in LagTimes, Step(ip, t)
  PROVE  FailuresOffend'
<1> DEFINE span == FAILED_REQUEST_WINDOW - BUSY_TIMEOUT
<1>0. /\ t \in Int /\ clock' = clock /\ clock \in Int /\ clock # 0
      /\ "failed" \in Kinds /\ Window["failed"] = FAILED_REQUEST_WINDOW
  BY LagTypes, TimeAssumption DEF Step, Kinds, Window, LimiterTypeOK
<1> SUFFICES ASSUME NEW a \in Ips,
                    Cardinality(Recent(logged'["failed"][a], span)) >= FAILED_REQUEST_LIMIT,
                    NEW e \in Recent(logged'["failed"][a], span)
             PROVE  offence'[a] # 0 /\ offence'[a] >= e.at
  BY <1>0 DEF FailuresOffend, Recent
<1>1. offence'[a] = offence[a] \/ offence'[a] = clock
  BY StepFlags DEF SetBlocked, MarkHoneypot, MarkTurnstilePassed, history, LimiterTypeOK
<1>2. CASE logged'["failed"][a] = logged["failed"][a]
  <2>1. offence[a] # 0 /\ offence[a] >= e.at
    BY <1>0, <1>2 DEF FailuresOffend
  <2>2. e.at <= clock
    BY <1>0, <1>2 DEF Stamped, Recent
  <2> QED BY <1>0, <1>1, <2>1, <2>2
<1>3. CASE logged'["failed"][a] # logged["failed"][a]
  <2>1. RecordFailure(ip, t) /\ a = ip
    <3>1. CASE \E kind \in Limited : Admit(kind, ip, t)
      <4> PICK kind \in Limited : Admit(kind, ip, t)
        BY <3>1
      <4>1. PruneAndAdd(kind, ip, t) /\ kind \in Kinds /\ kind # "failed"
        BY DEF Admit, Limited, Kinds
      <4> QED BY <1>0, <1>3, <4>1, RowsAfterAdd
    <3>2. CASE RecordFailure(ip, t)
      <4>1. PruneAndAdd("failed", ip, t)
        BY <3>2 DEF RecordFailure
      <4> QED BY <1>0, <1>3, <3>2, <4>1, RowsAfterAdd
    <3>3. CASE UNCHANGED logged
      BY <1>3, <3>3
    <3> QED BY <3>1, <3>2, <3>3
            DEF Step, Transaction, DenyHardLimit, DenyRateLimit, AdmitSearch,
                AdmitChallenge, AdmitRead, MarkHoneypot, MarkTurnstilePassed,
                history, Limited
  <2> DEFINE live == Live("failed", ip, t) \cup {NewRow("failed", ip, t)}
  <2>2. logged'["failed"][a] = logged["failed"][a] \cup {NewRow("failed", ip, t)}
    BY <1>0, <2>1, RowsAfterAdd DEF RecordFailure
  <2>3. Recent(logged'["failed"][a], span) \in SUBSET live
    <3>1. Recent(logged["failed"][a], span) \subseteq Live("failed", ip, t)
      BY <1>0, <2>1, LiveKeepsRecent
    <3> QED BY <2>2, <3>1 DEF Recent
  <2>4. /\ Cardinality(live) \in Nat
        /\ Cardinality(Recent(logged'["failed"][a], span)) \in Nat
        /\ Cardinality(Recent(logged'["failed"][a], span)) <= Cardinality(live)
    <3>1. IsFiniteSet(live)
      BY <1>0, LiveType, OneMore
    <3> HIDE DEF live
    <3> QED BY <2>3, <3>1, Part
  <2>5. Cardinality(live) >= FAILED_REQUEST_LIMIT
    BY <2>4, LimitAssumption
  <2>6. offence'[a] = clock
    BY <2>1, <2>5 DEF RecordFailure, SetBlocked, LimiterTypeOK
  <2>7. e.at <= clock
    <3>1. e \in logged["failed"][a] \/ e = NewRow("failed", ip, t)
      BY <2>2 DEF Recent
    <3> QED BY <1>0, <3>1 DEF Stamped, NewRow
  <2> QED BY <1>0, <2>6, <2>7
<1> QED BY <1>2, <1>3

-----------------------------------------------------------------------------
(* Retry-After, and time.                                                  *)

\* After a denial the oldest row is out of the window one second after
\* Retry-After, and there were no more rows than the limit.
LEMMA DenialFrees ==
  ASSUME LimiterTypeOK, FiniteRows, StoredWithinLimit,
         NEW kind \in Limited, NEW ip \in Ips, NEW t \in Int,
         Limit[kind] > 0, DenyRateLimit(kind, ip, t)
  PROVE  Cardinality(Younger(events'[kind][ip],
                              (t + RetryAfter(kind, ip, t)) - Window[kind])) < Limit[kind]
<1> DEFINE rows == Live(kind, ip, t)
           back == t + RetryAfter(kind, ip, t)
           young == Younger(rows, back - Window[kind])
<1>0. kind \in Kinds
  BY DEF Limited, Kinds
<1>1. events'[kind][ip] = rows
  BY <1>0, RowsAfterPrune DEF DenyRateLimit
<1>2. /\ IsFiniteSet(rows) /\ Cardinality(rows) \in Nat
      /\ Cardinality(rows) <= Limit[kind]
      /\ \A e \in rows : e.ts \in Int
  <2>1. Cap(kind) <= Limit[kind] /\ Cap(kind) \in Nat
    BY <1>0, LimitTypes, LimitAssumption DEF Cap, Limit, SmallerOf, Limited
  <2>2. /\ Cardinality(events[kind][ip]) \in Nat
        /\ Cardinality(rows) \in Nat /\ IsFiniteSet(rows)
        /\ Cardinality(rows) <= Cardinality(events[kind][ip])
    BY <1>0, LiveType, FS_CardinalityType DEF FiniteRows, Count
  <2>3. \A e \in rows : e.ts \in Int
    BY <1>0, LiveType DEF Row
  <2> QED BY <1>0, <2>1, <2>2, <2>3, LimitTypes DEF StoredWithinLimit
<1>3. rows # {}
  <2>1. Cardinality(rows) >= Limit[kind]
    BY DEF DenyRateLimit, Count
  <2> QED BY <1>0, <2>1, LimitTypes, FS_EmptySet
<1>4. PICK e \in rows : back >= e.ts + Window[kind]
  BY <1>0, <1>3, RetryAfterType
<1>5. e \notin young
  BY <1>0, <1>2, <1>4, LimitTypes, RetryAfterType DEF Younger
<1>6. young \in SUBSET (rows \ {e})
  BY <1>5 DEF Younger
<1>7. IsFiniteSet(rows \ {e}) /\ Cardinality(rows \ {e}) = Cardinality(rows) - 1
  BY <1>2, FS_RemoveElement
<1>8. Cardinality(young) \in Nat /\ Cardinality(young) <= Cardinality(rows \ {e})
  <2> HIDE DEF young, rows
  <2> QED BY <1>6, <1>7, Part
<1>9. Cardinality(young) < Limit[kind]
  BY <1>0, <1>2, <1>7, <1>8, LimitTypes
<1> QED BY <1>1, <1>9

LEMMA StepRetry ==
  ASSUME LimiterTypeOK, FiniteRows, StoredWithinLimit, RetryAfterSuffices,
         NEW ip \in Ips, NEW t \in LagTimes, Step(ip, t)
  PROVE  RetryAfterSuffices'
<1>0. t \in Int /\ Limited \subseteq Kinds /\ "failed" \in Kinds
  BY LagTypes DEF Limited, Kinds
<1> SUFFICES ASSUME NEW k \in Limited, NEW a \in Ips,
                    promise'[k][a] # 0, Limit[k] > 0
             PROVE  Cardinality(Younger(events'[k][a], promise'[k][a] - Window[k])) < Limit[k]
  BY DEF RetryAfterSuffices, Younger
<1>1. ASSUME events'[k][a] \subseteq events[k][a], promise'[k][a] = promise[k][a]
      PROVE  Cardinality(Younger(events'[k][a], promise'[k][a] - Window[k])) < Limit[k]
  <2> DEFINE old == Younger(events[k][a], promise[k][a] - Window[k])
             new == Younger(events'[k][a], promise'[k][a] - Window[k])
  <2>1. Cardinality(old) < Limit[k]
    BY <1>1 DEF RetryAfterSuffices
  <2>2. new \in SUBSET old /\ old \in SUBSET events[k][a]
    BY <1>1 DEF Younger
  <2>3. IsFiniteSet(events[k][a])
    BY <1>0 DEF FiniteRows
  <2> HIDE DEF old, new
  <2>4. Cardinality(new) \in Nat /\ Cardinality(old) \in Nat
        /\ Cardinality(new) <= Cardinality(old)
    BY <2>2, <2>3, Part
  <2>5. Cardinality(new) < Limit[k]
    BY <1>0, <2>1, <2>4, LimitTypes
  <2> QED BY <2>5 DEF new
<1>2. \A kind \in Kinds : Prune(kind, ip, t) => events'[k][a] \subseteq events[k][a]
  BY <1>0, RowsAfterPrune DEF Live
<1>3. CASE DenyHardLimit(ip, t)
  BY <1>1, <1>2, <1>3 DEF DenyHardLimit, Kinds
<1>4. CASE \E kind \in Limited : DenyRateLimit(kind, ip, t)
  <2> PICK kind \in Limited : DenyRateLimit(kind, ip, t)
    BY <1>4
  <2>1. /\ promise \in [Kinds -> [Ips -> Int]]
        /\ promise' = [promise EXCEPT ![kind][ip] = t + RetryAfter(kind, ip, t)]
    BY DEF DenyRateLimit, LimiterTypeOK
  <2>2. CASE k = kind /\ a = ip
    <3>1. promise'[k][a] = t + RetryAfter(kind, ip, t)
      BY <1>0, <2>1, <2>2
    <3>2. Cardinality(Younger(events'[kind][ip],
                              (t + RetryAfter(kind, ip, t)) - Window[kind])) < Limit[kind]
      BY <1>0, <2>2, DenialFrees
    <3> QED BY <2>2, <3>1, <3>2
  <2>3. CASE k # kind \/ a # ip
    <3>1. promise'[k][a] = promise[k][a]
      BY <1>0, <2>1, <2>3
    <3> QED BY <1>0, <1>1, <1>2, <3>1 DEF DenyRateLimit
  <2> QED BY <2>2, <2>3
<1>5. ASSUME NEW kind \in Limited, Admit(kind, ip, t)
      PROVE  Cardinality(Younger(events'[k][a], promise'[k][a] - Window[k])) < Limit[k]
  <2>1. /\ promise \in [Kinds -> [Ips -> Int]]
        /\ promise' = [promise EXCEPT ![kind][ip] = 0]
        /\ PruneAndAdd(kind, ip, t)
    BY <1>5 DEF Admit, LimiterTypeOK
  <2>2. k # kind \/ a # ip
    BY <1>0, <2>1
  <2>3. promise'[k][a] = promise[k][a]
    BY <1>0, <2>1, <2>2
  <2>4. events'[k][a] = events[k][a]
    BY <1>0, <2>1, <2>2, RowsAfterAdd
  <2> QED BY <1>1, <2>3, <2>4
<1>6. CASE AdmitSearch(ip, t) \/ AdmitChallenge(ip, t) \/ AdmitRead(ip, t)
  BY <1>5, <1>6 DEF AdmitSearch, AdmitChallenge, AdmitRead, Limited
<1>7. CASE RecordFailure(ip, t)
  <2>1. PruneAndAdd("failed", ip, t) /\ UNCHANGED promise
    BY <1>7 DEF RecordFailure
  <2>2. events'[k][a] = events[k][a]
    BY <1>0, <2>1, RowsAfterAdd DEF Limited
  <2> QED BY <1>1, <2>1, <2>2
<1>8. CASE MarkHoneypot(ip, t) \/ MarkTurnstilePassed(ip, t)
  BY <1>1, <1>8 DEF MarkHoneypot, MarkTurnstilePassed, history
<1> QED BY <1>3, <1>4, <1>6, <1>7, <1>8 DEF Step, Transaction

LEMMA TimeKeeps ==
  ASSUME LimiterInv, TimePasses
  PROVE  LimiterInv'
<1> USE DEF LimiterInv
<1>0. /\ clock \in Nat /\ clock' = clock + 1
      /\ UNCHANGED <<events, flags, offence, honeypot, promise>>
  BY DEF LimiterTypeOK, TimePasses, tables
<1>1. \A kind \in Kinds, ip \in Ips :
        logged'[kind][ip] = {e \in logged[kind][ip] : e.at >= clock' - Window[kind]}
  BY DEF TimePasses
<1>2. \A ip \in Ips :
        unproved'[ip] = {e \in unproved[ip] : e.at >= clock' - SEARCH_RATE_WINDOW}
  BY DEF TimePasses
<1>3. /\ \A kind \in Kinds, ip \in Ips : logged'[kind][ip] \in SUBSET logged[kind][ip]
      /\ \A ip \in Ips : unproved'[ip] \in SUBSET unproved[ip]
  BY <1>1, <1>2
<1>4. LimiterTypeOK' /\ clock' >= EPOCH
  <2>1. /\ logged' \in [Kinds -> [Ips -> SUBSET Row]]
        /\ unproved' \in [Ips -> SUBSET Row]
    <3>1. /\ logged \in [Kinds -> [Ips -> SUBSET Row]]
          /\ unproved \in [Ips -> SUBSET Row]
      BY DEF LimiterTypeOK
    <3> QED BY <3>1 DEF TimePasses
  <2> QED BY <1>0, <2>1, TimeAssumption DEF LimiterTypeOK
<1>5. FiniteRows'
  BY <1>0, <1>3, Part DEF FiniteRows
<1>6. \A kind \in Kinds, ip \in Ips : \A e \in logged[kind][ip] : e.at \in Int /\ e.ts \in Int
  <2>1. logged \in [Kinds -> [Ips -> SUBSET Row]]
    BY DEF LimiterTypeOK
  <2> QED BY <2>1 DEF Row
<1>7. Stamped'
  <2> SUFFICES ASSUME NEW kind \in Kinds, NEW ip \in Ips, NEW e \in logged'[kind][ip]
               PROVE  e.at <= clock' /\ e.ts >= e.at - BUSY_TIMEOUT
    BY DEF Stamped
  <2>1. e \in logged[kind][ip] /\ e.at \in Int
    BY <1>3, <1>6
  <2> QED BY <1>0, <2>1 DEF Stamped
<1>8. Retained'
  <2> SUFFICES ASSUME NEW kind \in Kinds, NEW ip \in Ips,
                      NEW e \in logged'[kind][ip],
                      e.at >= clock' - (Window[kind] - BUSY_TIMEOUT)
               PROVE  e \in events[kind][ip]
    BY <1>0 DEF Retained, Recent
  <2>1. e \in logged[kind][ip] /\ e.at \in Int
    BY <1>3, <1>6
  <2>2. e.at >= clock - (Window[kind] - BUSY_TIMEOUT)
    BY <1>0, <2>1, LimitTypes, TimeAssumption
  <2> QED BY <2>1, <2>2 DEF Retained, Recent
<1>9. UnprovedLogged'
  BY <1>1, <1>2 DEF UnprovedLogged, Kinds, Window
<1>10. StoredWithinLimit' /\ RetryAfterSuffices'
  BY <1>0 DEF StoredWithinLimit, RetryAfterSuffices, Cap
<1>11. UnverifiedRate'
  <2> DEFINE span == SEARCH_RATE_WINDOW - BUSY_TIMEOUT
  <2> SUFFICES ASSUME TURNSTILE_ENABLED, NEW ip \in Ips
               PROVE  Cardinality(Recent(unproved[ip], span)') <= Soft
    BY DEF UnverifiedRate
  <2>1. Recent(unproved[ip], span)' \in SUBSET Recent(unproved[ip], span)
    <3>1. unproved'[ip] \in SUBSET unproved[ip] /\ unproved[ip] \in SUBSET Row
      BY <1>3 DEF LimiterTypeOK
    <3> QED BY <1>0, <3>1, TimeAssumption DEF Recent, Row
  <2>2. IsFiniteSet(Recent(unproved[ip], span))
    <3>1. IsFiniteSet(unproved[ip]) /\ Recent(unproved[ip], span) \in SUBSET unproved[ip]
      BY DEF FiniteRows, Recent
    <3> QED BY <3>1, Part
  <2>3. Cardinality(Recent(unproved[ip], span)) <= Soft
    BY DEF UnverifiedRate
  <2> HIDE DEF span
  <2> QED BY <2>1, <2>2, <2>3, Part, ConstantTypes
<1>12. OffenceKept' /\ HoneypotRevokes'
  BY <1>0 DEF OffenceKept, HoneypotRevokes, LimiterTypeOK
<1>13. FailuresOffend'
  <2> DEFINE span == FAILED_REQUEST_WINDOW - BUSY_TIMEOUT
  <2> SUFFICES ASSUME NEW ip \in Ips,
                      Cardinality(Recent(logged["failed"][ip], span)') >= FAILED_REQUEST_LIMIT,
                      NEW e \in Recent(logged["failed"][ip], span)'
               PROVE  offence[ip] # 0 /\ offence[ip] >= e.at
    BY <1>0 DEF FailuresOffend
  <2>1. Recent(logged["failed"][ip], span)' \in SUBSET Recent(logged["failed"][ip], span)
    <3>1. logged'["failed"][ip] \in SUBSET logged["failed"][ip]
          /\ logged["failed"][ip] \in SUBSET Row
      BY <1>3 DEF LimiterTypeOK, Kinds
    <3> QED BY <1>0, <3>1, TimeAssumption DEF Recent, Row
  <2>2. IsFiniteSet(Recent(logged["failed"][ip], span))
    <3>1. IsFiniteSet(logged["failed"][ip])
          /\ Recent(logged["failed"][ip], span) \in SUBSET logged["failed"][ip]
      BY DEF FiniteRows, Recent, Kinds
    <3> QED BY <3>1, Part
  <2>3. Cardinality(Recent(logged["failed"][ip], span)) >= FAILED_REQUEST_LIMIT
    <3> HIDE DEF span
    <3> QED BY <2>1, <2>2, Part, LimitAssumption
  <2> QED BY <2>1, <2>3 DEF FailuresOffend
<1> QED BY <1>4, <1>5, <1>7, <1>8, <1>9, <1>10, <1>11, <1>12, <1>13

-----------------------------------------------------------------------------
(* The theorems.                                                           *)

LEMMA StepKeeps ==
  ASSUME LimiterInv, NEW ip \in Ips, NEW t \in LagTimes, Step(ip, t)
  PROVE  LimiterInv'
<1> USE DEF LimiterInv
<1>1. clock' = clock
  BY DEF Step
<1>2. LimiterTypeOK' /\ FiniteRows'
  BY StepTypes, StepFinite
<1>3. Stamped' /\ Retained' /\ UnprovedLogged'
  BY StepStamped, StepRetained, StepUnprovedLogged
<1>4. StoredWithinLimit' /\ UnverifiedRate'
  BY StepStored, StepUnverified
<1>5. OffenceKept' /\ FailuresOffend' /\ HoneypotRevokes'
  BY StepOffence, StepFailures, StepHoneypot
<1>6. RetryAfterSuffices'
  BY StepRetry
<1> QED BY <1>1, <1>2, <1>3, <1>4, <1>5, <1>6

\* The invariant is inductive: a transaction with a time at most one lock wait
\* old keeps it, and so does the clock.
LEMMA LimiterInductive == LimiterInv /\ [LimiterNext]_limiterVars => LimiterInv'
<1> SUFFICES ASSUME LimiterInv, [LimiterNext]_limiterVars
             PROVE  LimiterInv'
  OBVIOUS
<1>1. CASE \E ip \in Ips, t \in (clock - BUSY_TIMEOUT)..clock :
             Transaction(ip, t) /\ UNCHANGED clock
  BY <1>1, StepKeeps DEF Step, LagTimes
<1>2. CASE TimePasses
  BY <1>2, TimeKeeps
<1>3. CASE UNCHANGED limiterVars
  BY <1>3 DEF limiterVars, tables, history, LimiterInv, LimiterTypeOK, FiniteRows, Stamped,
       Retained, UnprovedLogged, StoredWithinLimit, UnverifiedRate, OffenceKept,
       FailuresOffend, HoneypotRevokes, RetryAfterSuffices, Recent, Cap
<1> QED BY <1>1, <1>2, <1>3 DEF LimiterNext

(* Every behaviour of the limiter keeps the invariant.                     *)
THEOREM LimiterInvariant == LimiterSpec => []LimiterInv
BY InitHolds, LimiterInductive, PTL DEF LimiterSpec

(* The table never holds more rows of an address than the smaller of the   *)
(* limits, so with BLOCK_HARD_LIMIT > SEARCH_RATE_LIMIT the hard block of   *)
(* check is dead code.                                                     *)
THEOREM NeverOverLimit == LimiterSpec => []StoredWithinLimit
BY LimiterInvariant, PTL DEF LimiterInv

(* No address is admitted more than the limit in the window less the lock  *)
(* wait, whatever the workers interleave: the rows of that span are all     *)
(* still stored, and the table is never over the limit.                    *)
THEOREM SlidingWindow == LimiterSpec => []AdmissionRate
<1>1. LimiterInv => AdmissionRate
  <2> SUFFICES ASSUME LimiterInv, NEW kind \in Limited, NEW ip \in Ips
               PROVE  Cardinality(Recent(logged[kind][ip], Window[kind] - BUSY_TIMEOUT))
                        <= Cap(kind)
    BY DEF AdmissionRate
  <2> DEFINE recent == Recent(logged[kind][ip], Window[kind] - BUSY_TIMEOUT)
  <2>0. kind \in Kinds
    BY DEF Limited, Kinds
  <2>1. recent \in SUBSET events[kind][ip]
    BY <2>0 DEF LimiterInv, Retained
  <2>2. IsFiniteSet(events[kind][ip]) /\ Cardinality(events[kind][ip]) <= Cap(kind)
    BY <2>0 DEF LimiterInv, FiniteRows, StoredWithinLimit
  <2> HIDE DEF recent
  <2>3. Cardinality(recent) \in Nat /\ Cardinality(events[kind][ip]) \in Nat
        /\ Cardinality(recent) <= Cardinality(events[kind][ip])
    BY <2>1, <2>2, Part
  <2>4. Cardinality(recent) <= Cap(kind)
    BY <2>0, <2>2, <2>3, LimitTypes
  <2> QED BY <2>4 DEF recent
<1> QED BY <1>1, LimiterInvariant, PTL

(* Searches without any Turnstile proof stay within the soft limit.        *)
THEOREM SoftLimit == LimiterSpec => []UnverifiedRate
BY LimiterInvariant, PTL DEF LimiterInv

(* Enough failed responses leave the address blocked.                      *)
THEOREM FailureCooldown == LimiterSpec => []FailuresBlock
<1>1. LimiterInv => FailuresBlock
  <2> SUFFICES ASSUME LimiterInv, NEW ip \in Ips,
                      NEW e \in Recent(logged["failed"][ip],
                                       FAILED_REQUEST_WINDOW - BUSY_TIMEOUT),
                      Cardinality(Recent(logged["failed"][ip],
                                         FAILED_REQUEST_WINDOW - BUSY_TIMEOUT))
                        >= FAILED_REQUEST_LIMIT
               PROVE  flags[ip].blocked
                        >= clock + BLOCK_COOLDOWN_SECONDS - FAILED_REQUEST_WINDOW
    BY DEF FailuresBlock
  <2>1. offence[ip] # 0 /\ offence[ip] >= e.at
    BY DEF LimiterInv, FailuresOffend
  <2>2. flags[ip].blocked >= offence[ip] + BLOCK_COOLDOWN_SECONDS - BUSY_TIMEOUT
    BY <2>1 DEF LimiterInv, OffenceKept
  <2>3. e.at >= clock - (FAILED_REQUEST_WINDOW - BUSY_TIMEOUT)
    BY DEF Recent
  <2>4. /\ e.at \in Int /\ clock \in Int /\ offence[ip] \in Int /\ flags[ip].blocked \in Int
    <3>1. e \in Row
      <4>1. logged["failed"][ip] \in SUBSET Row
        BY DEF LimiterInv, LimiterTypeOK, Kinds
      <4> QED BY <4>1 DEF Recent
    <3> QED BY <3>1 DEF LimiterInv, LimiterTypeOK, Row
  <2> QED BY <2>1, <2>2, <2>3, <2>4, TimeAssumption
<1> QED BY <1>1, LimiterInvariant, PTL

(* A honeypot hit revokes the verifications made before it.                *)
THEOREM HoneypotRevocation == LimiterSpec => []HoneypotRevokes
BY LimiterInvariant, PTL DEF LimiterInv

(* Waiting one second more than Retry-After frees a row.                   *)
THEOREM RetryAfterHonest == LimiterSpec => []RetryAfterSuffices
BY LimiterInvariant, PTL DEF LimiterInv

\* Only an admission adds search or read rows, and it finds no block.
LEMMA AdmissionFindsNoBlock ==
  ASSUME LimiterInv, NEW ip \in Ips, NEW t \in LagTimes, Step(ip, t),
         NEW a \in Ips, NEW kind \in Limited,
         ~ (logged'[kind][a] \subseteq logged[kind][a])
  PROVE  a = ip /\ ~IsBlocked(ip, t)
<1>0. t \in Int /\ kind \in Kinds /\ kind # "failed" /\ "failed" \in Kinds
      /\ LimiterTypeOK /\ FiniteRows
  BY LagTypes DEF Limited, Kinds, LimiterInv
<1>1. CASE \E k \in Limited : Admit(k, ip, t)
  <2> PICK k \in Limited : Admit(k, ip, t)
    BY <1>1
  <2>1. PruneAndAdd(k, ip, t) /\ ~IsBlocked(ip, t) /\ k \in Kinds
    BY DEF Admit, Limited, Kinds
  <2> QED BY <1>0, <2>1, RowsAfterAdd
<1>2. CASE RecordFailure(ip, t)
  <2>1. PruneAndAdd("failed", ip, t)
    BY <1>2 DEF RecordFailure
  <2> QED BY <1>0, <2>1, RowsAfterAdd
<1>3. CASE UNCHANGED logged
  BY <1>3
<1> QED BY <1>1, <1>2, <1>3
        DEF Step, Transaction, DenyHardLimit, DenyRateLimit, AdmitSearch,
            AdmitChallenge, AdmitRead, MarkHoneypot, MarkTurnstilePassed,
            history, Limited

(* A blocked address is admitted nothing for the cooldown, less the longest *)
(* lock wait.                                                              *)
THEOREM Cooldown == LimiterSpec => CooldownHolds
<1> DEFINE Held ==
      \A ip \in Ips :
        (\E kind \in Limited : ~ (logged'[kind][ip] \subseteq logged[kind][ip]))
          => clock >= offence[ip] + BLOCK_COOLDOWN_SECONDS - BUSY_TIMEOUT
<1>1. ASSUME LimiterInv, [LimiterNext]_limiterVars
      PROVE  [Held]_limiterVars
  <2> SUFFICES ASSUME NEW a \in Ips, NEW kind \in Limited,
                      ~ (logged'[kind][a] \subseteq logged[kind][a])
               PROVE  clock >= offence[a] + BLOCK_COOLDOWN_SECONDS - BUSY_TIMEOUT
    OBVIOUS
  <2>0. /\ clock \in Int /\ offence[a] \in Int /\ flags[a].blocked \in Int
        /\ clock >= EPOCH /\ kind \in Kinds
    BY <1>1 DEF LimiterInv, LimiterTypeOK, Limited, Kinds
  <2>1. CASE \E ip \in Ips, t \in (clock - BUSY_TIMEOUT)..clock :
               Transaction(ip, t) /\ UNCHANGED clock
    <3> PICK ip \in Ips, t \in LagTimes : Step(ip, t)
      BY <2>1 DEF Step, LagTimes
    <3>1. a = ip /\ ~IsBlocked(ip, t)
      BY <1>1, AdmissionFindsNoBlock
    <3>2. t \in Int /\ t <= clock
      BY <1>1, LagTypes DEF LimiterInv
    <3>3. flags[a].blocked <= clock
      BY <2>0, <3>1, <3>2 DEF IsBlocked
    <3>4. CASE offence[a] # 0
      <4>1. flags[a].blocked >= offence[a] + BLOCK_COOLDOWN_SECONDS - BUSY_TIMEOUT
        BY <1>1, <3>4 DEF LimiterInv, OffenceKept
      <4> QED BY <2>0, <3>3, <4>1, TimeAssumption
    <3>5. CASE offence[a] = 0
      BY <2>0, <3>5, TimeAssumption
    <3> QED BY <3>4, <3>5
  <2>2. CASE TimePasses
    BY <2>0, <2>2 DEF TimePasses
  <2>3. CASE UNCHANGED limiterVars
    BY <2>3 DEF limiterVars, history
  <2> QED BY <1>1, <2>1, <2>2, <2>3 DEF LimiterNext
<1> QED BY <1>1, LimiterInvariant, PTL DEF LimiterSpec, CooldownHolds
=============================================================================
