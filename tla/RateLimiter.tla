---------------------------- MODULE RateLimiter ----------------------------
(***************************************************************************)
(* The shared SQLite limiter of app/security/ratelimit.py: two tables,     *)
(* events(kind, ip, ts) and flags(ip, name, until_ts), and one transaction *)
(* per call.  BEGIN IMMEDIATE takes the single write lock and no reader    *)
(* works outside a transaction, so a transaction is one step; what is not  *)
(* atomic is the caller's clock: every call reads time.time() BEFORE it    *)
(* waits for the lock, so a transaction runs with a `t` that may be older  *)
(* than the clock, and older than the `t` of transactions before it.       *)
(*                                                                         *)
(* Time is whole seconds.  The variables after `flags` are history: the    *)
(* program does not keep them, no guard reads them.                        *)
(***************************************************************************)
EXTENDS Integers, FiniteSets

CONSTANTS
  Ips,                     \* client addresses, as client_ip returns them
  EPOCH,                   \* the time of the first step: far from until_ts = 0
  SEARCH_RATE_LIMIT, SEARCH_RATE_WINDOW,
  READ_RATE_LIMIT, READ_RATE_WINDOW,
  FAILED_REQUEST_LIMIT, FAILED_REQUEST_WINDOW,
  BLOCK_HARD_LIMIT, BLOCK_COOLDOWN_SECONDS,
  TURNSTILE_SOFT_LIMIT, TURNSTILE_GRACE_SECONDS,
  MIN_GRACE_SECONDS,       \* the literal 30 of mark_turnstile_passed
  TURNSTILE_ENABLED,       \* TURNSTILE_SECRET_KEY is not empty
  BUSY_TIMEOUT             \* the longest wait for the lock

ASSUME LimitAssumption ==
  /\ SEARCH_RATE_LIMIT \in Nat
  /\ READ_RATE_LIMIT \in Nat
  /\ FAILED_REQUEST_LIMIT \in Nat
  /\ BLOCK_HARD_LIMIT \in Nat
  /\ TURNSTILE_SOFT_LIMIT \in Nat
  /\ TURNSTILE_ENABLED \in BOOLEAN

ASSUME TimeAssumption ==
  /\ SEARCH_RATE_WINDOW \in Nat
  /\ READ_RATE_WINDOW \in Nat
  /\ FAILED_REQUEST_WINDOW \in Nat
  /\ BLOCK_COOLDOWN_SECONDS \in Nat
  /\ TURNSTILE_GRACE_SECONDS \in Nat
  /\ MIN_GRACE_SECONDS \in Nat
  /\ BUSY_TIMEOUT \in Nat
  /\ EPOCH \in Nat \ {0}
  /\ EPOCH >= BLOCK_COOLDOWN_SECONDS

VARIABLES
  clock,      \* time.time()
  events,     \* events[kind][ip]: the rows of that kind and address
  flags,      \* flags[ip].blocked, .turnstile: until_ts, 0 when there is no row
  logged,     \* every row committed within its window, pruned or not
  unproved,   \* the search rows of logged admitted with no Turnstile proof at all
  offence,    \* the time of the latest commit that blocked the address
  honeypot,   \* the time of the latest commit of mark_honeypot
  promise     \* the time at which the last Retry-After says to come back

tables  == <<events, flags>>
history == <<logged, unproved, offence, honeypot, promise>>

-----------------------------------------------------------------------------
Kinds == {"search", "read", "failed"}

\* A row of events.  `at` is history (the time of the commit) and `n` tells
\* apart the rows of one second.
Row == [ts : Int, at : Int, n : Nat]

Limit == [search |-> SEARCH_RATE_LIMIT,
          read   |-> READ_RATE_LIMIT,
          failed |-> FAILED_REQUEST_LIMIT]

Window == [search |-> SEARCH_RATE_WINDOW,
           read   |-> READ_RATE_WINDOW,
           failed |-> FAILED_REQUEST_WINDOW]

LargerOf(a, b)  == IF a >= b THEN a ELSE b
SmallerOf(a, b) == IF a <= b THEN a ELSE b

\* The count at which check starts to ask for a Turnstile token.
Soft == SmallerOf(TURNSTILE_SOFT_LIMIT, LargerOf(0, SEARCH_RATE_LIMIT - 1))

Grace == LargerOf(MIN_GRACE_SECONDS, TURNSTILE_GRACE_SECONDS)

-----------------------------------------------------------------------------
\* Bug: DELETE ... WHERE ts <= cutoff.
LiveExclusive(kind, ip, t) == {e \in events[kind][ip] : e.ts > t - Window[kind]}

\* What _prune leaves of the rows: the cutoff itself is kept.
Live(kind, ip, t) == {e \in events[kind][ip] : e.ts >= t - Window[kind]}

\* _count: prunes, then counts every row that is left.
Count(kind, ip, t) == Cardinality(Live(kind, ip, t))

Prune(kind, ip, t) ==
  events' = [events EXCEPT ![kind][ip] = Live(kind, ip, t)]

NewRow(kind, ip, t) ==
  [ts |-> t, at |-> clock,
   n |-> Cardinality({e \in logged[kind][ip] : e.ts = t /\ e.at = clock})]

\* _count with its pruning and _add, in one transaction.
PruneAndAdd(kind, ip, t) ==
  LET row == NewRow(kind, ip, t)
  IN  /\ events' = [events EXCEPT ![kind][ip] = Live(kind, ip, t) \cup {row}]
      /\ logged' = [logged EXCEPT ![kind][ip] = @ \cup {row}]

\* _set_flag(blocked): the upsert overwrites until_ts, also with an earlier one.
SetBlocked(ip, t) ==
  /\ flags' = [flags EXCEPT ![ip].blocked = t + BLOCK_COOLDOWN_SECONDS]
  /\ offence' = [offence EXCEPT ![ip] = clock]

\* MIN(ts) over the rows check still counts.
Oldest(rows) == CHOOSE ts \in {e.ts : e \in rows} : \A e \in rows : ts <= e.ts

\* Bug: min(1, ...) for max(1, ...).
RetryAfterSwapped(kind, ip, t) ==
  LET rows == Live(kind, ip, t)
  IN  SmallerOf(1, Window[kind] - (t - IF rows = {} THEN t ELSE Oldest(rows)))

RetryAfter(kind, ip, t) ==
  LET rows == Live(kind, ip, t)
      oldest == IF rows = {} THEN t ELSE Oldest(rows)
  IN  LargerOf(1, Window[kind] - (t - oldest))

-----------------------------------------------------------------------------
(* The outcomes of check(ip, path) when it runs with the time t.           *)

IsBlocked(ip, t)  == flags[ip].blocked > t
IsVerified(ip, t) == flags[ip].turnstile > t

DenyCooldown(ip, t) ==
  /\ IsBlocked(ip, t)
  /\ UNCHANGED <<tables, history>>

DenyHardLimit(ip, t) ==
  /\ ~IsBlocked(ip, t)
  /\ Count("search", ip, t) >= BLOCK_HARD_LIMIT
  /\ Prune("search", ip, t)
  /\ SetBlocked(ip, t)
  /\ UNCHANGED <<logged, unproved, honeypot, promise>>

\* The denied attempt leaves no row.
DenyRateLimit(kind, ip, t) ==
  /\ ~IsBlocked(ip, t)
  /\ Count(kind, ip, t) >= Limit[kind]
  /\ kind = "search" => Count(kind, ip, t) < BLOCK_HARD_LIMIT
  /\ Prune(kind, ip, t)
  /\ promise' = [promise EXCEPT ![kind][ip] = t + RetryAfter(kind, ip, t)]
  /\ UNCHANGED <<flags, logged, unproved, offence, honeypot>>

\* Bug: count > soft.
MustChallengeLate(ip, t) ==
  /\ TURNSTILE_ENABLED
  /\ Count("search", ip, t) > Soft
  /\ ~IsVerified(ip, t)

\* RateDecision.require_turnstile
MustChallenge(ip, t) ==
  /\ TURNSTILE_ENABLED
  /\ Count("search", ip, t) >= Soft
  /\ ~IsVerified(ip, t)

\* Bug: the limit itself is still admitted.
AdmitOneMore(kind, ip, t) ==
  /\ ~IsBlocked(ip, t)
  /\ Count(kind, ip, t) <= Limit[kind]
  /\ PruneAndAdd(kind, ip, t)
  /\ promise' = [promise EXCEPT ![kind][ip] = 0]
  /\ UNCHANGED <<flags, offence, honeypot>>

Admit(kind, ip, t) ==
  /\ ~IsBlocked(ip, t)
  /\ Count(kind, ip, t) < Limit[kind]
  /\ kind = "search" => Count(kind, ip, t) < BLOCK_HARD_LIMIT
  /\ PruneAndAdd(kind, ip, t)
  /\ promise' = [promise EXCEPT ![kind][ip] = 0]
  /\ UNCHANGED <<flags, offence, honeypot>>

AdmitSearch(ip, t) ==
  /\ ~MustChallenge(ip, t)
  /\ Admit("search", ip, t)
  /\ unproved' = IF IsVerified(ip, t) THEN unproved
                 ELSE [unproved EXCEPT ![ip] = @ \cup {NewRow("search", ip, t)}]

\* The row is inserted before the token is looked at.
AdmitChallenge(ip, t) ==
  /\ MustChallenge(ip, t)
  /\ Admit("search", ip, t)
  /\ UNCHANGED unproved

AdmitRead(ip, t) ==
  /\ Admit("read", ip, t)
  /\ UNCHANGED unproved

AdmitOther(ip, t) ==
  /\ ~IsBlocked(ip, t)
  /\ UNCHANGED <<tables, history>>

-----------------------------------------------------------------------------
(* The other three transactions.                                           *)

\* Bug: count > limit.
RecordFailureLate(ip, t) ==
  /\ PruneAndAdd("failed", ip, t)
  /\ IF Count("failed", ip, t) >= FAILED_REQUEST_LIMIT
     THEN SetBlocked(ip, t)
     ELSE UNCHANGED <<flags, offence>>
  /\ UNCHANGED <<unproved, honeypot, promise>>

\* Bug: a count below the limit lifts a block.
RecordFailureUnblocks(ip, t) ==
  /\ PruneAndAdd("failed", ip, t)
  /\ IF Count("failed", ip, t) + 1 >= FAILED_REQUEST_LIMIT
     THEN SetBlocked(ip, t)
     ELSE flags' = [flags EXCEPT ![ip].blocked = 0] /\ UNCHANGED offence
  /\ UNCHANGED <<unproved, honeypot, promise>>

RecordFailure(ip, t) ==
  /\ PruneAndAdd("failed", ip, t)
  /\ IF Cardinality(Live("failed", ip, t) \cup {NewRow("failed", ip, t)})
          >= FAILED_REQUEST_LIMIT
     THEN SetBlocked(ip, t)
     ELSE UNCHANGED <<flags, offence>>
  /\ UNCHANGED <<unproved, honeypot, promise>>

\* Bug: the turnstile flag survives.
MarkHoneypotKeeps(ip, t) ==
  /\ SetBlocked(ip, t)
  /\ honeypot' = [honeypot EXCEPT ![ip] = clock]
  /\ UNCHANGED <<events, logged, unproved, promise>>

\* Bug: no value in place of 0.0 for a flag that is gone.
MarkHoneypotNone(ip, t) ==
  /\ flags' = [flags EXCEPT ![ip] = [blocked |-> t + BLOCK_COOLDOWN_SECONDS]]
  /\ offence'  = [offence EXCEPT ![ip] = clock]
  /\ honeypot' = [honeypot EXCEPT ![ip] = clock]
  /\ UNCHANGED <<events, logged, unproved, promise>>

MarkHoneypot(ip, t) ==
  /\ flags' = [flags EXCEPT ![ip] = [blocked   |-> t + BLOCK_COOLDOWN_SECONDS,
                                     turnstile |-> 0]]
  /\ offence'  = [offence EXCEPT ![ip] = clock]
  /\ honeypot' = [honeypot EXCEPT ![ip] = clock]
  /\ UNCHANGED <<events, logged, unproved, promise>>

MarkTurnstilePassed(ip, t) ==
  /\ flags' = [flags EXCEPT ![ip].turnstile = t + Grace]
  /\ UNCHANGED <<events, history>>

-----------------------------------------------------------------------------
LimiterInit ==
  /\ clock = EPOCH
  /\ events = [kind \in Kinds |-> [ip \in Ips |-> {}]]
  /\ flags = [ip \in Ips |-> [blocked |-> 0, turnstile |-> 0]]
  /\ logged = events
  /\ unproved = [ip \in Ips |-> {}]
  /\ offence = [ip \in Ips |-> 0]
  /\ honeypot = [ip \in Ips |-> 0]
  /\ promise = [kind \in Kinds |-> [ip \in Ips |-> 0]]

LimiterTypeOK ==
  /\ clock \in Nat
  /\ events \in [Kinds -> [Ips -> SUBSET Row]]
  /\ flags \in [Ips -> [blocked : Int, turnstile : Int]]
  /\ logged \in [Kinds -> [Ips -> SUBSET Row]]
  /\ unproved \in [Ips -> SUBSET Row]
  /\ offence \in [Ips -> Int]
  /\ honeypot \in [Ips -> Int]
  /\ promise \in [Kinds -> [Ips -> Int]]

-----------------------------------------------------------------------------
(* What the limiter promises, whoever calls it: a transaction runs with a   *)
(* time read at most BUSY_TIMEOUT seconds before its commit.                *)

Limited == {"search", "read"}

Transaction(ip, t) ==
  \/ DenyHardLimit(ip, t)
  \/ \E kind \in Limited : DenyRateLimit(kind, ip, t)
  \/ AdmitSearch(ip, t)
  \/ AdmitChallenge(ip, t)
  \/ AdmitRead(ip, t)
  \/ RecordFailure(ip, t)
  \/ MarkHoneypot(ip, t)
  \/ MarkTurnstilePassed(ip, t)

\* Time passes; the history forgets the rows older than their window.
TimePasses ==
  /\ clock' = clock + 1
  /\ logged' = [kind \in Kinds |-> [ip \in Ips |->
                  {e \in logged[kind][ip] : e.at >= clock' - Window[kind]}]]
  /\ unproved' = [ip \in Ips |->
                    {e \in unproved[ip] : e.at >= clock' - SEARCH_RATE_WINDOW}]
  /\ UNCHANGED <<tables, offence, honeypot, promise>>

LimiterNext ==
  \/ \E ip \in Ips, t \in (clock - BUSY_TIMEOUT)..clock :
       Transaction(ip, t) /\ UNCHANGED clock
  \/ TimePasses

limiterVars == <<clock, tables, history>>

LimiterSpec == LimiterInit /\ [][LimiterNext]_limiterVars

-----------------------------------------------------------------------------
\* What stops the searches of an address first; the default is far below the
\* hard limit.
Cap(kind) == IF kind = "search" THEN SmallerOf(SEARCH_RATE_LIMIT, BLOCK_HARD_LIMIT)
             ELSE Limit[kind]

\* The rows committed in the last `span` seconds.
Recent(rows, span) == {e \in rows : e.at >= clock - span}

\* The rows stamped after ts.
Younger(rows, ts) == {e \in rows : e.ts > ts}

(* At no time does the table hold more rows of an address than the limit,   *)
(* whichever workers inserted them and however old the `now` they used: so  *)
(* a count is never above the limit, and with BLOCK_HARD_LIMIT above        *)
(* SEARCH_RATE_LIMIT the hard block of check is out of reach.               *)
StoredWithinLimit ==
  \A kind \in Limited, ip \in Ips :
    Cardinality(events[kind][ip]) <= Cap(kind)

(* "Hard searches/minute/IP": measured by the time of the commits, over all *)
(* workers, no more than the limit is admitted in any span of the window    *)
(* less the longest lock wait.  Over the whole window it does not hold: a   *)
(* row stamped before a long wait is pruned that much earlier.              *)
AdmissionRate ==
  \A kind \in Limited, ip \in Ips :
    Cardinality(Recent(logged[kind][ip], Window[kind] - BUSY_TIMEOUT)) <= Cap(kind)

(* With Turnstile enabled, no address gets more than Soft searches through  *)
(* in such a span without a token or a verification still in its grace.     *)
UnverifiedRate ==
  TURNSTILE_ENABLED =>
    \A ip \in Ips :
      Cardinality(Recent(unproved[ip], SEARCH_RATE_WINDOW - BUSY_TIMEOUT)) <= Soft

(* FAILED_REQUEST_LIMIT failed responses in such a span leave the address   *)
(* blocked, even if a later commit with an older `now` (a honeypot hit that *)
(* waited for the lock) has overwritten until_ts with an earlier time.      *)
FailuresBlock ==
  \A ip \in Ips :
    LET recent == Recent(logged["failed"][ip], FAILED_REQUEST_WINDOW - BUSY_TIMEOUT)
    IN  recent # {} /\ Cardinality(recent) >= FAILED_REQUEST_LIMIT
          => flags[ip].blocked >= clock + BLOCK_COOLDOWN_SECONDS - FAILED_REQUEST_WINDOW

(* mark_honeypot revokes an earlier verification: a turnstile flag seen     *)
(* after it comes from a token accepted after it, up to the lock wait of a  *)
(* mark_turnstile_passed that was already under way.                        *)
HoneypotRevokes ==
  \A ip \in Ips :
    flags[ip].turnstile # 0 =>
      flags[ip].turnstile - Grace >= honeypot[ip] - BUSY_TIMEOUT

(* Retry-After is honest up to the inclusive cutoff: a client that comes    *)
(* back one second after it, with nothing admitted from its address in      *)
(* between, finds fewer rows than the limit.                                *)
RetryAfterSuffices ==
  \A kind \in Limited, ip \in Ips :
    promise[kind][ip] # 0 /\ Limit[kind] > 0 =>
      Cardinality(Younger(events[kind][ip], promise[kind][ip] - Window[kind])) < Limit[kind]

(* An address that was blocked gets nothing admitted for the cooldown, less *)
(* the longest lock wait, counted from the commit of its latest offence:    *)
(* until_ts starts from a `now` read before that commit's wait, and a later *)
(* commit may overwrite it with an earlier time.                            *)
CooldownHolds ==
  [][\A ip \in Ips :
       (\E kind \in Limited : ~ (logged'[kind][ip] \subseteq logged[kind][ip]))
         => clock >= offence[ip] + BLOCK_COOLDOWN_SECONDS - BUSY_TIMEOUT]_limiterVars

-----------------------------------------------------------------------------
(* The inductive invariant behind these properties.                         *)

FiniteRows ==
  \A ip \in Ips :
    /\ \A kind \in Kinds : IsFiniteSet(events[kind][ip]) /\ IsFiniteSet(logged[kind][ip])
    /\ IsFiniteSet(unproved[ip])

\* A row is stamped at most one lock wait before its commit.
Stamped ==
  \A kind \in Kinds, ip \in Ips : \A e \in logged[kind][ip] :
    e.at <= clock /\ e.ts >= e.at - BUSY_TIMEOUT

\* No transaction prunes a row younger than the window less the lock wait.
Retained ==
  \A kind \in Kinds, ip \in Ips :
    Recent(logged[kind][ip], Window[kind] - BUSY_TIMEOUT) \subseteq events[kind][ip]

UnprovedLogged == \A ip \in Ips : unproved[ip] \subseteq logged["search"][ip]

\* until_ts, however often overwritten, is no earlier than this.
OffenceKept ==
  \A ip \in Ips :
    /\ offence[ip] <= clock
    /\ honeypot[ip] <= clock
    /\ offence[ip] # 0 =>
         flags[ip].blocked >= offence[ip] + BLOCK_COOLDOWN_SECONDS - BUSY_TIMEOUT

FailuresOffend ==
  \A ip \in Ips :
    LET recent == Recent(logged["failed"][ip], FAILED_REQUEST_WINDOW - BUSY_TIMEOUT)
    IN  Cardinality(recent) >= FAILED_REQUEST_LIMIT =>
          \A e \in recent : offence[ip] # 0 /\ offence[ip] >= e.at

LimiterInv ==
  /\ LimiterTypeOK /\ clock >= EPOCH
  /\ FiniteRows /\ Stamped /\ Retained /\ UnprovedLogged
  /\ StoredWithinLimit /\ UnverifiedRate
  /\ OffenceKept /\ FailuresOffend /\ HoneypotRevokes /\ RetryAfterSuffices
=============================================================================
