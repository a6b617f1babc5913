# TLA+ specifications of the V3rmillion Archive Explorer

This directory holds TLA+ models of the archive explorer, TLC configurations
that check them on small instances, and proofs checked by TLAPS. Paths below
are relative to the repository; line numbers are those of the commit the models
were written from. `PROJECT.json` maps every definition to its lines.

    tlasany M.tla                        parse
    tlc -workers 2 -config X.cfg M.tla   model-check; the table of runs names M and X
    tlapm M.tla                          check the proofs of M (the *Proofs modules)

## 1. The system

The program serves a read-only archive of the V3rmillion forum. Offline
commands parse saved pages into two SQLite databases, `threads.db` and
`users.db`; a FastAPI application reads them; one HTML page is the client.

| part | state | operations |
|---|---|---|
| rate limiter, `app/security/ratelimit.py` | SQLite file shared by the Uvicorn workers: `events(kind, ip, ts)`, `flags(ip, name, until_ts)` | `check`, `record_failure`, `mark_honeypot`, `mark_turnstile_passed`: one `BEGIN IMMEDIATE` transaction each |
| bot protection, `app/main.py`, `app/security/turnstile.py` | the requests in flight on each worker's event loop | honeypot test, `check`, `await verify_turnstile`, the endpoint, `record_failure` on a status of 400 or more |
| thread ingest, `scripts/thread_parser.py` | `threads.db`: rows, two FTS5 tables with six triggers; in memory the queue, the batch and the counters of a bulk run | bulk run (ZIP or folders, resuming or overwriting), `--thread` run |
| reply resolution, `_thread_parser` and `_build_thread_rows` in the same file | the posts read so far, a dictionary from (date, author) and (date, start of the text) to posts | pages in order, one post after the other; the tree of replies becomes rows |
| user ingest, `scripts/profile_parser.py`, `scripts/reputation_parser.py` | `users.db`: users, reputation, one FTS5 table with triggers | bulk run, `--user` run, alternate-account repair, reputation import |
| response cache, `app/cache/memory.py` | LRU map with expiry in each worker, shared by its thread pool | `get`, `set`, `clear` |
| endpoints, `app/api/*`, `app/database/*` | none of their own: they read the databases and fill the cache | post, thread and user search, the posts and reputation of a user, thread and profile pages, index files |
| browser client, `static/search.html` | per panel: offset, last parameters, page cache, abort controller; shared: answer cache, Turnstile token | searches, page buttons, deep links, back/forward, challenge |
| asset paths, iframely proxy, deployment, packaging, benchmarks | none worth a model | string rewriting, pass-through, shell scripts |

How they interact. The ingest commands own the databases and never run against
a served copy: an update stops the container, replaces the files and starts it
(README.md 398-408). The middleware calls the limiter synchronously on the event
loop and may await Cloudflare between two of its transactions. The client's
requests meet the limiter: each page that no cache holds is a search that counts.

What makes each part hard, and what makes it correct:

* **Limiter.** Every call reads `time.time()` before it waits for the write lock,
  so rows and blocks are stamped with the past, out of order between workers.
  Correct: the limits hold over all workers, a block lasts, a revoked
  verification stays revoked, `Retry-After` is honest.
* **Middleware.** Requests of one worker interleave at two awaits, those of
  different workers anywhere; a worker may die anywhere; the lock wait may end in
  an exception. Correct: the tables only see the limiter's transactions,
  and every request is answered.
* **Thread ingest.** External-content FTS5 tables must follow their rows through
  triggers that are dropped and made again; DDL commits by itself; a bulk run
  drops the tables and builds them again at the end; any command may die, writes
  may fail, databases of an older layout exist, two commands may overlap.
  `init_db` swallows errors and goes on, possibly without triggers. Correct: a search
  finds no text that is not the row's, the index is complete whenever no bulk run died
  in between (both but for threads written after a swallowed error), no parsed
  thread is lost.
* **Reply resolution.** The date of a quote is precise to the minute, page files
  sort differently by name and by number, a post is entered in the dictionary before
  its own quote is looked up. Correct: a quote finds the right post, and every post
  that can be placed becomes a row.
* **User ingest.** As before, with `journal_mode=OFF`: what a batch has written
  when the process dies is not rolled back. `init_users_db` swallows errors and goes
  on without triggers. The import deletes all reputation first, may read only a part
  (`--limit`) and leaves out pages that raise. Correct: as before, whoever an import or
  a batch counts has its reputation, and `--repair-alts` reaches every user who has an
  `alts.html`.
* **Response cache.** Threads race between `get`, query and `set`; both read the
  clock before they wait for the lock; the lifetime starts after the query. Correct:
  capacity, no answer older than its lifetime and one query, and a key that tells
  apart whatever the answers tell apart.
* **Endpoints.** Full-text tables may be missing or incomplete and LIKE takes over,
  the limit is clamped, one row more than a page is fetched. Correct: paging shows
  every match once, the total is that of the list shown, a post link opens the page
  of its post.
* **Client.** A cached answer aborts nothing; handlers read state after awaits.
  Correct: what is shown is what the offset and the footer say, spinners end.

## 2. Modules

| module | models | builds on |
|---|---|---|
| `RateLimiter` | the limiter's transactions, its promises `LimiterSpec` and its inductive invariant | |
| `RequestPipeline` | `BotProtectionMiddleware.dispatch` on several workers | `RateLimiter`; implements `LimiterSpec` |
| `RateLimiterProofs`, `RequestPipelineProofs` | proofs | |
| `HardLimitClaim` | the documented meaning of `BLOCK_HARD_LIMIT` | `MCRequestPipeline` |
| `ThreadIngest` | `thread_parser.py`, both commands, any number of processes | |
| `ThreadIngestProofs` | proofs | |
| `UserIngest` | `profile_parser.py` and `reputation_parser.py`: all four commands | |
| `UserIngestProofs` | proofs: types, the index, rows and reputation | `UserIngest` |
| `ReplyTree` | `_thread_parser`, `_build_thread_rows` | |
| `ReplyTreeProofs` | proofs | |
| `ResponseCache` | `app/cache/memory.py` | |
| `ArchiveApi` | the answer of every endpoint, as operators of request and databases | |
| `SearchService` | the abstract specification: the endpoints without a cache | |
| `CachedSearch` | the endpoints in the threads of a worker, over the cache | `ArchiveApi`, `ResponseCache`; implements `SearchService` |
| `CachedSearchProofs` | proofs, the refinement among them | `CachedSearch` |
| `PageWalkProofs` | proofs about pages, totals, post links | `CachedSearchProofs` |
| `PostSearch` | the post search of `search.html` over `/api/search_posts` | |
| `PostSearchProofs` | proofs | |
| `MCRequestPipeline`, `MCThreadIngest`, `MCPostSearch`, `MCUserIngest`, `MCReplyTree`, `MCCachedSearch` | small instances for TLC | |

A definition marked `\* Bug:` is a plausible wrong version of the one after it. No
specification uses it; with it in place of the right one, TLC finds a property
violated (`mutants` in `PROJECT.json`).

### RateLimiter and RequestPipeline

`events[kind][ip]` is the set of rows, `flags[ip]` the two `until_ts`. A
transaction is one action (the write lock makes it atomic and nothing reads
outside one) with a parameter `t`, the caller's `now`. `check` is split by
outcome: `DenyCooldown`, `DenyHardLimit`, `DenyRateLimit`, `AdmitSearch`,
`AdmitChallenge`, `AdmitRead`, `AdmitOther`; each includes the pruning it does
before its early return. The variables `logged`, `unproved`, `offence`,
`honeypot` and `promise` are history and appear in no guard.

`LimiterSpec` is the abstract specification: transactions with any `t` of the
last `BUSY_TIMEOUT` seconds, in any order. `RequestPipeline` adds the program
counter of each request (`pc`), its path class and the `now` it has read. Reading
`now` and getting the lock are two steps; while a request of a worker is
between them, nothing else on that worker moves (`LoopFree`), because the call is
synchronous. `LockTimesOut` is the "database is locked" exception, `WorkerCrash`
a dying worker. An exception or a cancellation of the endpoint ends the request
like a success (`EndpointReturns`), because neither reaches line 105.

Abstractions: whole seconds (the code compares floats and floors `Retry-After`;
`RetryAfterSuffices` allows one second for it); `/api/` paths by class; the
answer of siteverify is a choice. `BUSY_TIMEOUT` stands for the longest time from
`time.time()` to the commit: SQLite's busy timeout plus opening the connection.

### ThreadIngest

A thread and its posts are always written together, so `row[t]` is the version of
the parse that wrote them (0: none) and `index[tab][t]` the version the FTS table
holds. `pc[p]` steps through `init_db`, `create_fts_triggers`,
`run_migration_on_file` and `run_concurrent_migration`, one step per transaction
as Python's `sqlite3` delimits them. `todo`, `chunk`, `pending` and `done` are the
queue, the submitted chunk, the batch and the counted threads of a bulk run.
`Crash` ends a process anywhere; `Fault` makes a write fail (disk full, locked).
`InitFails` is the error that `init_db` swallows: at any of its five places, by a
fault or because another process holds the lock, and the command goes on with the
triggers as they are. `Init` has new, complete and old-layout databases. `torn` and
`blind` are history: an FTS table was dropped and not rebuilt since; the threads
written while triggers were missing, until the next rebuild.

Parsing a thread either works or raises; the pool's order of results is free.
What SQLite does with the 'delete' of a document an FTS table never held is
external: it may raise or not (`MayRaise`). `VACUUM` and `optimize` change nothing
the model sees.

### UserIngest

`row[u]`, `alts[u]` and `index[u]` are versions as in `ThreadIngest`; `rep[u]` is the
set of versions of the reputation entries of a user, a set because the import and
the bulk run upsert by id and leave entries of other versions. One command runs at a
time; `pc` steps through it: `init_users_db` (`InitFts`, `DropTriggers`,
`MakeTrigger` once per trigger, `InitFails` for the swallowed error), the body of
`--user` (`FindUser`, `ParseUser`, `WriteUser`), the bulk run (`Load` with its early
returns, `DropFts`, `Clear`, the loop, `Rebuild`), `--repair-alts` and the import,
which share the loop of `HandleResult`, `Flush` and `EndLoop`. `Queueable` and
`Skippable` say which pages each of the three takes and leaves out: a user one of whose
pages raises is left out by a bulk run, may be read by the import (which counts pages)
and by `--repair-alts` (which reads `alts.html` alone), or ends the latter (`AltsRaise`);
`NoAlts` are the users without `alts.html`. A limited import (`--limit`) deletes
everyone's reputation and reads that of `First`.

`Torn` and `TornClear` are what `journal_mode=OFF` adds to `Crash`: a process that
dies, or closes its connection, inside a batch leaves any part of the users and any
part of their reputation, or a file SQLite cannot read (`ended = "malformed"`,
mended by `StartOver`). `FlushKept` is the exception that a loop catches: the batch
stays pending and its transaction open, so a later accident may still tear it.
`dropped`, `hollow`, `blind` and `bare` are history. The first three say what has
happened to `fts_users` since the last rebuild: a bulk run has dropped it; the users
over whose rows `--user` created it empty; the users written while their trigger was
missing. `bare` are the users whose reputation an import deleted and did not store
again, because it died, was limited or met a raising page, or of whom a batch without
journal left the row but not all entries. A user leaves the three sets with a
rebuild, and `bare` when its reputation is stored. What the properties exempt is
what these sets hold, no more: after a swallowed error, for instance, only the user of
that command may be missing from the index.

### ReplyTree

One action per page and per post; the posts are a choice, with their dates,
authors, starts of text and quotes. `posts_pos` is the dictionary, `filed[i]` what post
`i` is filed under: the opening post under `ROOT`, a post whose quote is not found
under `MISSING`. `Read` is the part every post has in common, `ReadOpening` and
`ReadReply` what follows. `Build` collects the tree: `collect_posts` walks down from
the opening post, so `Collected` is the least set that holds it and whatever is filed
under one of its posts. In the archive the start of a
post is its HTML and that of a quote is text, so the second lookup hardly ever
succeeds; the model keeps it as the code has it. Posts that are not reached (a quote
not found, or resolved to the quoting post itself, or below one of these) are lost
with all their replies, which `StoredUnlessLost` says exactly.

### ArchiveApi, ResponseCache, CachedSearch and SearchService

`ArchiveApi` has no state: `Answer(v, r)` is what version `v` of the databases says
to request `r`, its status included (`Where` is SQL's WHERE: the rows at the positions
that qualify, in order), and `Key(r)` what `make_key` is given after the
parameters are normalised. `ResponseCache` is the LRU list with its two operations.
`CachedSearch` runs them in the threads of a pool. An endpoint is `Arrive` (the
parameters are read and `get` reads its clock), `Refuse`, `Hit` or `Miss` under the
lock, `Query`, `Raise` or `Expiry` (`set` reads its clock, or returns for a lifetime
of zero) and `Store` under the lock again. `Publish` replaces the databases,
`Restart` loses the cache and whatever was under way.

`SearchService` knows of no cache: a reply is the answer of a version that was in
place at the request, or within a window before it. The refinement maps `asked` to
`req`, `clock` to `time` and gives each kind of request the window
`TTL[kind] + SLOW`: the lifetime of an answer starts when the query has ended, so an
answer may be older than its lifetime by the longest query or wait for the lock.

Abstractions: one sort column stands for all, in both directions; filters by date,
category and number, the ranking of full-text results, the layout of the rows and a
query that is empty after sanitising are left out. A query reads one version: files
are replaced by renaming them, and a connection keeps the file it has opened.

### PostSearch

One handler is one action. The handlers of the user are `Submit`, `OpenLink`
(shared link, back, forward), `SearchByUser`, `SubmitNothing`, `ChangePage` and
`Toggle` for the thread-starter box; those of the network `Answer`, `Limited` (the
headers of a 429 are there, its body is not) and `Fails`; `Expire` ages an entry of
the answer cache. `Run` is `runFtsQuery` with its immediate recursion when an empty
page steps back one page: `Steps` are the offsets it can visit, `Landing` the first
at which it stops. Every request of the panel aborts the one before and an aborted
one changes nothing, so one request in flight is the whole state. Posts are
counted: `Size` says how many match, `Block` is the endpoint's answer.

`mixed` is history and says when two searches can be under way at once in spite of
the abort: a search answered from a cache does not abort the request in flight
(2022-2026), and the thread-starter box is read again for every page (1946) while
`ftsLastParams` keeps its old value. In these cases the page cache does mix rows of
two searches; `OneSearch` says that there is no third case.

Not in this module: the honeypot fields, the Turnstile challenge inside `apiFetch`
(a deployment with Turnstile keys), the URL bar, the rendering of a post. Of the URL
nothing holds that holds of the footer: a search with an empty form sets `ftsOffset` to
0 and returns before `updateFtsUrl` (search.html:1917, 1932-1936), so an answer still in
flight shows page 0 under the offset of the old link.

## 3. Runs

| run | question | properties |
|---|---|---|
| `LimiterSearch` | do the limits hold over two workers with late clocks, siteverify and crashes? | `TypeOK`, `StoredWithinLimit`, `AdmissionRate`, `UnverifiedRate`, `HoneypotRevokes`, `RetryAfterSuffices`, `PipelineUsesLimiter` |
| `LimiterBlocking` | does a failing address stay blocked? | `LimiterInv`, `FailuresBlock`, `CooldownHolds` |
| `LimiterLiveness` | is every request answered, with two on one event loop? | `EveryRequestAnswered` |
| `HardLimitClaim` | does the documented hard limit block? **violated** | `HardLimitBlocks` |
| `IngestCrash` | what do crashes and failing writes leave behind? | `TypeOK`, `IntactUnlessTorn`, `IndexSound`, `ArchiveStored` |
| `IngestOverlap` | is a counted thread stored when two commands overlap? | `DoneIsStored` |
| `IngestOverlapClaim` | does the index follow two overlapping `--thread` runs? **violated** | `UpsertsKeepIndex` |
| `IngestResumeClaim` | is the index there after the parsing has ended? **violated** | `IndexBackAfterParsing` |
| `UserIngest` | what do crashes, torn batches and swallowed errors leave behind, and does a resuming run bring the index back? | `TypeOK`, `IndexSound`, `IntactUnlessLost`, `NothingMeansIndexed`, `ReputationFollows`, `DoneIsStored`, `RepairComplete`, `IndexComesBack` |
| `CachedSearch` | do the endpoints with their cache implement the service without one, and do pages, totals and post links fit? | `TypeOK`, `CacheBounded`, `KeyDeterminesAnswer`, `WalkComplete`, `PageFitsTotal`, `JumpShowsPost`, `ServesArchive` |
| `ReplyTree` | which post is a quote resolved to, and which posts become rows? | `TypeOK`, `FiledUnderLatest`, `StoredUnlessLost` |
| `PostPaging` | do page, footer and spinner fit the offset and the search? | `TypeOK`, `PageMatchesOffset`, `SpinnerAwaited`, `OneSearch`, `ButtonsLeadToPosts`, `EverySearchSettles` |

Bounds and why they are enough. *Limiter*: one address (addresses share no row or
flag), two requests, limits of 2, windows of 2 or 3 seconds and a lock wait of 1,
so that a limit is reached, left by pruning and reached again inside `HORIZON`;
the soft limit is below the rate limit and the hard limit above it as in the
defaults, except in `LimiterLiveness`, where they are equal so that
`DenyHardLimit` fires. `EPOCH` is 10 so that `until_ts = 0` is the past, as it
is with real time. *Ingest*: four threads, one of them unparsable, with batch
and chunk of 2 give a full batch, a partial last batch and a failing member; one
change of version separates old from new text; three faults allow a crash, a
crash of the recovery and a failing write or `init_db` (165 000 states).
`IngestOverlap` (1 413 000 states) uses two processes,
two threads and no fault, since a second process disturbs more than a crash
can; process names are symmetric and its one property is an invariant.
*UserIngest* (1 457 000 states): three users, one without `profile.html`, one whose
pages raise from the second version of the parser on, so that it is stored before they
do, and one without `alts.html` whose reputation alone fills a batch of 2; two versions
and three faults allow a torn batch, a failing repair of it and a crash after that, or
a swallowed error between two of them. *CachedSearch* (610 000
states): a cache of one entry, so that the second key evicts the first, two threads,
lifetimes of 0, 1 and 2 and queries of up to 1 in three units of time, so that
an entry expires, is found at its last moment and is stored late; one replacement, of
any of a complete, a half-built and an absent database by the next; requests come in
workloads of one or two so that every endpoint is asked, with limits and offsets
below, at and above their bounds. Threads are symmetric. *ReplyTree* (225 000 states):
three posts over the pages 1, 2 and 10, which sort differently by name, two dates
and two authors (symmetric): a quote of an earlier, a later, the same, an ambiguous and
a missing post, and an empty first page. *PostPaging*: pages of 2 and blocks of 4
(the code: 25 and 100), one counted search of five posts over two blocks, one
uncounted of exactly one block, the boundary of `has_more`; links to 3 (between
pages) and 8 (behind the last block); three clicks put a request, a cached answer
and a change of search in every order. Deadlock checking is off where bounds (the
horizon, the faults, the clicks) make the system stop.

Fairness. *Requests*: strong fairness for the steps of each slot. An event loop
runs its ready callbacks first in, first out, so a request whose turn comes again
and again, between limiter calls of others, is run; the lock wait ends by itself,
in the lock or in an exception. *Ingest*: weak fairness for a running command, and
strong fairness for starting a resuming bulk run: the operator repeats it, which is
what the resume mode is for, and faults are finitely many. *User ingest*: the same,
and weak fairness for the replacement of a file that cannot be read. *Client*: weak fairness
for the settling of a request, which `fetch` promises; a user who keeps clicking is
bounded by `MAX_CLICKS`.

## 4. Findings

1. `HardLimitClaim`. README.md:195 documents `BLOCK_HARD_LIMIT` as
   "Searches/minute before temporary IP block". `check` counts the searches it
   admitted, and admits no more than `SEARCH_RATE_LIMIT`, so with the defaults (15
   and 100) no number of searches blocks an address.
2. `IngestOverlapClaim`. Every `--thread` run drops the six triggers and makes them
   again in later transactions. `scripts/test_fts_updates.py` states that the index
   stays consistent, and tests one command at a time; two that overlap break it. In
   TLC's trace two `--thread --overwrite` runs on a complete database have both dropped
   the triggers. One makes those of `posts` again; the other's `CREATE TRIGGER` then
   fails, the error is swallowed (820), and it upserts its thread while the triggers
   of `threads` are missing: `fts_threads` keeps the old text, and both report success.
3. `IngestResumeClaim`. A bulk run killed between its DROP and the rebuild while every
   row is stored leaves no index: in the trace an `--overwrite` run on a complete
   database, killed right after the DROP; a run killed after its last flush ends the
   same way. The resuming run finds nothing to process and returns (1208) before the
   code that creates the index. Only an overwriting bulk run brings it back.

## 5. Proofs

| theorem | says | for |
|---|---|---|
| `LimiterInvariant` | `LimiterSpec => []LimiterInv` | all constants |
| `NeverOverLimit`, `SlidingWindow`, `SoftLimit`, `FailureCooldown`, `HoneypotRevocation`, `RetryAfterHonest`, `Cooldown` | the seven promises of the limiter | all constants |
| `PipelineTypes` | type correctness of the middleware | any slots, workers, addresses |
| `PipelineImplementsLimiter` | `Spec => LimiterSpec` | the same |
| `PipelinePromises`, `PipelineCooldown` | the limiter's promises hold of the middleware | the same |
| `IngestTypes`, `CountedIsStored` | types; a counted thread is stored or in the batch | any number of commands at once |
| `SearchFindsRows`, `CrashesKeepIndex` | `IndexSound`, `IntactUnlessTorn` | one command at a time |
| `UserTypes` | types of the user commands | any users, batch, faults |
| `IndexNeverStale`, `IndexKept`, `NothingLeft` | `IndexSound`, `IntactUnlessLost`, `NothingMeansIndexed` | the same |
| `ReputationKept`, `NothingForgotten`, `RepairRefreshesAll` | `ReputationFollows`, `DoneIsStored`, `RepairComplete` | the same |
| `ReplyTypes`, `QuotesResolved`, `RowsOfTheTree` | `TypeOK`, `FiledUnderLatest`, `StoredUnlessLost` | threads, pages and dates of any number |
| `CachedTypes`, `CacheStaysBounded`, `KeysSuffice` | `TypeOK`, `CacheBounded`, `KeyDeterminesAnswer` | any archive, requests, threads, lifetimes, size |
| `CacheServesArchive` | `Spec => ServesArchive`, the refinement of `SearchService` | the same |
| `WalksAreComplete`, `PagesFitTotals`, `LinksShowPosts` | `WalkComplete`, `PageFitsTotal`, `JumpShowsPost` | the same, any page sizes |
| `PostTypes`, `PageUnderFooter`, `SpinnerHasRequest`, `RowsOfOneSearch`, `ButtonsAreExact` | `TypeOK`, `PageMatchesOffset`, `SpinnerAwaited`, `OneSearch`, `ButtonsLeadToPosts` | any forms, matches, page and block size |

Assumptions are those the modules name (`LimitAssumption`, `TimeAssumption`,
`SlotAssumption`, `IngestAssumption`, `UserAssumption`, `TreeAssumption`,
the `SearchAssumption` of the endpoints and of the panel: natural numbers, positive batch,
chunk and page,
`EPOCH` not before the cooldown) and, for the two index theorems, `OneProcess`.
Finding 2 shows that `CrashesKeepIndex` needs it. `ArchiveAssumption` says what the
endpoints are given: FastAPI hands them integers, `bounded_int` and the defaults keep a page
between 1 and `MAX_LIMIT`, and no table has more rows than `MAX_OFFSET`, 100 000 000 (the
archive has 6 139 739 posts, README.md:30). Beyond that offset a walk could not go on:
`bounded_int` would serve the same page again.

**Limiter.** The promises are not inductive: a table within its limit says nothing
of rows that were pruned too early. `LimiterInv` adds `Stamped` (a row is stamped at
most one lock wait before its commit) and `Retained` (a row committed within the
window less the lock wait is still in the table, because no transaction prunes with
a `t` that could reach it), which turn counts over the table into counts over time;
`OffenceKept` (however often overwritten, `until_ts` is at least the last offence
plus the cooldown less the lock wait) and `FailuresOffend` for the blocks. There is
one lemma for each transaction. `LimiterBlocking` checks `LimiterInv` with TLC.

**Middleware.** `ReadBefore` (no call holds a `now` from the future), with the
guard of `HoldsLock`, puts every `now` in the last `BUSY_TIMEOUT` seconds; each step
is then a transaction of `LimiterSpec` or leaves its variables alone, and the
promises follow from the refinement.

**Ingest.** For the batch, `BatchInv` adds `Settled` (an idle process holds
nothing). For the index, `IndexInv` says for every place of `pc` what is known of
triggers, schema and index there (`Stage`); `Dark` are the places between
the drop and the rebuild, and `Intact` is `IntactUnlessTorn` outside them. Both theorems
speak of the threads outside `blind`: `WriteThread` puts a thread there exactly when
triggers it needs are missing, so a swallowed error costs no other thread its entry.

**User ingest.** `CommandInv` adds to the types what each place of `pc` holds
(`Phases`). `FileInv` says of the file, between any two steps, when index and
rows agree, user by user outside `hollow` and `blind`, and `PlaceInv` what a command knows
where it stands: past `drop_fts` a bulk run has no full-text table. `WorkInv` adds
`RowsNotAhead` (no row is of a version to come, so a later parse always replaces),
`ReputationHeld` (`ReputationFollows`, which holds of an import too until it has deleted
the entries) and `Repaired` (every user `--repair-alts` has passed and flushed is
refreshed). That an import which ends or dies leaves complete whom it has read needs
`DoneIsStored`: `bare` is then the rest.

**Reply resolution.** `PosInv`: the dictionary holds the last post of every key.
`OrderInv`: the posts come in the order of the page numbers. `FiledInv`: each quote
went to the last such post at its time. Together the order of reading is the order of
the thread, and "last" is "latest". For the rows, `CountInv` adds the counts of the
page, `TreeInv` that a post is filed under an earlier one or itself and only the first
of all opens the thread, and `RowsInv` that the rows are `Collected`. That a post in
the tree is collected, and nothing else, follows from `Collected` being the least such
set; no induction over the depth of the tree is needed.

**Cache.** `KeysTell` is proved from the definitions of the endpoints: requests with
one key are asked of one endpoint, refused together, and get one answer of every
version. With it `WorkerInv` holds: an entry is the answer of its version to every request with its
key, and expires no later than its version may be used (`Trusted`); an answer on its
way to the cache has the same, with the time of its query in place of the expiry
(`ThreadInv`). Then each reply comes from a version that is recent enough, and
every other step is a step of `SearchService` or leaves its variables alone.

`BoundsInv` adds to it the bounds, the keys and the replies that `TypeOK` speaks of.

**Pages.** A page of each endpoint is `LIMIT` rows at an offset of one list, and `more`
and `total` are about the same list (`PageShown`, from `OneMoreShows` and `CountedShows`);
for `search_users` the list is that of the prefixes as long as any of it is left
(`UsersShown`). A walk is a recursive function, that is, some function with `pages =
[n |-> ... pages[n - 1] ...]`. `JoinedIsSeen` shows that the prefixes of the list are one
such function and, by the least page at which another would differ, that there is no
other. `LastPageExists` gives the page at which the list ends; `more` is true before it and
false there, so the walk ends there (`WalkIsEverything`). `RowOnPage` is the arithmetic of
the post link. These are lemmas about all requests and databases; only that a request under
way is well formed comes from `WorkerInv`.

**Post search.** `SearchInv` is the conjunction of `PanelInv` (types; something to click or
to wait for only after a search; pages in the cache exist; requests are for whole
blocks), the four properties and `Single`: while `mixed` is false, the request in flight,
the box and the total are those of `ftsLastParams`. `OneSearch` needs `Single` at the
answer, `ButtonsLeadToPosts` needs it at the total. `Run` is the hard part: it steps back
over pages that are empty, so its lemmas say where it lands (`Lands`, by the least number of
steps) and that what it leaves behind fits (`ButtonsKeepPromise`, from `MoreIsExact`:
`has_more` at the end of a block is exact). TLC checked `SearchInv` on the instance of
`PostPaging` before it was proved.

Model-checked only: `ArchiveStored`, `EveryRequestAnswered`, `EverySearchSettles` and
`IndexComesBack`. They are liveness under fairness, which is out of the prover's reach. Every
safety property and refinement that a passing run checks is proved.

## 6. Not modelled, and assumptions

* `time.time()` never goes back. The limiter's file lives on tmpfs and is empty
  after a restart of the container; that is `LimiterInit`, not a step.
* HTML parsing, SQL text, rendering, formatting, logging. What the parsers find in a
  page is a choice: a user or a thread parses or raises, a post has any quote.
* `ThreadIngest`: the three triggers of a table are made in one step, and six are dropped
  in one, though SQLite commits them one by one; a thread written again replaces the
  old one whole, though a post that the new parse no longer has keeps its row; a command
  of the overlap may therefore stop at fewer places than in the code.
* `UserIngest`: a user of whose reputation pages an import with `--limit` reads only some.
* `RateLimiter`: the floor of a fractional `Retry-After`.
* `ArchiveApi`: the search by user name alone (search.py:207-217) scans `fts_posts` without
  `MATCH` and so reads the content table, where a half-built index hides no row, and a
  numeric `uid` matches `author_id` only; some endpoints return no `has_more` (the model derives
  it from the total), and an exception in the count leaves the total out.
* `_turnstileReady` (search.html:1034) and the panels that abort nothing
  (search.html:2159): only the post search panel is modelled.
* `ResponseCache.clear`, which nothing calls.
* Start-up, cache headers, the iframely proxy, asset paths, packaging and deployment
  scripts: no state of their own or pure I/O.
* Benchmarks, old pages and scripts, the 981 archived forum templates, stylesheets
  and images: not part of the running program.

## 7. Plan

1. `RateLimiter`, `RequestPipeline`, their proofs, `HardLimitClaim`: done.
2. `ThreadIngest` and its proofs: done.
3. `PostSearch` and its proofs: done.
4. `UserIngest` with its proofs, `ReplyTree` with its proofs: done.
5. `ArchiveApi`, `ResponseCache`, `SearchService`, `CachedSearch`, the refinement, the
   pages and their proofs: done.
6. `Challenge`: `apiFetch` of several panels with the one global
   `_turnstileReady`; every caller of a solved challenge continues.
7. Filters and ranking of the endpoints, the panels for users and threads.
