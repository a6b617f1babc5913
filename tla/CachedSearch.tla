---------------------------- MODULE CachedSearch ----------------------------
(***************************************************************************)
(* The read endpoints of one worker process: every one of them looks into   *)
(* the response cache, asks the databases on a miss and stores the answer.  *)
(* They run in the threads of a pool and share nothing but the cache.  The  *)
(* databases may be replaced while the worker runs, and the worker may be   *)
(* restarted.  Times are in units of the shortest lifetime.                 *)
(***************************************************************************)
EXTENDS ArchiveApi

CONSTANTS
  Threads,       \* the threads of the pool
  Requests,
  Workloads,     \* the sets of requests that are made together
  TTL,           \* TTL[kind]: CACHE_TTL_SEARCH, _THREAD, _USER, _STATIC
  MaxEntries,
  SLOW,          \* assumption: no query, nor a wait for the lock, takes longer
  MAX_TIME,      \* bound: how long a behaviour lasts
  MAX_PUBLISH    \* bound: how often the databases are replaced

ASSUME SearchAssumption ==
  /\ Workloads \subseteq SUBSET Requests
  /\ \A r \in Requests :
       /\ TTL[r.kind] \in Nat
       /\ r = [kind |-> r.kind, q |-> r.q, uid |-> r.uid, thread |-> r.thread, tag |-> r.tag,
               by |-> r.by, order |-> r.order, op |-> r.op, post |-> r.post,
               offset |-> r.offset, limit |-> r.limit]
  /\ MaxEntries \in Nat \ {0}
  /\ SLOW \in Nat /\ MAX_TIME \in Nat /\ MAX_PUBLISH \in Nat
  /\ Len(Archive) \in Nat
  /\ NONE \notin Requests \cup Int

\* What the endpoints are given: numbers for offset and limit, page sizes within
\* the largest, and tables with fewer rows than the largest offset.
ASSUME ArchiveAssumption ==
  /\ MAX_LIMIT \in Nat \ {0} /\ MAX_OFFSET \in Nat
  /\ \A kind \in Paged \ {"thread"} : DefaultLimit[kind] \in 1..MAX_LIMIT
  /\ \A r \in Requests : /\ r.kind \in Paged \cup {"user", "titles", "index"}
                         /\ r.offset \in Int /\ r.limit \in Int \cup {NONE}
  /\ \A v \in 1..Len(Archive) :
       LET d == Archive[v]
       IN  \A list \in {d.posts, d.threads, d.users, d.entries} :
             list \in Seq(Range(list)) /\ Len(list) <= MAX_OFFSET

VARIABLES
  time,
  version,    \* the version of the databases in place
  replaced,   \* history: when each version was replaced, or NONE
  data,       \* the response cache
  workload,   \* the requests of this behaviour
  pc, req,    \* what each thread does, and for which request
  came,       \* when the request came; get reads the clock then
  since,      \* when the thread's query read the databases
  answer,     \* what it read: [from, body]
  expires,    \* the end of the answer's life, computed before the lock
  reply       \* what the last step has replied

service == <<time, version, replaced>>
vars == <<service, data, workload, pc, req, came, since, answer, expires, reply>>

Cache == INSTANCE ResponseCache

Versions == 1..Len(Archive)
NoAnswer == [from |-> 0, body |-> Refused(0)]
TypeOK ==
  /\ time \in 0..MAX_TIME
  /\ version \in Versions
  /\ replaced \in [Versions -> 0..MAX_TIME \cup {NONE}]
  /\ \A i \in 1..Len(data) : /\ data[i].key \in {Key(r) : r \in workload}
                             /\ data[i].value.from \in Versions
                             /\ data[i].expires \in Nat
  /\ workload \in Workloads
  /\ pc \in [Threads -> {"idle", "get", "query", "set", "store"}]
  /\ req \in [Threads -> workload \cup {NONE}]
  /\ \A t \in Threads : pc[t] = "idle" <=> req[t] = NONE
  /\ came \in [Threads -> 0..MAX_TIME]
  /\ since \in [Threads -> 0..MAX_TIME]
  /\ \A t \in Threads : answer[t] = NoAnswer \/ answer[t].from \in Versions
  /\ expires \in [Threads -> Nat]
  /\ reply = NONE \/ (reply.to \in Threads /\ reply.body.status \in {200, 400, 404, 500})

Init ==
  /\ time = 0 /\ version \in Versions /\ replaced = [v \in Versions |-> NONE]
  /\ data = <<>>
  /\ workload \in Workloads
  /\ pc = [t \in Threads |-> "idle"]
  /\ req = [t \in Threads |-> NONE]
  /\ came = [t \in Threads |-> 0]
  /\ since = [t \in Threads |-> 0]
  /\ answer = [t \in Threads |-> NoAnswer]
  /\ expires = [t \in Threads |-> 0]
  /\ reply = NONE

Goto(t, place) == pc' = [pc EXCEPT ![t] = place]

\* Bug: the thread is not given back to the pool.
ReturnBusy(t, body) ==
  /\ Goto(t, "idle")
  /\ reply' = [to |-> t, body |-> body]
  /\ UNCHANGED <<req, came, since, answer, expires>>

\* The endpoint returns or raises; what the thread held is forgotten.
Return(t, body) ==
  /\ Goto(t, "idle")
  /\ req' = [req EXCEPT ![t] = NONE]
  /\ came' = [came EXCEPT ![t] = 0]
  /\ since' = [since EXCEPT ![t] = 0]
  /\ answer' = [answer EXCEPT ![t] = NoAnswer]
  /\ expires' = [expires EXCEPT ![t] = 0]
  /\ reply' = [to |-> t, body |-> body]

\* The request is read, checked and normalised, and get reads the clock.
Arrive(t, r) ==
  /\ pc[t] = "idle"
  /\ Goto(t, "get")
  /\ req' = [req EXCEPT ![t] = r]
  /\ came' = [came EXCEPT ![t] = time]
  /\ reply' = NONE
  /\ UNCHANGED <<service, data, workload, since, answer, expires>>

Refuse(t) ==
  /\ pc[t] = "get"
  /\ Invalid(req[t])
  /\ Return(t, Refused(400))
  /\ UNCHANGED <<service, data, workload>>

Hit(t) ==
  /\ pc[t] = "get"
  /\ ~Invalid(req[t])
  /\ Cache!Fresh(Key(req[t]), came[t])
  /\ Return(t, Cache!Entry(Key(req[t])).value.body)
  /\ Cache!Get(Key(req[t]), came[t])
  /\ UNCHANGED <<service, workload>>

Miss(t) ==
  /\ pc[t] = "get"
  /\ ~Invalid(req[t])
  /\ ~Cache!Fresh(Key(req[t]), came[t])
  /\ Cache!Get(Key(req[t]), came[t])
  /\ Goto(t, "query")
  /\ reply' = NONE
  /\ UNCHANGED <<service, workload, req, came, since, answer, expires>>

\* The statements read one version.
Query(t) ==
  /\ pc[t] = "query"
  /\ Goto(t, "set")
  /\ since' = [since EXCEPT ![t] = time]
  /\ answer' = [answer EXCEPT ![t] = [from |-> version, body |-> Answer(version, req[t])]]
  /\ reply' = NONE
  /\ UNCHANGED <<service, data, workload, req, came, expires>>

\* An HTTPException leaves before the cache is filled.
Raise(t) ==
  /\ pc[t] = "set"
  /\ answer[t].body.status # 200
  /\ Return(t, answer[t].body)
  /\ UNCHANGED <<service, data, workload>>

\* set returns at once for a lifetime of zero, else it reads the clock ...
Expiry(t) ==
  /\ pc[t] = "set"
  /\ answer[t].body.status = 200
  /\ IF TTL[req[t].kind] <= 0
     THEN Return(t, answer[t].body)
     ELSE /\ expires' = [expires EXCEPT ![t] = time + TTL[req[t].kind]]
          /\ since' = [since EXCEPT ![t] = 0]
          /\ Goto(t, "store")
          /\ reply' = NONE
          /\ UNCHANGED <<req, came, answer>>
  /\ UNCHANGED <<service, data, workload>>

\* ... and stores the answer when it gets the lock.
Store(t) ==
  /\ pc[t] = "store"
  /\ Cache!Set(Key(req[t]), answer[t], expires[t])
  /\ Return(t, answer[t].body)
  /\ UNCHANGED <<service, workload>>

-----------------------------------------------------------------------------
Tick ==
  /\ time < MAX_TIME
  /\ \A t \in Threads : pc[t] = "set" => time - since[t] < SLOW
  /\ time' = time + 1
  /\ reply' = NONE
  /\ UNCHANGED <<version, replaced, data, workload, pc, req, came, since, answer, expires>>

\* The database files are replaced.
Publish ==
  /\ version < Len(Archive)
  /\ Cardinality({v \in Versions : replaced[v] # NONE}) < MAX_PUBLISH
  /\ version' = version + 1
  /\ replaced' = [replaced EXCEPT ![version] = time]
  /\ reply' = NONE
  /\ UNCHANGED <<time, data, workload, pc, req, came, since, answer, expires>>

\* The cache belongs to the process.
Restart ==
  /\ data # <<>> \/ \E t \in Threads : pc[t] # "idle"
  /\ data' = <<>>
  /\ pc' = [t \in Threads |-> "idle"]
  /\ req' = [t \in Threads |-> NONE]
  /\ came' = [t \in Threads |-> 0]
  /\ since' = [t \in Threads |-> 0]
  /\ answer' = [t \in Threads |-> NoAnswer]
  /\ expires' = [t \in Threads |-> 0]
  /\ reply' = NONE
  /\ UNCHANGED <<service, workload>>

Handle(t) ==
  \/ \E r \in workload : Arrive(t, r)
  \/ Refuse(t) \/ Hit(t) \/ Miss(t) \/ Query(t) \/ Raise(t) \/ Expiry(t) \/ Store(t)

Next == Tick \/ Publish \/ Restart \/ \E t \in Threads : Handle(t)

Spec == Init /\ [][Next]_vars

-----------------------------------------------------------------------------
Age(r) == TTL[r.kind] + SLOW

Service == INSTANCE SearchService
  WITH Clients <- Threads, clock <- time, asked <- req, Respond <- Answer,
       Bad <- Invalid, Denial <- Refused(400), Window <- Age, Nothing <- NONE

(* The endpoints with their cache implement the service without one: every  *)
(* reply is what the databases say at the request, or said no longer ago    *)
(* than the lifetime of the endpoint and one slow query, although the       *)
(* lifetime starts after the query and the clock is read outside the lock.  *)
ServesArchive == Service!Spec

(* However the threads interleave, the cache stays within its size and      *)
(* holds one entry for a key.                                               *)
CacheBounded == Cache!Bounded

(* Whatever request finds an entry, the entry is what that request would    *)
(* have been answered by the version it came from: no parameter an answer   *)
(* depends on is missing in the key.  Errors are never found.               *)
KeyDeterminesAnswer ==
  \A i \in 1..Len(data), r \in workload :
    Key(r) = data[i].key =>
      /\ data[i].value.body = Answer(data[i].value.from, r)
      /\ data[i].value.body.status = 200

\* What paging should find: everything on one page that is large enough.
Everything(v, r) ==
  LET d == Archive[v]
  IN  CASE r.kind = "posts"        -> PostMatches(d, r)
        [] r.kind = "user_posts"   -> UserPosts(d, r)
        [] r.kind = "threads"      -> ThreadMatches(d, r)
        [] r.kind = "reputation"   -> Entries(d, r)
        [] r.kind = "thread"       -> ThreadPosts(d, r)
        [] r.kind = "search_users" ->
             IF By(r) = "user_id" THEN UsersById(d, r)
             ELSE IF "users" \in d.fts /\ r.q # NONE /\ PrefixUsers(d, r) # <<>>
                  THEN PrefixUsers(d, r) ELSE LikeUsers(d, r)

\* The pages a client fetches that goes on as long as there is more.
Page(v, r, n) == Answer(v, [r EXCEPT !.offset = n * Limit(r)])
LastPage(v, r) ==
  CHOOSE n \in 0..Len(Everything(v, r)) :
    ~Page(v, r, n).more /\ \A k \in 0..(n - 1) : Page(v, r, k).more
Walk(v, r) ==
  LET pages[n \in 0..LastPage(v, r)] ==
        IF n = 0 THEN Page(v, r, 0).results ELSE pages[n - 1] \o Page(v, r, n).results
  IN  pages[LastPage(v, r)]

\* The requests that are under way and can be paged through.
Walkable == {r \in {req[t] : t \in Threads} \ {NONE} :
               r.kind \in Paged /\ ~Invalid(r) /\ Limit(r) # NONE /\ r.post = NONE
               /\ Answer(version, r).status = 200}

(* Paging as long as an answer says that there is more shows every match    *)
(* once and in order, at every page size; and the total, where one is       *)
(* given, is the number of matches.                                         *)
WalkComplete ==
  \A r \in Walkable : /\ Walk(version, r) = Everything(version, r)
                      /\ Page(version, r, 0).total \in {NONE, Len(Everything(version, r))}

(* An answer counts the list it shows a page of: its results lie within the *)
(* total at the offset, also when the search for prefixes has given way to  *)
(* the search for substrings.                                               *)
PageFitsTotal ==
  \A r \in Walkable :
    LET a == Answer(version, r)
    IN  a.total # NONE =>
          Len(a.results) = Max({0, Min({a.limit, a.total - a.offset})})

(* A link to a post opens the page of its thread that shows the post,       *)
(* whatever offset the link carries.                                        *)
JumpShowsPost ==
  \A t \in Threads :
    LET r == req[t]
        a == Answer(version, r)
    IN  r # NONE /\ ~Invalid(r) /\ r.kind = "thread" /\ a.status = 200
        /\ Limit(r) # NONE /\ r.post # NONE /\ Rows(Archive[version], r) # {}
          => \E i \in 1..Len(a.results) : a.results[i].id = r.post
=============================================================================
