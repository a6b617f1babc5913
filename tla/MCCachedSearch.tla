--------------------------- MODULE MCCachedSearch ---------------------------
(* A small archive and a few requests to each endpoint, for TLC.            *)
EXTENDS CachedSearch, TLC

CONSTANTS t1, t2

ThreadSymmetry == Permutations({t1, t2})

Post(id, author, name, words, inside, op) ==
  [id |-> id, thread |-> "T1", author |-> author, name |-> name,
   words |-> words, inside |-> inside, op |-> op]

Posts == << Post("p1", "1", "ann", {"lua", "exe"}, {}, TRUE),
            Post("p2", "2", "bob", {"lua"}, {}, FALSE),
            Post("p3", "1", "ann", {"luau"}, {"lua"}, FALSE),
            Post("p4", "2", "bob", {"lua"}, {}, FALSE) >>

TThread(id, tag, author, words) == [id |-> id, tag |-> tag, author |-> author, words |-> words]
User(id, prefixes, inside) == [id |-> id, prefixes |-> prefixes, inside |-> inside]

\* A complete version, one whose bulk run has died before the rebuild and whose
\* fts_users is filled by later --user commands only, and no files at all.
Complete ==
  [ exists |-> TRUE, posts |-> Posts,
    threads |-> << TThread("T1", "release", "ann", {"lua"}), TThread("T2", "free", "bob", {"exe"}) >>,
    users |-> << User("1", {"an"}, {}), User("2", {"an"}, {}), User("3", {"jo"}, {"an"}) >>,
    entries |-> << [id |-> "r2", user |-> "1"], [id |-> "r1", user |-> "1"] >>, history |-> TRUE,
    fts |-> {"posts", "threads", "users"},
    indexed |-> {"p1", "p2", "p3", "p4", "T1", "T2", "1", "2", "3"}, files |-> {"awards"} ]

HalfBuilt == [Complete EXCEPT !.fts = {"users"}, !.indexed = {"2"}, !.history = FALSE]
NoFiles   == [Complete EXCEPT !.exists = FALSE, !.files = {}]

MCArchive == << Complete, HalfBuilt, NoFiles >>
MCTags    == {"release", "free"}
MCDefault == [k \in {"posts", "user_posts", "search_users", "threads", "reputation"} |-> 2]
MCTTL     == [k \in {"posts", "threads", "titles", "user", "user_posts", "search_users",
                     "reputation", "thread", "index"} |->
                IF k = "thread" THEN 0 ELSE IF k = "index" THEN 2 ELSE 1]

\* A request for a kind with no parameter but offset and limit.
R(kind, offset, limit) ==
  [kind |-> kind, q |-> NONE, uid |-> NONE, thread |-> NONE, tag |-> NONE, by |-> "username",
   order |-> "asc", op |-> FALSE, post |-> NONE, offset |-> offset, limit |-> limit]
Q(r, q)     == [r EXCEPT !.q = q]
Of(r, uid)  == [r EXCEPT !.uid = uid]
To(r, post) == [r EXCEPT !.post = post]

MCWorkloads ==
  { { Q(R("posts", 0, 2), "lua"), Q(R("posts", -1, 9), "lua") },
    { Q(R("threads", 0, 1), "lua"), [R("threads", 0, 1) EXCEPT !.tag = "free"] },
    { Q(R("search_users", 0, 1), "an"), Q(R("search_users", 2, 1), "an") },
    { Of(R("user", 0, NONE), "1"), Of(R("user", 0, NONE), "9") },
    { To(Of(R("thread", 0, 2), "T1"), "p3"), Of(R("index", 0, NONE), "awards") } }
  \cup {{r} : r \in
    { Of(R("posts", 0, 1), "ann"), [R("posts", 0, NONE) EXCEPT !.thread = "T1", !.op = TRUE],
      [Of(R("posts", 1, 0), "1") EXCEPT !.order = "desc"], [R("threads", 0, 1) EXCEPT !.tag = "virus"],
      R("titles", 0, NONE), [Q(R("search_users", 0, 1), "1") EXCEPT !.by = "user_id"],
      R("user", 0, NONE), Of(R("reputation", 0, 1), "1"), Of(R("user_posts", 0, 1), "2"),
      To(Of(R("thread", 1, 2), "T1"), "p2"), Of(R("thread", 1, NONE), "T1"),
      Of(R("thread", 0, 3), "T9"), Of(R("thread", 1, 3), "T1") }}

MCRequests == UNION MCWorkloads
=============================================================================
