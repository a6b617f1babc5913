----------------------------- MODULE ArchiveApi -----------------------------
(***************************************************************************)
(* app/api and app/database: what each endpoint answers to a request, as a  *)
(* function of the request and of the databases.  The databases are         *)
(* replaced as a whole; Archive[v] is what version v holds:                 *)
(*   exists    threads.db and users.db are there                           *)
(*   posts     posts in ascending order: [id, thread, author, name, words,  *)
(*             inside, op], words are whole words, inside other substrings  *)
(*   threads   threads in order: [id, tag, author, words]                   *)
(*   users     users in order: [id, prefixes, inside]                       *)
(*   entries   reputation, newest first: [id, user]                         *)
(*   history   the table of entries exists                                  *)
(*   fts       the full-text tables that exist                              *)
(*   indexed   the ids these tables hold                                    *)
(*   files     the index files                                              *)
(* A request is a record; a field that its endpoint does not have is NONE.  *)
(***************************************************************************)
EXTENDS Integers, Sequences, SequencesExt

CONSTANTS
  Archive,      \* the versions of the databases, a sequence
  MAX_LIMIT,    \* the largest page, 100
  MAX_OFFSET,   \* the largest offset, 100 000 000
  DefaultLimit, \* DefaultLimit[kind]: 50, 25 or 24
  Tags,         \* THREAD_PREFIXES
  NONE          \* None, or no value

-----------------------------------------------------------------------------
Clamp(x, lo, hi) == Max({lo, Min({x, hi})})

Paged == {"posts", "user_posts", "search_users", "threads", "reputation", "thread"}

\* bounded_int of offset and limit; a thread has no limit when none is given.
Offset(r) == Clamp(r.offset, 0, MAX_OFFSET)
Limit(r)  == IF r.limit # NONE THEN Clamp(r.limit, 1, MAX_LIMIT)
             ELSE IF r.kind = "thread" THEN NONE ELSE DefaultLimit[r.kind]

\* What an endpoint refuses before it looks into the cache.
Invalid(r) ==
  \/ r.kind \in {"user", "user_posts", "reputation", "thread"} /\ r.uid = NONE
  \/ r.kind = "threads" /\ r.tag \notin Tags \cup {NONE}

\* search_users knows two ways to search.
By(r) == IF r.by = "user_id" THEN "user_id" ELSE "username"

\* Bug: the limit is not part of the key.
KeyWithoutLimit(r) ==
  IF r.kind \notin Paged THEN r
  ELSE [r EXCEPT !.offset = Offset(r), !.limit = 1, !.by = By(r)]

\* make_key of the normalised parameters.
Key(r) ==
  IF r.kind \notin Paged THEN r
  ELSE [r EXCEPT !.offset = Offset(r), !.limit = Limit(r), !.by = By(r)]

-----------------------------------------------------------------------------
\* LIMIT limit OFFSET offset
Slice(list, offset, limit) == SubSeq(list, offset + 1, Min({offset + limit, Len(list)}))

Ordered(list, r) == IF r.order = "asc" THEN list ELSE Reverse(list)

OK(results, total, more, offset, limit) ==
  [status |-> 200, results |-> results, total |-> total, more |-> more,
   offset |-> offset, limit |-> limit]

Refused(status) == [status |-> status, results |-> <<>>, total |-> NONE, more |-> FALSE,
                    offset |-> 0, limit |-> 0]

Whole(results) == OK(results, Len(results), FALSE, 0, 0)

\* Bug: only the page itself is fetched, which never shows that there is more.
OneMoreUnfetched(list, r, total) ==
  LET rows == Slice(list, Offset(r), Limit(r))
  IN  OK(rows, total, Len(rows) > Limit(r), Offset(r), Limit(r))

\* limit + 1 rows are fetched; the last of them only shows that there is more.
OneMore(list, r, total) ==
  LET rows == Slice(list, Offset(r), Limit(r) + 1)
  IN  OK(SubSeq(rows, 1, Min({Limit(r), Len(rows)})), total,
         Len(rows) > Limit(r), Offset(r), Limit(r))

Counted(list, r) ==
  LET next == Offset(r) + Limit(r)
  IN  OK(Slice(list, Offset(r), Limit(r)), Len(list), next < Len(list), Offset(r), Limit(r))

-----------------------------------------------------------------------------
\* The rows of a list at some of its positions, in the order of the list.
Picked(list, S) ==
  [k \in 1..Cardinality(S) |->
     list[CHOOSE i \in S : Cardinality({j \in S : j <= i}) = k]]

\* WHERE
Where(list, keep(_)) == Picked(list, {i \in 1..Len(list) : keep(list[i])})

\* search_posts: a word is looked up in fts_posts, an author's name as well;
\* when the statement fails, as it does without the table, LIKE takes over.
PostMatches(d, r) ==
  LET named == r.uid # NONE /\ \E i \in 1..Len(d.posts) : d.posts[i].name = r.uid
      fts   == "posts" \in d.fts /\ (r.q # NONE \/ named)
      text(p) == IF r.q = NONE THEN TRUE
                 ELSE IF fts THEN r.q \in p.words ELSE r.q \in p.words \cup p.inside
      keep(p) == /\ text(p)
                 /\ fts => p.id \in d.indexed
                 /\ r.uid # NONE => r.uid \in {p.author, p.name}
                 /\ r.thread # NONE => p.thread = r.thread
                 /\ r.op => p.op
  IN  Where(Ordered(d.posts, r), keep)

PostsAnswer(d, r) ==
  LET list == PostMatches(d, r)
  IN  OneMore(list, r, IF r.q = NONE THEN NONE ELSE Len(list))

\* user_posts: the id only, newest first.
UserPosts(d, r) ==
  LET keep(p) == p.author = r.uid /\ (r.op => p.op)
  IN  Where(Reverse(d.posts), keep)

UserPostsAnswer(d, r) == OneMore(UserPosts(d, r), r, NONE)

\* search_threads: without fts_threads the words are not looked at.
ThreadMatches(d, r) ==
  LET fts == "threads" \in d.fts /\ r.q # NONE
      keep(t) == /\ fts => t.id \in d.indexed /\ r.q \in t.words
                 /\ r.tag # NONE => t.tag = r.tag
                 /\ r.uid # NONE => t.author = r.uid
  IN  Where(Ordered(d.threads, r), keep)

ThreadsAnswer(d, r) == Counted(ThreadMatches(d, r), r)

\* search_users: a prefix in fts_users, a substring by LIKE.
PrefixUsers(d, r) ==
  LET keep(u) == u.id \in d.indexed /\ r.q \in u.prefixes
  IN  Where(Ordered(d.users, r), keep)

LikeUsers(d, r) ==
  LET keep(u) == r.q # NONE => r.q \in u.prefixes \cup u.inside
  IN  Where(Ordered(d.users, r), keep)

UsersById(d, r) ==
  LET keep(u) == r.q # NONE => u.id = r.q
  IN  Where(Ordered(d.users, r), keep)

\* Bug: the substrings are looked for, the prefixes' total is kept.
UsersAnswerTotalKept(d, r) ==
  IF By(r) = "user_id" THEN Counted(UsersById(d, r), r)
  ELSE IF "users" \in d.fts /\ r.q # NONE
       THEN IF Counted(PrefixUsers(d, r), r).results # <<>>
            THEN Counted(PrefixUsers(d, r), r)
            ELSE [Counted(LikeUsers(d, r), r) EXCEPT !.total = Len(PrefixUsers(d, r)),
                                                     !.more = FALSE]
  ELSE Counted(LikeUsers(d, r), r)

\* A page that FTS leaves empty is taken from the list of LIKE, whatever the
\* offset.
UsersAnswer(d, r) ==
  IF By(r) = "user_id" THEN Counted(UsersById(d, r), r)
  ELSE IF /\ "users" \in d.fts /\ r.q # NONE
          /\ Counted(PrefixUsers(d, r), r).results # <<>>
       THEN Counted(PrefixUsers(d, r), r)
  ELSE Counted(LikeUsers(d, r), r)

UserAnswer(d, r) ==
  LET found == Where(d.users, LAMBDA u : u.id = r.uid)
      given == Where(d.entries, LAMBDA e : d.history /\ e.user = r.uid)
  IN  IF found = <<>> THEN Refused(404)
      ELSE [Whole(found) EXCEPT !.total = Len(given)]   \* reputation_history_count

\* user_reputation: an old database has no such table.
Entries(d, r) == Where(d.entries, LAMBDA e : d.history /\ e.user = r.uid)

ReputationAnswer(d, r) == Counted(Entries(d, r), r)

ThreadPosts(d, r) == Where(d.posts, LAMBDA p : p.thread = r.uid)

\* The 1-based rows of the post to jump to: one, or none.
Rows(d, r) == {i \in 1..Len(ThreadPosts(d, r)) : ThreadPosts(d, r)[i].id = r.post}

\* Bug: the row number is taken as 0-based.
JumpOffsetOfRow(d, r) ==
  IF Rows(d, r) = {} THEN Offset(r) ELSE (Max(Rows(d, r)) \div Limit(r)) * Limit(r)

\* The page of the post; without such a post the offset stays as it is.
JumpOffset(d, r) ==
  IF Rows(d, r) = {} THEN Offset(r) ELSE ((Max(Rows(d, r)) - 1) \div Limit(r)) * Limit(r)

ThreadAnswer(d, r) ==
  LET posts == ThreadPosts(d, r)
      at    == IF Limit(r) # NONE /\ r.post # NONE THEN JumpOffset(d, r) ELSE Offset(r)
  IN  IF \A i \in 1..Len(d.threads) : d.threads[i].id # r.uid THEN Refused(404)
      ELSE IF Limit(r) = NONE THEN OK(posts, Len(posts), FALSE, at, Len(posts))
      ELSE OK(Slice(posts, at, Limit(r)), Len(posts), at + Limit(r) < Len(posts), at, Limit(r))

-----------------------------------------------------------------------------
\* titles counts the threads; the index files need no database.
Answer(v, r) ==
  LET d == Archive[v]
  IN  CASE r.kind = "index" -> IF r.uid \in d.files THEN Whole(<<[id |-> r.uid]>>) ELSE Refused(404)
        [] ~d.exists /\ r.kind # "index" -> Refused(500)
        [] r.kind = "posts" /\ d.exists -> PostsAnswer(d, r)
        [] r.kind = "user_posts" /\ d.exists -> UserPostsAnswer(d, r)
        [] r.kind = "threads" /\ d.exists -> ThreadsAnswer(d, r)
        [] r.kind = "search_users" /\ d.exists -> UsersAnswer(d, r)
        [] r.kind = "user" /\ d.exists -> UserAnswer(d, r)
        [] r.kind = "reputation" /\ d.exists -> ReputationAnswer(d, r)
        [] r.kind = "thread" /\ d.exists -> ThreadAnswer(d, r)
        [] r.kind = "titles" /\ d.exists -> [Whole(<<>>) EXCEPT !.total = Len(d.threads)]
=============================================================================
