------------------------------ MODULE ReplyTree ------------------------------
(***************************************************************************)
(* scripts/thread_parser.py, _thread_parser and _build_thread_rows: the     *)
(* pages of a thread are read in the order of their numbers, every post is  *)
(* filed under the post it quotes, and the tree below the opening post is   *)
(* what becomes rows of threads.db.                                         *)
(***************************************************************************)
EXTENDS Integers, Sequences, FiniteSets

CONSTANTS
  PageNumbers,   \* the numbers in the names of the page files
  Dates,         \* post_date, to the minute
  Names,         \* author_username
  Starts,        \* the first characters of a text
  NONE,
  MAX_POSTS,     \* bound: the posts of the thread
  MAX_PER_PAGE   \* bound: the posts of a page

ASSUME TreeAssumption ==
  /\ PageNumbers \subseteq Nat /\ IsFiniteSet(PageNumbers)
  /\ NONE \notin Nat \cup Dates \cup Names \cup Starts
  /\ MAX_POSTS \in Nat /\ MAX_PER_PAGE \in Nat

\* What get_post_information finds in a post: one without a body has neither
\* author nor text; a quote counts when its cite names a date and an author.
Quotes == [date : Dates, to : Names, start : Starts \cup {NONE}]
Posts  == [date : Dates, author : {NONE}, start : {NONE}, quote : {NONE}]
          \cup [date : Dates, author : Names, start : Starts, quote : Quotes \cup {NONE}]

ROOT    == 0      \* the opening post is filed under nothing
MISSING == -1     \* replies_to_not_found_posts
DROPPED == -2     \* no opening post to reply to

VARIABLES
  unread,    \* the numbers of the pages that are still to be read
  page,      \* the number of the page at hand, or NONE
  count,     \* how many of its posts have been read
  opened,    \* got_thread_content_info
  posts,     \* the posts read so far, with the page they were found on
  posts_pos, \* the post last seen with a date and author, or date and start
  filed,     \* what each post is filed under
  rows       \* the rows of the thread: [posts, reply_count], or NONE

vars == <<unread, page, count, opened, posts, posts_pos, filed, rows>>

Keys(p) == {<<p.date, p.author>>, <<p.date, p.start>>}

TypeOK ==
  /\ unread \subseteq PageNumbers
  /\ page \in PageNumbers \cup {NONE}
  /\ count \in 0..MAX_PER_PAGE
  /\ opened \in BOOLEAN
  /\ Len(posts) <= MAX_POSTS
  /\ \A i \in 1..Len(posts) : posts[i].info \in Posts /\ posts[i].page \in PageNumbers
  /\ posts_pos \in [Dates \X (Names \cup Starts \cup {NONE}) -> 0..Len(posts)]
  /\ filed \in Seq((-2)..Len(posts)) /\ Len(filed) = Len(posts)
  /\ rows = NONE \/ (rows.posts \subseteq 1..Len(posts) /\ rows.reply_count \in Nat)

Init ==
  /\ unread = PageNumbers
  /\ page = NONE
  /\ count = 0
  /\ opened = FALSE
  /\ posts = <<>>
  /\ posts_pos = [key \in Dates \X (Names \cup Starts \cup {NONE}) |-> 0]
  /\ filed = <<>>
  /\ rows = NONE

-----------------------------------------------------------------------------
\* Bug: the names of the files are compared, page10 comes before page2.
FirstByName(n) == \A m \in unread : (n >= 10 /\ m < 10) \/ (n <= m /\ (m >= 10 => n >= 10))

\* sortpages
First(n) == \A m \in unread : n <= m

\* The page at hand is done, the next one is opened.
TurnPage(n) ==
  /\ n \in unread /\ First(n)
  /\ page' = n
  /\ unread' = unread \ {n}
  /\ count' = 0
  /\ opened' = (page # NONE)
  /\ UNCHANGED <<posts, posts_pos, filed, rows>>

\* The post is known under its date and author, and its date and start.
Known(p) ==
  [key \in DOMAIN posts_pos |-> IF key \in Keys(p) THEN Len(posts) + 1 ELSE posts_pos[key]]

Read(p) ==
  /\ page # NONE /\ rows = NONE
  /\ count < MAX_PER_PAGE /\ Len(posts) < MAX_POSTS
  /\ posts' = Append(posts, [info |-> p, page |-> page])
  /\ posts_pos' = Known(p)
  /\ count' = count + 1
  /\ UNCHANGED <<unread, page, opened, rows>>

\* Bug: the opening post is known, but belongs to no tree.
ReadOpeningUnfiled(p) ==
  /\ ~opened /\ count = 0
  /\ Read(p)
  /\ filed' = filed

\* The first post of the first page opens the thread; its quote is not looked at.
ReadOpening(p) ==
  /\ ~opened /\ count = 0
  /\ Read(p)
  /\ filed' = Append(filed, ROOT)

HasOpening == \E i \in 1..Len(filed) : filed[i] = ROOT

\* Bug: the post is looked up before it is known itself.
TargetBefore(p) ==
  IF posts_pos[<<p.quote.date, p.quote.to>>] # 0
  THEN posts_pos[<<p.quote.date, p.quote.to>>]
  ELSE posts_pos[<<p.quote.date, p.quote.start>>]

\* The post that p quotes, among those known by now: p itself is one of them.
Target(p) ==
  IF Known(p)[<<p.quote.date, p.quote.to>>] # 0
  THEN Known(p)[<<p.quote.date, p.quote.to>>]
  ELSE Known(p)[<<p.quote.date, p.quote.start>>]

Place(p) ==
  IF p.quote # NONE THEN IF Target(p) # 0 THEN Target(p) ELSE MISSING
  ELSE IF HasOpening THEN 1 ELSE DROPPED

ReadReply(p) ==
  /\ opened \/ count > 0
  /\ Read(p)
  /\ filed' = Append(filed, Place(p))

\* Bug: only the replies to the opening post are collected.
CollectedDirect == {i \in 1..Len(filed) : filed[i] \in {ROOT, 1}}

\* S holds the opening post and, with a post, all that is filed under it.
IsTree(S) ==
  \A i \in 1..Len(filed) : filed[i] = ROOT \/ filed[i] \in S => i \in S

\* collect_posts: the opening post and all that is filed below it, no more.
Collected ==
  {i \in 1..Len(filed) : \A S \in SUBSET (1..Len(filed)) : IsTree(S) => i \in S}

\* No page is left: _build_thread_rows.
Build ==
  /\ unread = {} /\ rows = NONE
  /\ rows' = [posts |-> Collected,
              reply_count |-> IF HasOpening THEN Cardinality({i \in 1..Len(filed) : filed[i] = 1})
                              ELSE 0]
  /\ UNCHANGED <<unread, page, count, opened, posts, posts_pos, filed>>

Next ==
  \/ \E n \in PageNumbers : TurnPage(n)
  \/ \E p \in Posts : ReadOpening(p) \/ ReadReply(p)
  \/ Build

Spec == Init /\ [][Next]_vars

-----------------------------------------------------------------------------
\* What is meant, without the dictionary and the order of reading: post i comes
\* no later than post j in the thread.
NoLater(i, j) ==
  posts[i].page < posts[j].page \/ (posts[i].page = posts[j].page /\ i <= j)

\* The posts up to j that a date and an author, or a date and a start, stand for.
Matches(j, date, mark) ==
  {i \in 1..Len(posts) : NoLater(i, j) /\ <<date, mark>> \in Keys(posts[i].info)}

Latest(S) == CHOOSE i \in S : \A j \in S : NoLater(j, i)

(* A quote is resolved to the latest post of the thread, up to the quoting  *)
(* one, with the quoted date and author, else with the quoted date and      *)
(* start; and it is missing only when there is no such post.                *)
FiledUnderLatest ==
  unread = {} =>
    \A j \in 1..Len(posts) :
      LET quote    == posts[j].info.quote
          byAuthor == Matches(j, quote.date, quote.to)
          byStart  == Matches(j, quote.date, quote.start)
      IN  quote # NONE /\ filed[j] # ROOT =>
            filed[j] = IF byAuthor # {} THEN Latest(byAuthor)
                       ELSE IF byStart # {} THEN Latest(byStart) ELSE MISSING

(* A post becomes a row unless a quote on its way to the opening post is    *)
(* not found or is resolved to the quoting post itself; or unless the first *)
(* page shows no post, when no post becomes one.  Filing under earlier      *)
(* posts keeps the recursion of collect_posts finite, and a reply that is   *)
(* counted is stored.                                                       *)
StoredUnlessLost ==
  rows # NONE =>
    /\ \A i \in 1..Len(posts) :
         /\ filed[i] <= i
         /\ i \in rows.posts <=> filed[i] = ROOT \/ (filed[i] # i /\ filed[i] \in rows.posts)
         /\ HasOpening /\ posts[i].info.quote = NONE => i \in rows.posts
    /\ rows.reply_count <= Cardinality(rows.posts \ {1})
=============================================================================
