--------------------------- MODULE PageWalkProofs ---------------------------
(***************************************************************************)
(* What the endpoints of app/api promise about the pages they answer with,  *)
(* for any archive, page size, offset and set of requests: a page lies in   *)
(* the list that its total counts, the pages put together are the list, and *)
(* a link to a post opens a page with the post.                             *)
(***************************************************************************)
EXTENDS CachedSearchProofs, FiniteSetTheorems, WellFoundedInduction

-----------------------------------------------------------------------------
(* Numbers                                                                  *)

LEMMA Least ==
  ASSUME NEW S, S \subseteq Nat, S # {}
  PROVE  \E n \in S : \A m \in S : n <= m
<1> DEFINE R == OpToRel(<, Nat)
<1>1. IsWellFoundedOn(R, Nat)
  BY NatLessThanWellFounded
<1>2. \A x, y \in Nat : <<y, x>> \in R <=> y < x
  BY DEF OpToRel
<1> HIDE DEF R
<1>3. PICK x \in S : \A y \in S : ~(<<y, x>> \in R)
  BY <1>1, WFMin
<1>4. \A y \in S : x <= y
  <2> TAKE y \in S
  <2>1. x \in Nat /\ y \in Nat /\ ~(y < x)
    BY <1>2, <1>3
  <2> QED BY <2>1
<1> QED BY <1>4

\* Max of a set of naturals that is bounded, as a set of positions is.
LEMMA Largest ==
  ASSUME NEW b \in Nat, NEW S \in SUBSET (0..b), S # {}
  PROVE  Max(S) \in S /\ \A m \in S : Max(S) >= m
<1> DEFINE T == {b - s : s \in S}
<1>0. T # {}
  <2>1. PICK s \in S : TRUE
    OBVIOUS
  <2>2. b - s \in T
    BY <2>1
  <2> QED BY <2>2
<1>1. T \subseteq Nat
  OBVIOUS
<1> HIDE DEF T
<1>2. PICK t \in T : \A u \in T : t <= u
  BY <1>0, <1>1, Least
<1>3. PICK n \in S : t = b - n
  BY DEF T
<1>4. \A m \in S : n >= m
  <2> TAKE m \in S
  <2>1. b - m \in T /\ m \in Int /\ n \in Int
    BY DEF T
  <2>2. b - n <= b - m
    BY <1>2, <1>3, <2>1
  <2> QED BY <2>1, <2>2
<1> QED BY <1>4 DEF Max

LEMMA MaxOfTwo ==
  ASSUME NEW a \in Int, NEW b \in Int
  PROVE  Max({a, b}) = IF a >= b THEN a ELSE b
<1>1. \A x \in {a, b} : (\A y \in {a, b} : x >= y) => x = IF a >= b THEN a ELSE b
  OBVIOUS
<1>2. \E x \in {a, b} : \A y \in {a, b} : x >= y
  OBVIOUS
<1> QED BY <1>1, <1>2 DEF Max

LEMMA MinOfTwo ==
  ASSUME NEW a \in Int, NEW b \in Int
  PROVE  Min({a, b}) = IF a <= b THEN a ELSE b
<1>1. \A x \in {a, b} : (\A y \in {a, b} : x <= y) => x = IF a <= b THEN a ELSE b
  OBVIOUS
<1>2. \E x \in {a, b} : \A y \in {a, b} : x <= y
  OBVIOUS
<1> QED BY <1>1, <1>2 DEF Min

LEMMA ClampIs ==
  ASSUME NEW x \in Int, NEW lo \in Int, NEW hi \in Int, lo <= hi
  PROVE  Clamp(x, lo, hi) \in lo..hi /\ (x \in lo..hi => Clamp(x, lo, hi) = x)
<1>1. Min({x, hi}) = IF x <= hi THEN x ELSE hi
  BY MinOfTwo
<1>2. Min({x, hi}) \in Int
  BY <1>1
<1>3. Clamp(x, lo, hi) = IF lo >= Min({x, hi}) THEN lo ELSE Min({x, hi})
  BY <1>2, MaxOfTwo DEF Clamp
<1> QED BY <1>1, <1>3

LEMMA Quotient ==
  ASSUME NEW a \in Nat, NEW b \in Nat \ {0}
  PROVE  a \div b \in Nat /\ (a \div b) * b \in Nat
         /\ (a \div b) * b <= a /\ a < (a \div b) * b + b
OBVIOUS

LEMMA NextMultiple ==
  ASSUME NEW n \in Int, NEW b \in Int
  PROVE  (n + 1) * b = n * b + b /\ n * b \in Int
OBVIOUS

LEMMA AtLeastAsMany ==
  ASSUME NEW n \in Nat, NEW b \in Nat \ {0}
  PROVE  n <= n * b
OBVIOUS

-----------------------------------------------------------------------------
(* Lists and their pages                                                    *)

IsList(list) == list \in Seq(Range(list)) /\ Len(list) <= MAX_OFFSET

\* LIMIT n OFFSET o
LEMMA SliceIs ==
  ASSUME NEW list, IsList(list), NEW o \in Nat, NEW n \in Nat
  PROVE  /\ Slice(list, o, n) \in Seq(Range(list))
         /\ Len(Slice(list, o, n)) = IF o >= Len(list) THEN 0
                                     ELSE IF o + n <= Len(list) THEN n ELSE Len(list) - o
         /\ \A i \in 1..Len(Slice(list, o, n)) : Slice(list, o, n)[i] = list[o + i]
<1> DEFINE len == Len(list)
           to  == Min({o + n, len})
           s   == Slice(list, o, n)
<1>1. len \in Nat /\ \A i \in 1..len : list[i] \in Range(list)
  BY LenProperties, ElementOfSeq DEF IsList
<1>2. to = IF o + n <= len THEN o + n ELSE len
  BY <1>1, MinOfTwo
<1>3. s = SubSeq(list, o + 1, to)
  BY DEF Slice
<1> HIDE DEF to, s, len
<1>4. to \in Int /\ \A i \in (o + 1)..to : i \in 1..len
  BY <1>1, <1>2
<1>5. /\ s \in Seq(Range(list)) /\ Len(s) = IF o + 1 <= to THEN to - (o + 1) + 1 ELSE 0
      /\ \A i \in 1..(to - (o + 1) + 1) : s[i] = list[o + 1 + i - 1]
  BY <1>1, <1>3, <1>4, SubSeqProperties
<1>6. Len(s) = IF o >= len THEN 0 ELSE IF o + n <= len THEN n ELSE len - o
  BY <1>1, <1>2, <1>5
<1>7. ASSUME NEW i \in 1..Len(s)
      PROVE  s[i] = list[o + i]
  <2>1. i \in 1..(to - (o + 1) + 1) /\ o + 1 + i - 1 = o + i
    BY <1>1, <1>2, <1>4, <1>5
  <2> QED BY <1>5, <2>1
<1> QED BY <1>5, <1>6, <1>7 DEF s, len

\* A function on 1..n is a list.
LEMMA FunctionIsList ==
  ASSUME NEW n \in Nat, NEW f, f = [k \in 1..n |-> f[k]]
  PROVE  f \in Seq(Range(f)) /\ Len(f) = n
<1>1. DOMAIN f = 1..n /\ Range(f) = {f[k] : k \in 1..n}
  BY DEF Range
<1>2. f \in [1..n -> Range(f)]
  BY <1>1
<1> QED BY <1>2

\* WHERE keeps no more rows than there are.
LEMMA PickedIs ==
  ASSUME NEW list, NEW S, Len(list) \in Nat, Len(list) <= MAX_OFFSET, MAX_OFFSET \in Nat,
         S \subseteq 1..Len(list)
  PROVE  IsList(Picked(list, S))
<1> DEFINE n == Len(list)
<1>0. n \in Int /\ n \in Nat
  OBVIOUS
<1> HIDE DEF n
<1>1. IsFiniteSet(1..n)
  BY <1>0, FS_Interval
<1>2. Cardinality(1..n) = n
  <2>1. Cardinality(1..n) = IF 1 > n THEN 0 ELSE n - 1 + 1
    BY <1>0, FS_Interval
  <2> QED BY <1>0, <2>1
<1>3. IsFiniteSet(S) /\ Cardinality(S) <= Cardinality(1..n)
  <2>1. S \in SUBSET (1..n)
    BY DEF n
  <2> QED BY <1>1, <2>1, FS_Subset
<1>4. Cardinality(S) \in Nat /\ Cardinality(S) <= n
  BY <1>2, <1>3, FS_CardinalityType
<1> DEFINE f == Picked(list, S)
<1>5. f = [k \in 1..Cardinality(S) |-> f[k]]
  BY DEF Picked
<1> HIDE DEF f
<1>6. f \in Seq(Range(f)) /\ Len(f) = Cardinality(S)
  BY <1>4, <1>5, FunctionIsList
<1>7. Cardinality(S) <= MAX_OFFSET
  <2>1. n <= MAX_OFFSET
    BY DEF n
  <2> QED BY <1>0, <1>4, <2>1
<1> QED BY <1>6, <1>7 DEF IsList, f

\* Each version's tables, in either order, and what the endpoints take from them.
LEMMA TablesAreLists ==
  ASSUME NEW v \in Versions, NEW r
  PROVE  LET d == Archive[v]
         IN  \A list \in {d.posts, d.threads, d.users, d.entries} :
               /\ Len(list) \in Nat /\ Len(list) <= MAX_OFFSET
               /\ Len(Reverse(list)) = Len(list)
               /\ Len(Ordered(list, r)) = Len(list)
<1> DEFINE d == Archive[v]
<1> SUFFICES ASSUME NEW list \in {d.posts, d.threads, d.users, d.entries}
             PROVE  /\ Len(list) \in Nat /\ Len(list) <= MAX_OFFSET
                    /\ Len(Reverse(list)) = Len(list) /\ Len(Ordered(list, r)) = Len(list)
  OBVIOUS
<1>1. list \in Seq(Range(list)) /\ Len(list) <= MAX_OFFSET
  BY ArchiveAssumption DEF Versions
<1> HIDE DEF d
<1>2. Len(list) \in Nat
  BY <1>1, LenProperties
<1>3. Len(Reverse(list)) = Len(list)
  BY <1>2, FunctionIsList DEF Reverse
<1> QED BY <1>1, <1>2, <1>3 DEF Ordered

LEMMA MatchesAreLists ==
  ASSUME NEW v \in Versions, NEW r
  PROVE  LET d == Archive[v]
         IN  /\ IsList(PostMatches(d, r)) /\ IsList(UserPosts(d, r))
             /\ IsList(ThreadMatches(d, r)) /\ IsList(PrefixUsers(d, r))
             /\ IsList(LikeUsers(d, r)) /\ IsList(UsersById(d, r))
             /\ IsList(Entries(d, r)) /\ IsList(ThreadPosts(d, r))
<1> DEFINE d == Archive[v]
<1>1. \A list \in {d.posts, d.threads, d.users, d.entries} :
        /\ Len(list) \in Nat /\ Len(list) <= MAX_OFFSET
        /\ Len(Reverse(list)) = Len(list)
        /\ Len(Ordered(list, r)) = Len(list)
  BY TablesAreLists
<1> HIDE DEF d
<1>2. \A list, S : /\ Len(list) \in Nat /\ Len(list) <= MAX_OFFSET
                   /\ S \subseteq 1..Len(list)
                   => IsList(Picked(list, S))
  BY PickedIs, ArchiveAssumption
<1>3. IsList(PostMatches(d, r)) /\ IsList(UserPosts(d, r))
  BY <1>1, <1>2 DEF PostMatches, UserPosts, Where
<1>4. IsList(ThreadMatches(d, r)) /\ IsList(Entries(d, r)) /\ IsList(ThreadPosts(d, r))
  BY <1>1, <1>2 DEF ThreadMatches, Entries, ThreadPosts, Where
<1>5. IsList(PrefixUsers(d, r)) /\ IsList(LikeUsers(d, r)) /\ IsList(UsersById(d, r))
  BY <1>1, <1>2 DEF PrefixUsers, LikeUsers, UsersById, Where
<1> QED BY <1>3, <1>4, <1>5 DEF d

LEMMA EverythingIsList ==
  ASSUME NEW v \in Versions, NEW r, r.kind \in Paged
  PROVE  IsList(Everything(v, r))
BY MatchesAreLists DEF Everything, Paged

-----------------------------------------------------------------------------
(* What a page shows                                                        *)

\* The answer is the page of n rows at o of a list, and says whether more follow.
Shows(a, list, o, n) ==
  /\ a.status = 200 /\ a.results = Slice(list, o, n) /\ a.total \in {NONE, Len(list)}
  /\ a.more = (o + n < Len(list)) /\ a.offset = o /\ a.limit = n

LEMMA CountedShows ==
  ASSUME NEW list, NEW r
  PROVE  Shows(Counted(list, r), list, Offset(r), Limit(r))
BY DEF Shows, Counted, OK

\* The row more that is fetched is not shown.
LEMMA OneMoreShows ==
  ASSUME NEW list, IsList(list), NEW r, Offset(r) \in Nat, Limit(r) \in Nat \ {0},
         NEW total \in {NONE, Len(list)}
  PROVE  Shows(OneMore(list, r, total), list, Offset(r), Limit(r))
<1> DEFINE o    == Offset(r)
           n    == Limit(r)
           len  == Len(list)
           rows == Slice(list, o, n + 1)
           to   == Min({n, Len(rows)})
           page == Slice(list, o, n)
           cut  == SubSeq(rows, 1, to)
<1>0. len \in Nat /\ o \in Nat /\ n \in Nat \ {0} /\ n + 1 \in Nat
  BY LenProperties DEF IsList
<1>1. OneMore(list, r, total) = OK(cut, total, Len(rows) > n, o, n)
  BY DEF OneMore
<1> HIDE DEF o, n
<1>2. /\ rows \in Seq(Range(list))
      /\ Len(rows) = IF o >= len THEN 0 ELSE IF o + (n + 1) <= len THEN n + 1 ELSE len - o
      /\ \A i \in 1..Len(rows) : rows[i] = list[o + i]
  BY <1>0, SliceIs
<1>3. /\ page \in Seq(Range(list))
      /\ Len(page) = IF o >= len THEN 0 ELSE IF o + n <= len THEN n ELSE len - o
      /\ \A i \in 1..Len(page) : page[i] = list[o + i]
  BY <1>0, SliceIs
<1> HIDE DEF rows, page, len
<1>4. Len(rows) \in Nat
  BY <1>0, <1>2
<1>5. to = IF n <= Len(rows) THEN n ELSE Len(rows)
  BY <1>0, <1>4, MinOfTwo
<1> HIDE DEF to
<1>6. to \in Nat /\ to = Len(page) /\ to <= Len(rows)
  BY <1>0, <1>2, <1>3, <1>4, <1>5
<1>7. \A i \in 1..to : rows[i] \in Range(list)
  BY <1>2, <1>4, <1>6, ElementOfSeq
<1>8. /\ cut \in Seq(Range(list)) /\ Len(cut) = IF 1 <= to THEN to - 1 + 1 ELSE 0
      /\ \A i \in 1..(to - 1 + 1) : cut[i] = rows[1 + i - 1]
  BY <1>6, <1>7, SubSeqProperties
<1> HIDE DEF cut
<1>9. Len(cut) = Len(page) /\ \A i \in 1..Len(cut) : cut[i] = page[i]
  <2>1. Len(cut) = to
    BY <1>6, <1>8
  <2>2. ASSUME NEW i \in 1..to
        PROVE  cut[i] = page[i]
    <3>1. i \in 1..(to - 1 + 1) /\ 1 + i - 1 = i /\ i \in 1..Len(rows) /\ i \in 1..Len(page)
      BY <1>4, <1>6
    <3> QED BY <1>2, <1>3, <1>8, <3>1
  <2> QED BY <1>6, <2>1, <2>2
<1>10. cut = page
  BY <1>3, <1>8, <1>9, SeqEqual
<1>11. (Len(rows) > n) = (o + n < len)
  BY <1>0, <1>2, <1>4
<1> QED BY <1>1, <1>10, <1>11 DEF Shows, OK, o, n, page, len

\* A request for a page, of something that is there.
Paging(v, r) ==
  /\ r.kind \in Paged /\ r.offset \in Int /\ Limit(r) \in Nat \ {0} /\ r.post = NONE
  /\ Archive[v].exists
  /\ r.kind = "thread" =>
       \E i \in 1..Len(Archive[v].threads) : Archive[v].threads[i].id = r.uid

LEMMA OffsetIs ==
  ASSUME NEW r, r.offset \in Int
  PROVE  Offset(r) \in 0..MAX_OFFSET /\ (r.offset \in 0..MAX_OFFSET => Offset(r) = r.offset)
<1>1. MAX_OFFSET \in Int /\ 0 \in Int /\ 0 <= MAX_OFFSET
  BY ArchiveAssumption
<1>2. Clamp(r.offset, 0, MAX_OFFSET) \in 0..MAX_OFFSET
      /\ (r.offset \in 0..MAX_OFFSET => Clamp(r.offset, 0, MAX_OFFSET) = r.offset)
  BY <1>1, ClampIs
<1> QED BY <1>2 DEF Offset

\* What search_users shows a page of: the list of the prefixes, unless there is
\* nothing of it on the page.
LEMMA UsersShown ==
  ASSUME NEW v \in Versions, NEW r, Paging(v, r), r.kind = "search_users"
  PROVE  \E list : /\ IsList(list)
                   /\ Shows(UsersAnswer(Archive[v], r), list, Offset(r), Limit(r))
                   /\ Offset(r) < Len(Everything(v, r)) \/ Len(Everything(v, r)) = 0
                        => list = Everything(v, r)
<1> DEFINE d == Archive[v]
           found == PrefixUsers(d, r)
           likes == LikeUsers(d, r)
           page == Counted(found, r).results
<1>1. IsList(UsersById(d, r)) /\ IsList(found) /\ IsList(likes)
  BY MatchesAreLists
<1>2. Offset(r) \in Nat /\ Limit(r) \in Nat \ {0} /\ Len(found) \in Nat
  BY <1>1, OffsetIs, LenProperties DEF Paging, IsList
<1>3. Everything(v, r) = IF By(r) = "user_id" THEN UsersById(d, r)
                         ELSE IF "users" \in d.fts /\ r.q # NONE /\ found # <<>>
                              THEN found ELSE likes
  BY DEF Everything
<1>4. UsersAnswer(d, r) = IF By(r) = "user_id" THEN Counted(UsersById(d, r), r)
                          ELSE IF "users" \in d.fts /\ r.q # NONE /\ page # <<>>
                               THEN Counted(found, r) ELSE Counted(likes, r)
  BY DEF UsersAnswer
<1>5. page = Slice(found, Offset(r), Limit(r))
  BY DEF Counted, OK
<1> HIDE DEF page, found, likes
<1>6. page = <<>> => found = <<>> \/ ~(Offset(r) < Len(found))
  <2> SUFFICES ASSUME page = <<>>, Offset(r) < Len(found) PROVE FALSE
    OBVIOUS
  <2>1. Limit(r) \in Nat
    BY <1>2
  <2>2. Len(page) = IF Offset(r) >= Len(found) THEN 0
                    ELSE IF Offset(r) + Limit(r) <= Len(found) THEN Limit(r)
                    ELSE Len(found) - Offset(r)
    BY <1>1, <1>2, <1>5, <2>1, SliceIs
  <2>3. Len(page) > 0
    BY <1>2, <2>2
  <2>4. Len(page) = 0
    OBVIOUS
  <2> QED BY <2>3, <2>4
<1>7. page # <<>> => found # <<>>
  <2> SUFFICES ASSUME page # <<>>, found = <<>> PROVE FALSE
    OBVIOUS
  <2>1. Len(found) = 0
    OBVIOUS
  <2>2. page \in Seq(Range(found)) /\ Len(page) = 0
    BY <1>1, <1>2, <1>5, <2>1, SliceIs
  <2> QED BY <2>2, EmptySeq
<1>8. Len(found) = 0 => found = <<>>
  BY <1>1, EmptySeq DEF IsList
<1>9. CASE By(r) = "user_id"
  BY <1>1, <1>3, <1>4, <1>9, CountedShows DEF d
<1>10. CASE By(r) # "user_id" /\ "users" \in d.fts /\ r.q # NONE /\ page # <<>>
  BY <1>1, <1>3, <1>4, <1>7, <1>10, CountedShows DEF d
<1>11. CASE By(r) # "user_id" /\ ~("users" \in d.fts /\ r.q # NONE /\ page # <<>>)
  <2>1. UsersAnswer(d, r) = Counted(likes, r)
    BY <1>4, <1>11
  <2>2. Offset(r) < Len(Everything(v, r)) \/ Len(Everything(v, r)) = 0 => likes = Everything(v, r)
    BY <1>3, <1>6, <1>8, <1>11
  <2> QED BY <1>1, <2>1, <2>2, CountedShows DEF d
<1> QED BY <1>9, <1>10, <1>11

\* Every page is one of a list, and of all that was searched for as long as there
\* is some of it left.
LEMMA PageShown ==
  ASSUME NEW v \in Versions, NEW r, Paging(v, r)
  PROVE  \E list : /\ IsList(list)
                   /\ Shows(Answer(v, r), list, Offset(r), Limit(r))
                   /\ Offset(r) < Len(Everything(v, r)) \/ Len(Everything(v, r)) = 0
                        => list = Everything(v, r)
<1> DEFINE d == Archive[v]
           list == Everything(v, r)
           a == Answer(v, r)
<1>1. IsList(list) /\ r.kind \in Paged
  BY EverythingIsList DEF Paging
<1>2. Offset(r) \in Nat /\ Limit(r) \in Nat \ {0} /\ Len(list) \in Nat
  BY <1>1, OffsetIs, LenProperties DEF Paging, IsList
<1>3. CASE r.kind = "posts"
  <2>1. list = PostMatches(d, r) /\ a = OneMore(list, r, IF r.q = NONE THEN NONE ELSE Len(list))
    BY <1>3 DEF Everything, Answer, PostsAnswer, Paging
  <2> HIDE DEF list, a
  <2>2. Shows(a, list, Offset(r), Limit(r))
    BY <1>1, <1>2, <2>1, OneMoreShows
  <2> QED BY <1>1, <2>2 DEF list, a
<1>4. CASE r.kind = "user_posts"
  <2>1. list = UserPosts(d, r) /\ a = OneMore(list, r, NONE)
    BY <1>4 DEF Everything, Answer, UserPostsAnswer, Paging
  <2> HIDE DEF list, a
  <2>2. Shows(a, list, Offset(r), Limit(r))
    BY <1>1, <1>2, <2>1, OneMoreShows
  <2> QED BY <1>1, <2>2 DEF list, a
<1>5. CASE r.kind = "threads"
  <2>1. a = Counted(list, r)
    BY <1>5 DEF Everything, Answer, ThreadsAnswer, Paging
  <2> QED BY <1>1, <2>1, CountedShows
<1>6. CASE r.kind = "reputation"
  <2>1. a = Counted(list, r)
    BY <1>6 DEF Everything, Answer, ReputationAnswer, Paging
  <2> QED BY <1>1, <2>1, CountedShows
<1>7. CASE r.kind = "search_users"
  <2>1. a = UsersAnswer(d, r)
    BY <1>7 DEF Answer, Paging
  <2> QED BY <1>7, <2>1, UsersShown
<1>8. CASE r.kind = "thread"
  <2>1. list = ThreadPosts(d, r) /\ Limit(r) # NONE
    BY <1>2, <1>8, SearchAssumption DEF Everything
  <2>2. a = ThreadAnswer(d, r)
    BY <1>8 DEF Answer, Paging
  <2>3. a = OK(Slice(list, Offset(r), Limit(r)), Len(list), Offset(r) + Limit(r) < Len(list),
               Offset(r), Limit(r))
    BY <1>8, <2>1, <2>2 DEF ThreadAnswer, Paging
  <2> HIDE DEF list, a
  <2>4. Shows(a, list, Offset(r), Limit(r))
    BY <2>3 DEF Shows, OK
  <2> QED BY <1>1, <2>4 DEF list, a
<1> QED BY <1>1, <1>3, <1>4, <1>5, <1>6, <1>7, <1>8 DEF Paged

\* bounded_int of the limit, where one is given.
LEMMA LimitGiven ==
  ASSUME NEW r \in Requests, r.limit # NONE
  PROVE  Limit(r) \in Nat \ {0}
<1>1. r.limit \in Int /\ 1 \in Int /\ MAX_LIMIT \in Int /\ 1 <= MAX_LIMIT
  BY ArchiveAssumption
<1>2. Clamp(r.limit, 1, MAX_LIMIT) \in 1..MAX_LIMIT
  BY <1>1, ClampIs
<1> QED BY <1>1, <1>2 DEF Limit

\* What the properties speak of, a request under way that is answered, asks for
\* a page.
LEMMA WalkableIsPaging ==
  ASSUME WorkerInv, NEW r \in Walkable
  PROVE  version \in Versions /\ r \in Requests /\ Paging(version, r)
<1>1. r \in Requests
  <2>1. PICK t \in Threads : r = req[t] /\ r # NONE
    BY DEF Walkable
  <2> QED BY <2>1 DEF WorkerInv, ThreadTypes
<1>2. version \in Versions
  BY DEF WorkerInv, ServiceInv
<1>3. r.kind \in Paged /\ Limit(r) # NONE /\ r.post = NONE /\ Answer(version, r).status = 200
  BY DEF Walkable
<1>4. r.offset \in Int /\ r.limit \in Int \cup {NONE}
  BY <1>1, ArchiveAssumption
<1>5. Limit(r) \in Nat \ {0}
  <2>1. CASE r.limit # NONE
    BY <1>1, <2>1, LimitGiven
  <2>2. CASE r.limit = NONE
    BY <1>3, <2>2, ArchiveAssumption DEF Limit
  <2> QED BY <2>1, <2>2
<1>6. Archive[version].exists
  BY <1>3 DEF Answer, Refused, Paged
<1>7. r.kind = "thread" =>
        \E i \in 1..Len(Archive[version].threads) : Archive[version].threads[i].id = r.uid
  <2> SUFFICES ASSUME r.kind = "thread",
                      \A i \in 1..Len(Archive[version].threads) :
                        Archive[version].threads[i].id # r.uid
               PROVE  FALSE
    OBVIOUS
  <2>1. Answer(version, r) = ThreadAnswer(Archive[version], r)
    BY <1>6 DEF Answer
  <2>2. Answer(version, r) = Refused(404)
    BY <2>1 DEF ThreadAnswer
  <2> QED BY <1>3, <2>2 DEF Refused
<1> QED BY <1>1, <1>2, <1>3, <1>4, <1>5, <1>6, <1>7 DEF Paging

(* An answer counts the list it shows a page of: whatever the tables hold   *)
(* and whatever page is asked for, its results lie within the total at the  *)
(* offset, also when the search for prefixes has given way to the search    *)
(* for substrings (search_users and the other endpoints that page).         *)
THEOREM PagesFitTotals == Spec => []PageFitsTotal
<1>1. WorkerInv => PageFitsTotal
  <2> SUFFICES ASSUME WorkerInv, NEW r \in Walkable, Answer(version, r).total # NONE
               PROVE  LET a == Answer(version, r)
                      IN  Len(a.results) = Max({0, Min({a.limit, a.total - a.offset})})
    BY DEF PageFitsTotal
  <2> DEFINE a == Answer(version, r)
             o == Offset(r)
             n == Limit(r)
             rest == Min({a.limit, a.total - a.offset})
  <2>1. version \in Versions /\ Paging(version, r)
    BY WalkableIsPaging
  <2>2. PICK list : IsList(list) /\ Shows(a, list, o, n)
    BY <2>1, PageShown
  <2>3. o \in Nat /\ n \in Nat /\ Len(list) \in Nat
    BY <2>1, <2>2, OffsetIs, LenProperties DEF Paging, IsList
  <2>4. a.results = Slice(list, o, n) /\ a.limit = n /\ a.offset = o /\ a.total = Len(list)
    BY <2>2 DEF Shows
  <2> HIDE DEF a, o, n
  <2>5. Len(a.results) = IF o >= Len(list) THEN 0
                         ELSE IF o + n <= Len(list) THEN n ELSE Len(list) - o
    <3>1. IsList(list) /\ o \in Nat /\ n \in Nat
      BY <2>2, <2>3
    <3>2. Len(Slice(list, o, n)) = IF o >= Len(list) THEN 0
                                   ELSE IF o + n <= Len(list) THEN n ELSE Len(list) - o
      BY <3>1, SliceIs
    <3> QED BY <2>4, <3>2
  <2>6. Len(list) - o \in Int
    BY <2>3
  <2>7. rest = IF n <= Len(list) - o THEN n ELSE Len(list) - o
    BY <2>3, <2>4, <2>6, MinOfTwo
  <2>8. rest \in Int
    BY <2>3, <2>6, <2>7
  <2> HIDE DEF rest
  <2>9. Max({0, rest}) = IF 0 >= rest THEN 0 ELSE rest
    BY <2>8, MaxOfTwo
  <2>10. Len(a.results) = Max({0, rest})
    BY <2>3, <2>5, <2>7, <2>8, <2>9
  <2> QED BY <2>10 DEF rest, a
<1> QED BY <1>1, WorkerInvariant, PTL

\* The page that a row is on.
LEMMA RowOnPage ==
  ASSUME NEW list, IsList(list), NEW x \in 1..Len(list), NEW n \in Nat \ {0}
  PROVE  LET page == Slice(list, ((x - 1) \div n) * n, n)
         IN  \E i \in 1..Len(page) : page[i] = list[x]
<1> DEFINE at == ((x - 1) \div n) * n
           page == Slice(list, at, n)
<1>0. Len(list) \in Nat
  BY LenProperties DEF IsList
<1>1. x - 1 \in Nat /\ n \in Nat
  BY <1>0
<1>2. at \in Nat /\ at <= x - 1 /\ x - 1 < at + n
  BY <1>1, Quotient
<1> HIDE DEF at
<1>3. /\ Len(page) = IF at >= Len(list) THEN 0
                     ELSE IF at + n <= Len(list) THEN n ELSE Len(list) - at
      /\ \A i \in 1..Len(page) : page[i] = list[at + i]
  BY <1>1, <1>2, SliceIs
<1> HIDE DEF page
<1>4. x - at \in 1..Len(page) /\ at + (x - at) = x
  BY <1>0, <1>1, <1>2, <1>3
<1>5. page[x - at] = list[x]
  BY <1>3, <1>4
<1> QED BY <1>4, <1>5 DEF page, at

\* What get_thread answers to a link.
LEMMA LinkAnswer ==
  ASSUME NEW v, NEW r, r.kind = "thread", Answer(v, r).status = 200,
         Limit(r) # NONE, r.post # NONE, Rows(Archive[v], r) # {}
  PROVE  Answer(v, r).results =
           Slice(ThreadPosts(Archive[v], r),
                 ((Max(Rows(Archive[v], r)) - 1) \div Limit(r)) * Limit(r), Limit(r))
<1> DEFINE d == Archive[v]
           posts == ThreadPosts(d, r)
           n == Limit(r)
           at == ((Max(Rows(d, r)) - 1) \div n) * n
<1>1. d.exists
  BY DEF Answer, Refused
<1>2. Answer(v, r) = ThreadAnswer(d, r)
  BY <1>1 DEF Answer
<1>3. ThreadAnswer(d, r).status = 200
  BY <1>2
<1>4. ~ \A i \in 1..Len(d.threads) : d.threads[i].id # r.uid
  BY <1>3 DEF ThreadAnswer, Refused
<1>5. ThreadAnswer(d, r) = OK(Slice(posts, at, n), Len(posts), at + n < Len(posts), at, n)
  BY <1>4 DEF ThreadAnswer, JumpOffset
<1> QED BY <1>2, <1>5 DEF OK

\* The indices of rows with an id, the offset of the page of the last of them, and a page
\* that shows the id.
RowsWith(list, rows, id) ==
  rows \subseteq 1..Len(list) /\ rows # {} /\ \A i \in rows : list[i].id = id
PageOffset(rows, n) == ((Max(rows) - 1) \div n) * n
ShowsId(page, id) == \E i \in 1..Len(page) : page[i].id = id

\* The page of the last of the rows with an id shows one of them.
LEMMA RowsOnPage ==
  ASSUME NEW list, IsList(list), NEW n \in Nat \ {0}, NEW id, NEW rows, RowsWith(list, rows, id)
  PROVE  ShowsId(Slice(list, PageOffset(rows, n), n), id)
<1> DEFINE x == Max(rows)
<1>1. Len(list) \in Nat
  BY LenProperties DEF IsList
<1>2. rows \in SUBSET (0..Len(list)) /\ rows \in SUBSET (1..Len(list)) /\ rows # {}
  BY <1>1 DEF RowsWith
<1>3. x \in rows
  BY <1>1, <1>2, Largest
<1> HIDE DEF x
<1>4. x \in 1..Len(list) /\ list[x].id = id
  BY <1>2, <1>3 DEF RowsWith
<1> DEFINE shown == Slice(list, ((x - 1) \div n) * n, n)
<1>5. \E i \in 1..Len(shown) : shown[i] = list[x]
  BY <1>4, RowOnPage
<1> HIDE DEF shown
<1>6. \E i \in 1..Len(shown) : shown[i].id = id
  BY <1>4, <1>5
<1>7. Slice(list, PageOffset(rows, n), n) = shown
  BY DEF shown, x, PageOffset
<1> QED BY <1>6, <1>7 DEF ShowsId

\* The page that a link opens shows the post.
LEMMA JumpShows ==
  ASSUME NEW v \in Versions, NEW r \in Requests, r.kind = "thread", Answer(v, r).status = 200,
         Limit(r) # NONE, r.post # NONE, Rows(Archive[v], r) # {}
  PROVE  LET a == Answer(v, r)
         IN  \E i \in 1..Len(a.results) : a.results[i].id = r.post
<1> DEFINE posts == ThreadPosts(Archive[v], r)
           rows == Rows(Archive[v], r)
           n == Limit(r)
           id == r.post
           page == Slice(posts, PageOffset(rows, n), n)
<1>1. n \in Nat \ {0}
  BY LimitGiven DEF Limit
<1>2. IsList(posts)
  BY MatchesAreLists
<1>3. RowsWith(posts, rows, id)
  BY DEF Rows, RowsWith
<1>4. Answer(v, r).results = page
  BY LinkAnswer DEF PageOffset
<1> HIDE DEF posts, rows, n, id
<1>5. ShowsId(page, id)
  BY <1>1, <1>2, <1>3, RowsOnPage
<1> HIDE DEF page
<1> QED BY <1>4, <1>5 DEF id, ShowsId

(* A link to a post opens the page of its thread that shows the post,       *)
(* whatever offset the link carries and however long the thread is          *)
(* (get_thread, which counts the posts before it).                          *)
THEOREM LinksShowPosts == Spec => []JumpShowsPost
<1>1. WorkerInv => JumpShowsPost
  <2> SUFFICES ASSUME WorkerInv, NEW t \in Threads, req[t] # NONE, ~Invalid(req[t]),
                      req[t].kind = "thread", Answer(version, req[t]).status = 200,
                      Limit(req[t]) # NONE, req[t].post # NONE,
                      Rows(Archive[version], req[t]) # {}
               PROVE  LET a == Answer(version, req[t])
                      IN  \E i \in 1..Len(a.results) : a.results[i].id = req[t].post
    BY DEF JumpShowsPost
  <2>1. version \in Versions /\ req[t] \in Requests
    BY DEF WorkerInv, ServiceInv, ThreadTypes
  <2> QED BY <2>1, JumpShows
<1> QED BY <1>1, WorkerInvariant, PTL

-----------------------------------------------------------------------------
(* Paging as long as there is more                                          *)

\* As long as there is some of it left, page n is what follows n pages.
LEMMA PageOfWalk ==
  ASSUME NEW v \in Versions, NEW r \in Requests, Paging(v, r), NEW n \in Nat,
         n = 0 \/ n * Limit(r) < Len(Everything(v, r))
  PROVE  Shows(Page(v, r, n), Everything(v, r), n * Limit(r), Limit(r))
<1> DEFINE o == n * Limit(r)
           s == [r EXCEPT !.offset = o]
           len == Len(Everything(v, r))
<1>1. /\ s.kind = r.kind /\ s.q = r.q /\ s.uid = r.uid /\ s.thread = r.thread /\ s.tag = r.tag
      /\ s.by = r.by /\ s.order = r.order /\ s.op = r.op /\ s.post = r.post /\ s.limit = r.limit
      /\ s.offset = o
  BY SearchAssumption
<1>2. Page(v, r, n) = Answer(v, s)
  BY DEF Page
<1> HIDE DEF s
<1>3. SameList(r, s)
  BY <1>1 DEF SameList, Limit, By
<1>4. Everything(v, s) = Everything(v, r) /\ Limit(s) = Limit(r)
  <2>1. LET d == Archive[v]
        IN  /\ PostMatches(d, r) = PostMatches(d, s)
            /\ UserPosts(d, r) = UserPosts(d, s)
            /\ ThreadMatches(d, r) = ThreadMatches(d, s)
            /\ PrefixUsers(d, r) = PrefixUsers(d, s)
            /\ LikeUsers(d, r) = LikeUsers(d, s)
            /\ UsersById(d, r) = UsersById(d, s)
            /\ Entries(d, r) = Entries(d, s)
            /\ ThreadPosts(d, r) = ThreadPosts(d, s)
    BY <1>3, ListsAlike
  <2> QED BY <1>3, <2>1 DEF Everything, SameList
<1>5. len \in Nat /\ len <= MAX_OFFSET /\ Limit(r) \in Nat \ {0}
  <2>1. IsList(Everything(v, r))
    BY EverythingIsList DEF Paging
  <2> QED BY <2>1, LenProperties DEF IsList, Paging
<1>6. o \in Nat /\ (o < len \/ len = 0 \/ o = 0)
  BY <1>5
<1>7. Offset(s) = o /\ s.offset \in Int
  <2>1. MAX_OFFSET \in Nat
    BY ArchiveAssumption
  <2>2. o \in 0..MAX_OFFSET
    BY <1>5, <2>1
  <2> HIDE DEF o
  <2> QED BY <1>1, <2>2, OffsetIs
<1>8. Paging(v, s)
  BY <1>1, <1>4, <1>7 DEF Paging
<1>9. PICK list : /\ Shows(Answer(v, s), list, Offset(s), Limit(s))
                  /\ Offset(s) < Len(Everything(v, s)) \/ Len(Everything(v, s)) = 0
                       => list = Everything(v, s)
  BY <1>8, PageShown
<1>10. o < len \/ len = 0
  BY <1>5, <1>6
<1>11. list = Everything(v, r)
  BY <1>4, <1>7, <1>9, <1>10
<1> QED BY <1>2, <1>4, <1>7, <1>9, <1>11

\* The number of the last page of a list, the first that reaches its end.
LEMMA LastPageExists ==
  ASSUME NEW len \in Nat, NEW n \in Nat \ {0}
  PROVE  \E m \in 0..len : len <= m * n + n /\ \A k \in 0..(m - 1) : k * n + n < len
<1> DEFINE S == {k \in 0..len : len <= k * n + n}
<1>1. len \in S
  <2>1. len <= len * n /\ len * n \in Nat
    BY AtLeastAsMany
  <2> QED BY <2>1
<1>2. S \subseteq Nat /\ S # {}
  BY <1>1
<1>3. PICK m \in S : \A k \in S : m <= k
  <2> HIDE DEF S
  <2> QED BY <1>2, Least
<1>4. ASSUME NEW k \in 0..(m - 1)
      PROVE  k * n + n < len
  <2>1. k \in 0..len /\ ~(m <= k)
    BY <1>3
  <2>2. ~(len <= k * n + n)
    BY <1>3, <2>1
  <2>3. k * n \in Int
    BY <2>1
  <2> QED BY <2>2, <2>3
<1> QED BY <1>3, <1>4

\* What pages 0 to k show of a list.
Seen(list, n, k) == SubSeq(list, 1, Min({k * n + n, Len(list)}))

LEMMA SeenGrows ==
  ASSUME NEW list, IsList(list), NEW n \in Nat \ {0}, NEW k \in Nat,
         k = 0 \/ k * n < Len(list)
  PROVE  /\ k = 0 => Seen(list, n, k) = Slice(list, k * n, n)
         /\ k # 0 => Seen(list, n, k) = Seen(list, n, k - 1) \o Slice(list, k * n, n)
<1> DEFINE o   == k * n
           len == Len(list)
           to  == Min({o + n, len})
<1>0. len \in Nat /\ o \in Nat /\ list \in Seq(Range(list))
  BY LenProperties DEF IsList
<1>1. Slice(list, o, n) = SubSeq(list, o + 1, to) /\ Seen(list, n, k) = SubSeq(list, 1, to)
  BY DEF Slice, Seen
<1>2. CASE k = 0
  <2>1. o + 1 = 1
    BY <1>2
  <2> HIDE DEF o, to
  <2>2. Seen(list, n, k) = Slice(list, o, n)
    BY <1>1, <2>1
  <2> QED BY <1>2, <2>2 DEF o
<1>3. CASE k # 0
  <2>1. (k - 1) * n + n = o /\ o < len
    <3>1. k - 1 \in Int /\ n \in Int
      OBVIOUS
    <3>2. (k - 1 + 1) * n = (k - 1) * n + n
      BY <3>1, NextMultiple
    <3> QED BY <1>3, <3>2
  <2>2. Seen(list, n, k - 1) = SubSeq(list, 1, Min({o, len}))
    BY <2>1 DEF Seen
  <2> HIDE DEF o, len
  <2>3. Min({o, len}) = o
    BY <1>0, <2>1, MinOfTwo
  <2>4. to = IF o + n <= len THEN o + n ELSE len
    BY <1>0, MinOfTwo
  <2> HIDE DEF to
  <2>5. o \in 1 - 1..len /\ to \in o..len /\ 1 \in 1..len + 1
    BY <1>0, <2>1, <2>4
  <2>6. SubSeq(list, 1, o) \o SubSeq(list, o + 1, to) = SubSeq(list, 1, to)
    BY <1>0, <2>5, ConcatAdjacentSubSeq DEF len
  <2>7. Seen(list, n, k - 1) \o Slice(list, o, n) = Seen(list, n, k)
    BY <1>1, <2>2, <2>3, <2>6
  <2> QED BY <1>3, <2>7 DEF o
<1> QED BY <1>2, <1>3

\* The pages put together, page by page.
Joined(v, r, m) ==
  CHOOSE pages : pages = [n \in 0..m |->
    IF n = 0 THEN Page(v, r, 0).results ELSE pages[n - 1] \o Page(v, r, n).results]

LEMMA WalkJoins ==
  ASSUME NEW v, NEW r
  PROVE  Walk(v, r) = Joined(v, r, LastPage(v, r))[LastPage(v, r)]
BY DEF Walk, Joined

LEMMA JoinedIsSeen ==
  ASSUME NEW v, NEW r, NEW list, IsList(list), NEW n \in Nat \ {0}, NEW m \in Nat,
         \A k \in 0..m : /\ Page(v, r, k).results = Slice(list, k * n, n)
                         /\ k = 0 \/ k * n < Len(list)
  PROVE  Joined(v, r, m)[m] = Seen(list, n, m)
<1> DEFINE Step(p) == [k \in 0..m |->
             IF k = 0 THEN Page(v, r, 0).results ELSE p[k - 1] \o Page(v, r, k).results]
           seen == [k \in 0..m |-> Seen(list, n, k)]
           walk == Joined(v, r, m)
<1>1. \A k \in 0..m : seen[k] = IF k = 0 THEN Page(v, r, 0).results
                                ELSE seen[k - 1] \o Page(v, r, k).results
  <2> TAKE k \in 0..m
  <2>1. /\ k = 0 => Seen(list, n, k) = Slice(list, k * n, n)
        /\ k # 0 => Seen(list, n, k) = Seen(list, n, k - 1) \o Slice(list, k * n, n)
    BY SeenGrows
  <2>2. Page(v, r, k).results = Slice(list, k * n, n)
    OBVIOUS
  <2>3. seen[k] = Seen(list, n, k)
    OBVIOUS
  <2>4. k # 0 => seen[k - 1] = Seen(list, n, k - 1)
    OBVIOUS
  <2> HIDE DEF seen
  <2> QED BY <2>1, <2>2, <2>3, <2>4
<1>2. seen = Step(seen)
  BY <1>1
<1>3. walk = Step(walk)
  BY <1>2 DEF Joined
<1> HIDE DEF seen, walk
<1>4. \A k \in 0..m : walk[k] = IF k = 0 THEN Page(v, r, 0).results
                                ELSE walk[k - 1] \o Page(v, r, k).results
  BY <1>3
<1>5. \A k \in 0..m : walk[k] = seen[k]
  <2> DEFINE S == {k \in 0..m : walk[k] # seen[k]}
  <2> SUFFICES ASSUME S # {} PROVE FALSE
    OBVIOUS
  <2>1. S \subseteq Nat
    OBVIOUS
  <2>2. PICK k \in S : \A j \in S : k <= j
    <3> HIDE DEF S
    <3> QED BY <2>1, Least
  <2>3. k \in 0..m /\ walk[k] # seen[k]
    BY <2>2
  <2>4. k # 0
    BY <1>1, <1>4, <2>3
  <2>5. k - 1 \in 0..m /\ ~(k <= k - 1)
    BY <2>3, <2>4
  <2>6. walk[k - 1] = seen[k - 1]
    BY <2>2, <2>5
  <2> QED BY <1>1, <1>4, <2>3, <2>4, <2>6
<1> QED BY <1>5 DEF walk, seen

\* The walk of a client that stops at the first page with nothing after it.
LEMMA WalkIsEverything ==
  ASSUME NEW v \in Versions, NEW r \in Requests, Paging(v, r)
  PROVE  Walk(v, r) = Everything(v, r)
<1> DEFINE list == Everything(v, r)
           len == Len(list)
           n == Limit(r)
<1>1. IsList(list) /\ n \in Nat \ {0}
  BY EverythingIsList DEF Paging
<1>2. len \in Nat /\ list \in Seq(Range(list))
  BY <1>1, LenProperties DEF IsList
<1>3. PICK m \in 0..len : len <= m * n + n /\ \A k \in 0..(m - 1) : k * n + n < len
  <2> HIDE DEF n, len
  <2> QED BY <1>1, <1>2, LastPageExists
<1>4. \A k \in 0..m : k = 0 \/ k * n < len
  <2> SUFFICES ASSUME NEW k \in 0..m, k # 0 PROVE k * n < len
    OBVIOUS
  <2>1. k - 1 \in 0..(m - 1) /\ k - 1 \in Int /\ n \in Int
    BY <1>1, <1>2, <1>3
  <2>2. (k - 1) * n + n < len
    BY <1>3, <2>1
  <2>3. (k - 1 + 1) * n = (k - 1) * n + n
    BY <2>1, NextMultiple
  <2>4. k - 1 + 1 = k
    BY <2>1
  <2> QED BY <2>2, <2>3, <2>4
<1>5. \A k \in 0..m : Shows(Page(v, r, k), list, k * n, n)
  <2> TAKE k \in 0..m
  <2>1. k \in Nat /\ (k = 0 \/ k * n < len)
    BY <1>3, <1>4
  <2> QED BY <2>1, PageOfWalk
<1>6. \A k \in 0..m : Page(v, r, k).results = Slice(list, k * n, n)
                      /\ Page(v, r, k).more = (k * n + n < len)
  BY <1>5 DEF Shows
<1>7. ~Page(v, r, m).more /\ \A k \in 0..(m - 1) : Page(v, r, k).more
  <2>1. m \in 0..m /\ m * n \in Int /\ \A k \in 0..(m - 1) : k \in 0..m
    BY <1>1, <1>2, <1>3
  <2>2. ~(m * n + n < len)
    BY <1>1, <1>2, <1>3, <2>1
  <2> QED BY <1>3, <1>6, <2>1, <2>2
<1>8. LastPage(v, r) = m
  <2> DEFINE Ends(k) == ~Page(v, r, k).more /\ \A j \in 0..(k - 1) : Page(v, r, j).more
  <2>1. Ends(m)
    BY <1>7
  <2>2. ASSUME NEW k \in 0..len, Ends(k)
        PROVE  k = m
    <3>1. ~(k \in 0..(m - 1)) /\ ~(m \in 0..(k - 1))
      BY <1>7, <2>2
    <3>2. k \in Nat /\ m \in Nat
      BY <1>2, <1>3
    <3> QED BY <3>1, <3>2
  <2>3. LastPage(v, r) = CHOOSE k \in 0..len : Ends(k)
    BY DEF LastPage
  <2> HIDE DEF Ends
  <2> QED BY <1>3, <2>1, <2>2, <2>3
<1>9. m \in Nat
  BY <1>2, <1>3
<1>10. Walk(v, r) = Joined(v, r, m)[m]
  BY <1>8, WalkJoins
<1> HIDE DEF list, n
<1>11. Joined(v, r, m)[m] = Seen(list, n, m)
  BY <1>1, <1>4, <1>6, <1>9, JoinedIsSeen
<1>12. Seen(list, n, m) = list
  <2>1. m * n + n \in Int /\ len \in Int
    BY <1>1, <1>2, <1>9
  <2>2. Min({m * n + n, len}) = IF m * n + n <= len THEN m * n + n ELSE len
    BY <2>1, MinOfTwo
  <2>3. Min({m * n + n, len}) = len
    BY <1>3, <2>1, <2>2
  <2>4. SubSeq(list, 1, Len(list)) = list
    BY <1>2, SubSeqFull
  <2> QED BY <2>3, <2>4 DEF Seen
<1> QED BY <1>10, <1>11, <1>12 DEF list

(* Paging as long as an answer says that there is more shows every match    *)
(* once and in order, whatever the page size and however many matches there *)
(* are (has_more and total of every endpoint that pages): no match is       *)
(* skipped or shown twice where two pages meet, and the last page is the    *)
(* first that does not promise another.                                     *)
THEOREM WalksAreComplete == Spec => []WalkComplete
<1>1. WorkerInv => WalkComplete
  <2> SUFFICES ASSUME WorkerInv, NEW r \in Walkable
               PROVE  /\ Walk(version, r) = Everything(version, r)
                      /\ Page(version, r, 0).total \in {NONE, Len(Everything(version, r))}
    BY DEF WalkComplete
  <2>1. version \in Versions /\ r \in Requests /\ Paging(version, r)
    BY WalkableIsPaging
  <2>2. Walk(version, r) = Everything(version, r)
    BY <2>1, WalkIsEverything
  <2>3. Shows(Page(version, r, 0), Everything(version, r), 0 * Limit(r), Limit(r))
    BY <2>1, PageOfWalk
  <2> QED BY <2>2, <2>3 DEF Shows
<1> QED BY <1>1, WorkerInvariant, PTL
=============================================================================
