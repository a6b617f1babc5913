--------------------------- MODULE ReplyTreeProofs ---------------------------
(***************************************************************************)
(* That _thread_parser files every quoting post of scripts/thread_parser.py *)
(* where it belongs, and that _build_thread_rows stores every post but the  *)
(* lost ones, for every thread, whatever its pages hold and however its     *)
(* page files are numbered.                                                 *)
(***************************************************************************)
EXTENDS ReplyTree, SequenceTheorems, FiniteSetTheorems, TLAPS

Found == [info : Posts, page : PageNumbers]

\* The pages are read in the order of their numbers.
OrderInv ==
  /\ posts \in Seq(Found) /\ unread \subseteq PageNumbers
  /\ page \in PageNumbers \cup {NONE}
  /\ page # NONE => \A n \in unread : page < n
  /\ \A i \in 1..Len(posts) : page # NONE /\ posts[i].page <= page
  /\ \A i, j \in 1..Len(posts) : i <= j => posts[i].page <= posts[j].page

IsOf(s, i, key) == key \in Keys(s[i].info)

\* i is the last of the first j posts of s that key stands for, or 0.
LastOf(s, i, j, key) ==
  /\ i \in 0..j
  /\ i # 0 => IsOf(s, i, key)
  /\ \A k \in (i + 1)..j : ~IsOf(s, k, key)

Marks == Dates \X (Names \cup Starts \cup {NONE})

\* The dictionary holds the last post of every key.
PosInv ==
  /\ DOMAIN posts_pos = Marks
  /\ \A key \in Marks : LastOf(posts, posts_pos[key], Len(posts), key)

\* Where post j of s belongs when it quotes, and is filed.
Belongs(s, where, j) ==
  LET quote == s[j].info.quote
  IN  where # ROOT /\ quote # NONE =>
        \E a, b \in 0..j :
          /\ LastOf(s, a, j, <<quote.date, quote.to>>)
          /\ LastOf(s, b, j, <<quote.date, quote.start>>)
          /\ where = IF a # 0 THEN a ELSE IF b # 0 THEN b ELSE MISSING

FiledInv ==
  /\ filed \in Seq(Int) /\ Len(filed) = Len(posts)
  /\ \A j \in 1..Len(posts) : Belongs(posts, filed[j], j)

ReplyInv == OrderInv /\ PosInv /\ FiledInv

-----------------------------------------------------------------------------
LEMMA ReplyStarts == Init => ReplyInv
<1> SUFFICES ASSUME Init PROVE ReplyInv
  OBVIOUS
<1>1. posts = <<>> /\ filed = <<>> /\ Len(posts) = 0 /\ Len(filed) = 0
  BY DEF Init
<1>2. OrderInv
  BY <1>1 DEF Init, OrderInv
<1>3. PosInv
  BY <1>1 DEF Init, PosInv, Marks, LastOf
<1>4. FiledInv
  BY <1>1 DEF FiledInv
<1> QED BY <1>2, <1>3, <1>4 DEF ReplyInv

LEMMA TurnOrder ==
  ASSUME ReplyInv, NEW n \in PageNumbers, TurnPage(n)
  PROVE  ReplyInv'
<1>1. /\ n \in unread /\ page' = n /\ unread' = unread \ {n}
      /\ \A m \in unread : n <= m
      /\ UNCHANGED <<posts, posts_pos, filed>>
  BY DEF TurnPage, First
<1>2. n # NONE /\ n \in Nat /\ PageNumbers \subseteq Nat
  BY TreeAssumption
<1>3. \A m \in unread' : n < m
  BY <1>1, <1>2 DEF ReplyInv, OrderInv
<1>4. ASSUME NEW i \in 1..Len(posts)
      PROVE  posts[i].page <= n
  <2>1. page # NONE /\ posts[i].page <= page /\ page < n
    BY <1>1 DEF ReplyInv, OrderInv
  <2>2. page \in PageNumbers \cup {NONE} /\ posts[i] \in Found
    BY ElementOfSeq DEF ReplyInv, OrderInv
  <2>3. page \in Nat /\ posts[i].page \in Nat
    BY <1>2, <2>1, <2>2 DEF Found
  <2> QED BY <2>1, <2>2, <2>3, <1>2
<1>5. OrderInv'
  BY <1>1, <1>2, <1>3, <1>4 DEF ReplyInv, OrderInv
<1>6. PosInv' /\ FiledInv'
  BY <1>1 DEF ReplyInv, PosInv, FiledInv, Belongs
<1> QED BY <1>5, <1>6 DEF ReplyInv

\* The next post: where it stands, and what it leaves as it was.
LEMMA Appended ==
  ASSUME ReplyInv, NEW p \in Posts, Read(p)
  PROVE  /\ Len(posts) \in Nat /\ Len(posts') = Len(posts) + 1
         /\ posts'[Len(posts) + 1] = [info |-> p, page |-> page]
         /\ \A i \in 1..Len(posts) : posts'[i] = posts[i]
         /\ page \in PageNumbers /\ posts' \in Seq(Found)
<1>1. posts' = Append(posts, [info |-> p, page |-> page]) /\ page # NONE
  BY DEF Read
<1>2. posts \in Seq(Found) /\ page \in PageNumbers
  BY <1>1 DEF ReplyInv, OrderInv
<1> QED BY <1>1, <1>2 DEF Found

LEMMA ReadOrder ==
  ASSUME ReplyInv, NEW p \in Posts, Read(p)
  PROVE  OrderInv' /\ PosInv'
<1>1. /\ Len(posts) \in Nat /\ Len(posts') = Len(posts) + 1
      /\ posts'[Len(posts) + 1] = [info |-> p, page |-> page]
      /\ \A i \in 1..Len(posts) : posts'[i] = posts[i]
      /\ page \in PageNumbers /\ posts' \in Seq(Found)
  BY Appended
<1>2. UNCHANGED <<unread, page>> /\ posts_pos' = Known(p) /\ page # NONE
  BY DEF Read
<1>3. OrderInv'
  <2>1. \A i \in 1..Len(posts') : posts'[i].page <= page
    BY <1>1, TreeAssumption DEF ReplyInv, OrderInv
  <2>2. ASSUME NEW i \in 1..Len(posts'), NEW j \in 1..Len(posts'), i <= j
        PROVE  posts'[i].page <= posts'[j].page
    <3>1. CASE j = Len(posts) + 1
      BY <1>1, <2>1, <3>1
    <3>2. CASE j # Len(posts) + 1
      <4>1. i \in 1..Len(posts) /\ j \in 1..Len(posts)
        BY <1>1, <2>2, <3>2
      <4> QED BY <1>1, <2>2, <4>1 DEF ReplyInv, OrderInv
    <3> QED BY <3>1, <3>2
  <2> QED BY <1>1, <1>2, <2>1, <2>2 DEF ReplyInv, OrderInv
<1>4. PosInv'
  <2>1. DOMAIN posts_pos' = Marks
    BY <1>2 DEF ReplyInv, PosInv, Known
  <2>2. ASSUME NEW key \in Marks
        PROVE  LastOf(posts', posts_pos'[key], Len(posts'), key)
    <3>1. LastOf(posts, posts_pos[key], Len(posts), key)
      BY DEF ReplyInv, PosInv
    <3>2. posts_pos'[key] = IF key \in Keys(p) THEN Len(posts) + 1 ELSE posts_pos[key]
      BY <1>2 DEF ReplyInv, PosInv, Known
    <3>3. IsOf(posts', Len(posts) + 1, key) <=> key \in Keys(p)
      BY <1>1 DEF IsOf
    <3>4. \A i \in 1..Len(posts) : IsOf(posts', i, key) <=> IsOf(posts, i, key)
      BY <1>1 DEF IsOf
    <3> QED BY <1>1, <3>1, <3>2, <3>3, <3>4 DEF LastOf
  <2> QED BY <2>1, <2>2 DEF PosInv
<1> QED BY <1>3, <1>4

\* A post further down changes nothing for the posts above it.
LEMMA ReadKeeps ==
  ASSUME ReplyInv, NEW p \in Posts, Read(p), NEW where \in Int,
         filed' = Append(filed, where),
         Belongs(posts', where, Len(posts) + 1) \/ where = ROOT
  PROVE  FiledInv'
<1>1. /\ Len(posts) \in Nat /\ Len(posts') = Len(posts) + 1
      /\ \A i \in 1..Len(posts) : posts'[i] = posts[i]
  BY Appended
<1>2. filed \in Seq(Int) /\ Len(filed) = Len(posts)
  BY DEF ReplyInv, FiledInv
<1>3. /\ filed' \in Seq(Int) /\ Len(filed') = Len(posts')
      /\ filed'[Len(posts) + 1] = where
      /\ \A i \in 1..Len(posts) : filed'[i] = filed[i]
  BY <1>1, <1>2, AppendProperties
<1>4. ASSUME NEW j \in 1..Len(posts)
      PROVE  Belongs(posts', filed'[j], j)
  <2>1. \A i \in 0..j : \A key : LastOf(posts, i, j, key) => LastOf(posts', i, j, key)
    <3>1. \A i \in 1..j : \A key : IsOf(posts', i, key) <=> IsOf(posts, i, key)
      BY <1>1 DEF IsOf
    <3> QED BY <1>1, <3>1 DEF LastOf
  <2>2. posts'[j] = posts[j] /\ filed'[j] = filed[j] /\ Belongs(posts, filed[j], j)
    BY <1>1, <1>3 DEF ReplyInv, FiledInv
  <2> QED BY <2>1, <2>2 DEF Belongs
<1>5. ASSUME NEW j \in 1..Len(posts'), j = Len(posts) + 1
      PROVE  Belongs(posts', filed'[j], j)
  BY <1>3, <1>5 DEF Belongs
<1>6. \A j \in 1..Len(posts') : j = Len(posts) + 1 \/ j \in 1..Len(posts)
  BY <1>1
<1> QED BY <1>3, <1>4, <1>5, <1>6 DEF FiledInv

LEMMA ReadSteps ==
  ASSUME ReplyInv, NEW p \in Posts, ReadOpening(p) \/ ReadReply(p)
  PROVE  ReplyInv'
<1>1. Read(p)
  BY DEF ReadOpening, ReadReply
<1>2. OrderInv' /\ PosInv'
  BY <1>1, ReadOrder
<1>3. /\ Len(posts) \in Nat /\ Len(posts') = Len(posts) + 1
      /\ posts'[Len(posts) + 1] = [info |-> p, page |-> page]
  BY <1>1, Appended
<1>4. CASE ReadOpening(p)
  BY <1>1, <1>2, <1>4, ReadKeeps DEF ReadOpening, ReplyInv, ROOT
<1>5. CASE ReadReply(p)
  <2> DEFINE n == Len(posts) + 1
             quote == p.quote
  <2>1. filed' = Append(filed, Place(p)) /\ Known(p) = posts_pos'
    BY <1>1, <1>5 DEF ReadReply, Read
  <2>2. CASE quote = NONE
    <3>1. Place(p) \in Int
      BY <2>2 DEF Place, DROPPED
    <3>2. Belongs(posts', Place(p), n)
      BY <1>3, <2>2 DEF Belongs
    <3> QED BY <1>1, <1>2, <2>1, <3>1, <3>2, ReadKeeps DEF ReplyInv
  <2>3. CASE quote # NONE
    <3>1. quote \in Quotes
      BY <2>3 DEF Posts
    <3>2. <<quote.date, quote.to>> \in Marks /\ <<quote.date, quote.start>> \in Marks
      BY <3>1 DEF Quotes, Marks
    <3> DEFINE a == posts_pos'[<<quote.date, quote.to>>]
               b == posts_pos'[<<quote.date, quote.start>>]
    <3>3. /\ LastOf(posts', a, n, <<quote.date, quote.to>>)
          /\ LastOf(posts', b, n, <<quote.date, quote.start>>)
      BY <1>2, <1>3, <3>2 DEF PosInv
    <3>4. a \in 0..n /\ b \in 0..n
      BY <3>3 DEF LastOf
    <3>5. Place(p) = IF a # 0 THEN a ELSE IF b # 0 THEN b ELSE MISSING
      BY <2>1, <2>3 DEF Place, Target
    <3>6. Place(p) \in Int
      BY <1>3, <3>4, <3>5 DEF MISSING
    <3>7. Belongs(posts', Place(p), n)
      BY <1>3, <3>3, <3>4, <3>5 DEF Belongs
    <3> QED BY <1>1, <1>2, <2>1, <3>6, <3>7, ReadKeeps DEF ReplyInv
  <2> QED BY <2>2, <2>3
<1> QED BY <1>4, <1>5

LEMMA ReplyStep == ReplyInv /\ [Next]_vars => ReplyInv'
<1> SUFFICES ASSUME ReplyInv, [Next]_vars PROVE ReplyInv'
  OBVIOUS
<1>1. CASE UNCHANGED vars \/ Build
  <2>1. UNCHANGED <<unread, page, posts, posts_pos, filed>>
    BY <1>1 DEF vars, Build
  <2> QED BY <2>1 DEF ReplyInv, OrderInv, PosInv, FiledInv, Belongs
<1>2. CASE \E n \in PageNumbers : TurnPage(n)
  BY <1>2, TurnOrder
<1>3. CASE \E p \in Posts : ReadOpening(p) \/ ReadReply(p)
  BY <1>3, ReadSteps
<1> QED BY <1>1, <1>2, <1>3 DEF Next

-----------------------------------------------------------------------------
\* Reading in order, no later in the thread is no later in the list.
LEMMA NoLaterIsBefore ==
  ASSUME ReplyInv, NEW i \in 1..Len(posts), NEW j \in 1..Len(posts)
  PROVE  NoLater(i, j) <=> i <= j
<1>1. posts[i] \in Found /\ posts[j] \in Found
  BY ElementOfSeq DEF ReplyInv, OrderInv
<1>2. posts[i].page \in Nat /\ posts[j].page \in Nat
  BY <1>1, TreeAssumption DEF Found
<1>3. /\ i <= j => posts[i].page <= posts[j].page
      /\ j <= i => posts[j].page <= posts[i].page
  BY DEF ReplyInv, OrderInv
<1> QED BY <1>2, <1>3 DEF NoLater

\* What is meant by the latest post is what the dictionary keeps.
LEMMA LatestIsLast ==
  ASSUME ReplyInv, NEW j \in 1..Len(posts), NEW i \in 0..j, NEW date, NEW mark,
         LastOf(posts, i, j, <<date, mark>>)
  PROVE  /\ i = 0 => Matches(j, date, mark) = {}
         /\ i # 0 => Matches(j, date, mark) # {} /\ Latest(Matches(j, date, mark)) = i
<1> DEFINE S == Matches(j, date, mark)
<1>0. Len(posts) \in Nat
  BY LenProperties DEF ReplyInv, OrderInv
<1>1. S = {k \in 1..Len(posts) : k <= j /\ IsOf(posts, k, <<date, mark>>)}
  BY NoLaterIsBefore DEF Matches, IsOf
<1>2. \A k \in S : k \in 1..Len(posts) /\ k <= i
  BY <1>0, <1>1 DEF LastOf
<1>3. CASE i = 0
  BY <1>0, <1>2, <1>3
<1>4. CASE i # 0
  <2>1. i \in S
    BY <1>0, <1>1, <1>4 DEF LastOf
  <2>2. \A k \in S : NoLater(k, i)
    BY <1>2, <2>1, NoLaterIsBefore
  <2>3. ASSUME NEW m \in S, \A k \in S : NoLater(k, m)
        PROVE  m = i
    <3>1. i <= m
      BY <1>2, <2>1, <2>3, NoLaterIsBefore
    <3> QED BY <1>0, <1>2, <2>3, <3>1
  <2>4. Latest(S) = i
    BY <2>1, <2>2, <2>3 DEF Latest
  <2> QED BY <1>4, <2>1, <2>4
<1> QED BY <1>3, <1>4

(* A quote is resolved to the latest post of the thread, up to the quoting  *)
(* one, with the quoted date and author, else with the date and start.      *)
THEOREM QuotesResolved == Spec => []FiledUnderLatest
<1>1. ASSUME ReplyInv, NEW j \in 1..Len(posts),
             posts[j].info.quote # NONE, filed[j] # ROOT
      PROVE  LET quote    == posts[j].info.quote
                 byAuthor == Matches(j, quote.date, quote.to)
                 byStart  == Matches(j, quote.date, quote.start)
             IN  filed[j] = IF byAuthor # {} THEN Latest(byAuthor)
                            ELSE IF byStart # {} THEN Latest(byStart) ELSE MISSING
  <2> DEFINE quote == posts[j].info.quote
  <2>1. PICK a \in 0..j, b \in 0..j :
          /\ LastOf(posts, a, j, <<quote.date, quote.to>>)
          /\ LastOf(posts, b, j, <<quote.date, quote.start>>)
          /\ filed[j] = IF a # 0 THEN a ELSE IF b # 0 THEN b ELSE MISSING
    BY <1>1 DEF ReplyInv, FiledInv, Belongs
  <2> QED BY <1>1, <2>1, LatestIsLast
<1>2. ReplyInv => FiledUnderLatest
  BY <1>1 DEF FiledUnderLatest
<1> QED BY <1>2, ReplyStarts, ReplyStep, PTL DEF Spec

-----------------------------------------------------------------------------
(* The tree and its rows.                                                   *)

CountInv ==
  /\ count \in 0..MAX_PER_PAGE /\ opened \in BOOLEAN
  /\ Len(posts) <= MAX_POSTS
  /\ ~opened => count = Len(posts)
  /\ posts_pos \in [Marks -> Nat]

\* Nothing is filed below itself, and only the first post of all opens a thread.
TreeInv ==
  \A i \in 1..Len(posts) :
    /\ filed[i] \in (-2)..i
    /\ filed[i] = ROOT => i = 1
    /\ filed[1] = ROOT /\ posts[i].info.quote = NONE => filed[i] \in {ROOT, 1}

\* The rows are built once, of all posts.
RowsInv ==
  rows # NONE =>
    /\ unread = {}
    /\ rows.posts = Collected
    /\ rows.reply_count =
         IF HasOpening THEN Cardinality({i \in 1..Len(filed) : filed[i] = 1}) ELSE 0

StoreInv == ReplyInv /\ CountInv /\ TreeInv /\ RowsInv

LEMMA StoreStarts == Init => StoreInv
<1> SUFFICES ASSUME Init PROVE StoreInv
  OBVIOUS
<1>1. posts = <<>> /\ Len(posts) = 0
  BY DEF Init
<1>2. CountInv
  <2>1. MAX_POSTS \in Nat /\ MAX_PER_PAGE \in Nat
    BY TreeAssumption
  <2>2. posts_pos \in [Marks -> Nat]
    BY DEF Init, Marks
  <2>3. count \in 0..MAX_PER_PAGE /\ Len(posts) <= MAX_POSTS /\ count = Len(posts)
    BY <1>1, <2>1 DEF Init
  <2>4. opened = FALSE
    BY DEF Init
  <2> QED BY <2>2, <2>3, <2>4 DEF CountInv
<1>3. TreeInv /\ RowsInv
  BY <1>1 DEF Init, TreeInv, RowsInv
<1> QED BY <1>2, <1>3, ReplyStarts DEF StoreInv

\* A step that leaves the posts and where they are filed.
LEMMA RowsKept ==
  ASSUME RowsInv, UNCHANGED <<filed, rows>>, unread' \subseteq unread
  PROVE  RowsInv'
<1>1. Collected' = Collected /\ HasOpening' = HasOpening
  BY DEF Collected, IsTree, HasOpening
<1> QED BY <1>1 DEF RowsInv

LEMMA TurnStored ==
  ASSUME StoreInv, NEW n \in PageNumbers, TurnPage(n)
  PROVE  StoreInv'
<1>1. /\ unread' = unread \ {n} /\ count' = 0 /\ opened' = (page # NONE)
      /\ UNCHANGED <<posts, posts_pos, filed, rows>>
  BY DEF TurnPage
<1>2. ReplyInv'
  BY TurnOrder DEF StoreInv
<1>3. page = NONE => Len(posts) = 0
  <2>1. Len(posts) \in Nat
    BY LenProperties DEF StoreInv, ReplyInv, OrderInv
  <2> QED BY <2>1 DEF StoreInv, ReplyInv, OrderInv
<1>4. CountInv'
  <2>1. 0 \in 0..MAX_PER_PAGE
    BY TreeAssumption
  <2>2. Len(posts') <= MAX_POSTS /\ posts_pos' \in [Marks -> Nat]
    BY <1>1 DEF StoreInv, CountInv
  <2>3. opened' \in BOOLEAN /\ (~opened' => Len(posts') = 0)
    BY <1>1, <1>3
  <2> QED BY <1>1, <2>1, <2>2, <2>3 DEF CountInv
<1>5. TreeInv'
  BY <1>1 DEF StoreInv, TreeInv
<1>6. RowsInv'
  BY <1>1, RowsKept DEF StoreInv
<1> QED BY <1>2, <1>4, <1>5, <1>6 DEF StoreInv

\* Where a reply is filed.
LEMMA PlaceOf ==
  ASSUME StoreInv, NEW p \in Posts, Read(p)
  PROVE  /\ Place(p) \in (-2)..(Len(posts) + 1) /\ Place(p) # ROOT
         /\ p.quote = NONE /\ Len(posts) > 0 /\ filed[1] = ROOT => Place(p) = 1
<1> DEFINE n == Len(posts) + 1
           quote == p.quote
<1>1. Len(posts) \in Nat /\ Len(posts') = n /\ OrderInv' /\ PosInv'
  BY Appended, ReadOrder DEF StoreInv
<1>2. Known(p) = posts_pos'
  BY DEF Read
<1>3. CASE quote = NONE
  <2>1. Len(filed) = Len(posts)
    BY DEF StoreInv, ReplyInv, FiledInv
  <2>2. Len(posts) > 0 /\ filed[1] = ROOT => HasOpening
    BY <1>1, <2>1 DEF HasOpening
  <2>3. Place(p) = IF HasOpening THEN 1 ELSE DROPPED
    BY <1>3 DEF Place
  <2> QED BY <1>1, <1>3, <2>2, <2>3 DEF DROPPED, ROOT
<1>4. CASE quote # NONE
  <2>1. quote \in Quotes
    BY <1>4 DEF Posts
  <2>2. <<quote.date, quote.to>> \in Marks /\ <<quote.date, quote.start>> \in Marks
    BY <2>1 DEF Quotes, Marks
  <2>3. /\ posts_pos'[<<quote.date, quote.to>>] \in 0..n
        /\ posts_pos'[<<quote.date, quote.start>>] \in 0..n
    BY <1>1, <2>2 DEF PosInv, LastOf
  <2>4. Target(p) \in 0..n
    BY <1>2, <2>3 DEF Target
  <2>5. Place(p) = IF Target(p) # 0 THEN Target(p) ELSE MISSING
    BY <1>4 DEF Place
  <2> QED BY <1>1, <1>4, <2>4, <2>5 DEF MISSING, ROOT
<1> QED BY <1>3, <1>4

LEMMA ReadStored ==
  ASSUME StoreInv, NEW p \in Posts, ReadOpening(p) \/ ReadReply(p)
  PROVE  StoreInv'
<1>1. Read(p)
  BY DEF ReadOpening, ReadReply
<1>2. ReplyInv'
  BY ReadSteps DEF StoreInv
<1>3. /\ Len(posts) \in Nat /\ Len(posts') = Len(posts) + 1
      /\ posts'[Len(posts) + 1] = [info |-> p, page |-> page]
      /\ \A i \in 1..Len(posts) : posts'[i] = posts[i]
  BY <1>1, Appended DEF StoreInv
<1>4. /\ rows = NONE /\ rows' = NONE /\ count' = count + 1 /\ opened' = opened
      /\ count < MAX_PER_PAGE /\ Len(posts) < MAX_POSTS /\ posts_pos' = Known(p)
  BY <1>1 DEF Read
<1>5. CountInv'
  <2>1. posts_pos' \in [Marks -> Nat]
    BY <1>3, <1>4 DEF StoreInv, CountInv, Known
  <2> QED BY <1>3, <1>4, <2>1, TreeAssumption DEF StoreInv, CountInv
<1>6. RowsInv'
  BY <1>4 DEF RowsInv
<1> DEFINE where == IF ReadOpening(p) THEN ROOT ELSE Place(p)
<1>7. /\ filed \in Seq(Int) /\ Len(filed) = Len(posts) /\ where \in Int
      /\ filed' = Append(filed, where)
      /\ where = ROOT => Len(posts) = 0
      /\ where \in (-2)..(Len(posts) + 1)
      /\ p.quote = NONE /\ Len(posts) > 0 /\ filed[1] = ROOT => where = 1
  <2>1. filed \in Seq(Int) /\ Len(filed) = Len(posts)
    BY DEF StoreInv, ReplyInv, FiledInv
  <2>2. CASE ReadOpening(p)
    <3>1. Len(posts) = 0 /\ filed' = Append(filed, ROOT)
      BY <2>2 DEF ReadOpening, StoreInv, CountInv
    <3> QED BY <1>3, <2>1, <2>2, <3>1 DEF ROOT
  <2>3. CASE ~ReadOpening(p)
    <3>1. filed' = Append(filed, Place(p))
      BY <2>3 DEF ReadReply
    <3>2. /\ Place(p) \in (-2)..(Len(posts) + 1) /\ Place(p) # ROOT
          /\ p.quote = NONE /\ Len(posts) > 0 /\ filed[1] = ROOT => Place(p) = 1
      BY <1>1, PlaceOf
    <3> QED BY <1>3, <2>1, <2>3, <3>1, <3>2
  <2> QED BY <2>2, <2>3
<1> HIDE DEF where
<1>8. /\ filed'[Len(posts) + 1] = where
      /\ \A i \in 1..Len(posts) : filed'[i] = filed[i]
  BY <1>3, <1>7, AppendProperties
<1>9. TreeInv'
  <2> SUFFICES ASSUME NEW i \in 1..Len(posts')
               PROVE  /\ filed'[i] \in (-2)..i
                      /\ filed'[i] = ROOT => i = 1
                      /\ filed'[1] = ROOT /\ posts'[i].info.quote = NONE =>
                           filed'[i] \in {ROOT, 1}
    BY DEF TreeInv
  <2>1. CASE i \in 1..Len(posts)
    <3>1. 1 \in 1..Len(posts)
      BY <1>3, <2>1
    <3>2. filed'[i] = filed[i] /\ posts'[i] = posts[i] /\ filed'[1] = filed[1]
      BY <1>3, <1>8, <2>1, <3>1
    <3> QED BY <2>1, <3>2 DEF StoreInv, TreeInv
  <2>2. CASE i = Len(posts) + 1
    <3>1. filed'[i] = where /\ posts'[i].info = p
      BY <1>3, <1>8, <2>2
    <3>2. CASE Len(posts) = 0
      <4>1. i = 1
        BY <2>2, <3>2
      <4> QED BY <1>7, <2>2, <3>1, <3>2, <4>1
    <3>3. CASE Len(posts) > 0
      <4>1. filed'[1] = filed[1]
        BY <1>3, <1>8, <3>3
      <4> QED BY <1>3, <1>7, <2>2, <3>1, <3>3, <4>1
    <3> QED BY <1>3, <3>2, <3>3
  <2> QED BY <1>3, <2>1, <2>2
<1> QED BY <1>2, <1>5, <1>6, <1>9 DEF StoreInv

LEMMA StoreStep == StoreInv /\ [Next]_vars => StoreInv'
<1> SUFFICES ASSUME StoreInv, [Next]_vars PROVE StoreInv'
  OBVIOUS
<1>1. CASE UNCHANGED vars \/ Build
  <2>1. UNCHANGED <<unread, page, count, opened, posts, posts_pos, filed>>
    BY <1>1 DEF vars, Build
  <2>2. ReplyInv'
    BY ReplyStep DEF StoreInv
  <2>3. CountInv' /\ TreeInv'
    BY <2>1 DEF StoreInv, CountInv, TreeInv
  <2>4. RowsInv'
    <3>1. CASE UNCHANGED vars
      BY <3>1, RowsKept DEF StoreInv, vars
    <3>2. CASE Build
      <4>1. Collected' = Collected /\ HasOpening' = HasOpening
        BY <2>1 DEF Collected, IsTree, HasOpening
      <4> QED BY <3>2, <4>1 DEF Build, RowsInv
    <3> QED BY <1>1, <3>1, <3>2
  <2> QED BY <2>2, <2>3, <2>4 DEF StoreInv
<1>2. CASE \E n \in PageNumbers : TurnPage(n)
  BY <1>2, TurnStored
<1>3. CASE \E p \in Posts : ReadOpening(p) \/ ReadReply(p)
  BY <1>3, ReadStored
<1> QED BY <1>1, <1>2, <1>3 DEF Next

LEMMA StoreAlways == Spec => []StoreInv
BY StoreStarts, StoreStep, PTL DEF Spec

-----------------------------------------------------------------------------
\* collect_posts reaches a post from the opening post, or from the post above it.
LEMMA CollectedTree ==
  /\ Collected \subseteq 1..Len(filed)
  /\ \A i \in 1..Len(filed) :
       i \in Collected <=>
         filed[i] = ROOT \/ (filed[i] # i /\ filed[i] \in Collected)
<1> DEFINE D == 1..Len(filed)
<1>1. Collected \subseteq D
  BY DEF Collected
<1>2. ASSUME NEW i \in D, filed[i] = ROOT \/ filed[i] \in Collected
      PROVE  i \in Collected
  <2>1. ASSUME NEW S \in SUBSET D, IsTree(S)
        PROVE  i \in S
    <3>1. filed[i] \in Collected => filed[i] \in S
      BY <2>1 DEF Collected
    <3> QED BY <1>2, <2>1, <3>1 DEF IsTree
  <2> QED BY <2>1 DEF Collected
<1>3. ASSUME NEW i \in Collected, filed[i] # ROOT, filed[i] = i \/ filed[i] \notin Collected
      PROVE  FALSE
  <2> DEFINE S == Collected \ {i}
  <2>1. IsTree(S)
    BY <1>2, <1>3 DEF IsTree
  <2>2. S \in SUBSET D
    BY <1>1
  <2>3. i \in S
    BY <2>1, <2>2 DEF Collected
  <2> QED BY <2>3
<1> QED BY <1>1, <1>2, <1>3

(* The types of every variable.                                             *)
THEOREM ReplyTypes == Spec => []TypeOK
<1>1. ASSUME StoreInv
      PROVE  TypeOK
  <2>1. Len(posts) \in Nat /\ posts \in Seq(Found) /\ Len(filed) = Len(posts)
        /\ filed \in Seq(Int)
    BY <1>1, LenProperties DEF StoreInv, ReplyInv, OrderInv, FiledInv
  <2>2. \A i \in 1..Len(posts) : posts[i].info \in Posts /\ posts[i].page \in PageNumbers
    <3>1. \A i \in 1..Len(posts) : posts[i] \in Found
      BY <2>1, ElementOfSeq
    <3> QED BY <3>1 DEF Found
  <2>3. posts_pos \in [Marks -> 0..Len(posts)]
    BY <1>1 DEF StoreInv, CountInv, ReplyInv, PosInv, LastOf
  <2>4. filed \in Seq((-2)..Len(posts))
    <3>1. \A i \in 1..Len(filed) : filed[i] \in (-2)..Len(posts)
      BY <1>1, <2>1 DEF StoreInv, TreeInv
    <3>2. filed = [i \in 1..Len(filed) |-> filed[i]]
      BY <2>1, LenProperties
    <3> QED BY <2>1, <3>1, <3>2
  <2>5. rows = NONE \/ (rows.posts \subseteq 1..Len(posts) /\ rows.reply_count \in Nat)
    <3> DEFINE direct == {i \in 1..Len(filed) : filed[i] = 1}
    <3>1. Cardinality(direct) \in Nat
      <4>1. IsFiniteSet(1..Len(filed)) /\ direct \in SUBSET (1..Len(filed))
        BY <2>1, FS_Interval
      <4> QED BY <4>1, FS_Subset, FS_CardinalityType
    <3> HIDE DEF direct
    <3>2. rows # NONE => /\ rows.posts = Collected
                         /\ rows.reply_count \in {Cardinality(direct), 0}
      BY <1>1 DEF StoreInv, RowsInv, direct
    <3>3. Collected \subseteq 1..Len(posts)
      BY <2>1, CollectedTree
    <3>4. ASSUME rows # NONE
          PROVE  rows.posts \subseteq 1..Len(posts) /\ rows.reply_count \in Nat
      <4>1. rows.posts = Collected /\ rows.reply_count \in {Cardinality(direct), 0}
        BY <3>2, <3>4
      <4>2. rows.reply_count \in Nat
        BY <3>1, <4>1
      <4> QED BY <3>3, <4>1, <4>2
    <3> QED BY <3>4
  <2> QED BY <1>1, <2>1, <2>2, <2>3, <2>4, <2>5
      DEF TypeOK, StoreInv, CountInv, ReplyInv, OrderInv, Marks
<1> QED BY <1>1, StoreAlways, PTL

(* Every post becomes a row unless a quote on its way to the opening post   *)
(* is not found or resolved to the quoting post, and what is counted as a   *)
(* reply is a row.                                                          *)
THEOREM RowsOfTheTree == Spec => []StoredUnlessLost
<1>1. ASSUME StoreInv, rows # NONE
      PROVE  /\ \A i \in 1..Len(posts) :
                  /\ filed[i] <= i
                  /\ i \in rows.posts <=>
                       filed[i] = ROOT \/ (filed[i] # i /\ filed[i] \in rows.posts)
                  /\ HasOpening /\ posts[i].info.quote = NONE => i \in rows.posts
             /\ rows.reply_count <= Cardinality(rows.posts \ {1})
  <2>1. Len(posts) \in Nat /\ Len(filed) = Len(posts)
    BY <1>1, LenProperties DEF StoreInv, ReplyInv, OrderInv, FiledInv
  <2>2. rows.posts = Collected
    BY <1>1 DEF StoreInv, RowsInv
  <2>3. HasOpening => Len(posts) > 0 /\ filed[1] = ROOT /\ 1 \in Collected
    <3> SUFFICES ASSUME HasOpening
                 PROVE  Len(posts) > 0 /\ filed[1] = ROOT /\ 1 \in Collected
      OBVIOUS
    <3>1. PICK i \in 1..Len(filed) : filed[i] = ROOT
      BY DEF HasOpening
    <3>2. i = 1
      BY <1>1, <2>1, <3>1 DEF StoreInv, TreeInv
    <3> QED BY <2>1, <3>1, <3>2, CollectedTree
  <2>4. ASSUME NEW i \in 1..Len(posts)
        PROVE  /\ filed[i] <= i
               /\ i \in Collected <=> filed[i] = ROOT \/ (filed[i] # i /\ filed[i] \in Collected)
               /\ HasOpening /\ posts[i].info.quote = NONE => i \in Collected
    <3>1. filed[i] <= i
      BY <1>1, <2>1 DEF StoreInv, TreeInv
    <3>2. i \in Collected <=> filed[i] = ROOT \/ (filed[i] # i /\ filed[i] \in Collected)
      BY <2>1, CollectedTree
    <3>3. HasOpening /\ posts[i].info.quote = NONE => i \in Collected
      <4> SUFFICES ASSUME HasOpening, posts[i].info.quote = NONE PROVE i \in Collected
        OBVIOUS
      <4>1. filed[i] \in {ROOT, 1}
        BY <1>1, <2>3 DEF StoreInv, TreeInv
      <4> QED BY <2>3, <3>2, <4>1
    <3> QED BY <3>1, <3>2, <3>3
  <2>5. rows.reply_count <= Cardinality(Collected \ {1})
    <3> DEFINE direct == {i \in 1..Len(filed) : filed[i] = 1}
               below == Collected \ {1}
    <3>1. IsFiniteSet(below) /\ Cardinality(below) \in Nat
      <4>1. IsFiniteSet(1..Len(filed)) /\ below \in SUBSET (1..Len(filed))
        BY <2>1, FS_Interval, CollectedTree
      <4> QED BY <4>1, FS_Subset, FS_CardinalityType
    <3>2. HasOpening => direct \in SUBSET below
      BY <2>1, <2>3, CollectedTree DEF ROOT
    <3>3. rows.reply_count = IF HasOpening THEN Cardinality(direct) ELSE 0
      BY <1>1 DEF StoreInv, RowsInv
    <3> HIDE DEF direct, below
    <3>4. HasOpening => Cardinality(direct) <= Cardinality(below)
      BY <3>1, <3>2, FS_Subset
    <3> QED BY <3>1, <3>3, <3>4 DEF below
  <2> QED BY <2>2, <2>4, <2>5
<1>2. StoreInv => StoredUnlessLost
  BY <1>1 DEF StoredUnlessLost
<1> QED BY <1>2, StoreAlways, PTL
=============================================================================
