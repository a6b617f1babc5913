------------------------- MODULE CachedSearchProofs -------------------------
(***************************************************************************)
(* That app/cache/memory.py, as app/api uses it, changes nothing of what    *)
(* the endpoints answer but its age: for any archive, requests, lifetimes,  *)
(* number of threads and size of the cache.                                 *)
(***************************************************************************)
EXTENDS CachedSearch, SequenceTheorems, TLAPS

Bodies  == {Answer(v, r) : v \in Versions, r \in Requests}
Answers == [from : Versions, body : Bodies]
CacheEntries == [key : {Key(r) : r \in Requests}, expires : Nat, value : Answers]

-----------------------------------------------------------------------------
(* What the endpoints take for granted of make_key                          *)

\* Two requests for the same list, and for pages of one size.
SameList(r, s) ==
  /\ r.kind = s.kind /\ r.q = s.q /\ r.uid = s.uid /\ r.thread = s.thread /\ r.tag = s.tag
  /\ r.order = s.order /\ r.op = s.op /\ r.post = s.post
  /\ Limit(r) = Limit(s) /\ By(r) = By(s)

\* Two requests that the endpoints normalise to the same parameters.
Alike(r, s) == SameList(r, s) /\ Offset(r) = Offset(s)

LEMMA PagedAlike ==
  ASSUME NEW r \in Requests, NEW s \in Requests, Key(r) = Key(s), r.kind \in Paged
  PROVE  Alike(r, s)
<1> DEFINE Told(x) == /\ Key(x).kind = x.kind
                      /\ x.kind \in Paged =>
                           /\ Key(x).q = x.q /\ Key(x).uid = x.uid /\ Key(x).thread = x.thread
                           /\ Key(x).tag = x.tag /\ Key(x).order = x.order
                           /\ Key(x).op = x.op /\ Key(x).post = x.post
                           /\ Key(x).offset = Offset(x) /\ Key(x).limit = Limit(x)
                           /\ Key(x).by = By(x)
<1>1. ASSUME NEW x \in Requests
      PROVE  Told(x)
  BY SearchAssumption DEF Key
<1> QED BY <1>1 DEF Alike, SameList

LEMMA ListsAlike ==
  ASSUME NEW d, NEW r, NEW s, SameList(r, s)
  PROVE  /\ PostMatches(d, r) = PostMatches(d, s)
         /\ UserPosts(d, r) = UserPosts(d, s)
         /\ ThreadMatches(d, r) = ThreadMatches(d, s)
         /\ PrefixUsers(d, r) = PrefixUsers(d, s)
         /\ LikeUsers(d, r) = LikeUsers(d, s)
         /\ UsersById(d, r) = UsersById(d, s)
         /\ Entries(d, r) = Entries(d, s)
         /\ ThreadPosts(d, r) = ThreadPosts(d, s)
<1>1. \A list : Ordered(list, r) = Ordered(list, s)
  BY DEF Ordered, SameList
<1>2. PostMatches(d, r) = PostMatches(d, s)
  BY <1>1 DEF PostMatches, SameList
<1>3. UserPosts(d, r) = UserPosts(d, s)
  BY DEF UserPosts, SameList
<1>4. ThreadMatches(d, r) = ThreadMatches(d, s)
  BY <1>1 DEF ThreadMatches, SameList
<1>5. /\ PrefixUsers(d, r) = PrefixUsers(d, s)
      /\ LikeUsers(d, r) = LikeUsers(d, s)
      /\ UsersById(d, r) = UsersById(d, s)
  BY <1>1 DEF PrefixUsers, LikeUsers, UsersById, SameList
<1>6. Entries(d, r) = Entries(d, s) /\ ThreadPosts(d, r) = ThreadPosts(d, s)
  BY DEF Entries, ThreadPosts, SameList
<1> QED BY <1>2, <1>3, <1>4, <1>5, <1>6

LEMMA AnswersAlike ==
  ASSUME NEW v, NEW r, NEW s, Alike(r, s), r.kind \in Paged
  PROVE  Answer(v, r) = Answer(v, s)
<1> DEFINE d == Archive[v]
<1> HIDE DEF d
<1>1. \A list, total : /\ OneMore(list, r, total) = OneMore(list, s, total)
                       /\ Counted(list, r) = Counted(list, s)
  BY DEF OneMore, Counted, Alike, SameList
<1>2. PostsAnswer(d, r) = PostsAnswer(d, s) /\ UserPostsAnswer(d, r) = UserPostsAnswer(d, s)
  BY <1>1, ListsAlike DEF PostsAnswer, UserPostsAnswer, Alike, SameList
<1>3. ThreadsAnswer(d, r) = ThreadsAnswer(d, s) /\ ReputationAnswer(d, r) = ReputationAnswer(d, s)
  BY <1>1, ListsAlike DEF ThreadsAnswer, ReputationAnswer, Alike, SameList
<1>4. UsersAnswer(d, r) = UsersAnswer(d, s)
  BY <1>1, ListsAlike DEF UsersAnswer, Alike, SameList
<1>5. ThreadAnswer(d, r) = ThreadAnswer(d, s)
  <2>1. Rows(d, r) = Rows(d, s)
    BY ListsAlike DEF Rows, Alike, SameList
  <2>2. JumpOffset(d, r) = JumpOffset(d, s)
    BY <2>1 DEF JumpOffset, Alike, SameList
  <2> QED BY <2>2, ListsAlike DEF ThreadAnswer, Alike, SameList
<1> QED BY <1>2, <1>3, <1>4, <1>5 DEF Answer, Paged, Alike, SameList, d

\* Requests with one key are asked of one endpoint, refused together, and no
\* version of the databases tells them apart.
LEMMA KeysTell ==
  ASSUME NEW r \in Requests, NEW s \in Requests, Key(r) = Key(s)
  PROVE  /\ r.kind = s.kind /\ Invalid(r) = Invalid(s)
         /\ \A v : Answer(v, r) = Answer(v, s)
<1>1. CASE r.kind \notin Paged
  <2>1. s.kind \notin Paged
    <3>1. Key(r).kind = r.kind /\ Key(s).kind = s.kind
      BY SearchAssumption DEF Key
    <3> QED BY <1>1, <3>1
  <2>2. r = s
    BY <1>1, <2>1 DEF Key
  <2> QED BY <2>2
<1>2. CASE r.kind \in Paged
  <2>1. Alike(r, s)
    BY <1>2, PagedAlike
  <2>2. Invalid(r) = Invalid(s)
    BY <2>1 DEF Alike, SameList, Invalid
  <2> QED BY <1>2, <2>1, <2>2, AnswersAlike DEF Alike, SameList
<1> QED BY <1>1, <1>2

-----------------------------------------------------------------------------
(* The cache as a sequence of entries                                       *)

LEMMA SpotIs ==
  ASSUME NEW key, Cache!Holds(key)
  PROVE  Cache!Spot(key) \in 1..Len(data) /\ data[Cache!Spot(key)].key = key
BY DEF Cache!Holds, Cache!Spot

\* Without(key) is the cache, less one entry when there is one for the key.
LEMMA WithoutIs ==
  ASSUME data \in Seq(CacheEntries), NEW key
  PROVE  /\ Cache!Without(key) \in Seq(CacheEntries)
         /\ Len(Cache!Without(key)) \in Nat
         /\ ~Cache!Holds(key) => Cache!Without(key) = data
         /\ Cache!Holds(key) =>
              /\ Len(Cache!Without(key)) = Len(data) - 1
              /\ \A i \in 1..Len(Cache!Without(key)) :
                   Cache!Without(key)[i] = IF i < Cache!Spot(key) THEN data[i] ELSE data[i + 1]
<1>1. CASE ~Cache!Holds(key)
  BY <1>1, LenProperties DEF Cache!Without
<1>2. CASE Cache!Holds(key)
  <2> DEFINE p == Cache!Spot(key)
             n == Len(data)
             front == SubSeq(data, 1, p - 1)
             back  == SubSeq(data, p + 1, n)
  <2>1. n \in Nat /\ p \in 1..n
    BY <1>2, SpotIs, LenProperties
  <2>2. \A i \in 1..n : data[i] \in CacheEntries
    BY ElementOfSeq
  <2>3. /\ front \in Seq(CacheEntries) /\ Len(front) = p - 1
        /\ \A i \in 1..(p - 1) : front[i] = data[i]
    <3>1. \A i \in 1..(p - 1) : data[i] \in CacheEntries
      BY <2>1, <2>2
    <3>2. /\ front \in Seq(CacheEntries) /\ Len(front) = IF 1 <= p - 1 THEN p - 1 - 1 + 1 ELSE 0
          /\ \A i \in 1..(p - 1 - 1 + 1) : front[i] = data[1 + i - 1]
      BY <2>1, <3>1, SubSeqProperties
    <3> QED BY <2>1, <3>2
  <2>4. /\ back \in Seq(CacheEntries) /\ Len(back) = n - p
        /\ \A i \in 1..(n - p) : back[i] = data[p + i]
    <3>1. \A i \in (p + 1)..n : data[i] \in CacheEntries
      BY <2>1, <2>2
    <3>2. /\ back \in Seq(CacheEntries) /\ Len(back) = IF p + 1 <= n THEN n - (p + 1) + 1 ELSE 0
          /\ \A i \in 1..(n - (p + 1) + 1) : back[i] = data[p + 1 + i - 1]
      BY <2>1, <3>1, SubSeqProperties
    <3> QED BY <2>1, <3>2
  <2>5. Cache!Without(key) = front \o back
    BY <1>2 DEF Cache!Without, Cache!RemoveAt
  <2> DEFINE w == front \o back
  <2> HIDE DEF front, back
  <2>6. /\ w \in Seq(CacheEntries) /\ Len(w) = p - 1 + (n - p)
        /\ \A i \in 1..(p - 1 + (n - p)) :
             w[i] = IF i <= p - 1 THEN front[i] ELSE back[i - (p - 1)]
    <3>1. /\ w \in Seq(CacheEntries) /\ Len(w) = Len(front) + Len(back)
          /\ \A i \in 1..Len(front) + Len(back) :
               w[i] = IF i <= Len(front) THEN front[i] ELSE back[i - Len(front)]
      BY <2>3, <2>4, ConcatProperties
    <3> HIDE DEF w
    <3> QED BY <2>3, <2>4, <3>1
  <2> HIDE DEF w
  <2>7. Len(w) = n - 1
    BY <2>1, <2>6
  <2>8. ASSUME NEW i \in 1..(n - 1)
        PROVE  w[i] = IF i < p THEN data[i] ELSE data[i + 1]
    <3>1. i \in 1..(p - 1 + (n - p))
      BY <2>1
    <3>2. w[i] = IF i <= p - 1 THEN front[i] ELSE back[i - (p - 1)]
      BY <2>6, <3>1
    <3>3. i < p => i <= p - 1 /\ front[i] = data[i]
      BY <2>1, <2>3
    <3>4. ~(i < p) => ~(i <= p - 1) /\ back[i - (p - 1)] = data[p + (i - (p - 1))]
      BY <2>1, <2>4
    <3>5. p + (i - (p - 1)) = i + 1
      BY <2>1
    <3> QED BY <3>2, <3>3, <3>4, <3>5
  <2>9. Cache!Without(key) = w
    BY <2>5 DEF w
  <2> QED BY <1>2, <2>1, <2>6, <2>7, <2>8, <2>9
<1> QED BY <1>1, <1>2

\* With an entry at the end: what every get that hits and every set builds.
LEMMA MovedIs ==
  ASSUME data \in Seq(CacheEntries), NEW e \in CacheEntries
  PROVE  LET moved == Append(Cache!Without(e.key), e)
         IN  /\ moved \in Seq(CacheEntries) /\ Len(moved) \in Nat /\ Len(moved) > 0
             /\ Len(moved) = IF Cache!Holds(e.key) THEN Len(data) ELSE Len(data) + 1
             /\ moved[Len(moved)] = e
             /\ \A i \in 1..(Len(moved) - 1) :
                  moved[i] = IF Cache!Holds(e.key) /\ i >= Cache!Spot(e.key)
                             THEN data[i + 1] ELSE data[i]
<1> DEFINE w == Cache!Without(e.key)
           moved == Append(w, e)
<1>0. Len(data) \in Nat
  BY LenProperties
<1>1. /\ w \in Seq(CacheEntries) /\ Len(w) \in Nat
      /\ Len(w) = IF Cache!Holds(e.key) THEN Len(data) - 1 ELSE Len(data)
      /\ \A i \in 1..Len(w) : w[i] = IF Cache!Holds(e.key) /\ i >= Cache!Spot(e.key)
                                     THEN data[i + 1] ELSE data[i]
  <2>1. CASE Cache!Holds(e.key)
    <3>1. Cache!Spot(e.key) \in Int
      BY <2>1, SpotIs, <1>0
    <3> QED BY <2>1, <3>1, WithoutIs
  <2>2. CASE ~Cache!Holds(e.key)
    BY <2>2, <1>0, WithoutIs
  <2> QED BY <2>1, <2>2
<1>2. /\ moved \in Seq(CacheEntries) /\ Len(moved) = Len(w) + 1
      /\ \A i \in 1..Len(w) : moved[i] = w[i]
      /\ moved[Len(w) + 1] = e
  BY <1>1, AppendProperties
<1> QED BY <1>0, <1>1, <1>2

Unique(s) == \A i, j \in 1..Len(s) : s[i].key = s[j].key => i = j

\* Moving an entry to the end, or adding one, leaves one entry for a key.
LEMMA MovedUnique ==
  ASSUME data \in Seq(CacheEntries), Unique(data), NEW e \in CacheEntries
  PROVE  Unique(Append(Cache!Without(e.key), e))
<1> DEFINE moved == Append(Cache!Without(e.key), e)
           n == Len(moved)
           At(i) == IF Cache!Holds(e.key) /\ i >= Cache!Spot(e.key) THEN i + 1 ELSE i
<1>0. Len(data) \in Nat
  BY LenProperties
<1>1. /\ n \in Nat /\ n > 0 /\ moved[n] = e
      /\ n = IF Cache!Holds(e.key) THEN Len(data) ELSE Len(data) + 1
      /\ \A i \in 1..(n - 1) : moved[i] = IF Cache!Holds(e.key) /\ i >= Cache!Spot(e.key)
                                          THEN data[i + 1] ELSE data[i]
  BY MovedIs
<1> HIDE DEF moved
<1>2. Cache!Holds(e.key) => Cache!Spot(e.key) \in 1..Len(data) /\ data[Cache!Spot(e.key)].key = e.key
  BY SpotIs
<1>3. ASSUME NEW i \in 1..(n - 1)
      PROVE  At(i) \in 1..Len(data) /\ moved[i] = data[At(i)] /\ moved[i].key # e.key
  <2>1. At(i) \in 1..Len(data) /\ moved[i] = data[At(i)]
    BY <1>0, <1>1, <1>2
  <2>2. CASE Cache!Holds(e.key)
    <3>1. At(i) # Cache!Spot(e.key)
      BY <1>0, <1>1, <1>2, <2>2
    <3> QED BY <1>2, <2>1, <2>2, <3>1 DEF Unique
  <2>3. CASE ~Cache!Holds(e.key)
    BY <2>1, <2>3 DEF Cache!Holds
  <2> QED BY <2>1, <2>2, <2>3
<1>4. ASSUME NEW i \in 1..(n - 1), NEW j \in 1..(n - 1), moved[i].key = moved[j].key
      PROVE  i = j
  <2>1. At(i) = At(j)
    BY <1>3, <1>4 DEF Unique
  <2> QED BY <1>0, <1>1, <1>2, <2>1
<1>5. \A i \in 1..n : i = n \/ i \in 1..(n - 1)
  BY <1>1
<1>6. ASSUME NEW i \in 1..n, NEW j \in 1..n, moved[i].key = moved[j].key
      PROVE  i = j
  BY <1>1, <1>3, <1>4, <1>5, <1>6
<1>7. Unique(moved)
  BY <1>6 DEF Unique
<1> QED BY <1>7 DEF moved

\* A hit moves an entry, a miss drops one that has expired, or none.
LEMMA GetKeeps ==
  ASSUME data \in Seq(CacheEntries), Cache!Bounded, NEW key, NEW now, Cache!Get(key, now)
  PROVE  /\ data' \in Seq(CacheEntries) /\ Cache!Bounded'
         /\ \A i \in 1..Len(data') : \E j \in 1..Len(data) : data'[i] = data[j]
<1>0. Len(data) \in Nat /\ Unique(data) /\ Len(data) <= MaxEntries
  BY LenProperties DEF Cache!Bounded, Unique
<1>1. CASE Cache!Fresh(key, now)
  <2> DEFINE p == Cache!Spot(key)
             e == data[p]
  <2>1. Cache!Holds(key) /\ p \in 1..Len(data) /\ e.key = key
    BY <1>1, SpotIs DEF Cache!Fresh
  <2>2. e \in CacheEntries
    BY <2>1, ElementOfSeq
  <2>3. data' = Append(Cache!Without(e.key), e)
    BY <1>1, <2>1 DEF Cache!Get, Cache!Entry
  <2>4. /\ data' \in Seq(CacheEntries) /\ Len(data') = Len(data) /\ data'[Len(data)] = e
        /\ \A i \in 1..(Len(data) - 1) :
             data'[i] = IF Cache!Holds(e.key) /\ i >= p THEN data[i + 1] ELSE data[i]
    BY <1>0, <2>1, <2>2, <2>3, MovedIs
  <2>5. Unique(data')
    BY <1>0, <2>2, <2>3, MovedUnique
  <2>6. \A i \in 1..Len(data') : \E j \in 1..Len(data) : data'[i] = data[j]
    <3>1. \A i \in 1..(Len(data) - 1) : i \in 1..Len(data) /\ i + 1 \in 1..Len(data)
      BY <1>0
    <3>2. \A i \in 1..Len(data) : i = Len(data) \/ i \in 1..(Len(data) - 1)
      BY <1>0
    <3> QED BY <2>1, <2>4, <3>1, <3>2
  <2> QED BY <1>0, <2>4, <2>5, <2>6 DEF Cache!Bounded, Unique
<1>2. CASE ~Cache!Fresh(key, now)
  <2> DEFINE w == Cache!Without(key)
             At(i) == IF Cache!Holds(key) /\ ~(i < Cache!Spot(key)) THEN i + 1 ELSE i
  <2>1. data' = w
    BY <1>2 DEF Cache!Get
  <2>2. /\ w \in Seq(CacheEntries) /\ Len(w) \in Nat /\ Len(w) <= Len(data)
        /\ \A i \in 1..Len(w) : At(i) \in 1..Len(data) /\ w[i] = data[At(i)]
    BY <1>0, WithoutIs
  <2>3. \A i, j \in 1..Len(w) : At(i) = At(j) => i = j
    <3>1. Cache!Holds(key) => Cache!Spot(key) \in Int
      BY <1>0, SpotIs
    <3> QED BY <2>2, <3>1
  <2> HIDE DEF w, At
  <2>4. Unique(w)
    BY <1>0, <2>2, <2>3 DEF Unique
  <2> QED BY <1>0, <2>1, <2>2, <2>4, SearchAssumption DEF Cache!Bounded, Unique
<1> QED BY <1>1, <1>2

\* An answer is added, and at most the oldest entry goes.
LEMMA SetKeeps ==
  ASSUME data \in Seq(CacheEntries), Cache!Bounded, NEW e \in CacheEntries,
         Cache!Set(e.key, e.value, e.expires)
  PROVE  /\ data' \in Seq(CacheEntries) /\ Cache!Bounded'
         /\ \A i \in 1..Len(data') : data'[i] = e \/ \E j \in 1..Len(data) : data'[i] = data[j]
<1> DEFINE grown == Append(Cache!Without(e.key), e)
           n == Len(grown)
<1>0. Len(data) \in Nat /\ Unique(data) /\ Len(data) <= MaxEntries /\ MaxEntries \in Nat \ {0}
  BY LenProperties, SearchAssumption DEF Cache!Bounded, Unique
<1>1. e = [key |-> e.key, expires |-> e.expires, value |-> e.value]
  BY DEF CacheEntries
<1>2. data' = IF n > MaxEntries THEN SubSeq(grown, n - MaxEntries + 1, n) ELSE grown
  BY <1>1 DEF Cache!Set
<1>3. /\ grown \in Seq(CacheEntries) /\ n \in Nat /\ n > 0
      /\ n = IF Cache!Holds(e.key) THEN Len(data) ELSE Len(data) + 1
      /\ grown[n] = e
      /\ \A i \in 1..(n - 1) : grown[i] = IF Cache!Holds(e.key) /\ i >= Cache!Spot(e.key)
                                          THEN data[i + 1] ELSE data[i]
  BY MovedIs
<1>4. Unique(grown)
  BY <1>0, MovedUnique
<1> HIDE DEF grown
<1>5. \A i \in 1..n : grown[i] = e \/ \E j \in 1..Len(data) : grown[i] = data[j]
  <2>1. Cache!Holds(e.key) => Cache!Spot(e.key) \in 1..Len(data)
    BY SpotIs
  <2>2. ASSUME NEW i \in 1..(n - 1)
        PROVE  \E j \in 1..Len(data) : grown[i] = data[j]
    <3>1. IF Cache!Holds(e.key) /\ i >= Cache!Spot(e.key)
          THEN i + 1 \in 1..Len(data) ELSE i \in 1..Len(data)
      BY <1>0, <1>3, <2>1
    <3> QED BY <1>3, <3>1
  <2>3. \A i \in 1..n : i = n \/ i \in 1..(n - 1)
    BY <1>3
  <2> QED BY <1>3, <2>2, <2>3
<1>6. CASE n > MaxEntries
  <2> DEFINE s == n - MaxEntries
  <2>1. s \in Nat /\ n \in Nat /\ s + 1 <= n /\ s + 1 \in Int /\ n - (s + 1) + 1 = MaxEntries
    <3>1. n \in Nat /\ MaxEntries \in Nat \ {0} /\ n > MaxEntries
      BY <1>0, <1>3, <1>6
    <3> HIDE DEF n
    <3> QED BY <3>1
  <2>2. \A i \in (s + 1)..n : grown[i] \in CacheEntries
    <3>1. \A i \in (s + 1)..n : i \in 1..n
      BY <2>1
    <3> QED BY <1>3, <3>1, ElementOfSeq
  <2>3. /\ data' \in Seq(CacheEntries) /\ Len(data') = n - (s + 1) + 1
        /\ \A i \in 1..(n - (s + 1) + 1) : data'[i] = grown[s + 1 + i - 1]
    BY <1>2, <1>6, <2>1, <2>2, SubSeqProperties
  <2> HIDE DEF s
  <2>4. /\ Len(data') = MaxEntries
        /\ \A i \in 1..MaxEntries : s + 1 + i - 1 \in 1..n /\ data'[i] = grown[s + 1 + i - 1]
    BY <1>0, <2>1, <2>3
  <2>5. \A i, j \in 1..MaxEntries : s + 1 + i - 1 = s + 1 + j - 1 => i = j
    BY <1>0, <2>1
  <2>6. ASSUME NEW i \in 1..MaxEntries, NEW j \in 1..MaxEntries,
               data'[i].key = data'[j].key
        PROVE  i = j
    BY <1>4, <2>4, <2>5, <2>6 DEF Unique
  <2>7. Cache!Bounded'
    BY <1>0, <2>4, <2>6 DEF Cache!Bounded
  <2> QED BY <1>5, <2>3, <2>4, <2>7
<1>7. CASE ~(n > MaxEntries)
  <2>1. data' = grown
    BY <1>2, <1>7
  <2> QED BY <1>0, <1>3, <1>4, <1>5, <1>7, <2>1 DEF Cache!Bounded, Unique
<1> QED BY <1>6, <1>7

-----------------------------------------------------------------------------
(* The state between two steps                                              *)

\* Version v is in place, or has been until s at least.
Young(v, s) == v = version \/ (replaced[v] # NONE /\ replaced[v] >= s)

ServiceInv ==
  /\ time \in Nat /\ version \in Versions
  /\ replaced \in [Versions -> Nat \cup {NONE}]
  /\ workload \subseteq Requests

\* An entry is what each request with its key would have been answered, and
\* lives no longer than that answer may be used.
Trusted(e) ==
  \A r \in Requests : Key(r) = e.key =>
    /\ e.value.body = Answer(e.value.from, r)
    /\ e.expires <= time + TTL[r.kind]
    /\ Young(e.value.from, e.expires - Age(r))

DataInv ==
  /\ data \in Seq(CacheEntries)
  /\ Cache!Bounded
  /\ \A i \in 1..Len(data) : Trusted(data[i]) /\ data[i].value.body.status = 200

ThreadTypes ==
  /\ pc \in [Threads -> {"idle", "get", "query", "set", "store"}]
  /\ req \in [Threads -> Requests \cup {NONE}]
  /\ came \in [Threads -> Nat]
  /\ since \in [Threads -> Nat]
  /\ answer \in [Threads -> Answers \cup {NoAnswer}]
  /\ expires \in [Threads -> Nat]

\* The answer a thread holds for its request, from a version not older than s.
Holding(t, s) ==
  /\ answer[t] \in Answers /\ answer[t].body = Answer(answer[t].from, req[t])
  /\ Young(answer[t].from, s)

ThreadInv(t) ==
  /\ came[t] <= time
  /\ IF pc[t] = "idle" THEN req[t] = NONE /\ came[t] = 0 ELSE req[t] \in workload
  /\ pc[t] \in {"query", "set", "store"} => ~Invalid(req[t])
  /\ pc[t] \in {"set", "store"} => Holding(t, came[t])
  /\ pc[t] = "set" =>
       since[t] <= time /\ time - since[t] <= SLOW /\ Young(answer[t].from, since[t])
  /\ pc[t] = "store" =>
       /\ expires[t] <= time + TTL[req[t].kind] /\ answer[t].body.status = 200
       /\ Young(answer[t].from, expires[t] - Age(req[t]))

WorkerInv == ServiceInv /\ DataInv /\ ThreadTypes /\ \A t \in Threads : ThreadInv(t)

LEMMA WorkerStarts == Init => WorkerInv
<1> SUFFICES ASSUME Init PROVE WorkerInv
  OBVIOUS
<1>1. ServiceInv
  BY SearchAssumption DEF Init, ServiceInv
<1>2. DataInv
  <2>1. data = <<>> /\ Len(data) = 0
    BY DEF Init
  <2> QED BY <2>1, SearchAssumption DEF DataInv, Cache!Bounded
<1>3. ThreadTypes
  BY DEF Init, ThreadTypes
<1>4. ASSUME NEW t \in Threads
      PROVE  ThreadInv(t)
  BY <1>4 DEF Init, ThreadInv
<1> QED BY <1>1, <1>2, <1>3, <1>4 DEF WorkerInv

\* A version that is in place keeps its age, and what is older gets no older.
LEMMA YoungKept ==
  ASSUME ServiceInv, UNCHANGED <<version, replaced>>, NEW v, NEW s, Young(v, s)
  PROVE  Young(v, s)'
BY DEF Young

LEMMA YoungReplaced ==
  ASSUME ServiceInv, Publish
  PROVE  \A v \in Versions, s \in Int : Young(v, s) /\ s <= time => Young(v, s)'
<1> SUFFICES ASSUME NEW v \in Versions, NEW s \in Int, Young(v, s), s <= time
             PROVE  Young(v, s)'
  OBVIOUS
<1>1. /\ version' = version + 1 /\ version \in Versions /\ version \in Int
      /\ replaced' = [replaced EXCEPT ![version] = time]
  BY SearchAssumption DEF Publish, ServiceInv, Versions
<1>2. time # NONE /\ time >= s
  BY SearchAssumption DEF ServiceInv
<1>3. CASE v = version
  BY <1>1, <1>2, <1>3 DEF Young, ServiceInv
<1>4. CASE v # version
  BY <1>1, <1>4 DEF Young, ServiceInv
<1> QED BY <1>3, <1>4

LEMMA RequestTimes ==
  ASSUME NEW r \in Requests
  PROVE  TTL[r.kind] \in Nat /\ SLOW \in Nat /\ Age(r) \in Nat /\ Age(r) = TTL[r.kind] + SLOW
BY SearchAssumption DEF Age

\* A thread that does not move, while the databases stay.
LEMMA OtherThread ==
  ASSUME WorkerInv, NEW u \in Threads, UNCHANGED <<service, workload>>,
         /\ pc'[u] = pc[u] /\ req'[u] = req[u] /\ came'[u] = came[u]
         /\ since'[u] = since[u] /\ answer'[u] = answer[u] /\ expires'[u] = expires[u]
  PROVE  ThreadInv(u)'
BY DEF WorkerInv, ThreadInv, Holding, Young, service

LEMMA EntryKept ==
  ASSUME NEW e, Trusted(e), UNCHANGED service
  PROVE  Trusted(e)'
BY DEF Trusted, Young, service

-----------------------------------------------------------------------------
(* One lemma for each kind of step                                          *)

LEMMA TickKeeps ==
  ASSUME WorkerInv, Tick
  PROVE  WorkerInv'
<1>0. /\ time' = time + 1 /\ time \in Nat
      /\ UNCHANGED <<version, replaced, data, workload, pc, req, came, since, answer, expires>>
      /\ \A t \in Threads : pc[t] = "set" => time - since[t] < SLOW
  BY DEF Tick, WorkerInv, ServiceInv
<1>1. ServiceInv'
  BY <1>0 DEF WorkerInv, ServiceInv
<1>2. ASSUME NEW e \in CacheEntries, Trusted(e)
      PROVE  Trusted(e)'
  <2>1. e.expires \in Nat
    BY DEF CacheEntries
  <2> QED BY <1>0, <1>2, <2>1, RequestTimes DEF Trusted, Young
<1>3. DataInv'
  BY <1>0, <1>2, ElementOfSeq DEF WorkerInv, DataInv, Cache!Bounded
<1>4. ThreadTypes'
  BY <1>0 DEF WorkerInv, ThreadTypes
<1>5. ASSUME NEW t \in Threads
      PROVE  ThreadInv(t)'
  <2>1. ThreadInv(t) /\ came[t] \in Nat /\ since[t] \in Nat /\ expires[t] \in Nat
    BY DEF WorkerInv, ThreadTypes
  <2>2. came[t] <= time' /\ (pc[t] = "set" => since[t] <= time' /\ time' - since[t] <= SLOW)
    BY <1>0, <2>1, SearchAssumption DEF ThreadInv
  <2>3. pc[t] = "store" => expires[t] <= time' + TTL[req[t].kind]
    <3>1. pc[t] = "store" => req[t] \in Requests
      BY <2>1 DEF ThreadInv, WorkerInv, ServiceInv
    <3> QED BY <1>0, <2>1, <3>1, RequestTimes DEF ThreadInv
  <2> QED BY <1>0, <2>1, <2>2, <2>3 DEF ThreadInv, Holding, Young
<1> QED BY <1>1, <1>3, <1>4, <1>5 DEF WorkerInv

LEMMA PublishKeeps ==
  ASSUME WorkerInv, Publish
  PROVE  WorkerInv'
<1>0. /\ UNCHANGED <<time, data, workload, pc, req, came, since, answer, expires>>
      /\ version' = version + 1 /\ replaced' = [replaced EXCEPT ![version] = time]
      /\ version < Len(Archive) /\ time \in Nat /\ ServiceInv
  BY DEF Publish, WorkerInv, ServiceInv
<1>1. ServiceInv'
  <2>1. version' \in Versions
    BY <1>0, SearchAssumption DEF ServiceInv, Versions
  <2> QED BY <1>0, <2>1 DEF ServiceInv
<1>2. ASSUME NEW e \in CacheEntries, Trusted(e)
      PROVE  Trusted(e)'
  <2>1. e.expires \in Nat /\ e.value.from \in Versions
    BY DEF CacheEntries, Answers
  <2>2. ASSUME NEW r \in Requests, Key(r) = e.key
        PROVE  Young(e.value.from, e.expires - Age(r))'
    <3>1. e.expires <= time + TTL[r.kind] /\ Young(e.value.from, e.expires - Age(r))
      BY <1>2, <2>2 DEF Trusted
    <3>2. e.expires - Age(r) \in Int /\ e.expires - Age(r) <= time
      BY <1>0, <2>1, <3>1, RequestTimes
    <3> QED BY <1>0, <2>1, <3>1, <3>2, YoungReplaced
  <2> QED BY <1>0, <1>2, <2>2 DEF Trusted
<1>3. DataInv'
  BY <1>0, <1>2, ElementOfSeq DEF WorkerInv, DataInv, Cache!Bounded
<1>4. ThreadTypes'
  BY <1>0 DEF WorkerInv, ThreadTypes
<1>5. ASSUME NEW t \in Threads
      PROVE  ThreadInv(t)'
  <2>1. /\ ThreadInv(t) /\ came[t] \in Nat /\ since[t] \in Nat /\ expires[t] \in Nat
        /\ pc[t] # "idle" => req[t] \in Requests
    BY DEF WorkerInv, ThreadTypes, ThreadInv, ServiceInv
  <2>2. ASSUME pc[t] \in {"set", "store"}
        PROVE  Holding(t, came[t])'
    <3>1. Holding(t, came[t]) /\ answer[t].from \in Versions /\ came[t] <= time
      BY <2>1, <2>2 DEF ThreadInv, Holding, Answers
    <3>2. Young(answer[t].from, came[t])'
      BY <1>0, <2>1, <3>1, YoungReplaced DEF Holding, Young
    <3> QED BY <1>0, <3>1, <3>2 DEF Holding
  <2>3. ASSUME pc[t] = "set"
        PROVE  Young(answer[t].from, since[t])'
    <3>1. answer[t].from \in Versions /\ since[t] <= time /\ Young(answer[t].from, since[t])
      BY <2>1, <2>3 DEF ThreadInv, Holding, Answers
    <3> QED BY <1>0, <2>1, <3>1, YoungReplaced DEF Young
  <2>4. ASSUME pc[t] = "store"
        PROVE  Young(answer[t].from, expires[t] - Age(req[t]))'
    <3>1. /\ answer[t].from \in Versions /\ expires[t] <= time + TTL[req[t].kind]
          /\ Young(answer[t].from, expires[t] - Age(req[t])) /\ req[t] \in Requests
      BY <2>1, <2>4 DEF ThreadInv, Holding, Answers
    <3>2. /\ Age(req[t]) \in Nat /\ Age(req[t]) >= TTL[req[t].kind]
          /\ TTL[req[t].kind] \in Nat
      BY <3>1, RequestTimes
    <3>3. expires[t] \in Nat /\ time \in Nat
      BY <1>0, <2>1
    <3>4. expires[t] - Age(req[t]) \in Int /\ expires[t] - Age(req[t]) <= time
      BY <3>1, <3>2, <3>3
    <3> QED BY <1>0, <3>1, <3>4, YoungReplaced DEF Young
  <2> QED BY <1>0, <2>1, <2>2, <2>3, <2>4 DEF ThreadInv
<1> QED BY <1>1, <1>3, <1>4, <1>5 DEF WorkerInv

LEMMA RestartKeeps ==
  ASSUME WorkerInv, Restart
  PROVE  WorkerInv'
<1>0. /\ UNCHANGED <<service, workload>> /\ data' = <<>>
      /\ pc' = [t \in Threads |-> "idle"] /\ req' = [t \in Threads |-> NONE]
      /\ came' = [t \in Threads |-> 0] /\ since' = [t \in Threads |-> 0]
      /\ answer' = [t \in Threads |-> NoAnswer] /\ expires' = [t \in Threads |-> 0]
  BY DEF Restart
<1>1. ServiceInv'
  BY <1>0 DEF WorkerInv, ServiceInv, service
<1>2. DataInv'
  BY <1>0, SearchAssumption DEF DataInv, Cache!Bounded
<1>3. ThreadTypes'
  BY <1>0 DEF ThreadTypes
<1>4. \A t \in Threads : ThreadInv(t)'
  BY <1>0 DEF ThreadInv, WorkerInv, ServiceInv, service
<1> QED BY <1>1, <1>2, <1>3, <1>4 DEF WorkerInv

LEMMA DataSame ==
  ASSUME WorkerInv, UNCHANGED <<service, data>>
  PROVE  DataInv'
<1>1. \A e : Trusted(e) => Trusted(e)'
  BY EntryKept
<1> QED BY <1>1 DEF WorkerInv, DataInv, Cache!Bounded

LEMMA DataGot ==
  ASSUME WorkerInv, UNCHANGED service, NEW key, NEW now, Cache!Get(key, now)
  PROVE  DataInv'
<1>1. /\ data' \in Seq(CacheEntries) /\ Cache!Bounded'
      /\ \A i \in 1..Len(data') : \E j \in 1..Len(data) : data'[i] = data[j]
  BY GetKeeps DEF WorkerInv, DataInv
<1>2. ASSUME NEW i \in 1..Len(data')
      PROVE  Trusted(data'[i]) /\ data'[i].value.body.status = 200
  BY <1>1 DEF WorkerInv, DataInv
<1>3. \A e : Trusted(e) => Trusted(e)'
  BY EntryKept
<1>4. ASSUME NEW i \in 1..Len(data')
      PROVE  Trusted(data[i])'
  BY <1>2, <1>3 DEF Trusted, Young, service
<1> QED BY <1>1, <1>2, <1>4 DEF DataInv

\* The endpoint returns, the other threads go on.
LEMMA ReturnKeeps ==
  ASSUME WorkerInv, NEW t \in Threads, NEW body, Return(t, body),
         UNCHANGED <<service, workload>>
  PROVE  ServiceInv' /\ ThreadTypes' /\ \A u \in Threads : ThreadInv(u)'
<1>1. ThreadTypes
  BY DEF WorkerInv
<1>2. ThreadTypes'
  BY <1>1 DEF ThreadTypes, Return, Goto
<1>3. ServiceInv'
  BY DEF WorkerInv, ServiceInv, service
<1>4. ThreadInv(t)'
  BY <1>1 DEF Return, Goto, ThreadTypes, ThreadInv, WorkerInv, ServiceInv, service
<1>5. ASSUME NEW u \in Threads, u # t
      PROVE  ThreadInv(u)'
  BY <1>1, <1>5, OtherThread DEF Return, Goto, ThreadTypes
<1> QED BY <1>2, <1>3, <1>4, <1>5

\* The steps inside an endpoint.
LEMMA InnerKeeps ==
  ASSUME WorkerInv, NEW t \in Threads,
         (\E r \in workload : Arrive(t, r)) \/ Miss(t) \/ Query(t)
  PROVE  WorkerInv'
<1>0. /\ ThreadTypes /\ ServiceInv /\ ThreadInv(t)
      /\ UNCHANGED <<service, workload, expires>>
  BY DEF WorkerInv, Arrive, Miss, Query
<1>1. ServiceInv'
  BY <1>0 DEF ServiceInv, service
<1>2. DataInv'
  <2>1. CASE Miss(t)
    BY <2>1, <1>0, DataGot DEF Miss
  <2>2. CASE ~Miss(t)
    BY <2>2, <1>0, DataSame DEF Arrive, Query
  <2> QED BY <2>1, <2>2
<1>3. CASE \E r \in workload : Arrive(t, r)
  <2>1. PICK r \in workload : Arrive(t, r)
    BY <1>3
  <2>2. /\ pc' = [pc EXCEPT ![t] = "get"] /\ req' = [req EXCEPT ![t] = r]
        /\ came' = [came EXCEPT ![t] = time] /\ UNCHANGED <<since, answer>>
    BY <2>1 DEF Arrive, Goto
  <2>3. r \in Requests /\ time \in Nat
    BY <1>0 DEF ServiceInv
  <2>4. ThreadTypes'
    BY <1>0, <2>2, <2>3 DEF ThreadTypes
  <2>5. ThreadInv(t)'
    BY <1>0, <2>2, <2>3 DEF ThreadTypes, ThreadInv, service
  <2>6. ASSUME NEW u \in Threads, u # t
        PROVE  ThreadInv(u)'
    BY <1>0, <2>2, <2>6, OtherThread DEF ThreadTypes
  <2> QED BY <1>1, <1>2, <2>4, <2>5, <2>6 DEF WorkerInv
<1>4. CASE Miss(t)
  <2>1. /\ pc[t] = "get" /\ ~Invalid(req[t]) /\ pc' = [pc EXCEPT ![t] = "query"]
        /\ UNCHANGED <<req, came, since, answer>>
    BY <1>4 DEF Miss, Goto
  <2>2. ThreadTypes'
    BY <1>0, <2>1 DEF ThreadTypes
  <2>3. ThreadInv(t)'
    BY <1>0, <2>1 DEF ThreadTypes, ThreadInv, service
  <2>4. ASSUME NEW u \in Threads, u # t
        PROVE  ThreadInv(u)'
    BY <1>0, <2>1, <2>4, OtherThread DEF ThreadTypes
  <2> QED BY <1>1, <1>2, <2>2, <2>3, <2>4 DEF WorkerInv
<1>5. CASE Query(t)
  <2> DEFINE read == [from |-> version, body |-> Answer(version, req[t])]
  <2>1. /\ pc[t] = "query" /\ pc' = [pc EXCEPT ![t] = "set"]
        /\ since' = [since EXCEPT ![t] = time] /\ answer' = [answer EXCEPT ![t] = read]
        /\ UNCHANGED <<req, came>>
    BY <1>5 DEF Query, Goto
  <2>2. req[t] \in Requests /\ version \in Versions /\ time \in Nat
    BY <1>0, <2>1 DEF ThreadInv, ServiceInv
  <2>3. read \in Answers
    BY <2>2 DEF Answers, Bodies
  <2>4. ThreadTypes'
    BY <1>0, <2>1, <2>2, <2>3 DEF ThreadTypes
  <2>5. answer'[t] = read /\ since'[t] = time /\ pc'[t] = "set"
    BY <1>0, <2>1 DEF ThreadTypes
  <2>6. ThreadInv(t)'
    <3>1. read.from = version /\ read.body = Answer(read.from, req[t])
      OBVIOUS
    <3> HIDE DEF read
    <3> QED BY <1>0, <2>1, <2>2, <2>3, <2>5, <3>1, SearchAssumption
            DEF ThreadInv, Holding, Young, service
  <2>7. ASSUME NEW u \in Threads, u # t
        PROVE  ThreadInv(u)'
    BY <1>0, <2>1, <2>7, OtherThread DEF ThreadTypes
  <2> QED BY <1>1, <1>2, <2>4, <2>6, <2>7 DEF WorkerInv
<1> QED BY <1>3, <1>4, <1>5

\* set outside the lock, for an answer that is to be stored.
LEMMA ExpiryKeeps ==
  ASSUME WorkerInv, NEW t \in Threads, Expiry(t), ~Return(t, answer[t].body)
  PROVE  WorkerInv'
<1>0. /\ ThreadTypes /\ ServiceInv /\ ThreadInv(t)
      /\ UNCHANGED <<service, data, workload, req, came, answer>>
      /\ pc[t] = "set" /\ answer[t].body.status = 200
      /\ pc' = [pc EXCEPT ![t] = "store"] /\ since' = [since EXCEPT ![t] = 0]
      /\ expires' = [expires EXCEPT ![t] = time + TTL[req[t].kind]]
  BY DEF WorkerInv, Expiry, Goto
<1>1. ServiceInv' /\ DataInv'
  BY <1>0, DataSame DEF ServiceInv, service
<1>2. req[t] \in Requests /\ time \in Nat /\ TTL[req[t].kind] \in Nat
  BY <1>0, RequestTimes DEF ThreadInv, ServiceInv
<1>3. ThreadTypes'
  BY <1>0, <1>2 DEF ThreadTypes
<1>4. ThreadInv(t)'
  <2>1. /\ pc'[t] = "store" /\ expires'[t] = time + TTL[req[t].kind] /\ since[t] \in Nat
        /\ since[t] <= time /\ time - since[t] <= SLOW /\ Young(answer[t].from, since[t])
    BY <1>0 DEF ThreadTypes, ThreadInv
  <2>2. expires'[t] - Age(req[t]) \in Int /\ expires'[t] - Age(req[t]) <= since[t]
    BY <1>2, <2>1, RequestTimes
  <2>3. replaced[answer[t].from] # NONE => replaced[answer[t].from] \in Nat
    BY <1>0 DEF ServiceInv, ThreadInv, Holding, Answers
  <2>4. Young(answer[t].from, expires'[t] - Age(req[t]))
    BY <2>1, <2>2, <2>3 DEF Young
  <2> QED BY <1>0, <1>2, <2>1, <2>4 DEF ThreadInv, Holding, Young, service
<1>5. ASSUME NEW u \in Threads, u # t
      PROVE  ThreadInv(u)'
  BY <1>0, <1>5, OtherThread DEF ThreadTypes
<1> QED BY <1>1, <1>3, <1>4, <1>5 DEF WorkerInv

\* What a thread stores is good for every request with its key.
LEMMA StoreKeeps ==
  ASSUME WorkerInv, NEW t \in Threads, Store(t)
  PROVE  DataInv'
<1> DEFINE e == [key |-> Key(req[t]), expires |-> expires[t], value |-> answer[t]]
<1>0. /\ ThreadTypes /\ ServiceInv /\ ThreadInv(t) /\ pc[t] = "store" /\ UNCHANGED service
      /\ Cache!Set(Key(req[t]), answer[t], expires[t])
  BY DEF WorkerInv, Store
<1>1. /\ req[t] \in Requests /\ Holding(t, came[t]) /\ answer[t].body.status = 200
      /\ expires[t] \in Nat /\ expires[t] <= time + TTL[req[t].kind]
      /\ Young(answer[t].from, expires[t] - Age(req[t]))
  BY <1>0 DEF ThreadTypes, ThreadInv, ServiceInv
<1>2. e \in CacheEntries
  BY <1>1 DEF CacheEntries, Holding
<1>3. ASSUME NEW r \in Requests, Key(r) = e.key
      PROVE  /\ answer[t].body = Answer(answer[t].from, r)
             /\ r.kind = req[t].kind
  BY <1>1, <1>3, KeysTell DEF Holding, Answers
<1>4. Trusted(e)
  BY <1>1, <1>3 DEF Trusted, Age
<1>5. /\ data' \in Seq(CacheEntries) /\ Cache!Bounded'
      /\ \A i \in 1..Len(data') : data'[i] = e \/ \E j \in 1..Len(data) : data'[i] = data[j]
  BY <1>0, <1>2, SetKeeps DEF WorkerInv, DataInv
<1>6. ASSUME NEW i \in 1..Len(data')
      PROVE  Trusted(data'[i]) /\ data'[i].value.body.status = 200
  <2>1. Trusted(e) /\ e.value.body.status = 200
    BY <1>1, <1>4
  <2> HIDE DEF e
  <2> QED BY <1>5, <2>1 DEF WorkerInv, DataInv
<1>7. ASSUME NEW i \in 1..Len(data')
      PROVE  Trusted(data[i])'
  BY <1>0, <1>6 DEF Trusted, Young, service
<1> QED BY <1>5, <1>6, <1>7 DEF DataInv

LEMMA WorkerStep == WorkerInv /\ [Next]_vars => WorkerInv'
<1> SUFFICES ASSUME WorkerInv, [Next]_vars PROVE WorkerInv'
  OBVIOUS
<1>1. CASE UNCHANGED vars
  <2>1. UNCHANGED <<service, data, workload, pc, req, came, since, answer, expires>>
    BY <1>1 DEF vars
  <2>2. DataInv'
    BY <2>1, DataSame
  <2>3. ServiceInv' /\ ThreadTypes'
    BY <2>1 DEF WorkerInv, ServiceInv, ThreadTypes, service
  <2>4. \A t \in Threads : ThreadInv(t)'
    BY <2>1, OtherThread
  <2> QED BY <2>2, <2>3, <2>4 DEF WorkerInv
<1>2. CASE Tick \/ Publish \/ Restart
  BY <1>2, TickKeeps, PublishKeeps, RestartKeeps
<1>3. ASSUME NEW t \in Threads, Handle(t)
      PROVE  WorkerInv'
  <2>1. CASE (\E r \in workload : Arrive(t, r)) \/ Miss(t) \/ Query(t)
    BY <2>1, InnerKeeps
  <2>2. CASE Expiry(t) /\ ~Return(t, answer[t].body)
    BY <2>2, ExpiryKeeps
  <2>3. CASE Refuse(t) \/ Hit(t) \/ Raise(t) \/ Store(t)
             \/ (Expiry(t) /\ Return(t, answer[t].body))
    <3>1. UNCHANGED <<service, workload>> /\ \E body : Return(t, body)
      BY <2>3 DEF Refuse, Hit, Raise, Store, Expiry
    <3>2. DataInv'
      <4>1. CASE Hit(t)
        BY <3>1, <4>1, DataGot DEF Hit
      <4>2. CASE Store(t)
        BY <4>2, StoreKeeps
      <4>3. CASE Refuse(t) \/ Raise(t) \/ (Expiry(t) /\ Return(t, answer[t].body))
        BY <3>1, <4>3, DataSame DEF Refuse, Raise, Expiry
      <4> QED BY <2>3, <4>1, <4>2, <4>3
    <3> QED BY <3>1, <3>2, ReturnKeeps DEF WorkerInv
  <2> QED BY <1>3, <2>1, <2>2, <2>3 DEF Handle
<1> QED BY <1>1, <1>2, <1>3 DEF Next

\* The invariant the other theorems rest on: whatever the threads, the clock and
\* the databases do, the cache and the threads hold only answers that may be
\* used (app/cache/memory.py and the endpoints).
THEOREM WorkerInvariant == Spec => []WorkerInv
<1>1. Init => WorkerInv
  BY WorkerStarts
<1>2. WorkerInv /\ [Next]_vars => WorkerInv'
  BY WorkerStep
<1> QED BY <1>1, <1>2, PTL DEF Spec

(* However the threads interleave, the cache stays within its size and      *)
(* holds one entry for a key (ResponseCache.set).                           *)
THEOREM CacheStaysBounded == Spec => []CacheBounded
<1>1. WorkerInv => CacheBounded
  BY DEF WorkerInv, DataInv, CacheBounded
<1> QED BY <1>1, WorkerInvariant, PTL

(* Whatever request finds an entry, the entry is what the request would     *)
(* have been answered: make_key leaves out no parameter that matters.       *)
THEOREM KeysSuffice == Spec => []KeyDeterminesAnswer
<1>1. WorkerInv => KeyDeterminesAnswer
  BY DEF WorkerInv, DataInv, ServiceInv, Trusted, KeyDeterminesAnswer
<1> QED BY <1>1, WorkerInvariant, PTL

-----------------------------------------------------------------------------
(* Types                                                                    *)

\* What TypeOK says beyond WorkerInv: the bounds of a behaviour, and what is
\* replied.
BoundsInv ==
  /\ time \in 0..MAX_TIME
  /\ replaced \in [Versions -> 0..MAX_TIME \cup {NONE}]
  /\ workload \in Workloads
  /\ \A i \in 1..Len(data) : data[i].key \in {Key(r) : r \in workload}
  /\ came \in [Threads -> 0..MAX_TIME]
  /\ since \in [Threads -> 0..MAX_TIME]
  /\ reply = NONE \/ (reply.to \in Threads /\ reply.body.status \in {200, 400, 404, 500})

\* Every endpoint answers with one of three codes.
LEMMA AnswerStatus ==
  ASSUME NEW v, NEW r \in Requests
  PROVE  Answer(v, r).status \in {200, 404, 500}
<1> DEFINE d == Archive[v]
<1> HIDE DEF d
<1>1. \A list, total : OneMore(list, r, total).status = 200 /\ Counted(list, r).status = 200
  BY DEF OneMore, Counted, OK
<1>2. \A list : Whole(list).status = 200 /\ \A n : [Whole(list) EXCEPT !.total = n].status = 200
  BY DEF Whole, OK
<1>3. \A n : Refused(n).status = n
  BY DEF Refused
<1>4. PostsAnswer(d, r).status = 200 /\ UserPostsAnswer(d, r).status = 200
  BY <1>1 DEF PostsAnswer, UserPostsAnswer
<1>5. ThreadsAnswer(d, r).status = 200 /\ ReputationAnswer(d, r).status = 200
  BY <1>1 DEF ThreadsAnswer, ReputationAnswer
<1>6. UsersAnswer(d, r).status = 200
  BY <1>1 DEF UsersAnswer
<1>7. UserAnswer(d, r).status \in {200, 404}
  BY <1>2, <1>3 DEF UserAnswer
<1>8. ThreadAnswer(d, r).status \in {200, 404}
  BY <1>3 DEF ThreadAnswer, OK
<1>9. r.kind \in Paged \cup {"user", "titles", "index"}
  BY ArchiveAssumption
<1>10. CASE r.kind = "index"
  BY <1>2, <1>3, <1>10 DEF Answer
<1>11. CASE r.kind # "index" /\ ~d.exists
  BY <1>3, <1>11 DEF Answer, d
<1>12. CASE r.kind # "index" /\ d.exists
  BY <1>2, <1>4, <1>5, <1>6, <1>7, <1>8, <1>9, <1>12 DEF Answer, Paged, d
<1> QED BY <1>10, <1>11, <1>12

LEMMA BoundsStart == Init => BoundsInv
<1> SUFFICES ASSUME Init PROVE BoundsInv
  OBVIOUS
<1>1. MAX_TIME \in Nat /\ 0 \in 0..MAX_TIME
  BY SearchAssumption
<1>2. data = <<>> /\ Len(data) = 0
  BY DEF Init
<1> QED BY <1>1, <1>2 DEF Init, BoundsInv

\* The keys in the cache are those of requests of the workload.
LEMMA KeysKept ==
  ASSUME WorkerInv, BoundsInv, [Next]_vars
  PROVE  \A i \in 1..Len(data') : data'[i].key \in {Key(r) : r \in workload}
<1>1. data \in Seq(CacheEntries) /\ Cache!Bounded
  BY DEF WorkerInv, DataInv
<1>2. CASE UNCHANGED data
  BY <1>2 DEF BoundsInv
<1>3. CASE data' = <<>>
  <2>1. Len(data') = 0
    BY <1>3
  <2> QED BY <2>1
<1>4. CASE \E key, now : Cache!Get(key, now)
  <2>1. \A i \in 1..Len(data') : \E j \in 1..Len(data) : data'[i] = data[j]
    BY <1>1, <1>4, GetKeeps
  <2> QED BY <2>1 DEF BoundsInv
<1>5. ASSUME NEW t \in Threads, Store(t)
      PROVE  \A i \in 1..Len(data') : data'[i].key \in {Key(r) : r \in workload}
  <2> DEFINE e == [key |-> Key(req[t]), expires |-> expires[t], value |-> answer[t]]
  <2>1. /\ pc[t] = "store" /\ req[t] \in workload /\ req[t] \in Requests
        /\ answer[t] \in Answers /\ expires[t] \in Nat
    BY <1>5 DEF Store, WorkerInv, ThreadInv, Holding, ThreadTypes, ServiceInv
  <2>2. e \in CacheEntries
    BY <2>1 DEF CacheEntries
  <2>3. Cache!Set(e.key, e.value, e.expires)
    BY <1>5 DEF Store
  <2>4. e.key \in {Key(r) : r \in workload}
    BY <2>1
  <2> HIDE DEF e
  <2>5. \A i \in 1..Len(data') : data'[i] = e \/ \E j \in 1..Len(data) : data'[i] = data[j]
    BY <1>1, <2>2, <2>3, SetKeeps
  <2> QED BY <2>4, <2>5 DEF BoundsInv
<1> QED BY <1>2, <1>3, <1>4, <1>5
        DEF Next, Handle, Tick, Publish, Restart, Arrive, Refuse, Hit, Miss, Query, Raise,
            Expiry, vars

\* A reply goes to a thread, with one of the codes.
LEMMA ReplyKept ==
  ASSUME WorkerInv, BoundsInv, [Next]_vars
  PROVE  reply' = NONE \/ (reply'.to \in Threads /\ reply'.body.status \in {200, 400, 404, 500})
<1>1. ASSUME NEW t \in Threads, NEW body, Return(t, body),
             body.status \in {200, 400, 404, 500}
      PROVE  reply'.to \in Threads /\ reply'.body.status \in {200, 400, 404, 500}
  BY <1>1 DEF Return
<1>2. ASSUME NEW t \in Threads, Refuse(t)
      PROVE  reply'.to \in Threads /\ reply'.body.status \in {200, 400, 404, 500}
  <2>1. Refused(400).status = 400
    BY DEF Refused
  <2> QED BY <1>1, <1>2, <2>1 DEF Refuse
<1>3. ASSUME NEW t \in Threads, Hit(t)
      PROVE  reply'.to \in Threads /\ reply'.body.status \in {200, 400, 404, 500}
  <2>1. Cache!Spot(Key(req[t])) \in 1..Len(data)
    BY <1>3, SpotIs DEF Hit, Cache!Fresh
  <2>2. Cache!Entry(Key(req[t])).value.body.status = 200
    BY <2>1 DEF Cache!Entry, WorkerInv, DataInv
  <2> QED BY <1>1, <1>3, <2>2 DEF Hit
<1>4. ASSUME NEW t \in Threads, pc[t] \in {"set", "store"}, Return(t, answer[t].body)
      PROVE  reply'.to \in Threads /\ reply'.body.status \in {200, 400, 404, 500}
  <2>1. req[t] \in Requests /\ answer[t].body = Answer(answer[t].from, req[t])
    BY <1>4 DEF WorkerInv, ThreadInv, Holding, ServiceInv
  <2>2. answer[t].body.status \in {200, 404, 500}
    BY <2>1, AnswerStatus
  <2> QED BY <1>1, <1>4, <2>2
<1>5. ASSUME NEW t \in Threads, Handle(t)
      PROVE  reply' = NONE \/ (reply'.to \in Threads /\ reply'.body.status \in {200, 400, 404, 500})
  <2>1. CASE (\E r \in workload : Arrive(t, r)) \/ Miss(t) \/ Query(t)
    BY <2>1 DEF Arrive, Miss, Query
  <2>2. CASE Refuse(t) \/ Hit(t)
    BY <1>2, <1>3, <2>2
  <2>3. CASE Raise(t) \/ Expiry(t) \/ Store(t)
    BY <1>4, <2>3 DEF Raise, Expiry, Store
  <2> QED BY <1>5, <2>1, <2>2, <2>3 DEF Handle
<1>6. CASE Tick \/ Publish \/ Restart
  BY <1>6 DEF Tick, Publish, Restart
<1>7. CASE UNCHANGED vars
  BY <1>7 DEF vars, BoundsInv
<1> QED BY <1>5, <1>6, <1>7 DEF Next

LEMMA BoundsStep == WorkerInv /\ BoundsInv /\ [Next]_vars => BoundsInv'
<1> SUFFICES ASSUME WorkerInv, BoundsInv, [Next]_vars PROVE BoundsInv'
  OBVIOUS
<1>0. MAX_TIME \in Nat /\ time \in 0..MAX_TIME /\ 0 \in 0..MAX_TIME
  BY SearchAssumption DEF BoundsInv
<1>1. time' \in 0..MAX_TIME
  <2>1. CASE Tick
    BY <1>0, <2>1 DEF Tick
  <2>2. CASE UNCHANGED time
    BY <1>0, <2>2
  <2> QED BY <2>1, <2>2 DEF Next, Handle, Publish, Restart, Arrive, Refuse, Hit, Miss, Query,
                        Raise, Expiry, Store, service, vars
<1>2. replaced' \in [Versions -> 0..MAX_TIME \cup {NONE}]
  <2>1. CASE Publish
    BY <1>0, <2>1 DEF Publish, BoundsInv
  <2>2. CASE UNCHANGED replaced
    BY <2>2 DEF BoundsInv
  <2> QED BY <2>1, <2>2 DEF Next, Handle, Tick, Restart, Arrive, Refuse, Hit, Miss, Query,
                        Raise, Expiry, Store, service, vars
<1>3. workload' = workload
  BY DEF Next, Handle, Tick, Publish, Restart, Arrive, Refuse, Hit, Miss, Query,
         Raise, Expiry, Store, service, vars
<1>4. came' \in [Threads -> 0..MAX_TIME]
  <2>1. ASSUME NEW t \in Threads, Handle(t)
        PROVE  \/ UNCHANGED came \/ came' = [came EXCEPT ![t] = 0]
               \/ came' = [came EXCEPT ![t] = time]
    BY <2>1 DEF Handle, Arrive, Refuse, Hit, Miss, Query, Raise, Expiry, Store, Return
  <2>2. Restart => came' = [t \in Threads |-> 0]
    BY DEF Restart
  <2>3. Tick \/ Publish \/ UNCHANGED vars => UNCHANGED came
    BY DEF Tick, Publish, vars
  <2>4. \/ UNCHANGED came \/ came' = [t \in Threads |-> 0]
        \/ \E t \in Threads, now \in {0, time} : came' = [came EXCEPT ![t] = now]
    BY <2>1, <2>2, <2>3 DEF Next
  <2> QED BY <1>0, <2>4 DEF BoundsInv
<1>5. since' \in [Threads -> 0..MAX_TIME]
  <2>1. ASSUME NEW t \in Threads, Handle(t)
        PROVE  \/ UNCHANGED since \/ since' = [since EXCEPT ![t] = 0]
               \/ since' = [since EXCEPT ![t] = time]
    BY <2>1 DEF Handle, Arrive, Refuse, Hit, Miss, Query, Raise, Expiry, Store, Return
  <2>2. Restart => since' = [t \in Threads |-> 0]
    BY DEF Restart
  <2>3. Tick \/ Publish \/ UNCHANGED vars => UNCHANGED since
    BY DEF Tick, Publish, vars
  <2>4. \/ UNCHANGED since \/ since' = [t \in Threads |-> 0]
        \/ \E t \in Threads, now \in {0, time} : since' = [since EXCEPT ![t] = now]
    BY <2>1, <2>2, <2>3 DEF Next
  <2> QED BY <1>0, <2>4 DEF BoundsInv
<1> QED BY <1>1, <1>2, <1>3, <1>4, <1>5, KeysKept, ReplyKept DEF BoundsInv

(* Every variable of the worker has its type: the cache holds keys of the   *)
(* requests that are made, a thread has a request as long as it is busy,    *)
(* and what is replied is an answer or one of the errors of the endpoints.  *)
THEOREM CachedTypes == Spec => []TypeOK
<1>1. Init => WorkerInv /\ BoundsInv
  BY WorkerStarts, BoundsStart
<1>2. WorkerInv /\ BoundsInv /\ [Next]_vars => (WorkerInv /\ BoundsInv)'
  BY WorkerStep, BoundsStep
<1>3. WorkerInv /\ BoundsInv => TypeOK
  <2> SUFFICES ASSUME WorkerInv, BoundsInv PROVE TypeOK
    OBVIOUS
  <2>1. \A i \in 1..Len(data) : data[i].value.from \in Versions /\ data[i].expires \in Nat
    <3>1. \A i \in 1..Len(data) : data[i] \in CacheEntries
      BY ElementOfSeq DEF WorkerInv, DataInv
    <3> QED BY <3>1 DEF CacheEntries, Answers
  <2>2. /\ \A t \in Threads : pc[t] = "idle" <=> req[t] = NONE
        /\ req \in [Threads -> workload \cup {NONE}]
    <3>1. \A t \in Threads : pc[t] = "idle" => req[t] = NONE
      BY DEF WorkerInv, ThreadInv
    <3>2. \A t \in Threads : pc[t] # "idle" => req[t] \in workload
      BY DEF WorkerInv, ThreadInv
    <3>3. NONE \notin workload /\ req \in [Threads -> Requests \cup {NONE}]
      BY SearchAssumption DEF WorkerInv, ServiceInv, ThreadTypes
    <3> QED BY <3>1, <3>2, <3>3
  <2>3. \A t \in Threads : answer[t] = NoAnswer \/ answer[t].from \in Versions
    <3>1. \A t \in Threads : answer[t] \in Answers \cup {NoAnswer}
      BY DEF WorkerInv, ThreadTypes
    <3>2. \A a \in Answers : a.from \in Versions
      BY DEF Answers
    <3> QED BY <3>1, <3>2
  <2>4. pc \in [Threads -> {"idle", "get", "query", "set", "store"}] /\ expires \in [Threads -> Nat]
        /\ version \in Versions
    BY DEF WorkerInv, ThreadTypes, ServiceInv
  <2> QED BY <2>1, <2>2, <2>3, <2>4 DEF BoundsInv, TypeOK
<1> QED BY <1>1, <1>2, <1>3, PTL DEF Spec

-----------------------------------------------------------------------------
(* The endpoints implement the service without a cache                      *)

\* A reply with an answer of a version that was in place long enough.
LEMMA ReplyServes ==
  ASSUME WorkerInv, NEW t \in Threads, NEW body, Return(t, body), pc[t] # "idle",
         UNCHANGED service,
         NEW v \in Versions, Young(v, came[t] - Age(req[t])),
         body = IF Invalid(req[t]) THEN Refused(400) ELSE Answer(v, req[t])
  PROVE  Service!Reply(t)
<1>1. req[t] \in Requests /\ req[t] # NONE
  BY SearchAssumption DEF WorkerInv, ThreadInv, ServiceInv
<1>2. /\ req' = [req EXCEPT ![t] = NONE] /\ came' = [came EXCEPT ![t] = 0]
      /\ reply' = [to |-> t, body |-> body]
      /\ UNCHANGED <<time, version, replaced>>
  BY DEF Return, service
<1>3. Service!Recent(t, v)
  BY DEF Young, Service!Recent
<1> QED BY <1>1, <1>2, <1>3 DEF Service!Reply

LEMMA HitServes ==
  ASSUME WorkerInv, NEW t \in Threads, Hit(t)
  PROVE  Service!Reply(t)
<1> DEFINE e == Cache!Entry(Key(req[t]))
<1>1. /\ pc[t] = "get" /\ ~Invalid(req[t]) /\ Cache!Fresh(Key(req[t]), came[t])
      /\ Return(t, e.value.body) /\ UNCHANGED service
  BY DEF Hit
<1>2. req[t] \in Requests /\ came[t] \in Nat
  BY <1>1 DEF WorkerInv, ThreadInv, ThreadTypes, ServiceInv
<1>3. e \in CacheEntries /\ e.key = Key(req[t]) /\ Trusted(e)
  <2>1. Cache!Spot(Key(req[t])) \in 1..Len(data) /\ data[Cache!Spot(Key(req[t]))].key = Key(req[t])
    BY <1>1, SpotIs DEF Cache!Fresh
  <2> QED BY <2>1, ElementOfSeq DEF Cache!Entry, WorkerInv, DataInv
<1>4. e.expires >= came[t] /\ e.expires \in Nat /\ e.value.from \in Versions
  BY <1>1, <1>3 DEF Cache!Fresh, CacheEntries, Answers
<1> HIDE DEF e
<1>5. e.value.body = Answer(e.value.from, req[t]) /\ Young(e.value.from, e.expires - Age(req[t]))
  BY <1>2, <1>3 DEF Trusted
<1>6. Young(e.value.from, came[t] - Age(req[t]))
  <2>1. replaced[e.value.from] # NONE => replaced[e.value.from] \in Nat
    BY <1>4 DEF WorkerInv, ServiceInv
  <2>2. e.expires - Age(req[t]) >= came[t] - Age(req[t]) /\ Age(req[t]) \in Nat
    BY <1>2, <1>4, RequestTimes
  <2> QED BY <1>2, <1>4, <1>5, <2>1, <2>2 DEF Young
<1> QED BY <1>1, <1>4, <1>5, <1>6, ReplyServes

LEMMA HeldServes ==
  ASSUME WorkerInv, NEW t \in Threads, pc[t] \in {"set", "store"}, Return(t, answer[t].body),
         UNCHANGED service
  PROVE  Service!Reply(t)
<1>1. /\ Holding(t, came[t]) /\ ~Invalid(req[t]) /\ req[t] \in Requests
      /\ came[t] \in Nat /\ answer[t].from \in Versions
  BY DEF WorkerInv, ThreadInv, ThreadTypes, ServiceInv, Holding, Answers
<1>2. Young(answer[t].from, came[t] - Age(req[t]))
  <2>1. replaced[answer[t].from] # NONE => replaced[answer[t].from] \in Nat
    BY <1>1 DEF WorkerInv, ServiceInv
  <2> QED BY <1>1, <2>1, RequestTimes DEF Holding, Young
<1> QED BY <1>1, <1>2, ReplyServes DEF Holding

LEMMA ThreadServes ==
  ASSUME WorkerInv, NEW t \in Threads, Handle(t)
  PROVE  Service!Next
<1>1. CASE \E r \in workload : Arrive(t, r)
  <2>1. PICK r \in workload : Arrive(t, r)
    BY <1>1
  <2>2. r \in Requests /\ req[t] = NONE
    BY <2>1 DEF WorkerInv, ThreadInv, ServiceInv, Arrive
  <2>3. Service!Ask(t, r)
    BY <2>1, <2>2 DEF Arrive, Service!Ask, service
  <2> QED BY <2>2, <2>3 DEF Service!Next
<1>2. CASE Refuse(t)
  <2>1. version \in Versions /\ Young(version, came[t] - Age(req[t]))
    BY DEF WorkerInv, ServiceInv, Young
  <2>2. Service!Reply(t)
    BY <1>2, <2>1, ReplyServes DEF Refuse
  <2> QED BY <2>2 DEF Service!Next
<1>3. CASE Hit(t)
  BY <1>3, HitServes DEF Service!Next
<1>4. CASE Raise(t) \/ Store(t) \/ (Expiry(t) /\ Return(t, answer[t].body))
  <2>1. Service!Reply(t)
    BY <1>4, HeldServes DEF Raise, Store, Expiry
  <2> QED BY <2>1 DEF Service!Next
<1>5. CASE Miss(t) \/ Query(t) \/ (Expiry(t) /\ ~Return(t, answer[t].body))
  <2>1. Service!Work
    BY <1>5 DEF Miss, Query, Expiry, Service!Work, service
  <2> QED BY <2>1 DEF Service!Next
<1> QED BY <1>1, <1>2, <1>3, <1>4, <1>5 DEF Handle

LEMMA StepServes == WorkerInv /\ [Next]_vars => [Service!Next]_(Service!vars)
<1> SUFFICES ASSUME WorkerInv, [Next]_vars
             PROVE  [Service!Next]_(Service!vars)
  OBVIOUS
<1>1. CASE UNCHANGED vars
  BY <1>1 DEF vars, service, Service!vars
<1>2. CASE Tick
  <2>1. Service!Pass
    BY <1>2 DEF Tick, Service!Pass
  <2> QED BY <2>1 DEF Service!Next
<1>3. CASE Publish
  <2>1. version + 1 \in Versions
    BY <1>3, SearchAssumption DEF Publish, WorkerInv, ServiceInv, Versions
  <2>2. Service!Publish
    BY <1>3, <2>1 DEF Publish, Service!Publish
  <2> QED BY <2>2 DEF Service!Next
<1>4. CASE Restart
  <2>1. Service!Restart
    BY <1>4 DEF Restart, Service!Restart, service
  <2> QED BY <2>1 DEF Service!Next
<1>5. CASE \E t \in Threads : Handle(t)
  BY <1>5, ThreadServes
<1> QED BY <1>1, <1>2, <1>3, <1>4, <1>5 DEF Next

(* The endpoints with their cache (app/api, app/cache/memory.py) implement  *)
(* the service without one, for any archive, requests, threads, lifetimes   *)
(* and size of the cache: every reply is what the databases say at the      *)
(* request, or said no longer ago than the lifetime and one slow query.     *)
THEOREM CacheServesArchive == Spec => ServesArchive
<1>1. Init => Service!Init
  BY DEF Init, Service!Init
<1>2. WorkerInv /\ [Next]_vars => [Service!Next]_(Service!vars)
  BY StepServes
<1> QED BY <1>1, <1>2, WorkerInvariant, PTL DEF Spec, ServesArchive, Service!Spec
=============================================================================
