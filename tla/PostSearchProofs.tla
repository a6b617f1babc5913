-------------------------- MODULE PostSearchProofs --------------------------
(***************************************************************************)
(* What the post search of static/search.html promises, for every set of   *)
(* forms, every number of matching posts and every page and block size.    *)
(***************************************************************************)
EXTENDS PostSearch, WellFoundedInduction, TLAPS

\* The offset of a page of posts.
IsPage(o, ask) == Hits(ask) > o /\ o % PAGE = 0

TotalOf(ask) == IF ask.form \in Counted THEN Hits(ask) ELSE NoTotal

\* There is something to click or to wait for only after a search.
Started == live # Idle \/ footer.buttons # {} => last \in Ask

PagesExist == \A o \in DOMAIN pages : IsPage(o, pages[o])

BlockAsked == live # Idle => live.from % FETCH = 0

\* What OneSearch needs: the search in flight, the box and the total are those
\* of ftsLastParams.
Single ==
  ~mixed => /\ live # Idle => live.ask = last
            /\ last \in Ask => last.op = box
            /\ footer.total # NoTotal => last \in Ask /\ footer.total = TotalOf(last)

PanelInv == TypeOK /\ Started /\ PagesExist /\ BlockAsked

SearchInv ==
  /\ PanelInv /\ PageMatchesOffset /\ SpinnerAwaited
  /\ Single /\ OneSearch /\ ButtonsLeadToPosts

-----------------------------------------------------------------------------
(* Arithmetic of pages and blocks.                                          *)

LEMMA Least ==
  ASSUME NEW S, S \subseteq Nat, S # {}
  PROVE  \E n \in S : \A m \in S : n <= m
<1> DEFINE R == OpToRel(<, Nat)
<1>1. IsWellFoundedOn(R, Nat)
  BY NatLessThanWellFounded
<1>2. \A x, y \in Nat : <<y, x>> \in R <=> y < x
  BY DEF OpToRel
<1> HIDE DEF R
<1>3. PICK x \in S : \A y \in S : ~(<<y, x>> \in R)
  BY <1>1, WFMin
<1>4. \A y \in S : x <= y
  <2> TAKE y \in S
  <2>1. x \in Nat /\ y \in Nat /\ ~(y < x)
    BY <1>2, <1>3
  <2> QED BY <2>1
<1> QED BY <1>4

\* A bounded set of naturals has a largest member.
LEMMA Greatest ==
  ASSUME NEW S, NEW b \in Nat, S \subseteq 0..b, S # {}
  PROVE  \E n \in S : \A m \in S : m <= n
<1> DEFINE T == {b - s : s \in S}
<1>0. T # {}
  <2>1. PICK s \in S : TRUE
    OBVIOUS
  <2>2. b - s \in T
    BY <2>1
  <2> QED BY <2>2
<1>1. T \subseteq Nat
  OBVIOUS
<1> HIDE DEF T
<1>2. PICK t \in T : \A u \in T : t <= u
  BY <1>0, <1>1, Least
<1>3. PICK n \in S : t = b - n
  BY DEF T
<1>4. \A m \in S : m <= n
  <2> TAKE m \in S
  <2>1. b - m \in T /\ m \in Int /\ n \in Int
    BY DEF T
  <2>2. b - n <= b - m
    BY <1>2, <1>3, <2>1
  <2> QED BY <2>1, <2>2
<1> QED BY <1>4

LEMMA Quotient ==
  ASSUME NEW a \in Nat, NEW b \in Nat \ {0}
  PROVE  a \div b \in Nat /\ (a \div b) * b <= a /\ a < (a \div b) * b + b
OBVIOUS

LEMMA Multiple ==
  ASSUME NEW a \in Nat, NEW b \in Nat \ {0}, a % b = 0
  PROVE  a = (a \div b) * b
<1>1. a = ((a \div b) * b) + (a % b)
  OBVIOUS
<1> QED BY <1>1

LEMMA IsMultiple ==
  ASSUME NEW n \in Nat, NEW b \in Nat \ {0}
  PROVE  n * b \in Nat /\ (n * b) % b = 0 /\ (n * b) \div b = n
OBVIOUS

LEMMA MultipleOrder ==
  ASSUME NEW n \in Int, NEW m \in Int, NEW b \in Nat \ {0}
  PROVE  n * b < m * b <=> n < m
OBVIOUS

LEMMA MultipleSum ==
  ASSUME NEW n \in Int, NEW m \in Int, NEW b \in Int
  PROVE  (n + m) * b = n * b + m * b /\ (n - m) * b = n * b - m * b
OBVIOUS

LEMMA SumOfMultiples ==
  ASSUME NEW a \in Nat, NEW c \in Nat, NEW b \in Nat \ {0}, a % b = 0, c % b = 0
  PROVE  (a + c) % b = 0
<1> DEFINE n == a \div b
           m == c \div b
<1>1. n \in Nat /\ a = n * b
  BY Multiple, Quotient
<1>2. m \in Nat /\ c = m * b
  BY Multiple, Quotient
<1> HIDE DEF n, m
<1>3. a + c = (n + m) * b
  BY <1>1, <1>2, MultipleSum
<1>4. n + m \in Nat
  BY <1>1, <1>2
<1> QED BY <1>3, <1>4, IsMultiple

LEMMA MultipleOfMultiple ==
  ASSUME NEW j \in Nat, NEW f \in Nat, NEW b \in Nat \ {0}, f % b = 0
  PROVE  (j * f) % b = 0
<1> DEFINE m == f \div b
<1>1. m \in Nat /\ f = m * b
  BY Multiple, Quotient
<1> HIDE DEF m
<1>2. j * f = (j * m) * b
  BY <1>1
<1>3. j * m \in Nat
  BY <1>1
<1> QED BY <1>2, <1>3, IsMultiple

LEMMA BlockStart ==
  ASSUME NEW o \in Nat
  PROVE  /\ BlockOf(o) \in Nat /\ BlockOf(o) % FETCH = 0 /\ BlockOf(o) % PAGE = 0
         /\ BlockOf(o) <= o
<1> DEFINE j == o \div FETCH
<1>0. PAGE \in Nat \ {0} /\ FETCH \in Nat \ {0} /\ FETCH % PAGE = 0
  BY SearchAssumption
<1>1. j \in Nat /\ j * FETCH <= o
  BY <1>0, Quotient
<1>2. BlockOf(o) = j * FETCH
  BY DEF BlockOf
<1> HIDE DEF j
<1>3. j * FETCH \in Nat /\ (j * FETCH) % FETCH = 0
  BY <1>0, <1>1, IsMultiple
<1>4. (j * FETCH) % PAGE = 0
  BY <1>0, <1>1, MultipleOfMultiple
<1> QED BY <1>1, <1>2, <1>3, <1>4

\* A page in a block ends in that block.
LEMMA PageInBlock ==
  ASSUME NEW o \in Nat, o % PAGE = 0
  PROVE  o + PAGE <= BlockOf(o) + FETCH
<1> DEFINE j == o \div FETCH
           B == j * FETCH
           m == FETCH \div PAGE
           n == o \div PAGE
<1>0. PAGE \in Nat \ {0} /\ FETCH \in Nat \ {0} /\ FETCH % PAGE = 0
  BY SearchAssumption
<1>1. j \in Nat /\ B <= o /\ o < B + FETCH
  BY <1>0, Quotient
<1>2. m \in Nat /\ FETCH = m * PAGE
  BY <1>0, Multiple, Quotient
<1>3. n \in Nat /\ o = n * PAGE
  BY <1>0, Multiple, Quotient
<1>4. BlockOf(o) = B
  BY DEF BlockOf
<1> HIDE DEF j, m, n
<1>5. B \in Nat
  BY <1>0, <1>1
<1>6. B + FETCH = (j * m + m) * PAGE
  <2>1. j * FETCH = (j * m) * PAGE
    BY <1>0, <1>1, <1>2
  <2>2. (j * m) \in Int
    BY <1>1, <1>2
  <2> QED BY <1>0, <1>2, <2>1, <2>2, MultipleSum
<1>7. n < j * m + m
  <2>1. j * m + m \in Int /\ n \in Int
    BY <1>1, <1>2, <1>3
  <2>2. n * PAGE < (j * m + m) * PAGE
    BY <1>1, <1>3, <1>6
  <2> HIDE DEF B
  <2> QED BY <1>0, <2>1, <2>2, MultipleOrder
<1>8. o + PAGE <= B + FETCH
  <2> DEFINE t == j * m + m
  <2>1. t \in Int /\ n + 1 \in Int /\ ~(t < n + 1)
    BY <1>1, <1>2, <1>3, <1>7
  <2>2. B + FETCH = t * PAGE
    BY <1>6
  <2>3. o + PAGE = (n + 1) * PAGE
    BY <1>0, <1>3, MultipleSum
  <2> HIDE DEF t, B
  <2>4. ~(t * PAGE < (n + 1) * PAGE)
    BY <1>0, <2>1, MultipleOrder
  <2>5. t * PAGE \in Int /\ (n + 1) * PAGE \in Int
    BY <1>0, <2>1
  <2> QED BY <2>2, <2>3, <2>4, <2>5
<1> HIDE DEF B
<1> QED BY <1>4, <1>8

-----------------------------------------------------------------------------
(* What the endpoint answers.                                               *)

LEMMA AskTypes ==
  ASSUME NEW ask \in Ask
  PROVE  /\ ask.form \in Forms /\ ask.op \in BOOLEAN /\ Hits(ask) \in Nat
         /\ ask = [form |-> ask.form, op |-> ask.op]
BY SearchAssumption DEF Ask, Hits

LEMMA BlockTypes ==
  ASSUME NEW ask \in Ask, NEW from \in Nat
  PROVE  /\ Block(ask, from).rows \in Nat
         /\ Block(ask, from).more \in BOOLEAN
         /\ Block(ask, from).total = TotalOf(ask)
         /\ TotalOf(ask) \in Totals
<1>1. Hits(ask) \in Nat /\ FETCH \in Nat
  BY AskTypes, SearchAssumption
<1>2. SmallerOf(FETCH, LargerOf(0, Hits(ask) - from)) \in Nat
  BY <1>1 DEF SmallerOf, LargerOf
<1>3. TotalOf(ask) \in Totals
  BY <1>1 DEF TotalOf, Totals
<1> QED BY <1>2, <1>3 DEF Block, TotalOf

\* cacheFtsBlock keeps pages that exist, at multiples of the page size.
LEMMA BlockPages ==
  ASSUME NEW ask \in Ask, NEW from \in Nat, from % PAGE = 0,
         NEW o \in DOMAIN PagesOf(ask, from)
  PROVE  o \in Nat /\ IsPage(o, ask) /\ PagesOf(ask, from)[o] = ask
<1> DEFINE rows == Block(ask, from).rows
<1>1. PICK k \in 0..(FETCH \div PAGE) : o = from + k * PAGE /\ k * PAGE < rows
  BY DEF PagesOf
<1>2. PagesOf(ask, from)[o] = ask
  BY DEF PagesOf
<1>3. k \in Nat /\ PAGE \in Nat \ {0} /\ FETCH \in Nat /\ Hits(ask) \in Nat
  BY <1>1, AskTypes, SearchAssumption
<1>4. rows <= LargerOf(0, Hits(ask) - from)
  BY <1>3 DEF Block, SmallerOf, LargerOf
<1>5. k * PAGE \in Nat /\ (k * PAGE) % PAGE = 0
  BY <1>3, IsMultiple
<1>6. o \in Nat /\ o % PAGE = 0
  BY <1>1, <1>3, <1>5, SumOfMultiples
<1>7. rows \in Nat
  BY BlockTypes
<1> HIDE DEF rows
<1>8. LargerOf(0, Hits(ask) - from) = Hits(ask) - from
  BY <1>1, <1>3, <1>4, <1>5, <1>7 DEF LargerOf
<1>9. Hits(ask) > o
  BY <1>1, <1>3, <1>4, <1>5, <1>7, <1>8
<1> QED BY <1>2, <1>6, <1>9 DEF IsPage

LEMMA MoreTypes ==
  ASSUME NEW ask \in Ask, NEW o \in Nat
  PROVE  HasMore(ask, o) \in BOOLEAN
<1> DEFINE block == Block(ask, BlockOf(o))
           start == o - BlockOf(o)
           rows == SmallerOf(PAGE, block.rows - start)
<1>1. block.more \in BOOLEAN
  BY DEF Block
<1>2. HasMore(ask, o) = IF block.total # NoTotal THEN o + rows < block.total
                        ELSE start + PAGE < block.rows \/ block.more
  BY DEF HasMore
<1> HIDE DEF block, start, rows
<1>3. (o + rows < block.total) \in BOOLEAN
  OBVIOUS
<1>4. (start + PAGE < block.rows \/ block.more) \in BOOLEAN
  BY <1>1
<1> QED BY <1>2, <1>3, <1>4

\* has_more of a page says whether posts follow it, with a total or without.
LEMMA MoreIsExact ==
  ASSUME NEW ask \in Ask, NEW o \in Nat, IsPage(o, ask)
  PROVE  HasMore(ask, o) <=> Hits(ask) > o + PAGE
<1> DEFINE h == Hits(ask)
           B == BlockOf(o)
           block == Block(ask, B)
           s == o - B
           cut == SmallerOf(PAGE, block.rows - s)
<1>1. h \in Nat /\ h > o /\ PAGE \in Nat \ {0} /\ FETCH \in Nat \ {0} /\ NoTotal \notin Nat
  BY AskTypes, SearchAssumption DEF IsPage
<1>2. B \in Nat /\ B <= o /\ o + PAGE <= B + FETCH
  BY BlockStart, PageInBlock DEF IsPage
<1>3. /\ block.rows = SmallerOf(FETCH, LargerOf(0, h - B))
      /\ block.more = (h > B + FETCH)
      /\ block.total = TotalOf(ask)
  BY DEF Block, TotalOf
<1>4. HasMore(ask, o) = IF block.total # NoTotal THEN o + cut < block.total
                        ELSE s + PAGE < block.rows \/ block.more
  BY DEF HasMore
<1> HIDE DEF h, B, block
<1>5. block.rows = SmallerOf(FETCH, h - B)
  BY <1>1, <1>2, <1>3 DEF LargerOf
<1>6. CASE ask.form \in Counted
  <2>1. block.total = h
    BY <1>3, <1>6 DEF TotalOf, h
  <2>2. cut = SmallerOf(PAGE, h - o)
    BY <1>1, <1>2, <1>5 DEF SmallerOf
  <2>3. h # NoTotal
    BY <1>1
  <2> HIDE DEF cut
  <2>4. HasMore(ask, o) <=> o + cut < h
    BY <1>4, <2>1, <2>3
  <2>5. o + cut < h <=> h > o + PAGE
    BY <1>1, <2>2 DEF SmallerOf
  <2> QED BY <2>4, <2>5 DEF h
<1>7. CASE ask.form \notin Counted
  <2>1. block.total = NoTotal
    BY <1>3, <1>7 DEF TotalOf
  <2>2. HasMore(ask, o) <=> s + PAGE < block.rows \/ h > B + FETCH
    BY <1>3, <1>4, <2>1
  <2>3. s + PAGE < block.rows \/ h > B + FETCH <=> h > o + PAGE
    BY <1>1, <1>2, <1>5 DEF SmallerOf
  <2> QED BY <2>2, <2>3 DEF h
<1> QED BY <1>6, <1>7

-----------------------------------------------------------------------------
(* The page buttons.                                                        *)

Current(o) == o \div PAGE + 1

TotalPages(o, more, total) ==
  IF total # NoTotal THEN LargerOf(1, (total + PAGE - 1) \div PAGE)
  ELSE Current(o) + (IF more THEN 1 ELSE 0)

LEMMA PageCount ==
  ASSUME NEW o \in Nat, NEW more \in BOOLEAN, NEW total \in Totals
  PROVE  Current(o) \in Nat \ {0} /\ TotalPages(o, more, total) \in Nat \ {0}
<1>1. PAGE \in Nat \ {0} /\ o \div PAGE \in Nat
  BY SearchAssumption, Quotient
<1>2. total # NoTotal => (total + PAGE - 1) \div PAGE \in Nat
  BY <1>1, Quotient DEF Totals
<1> QED BY <1>1, <1>2 DEF Current, TotalPages, LargerOf

\* Which pages have a button.
LEMMA ButtonPages ==
  ASSUME NEW o \in Nat, NEW more \in BOOLEAN, NEW total \in Totals,
         NEW b \in Buttons(o, more, total)
  PROVE  \E p \in Nat \ {0} :
           /\ b = (p - 1) * PAGE
           /\ \/ p <= TotalPages(o, more, total)
              \/ p < Current(o)
<1> DEFINE c == Current(o)
           t == TotalPages(o, more, total)
           first      == LargerOf(1, c - 3)
           endPage    == SmallerOf(t, first + 6)
           startPage  == IF endPage - first < 6 THEN LargerOf(1, endPage - 6) ELSE first
           previous   == IF c > 1 THEN {c - 1} ELSE {}
           next       == IF c < t /\ more THEN {c + 1} ELSE {}
<1>1. c \in Nat \ {0} /\ t \in Nat \ {0}
  BY PageCount
<1>2. Buttons(o, more, total) = IF o = 0 /\ ~more THEN {} ELSE
        {(p - 1) * PAGE : p \in (startPage..endPage \cup previous \cup next) \ {c}}
  BY DEF Buttons, Current, TotalPages
<1> HIDE DEF c, t
<1>3. PICK p \in (startPage..endPage \cup previous \cup next) \ {c} : b = (p - 1) * PAGE
  BY <1>2
<1>4. first \in Nat \ {0} /\ endPage \in Nat /\ endPage <= t
  BY <1>1 DEF LargerOf, SmallerOf
<1> HIDE DEF first, endPage
<1>5. startPage \in Nat \ {0}
  BY <1>4 DEF LargerOf
<1> HIDE DEF startPage
<1>6. p \in Nat \ {0} /\ (p <= t \/ p < c)
  BY <1>1, <1>3, <1>4, <1>5
<1> QED BY <1>3, <1>6 DEF c, t

\* The next page has its button when it is within the pages counted.
LEMMA NextButton ==
  ASSUME NEW o \in Nat, NEW total \in Totals, o % PAGE = 0,
         Current(o) < TotalPages(o, TRUE, total)
  PROVE  o + PAGE \in Buttons(o, TRUE, total)
<1> DEFINE c == Current(o)
           t == TotalPages(o, TRUE, total)
           first      == LargerOf(1, c - 3)
           endPage    == SmallerOf(t, first + 6)
           startPage  == IF endPage - first < 6 THEN LargerOf(1, endPage - 6) ELSE first
           previous   == IF c > 1 THEN {c - 1} ELSE {}
           next       == IF c < t THEN {c + 1} ELSE {}
           linked     == (startPage..endPage \cup previous \cup next) \ {c}
<1>1. c \in Nat \ {0} /\ t \in Nat \ {0}
  BY PageCount
<1>2. Buttons(o, TRUE, total) = {(p - 1) * PAGE : p \in linked}
  BY DEF Buttons, Current, TotalPages
<1>3. o = (o \div PAGE) * PAGE /\ o \div PAGE \in Nat /\ PAGE \in Nat \ {0}
  BY SearchAssumption, Multiple, Quotient
<1>4. c - 1 = o \div PAGE
  BY <1>3 DEF Current
<1>5. o + PAGE = c * PAGE
  <2>1. o \div PAGE + 1 = c
    BY DEF Current
  <2>2. (o \div PAGE + 1) * PAGE = (o \div PAGE) * PAGE + 1 * PAGE
    BY <1>3, MultipleSum
  <2> QED BY <1>3, <2>1, <2>2
<1>6. c < t
  OBVIOUS
<1> HIDE DEF c, t, startPage, endPage, previous
<1>7. c + 1 \in linked
  BY <1>1, <1>6
<1>8. (c + 1) - 1 = c
  BY <1>1
<1> HIDE DEF linked
<1> QED BY <1>2, <1>5, <1>7, <1>8

LEMMA ButtonTypes ==
  ASSUME NEW o \in Nat, NEW more \in BOOLEAN, NEW total \in Totals
  PROVE  Buttons(o, more, total) \subseteq Nat
<1> SUFFICES ASSUME NEW b \in Buttons(o, more, total) PROVE b \in Nat
  OBVIOUS
<1>1. PICK p \in Nat \ {0} : b = (p - 1) * PAGE
  BY ButtonPages
<1>2. p - 1 \in Nat /\ PAGE \in Nat \ {0}
  BY <1>1, SearchAssumption
<1> QED BY <1>1, <1>2, IsMultiple

\* What ButtonsLeadToPosts says of a page.
Promised(o, ask, buttons) ==
  /\ \A b \in buttons : Hits(ask) > b
  /\ Hits(ask) > o + PAGE => o + PAGE \in buttons

LEMMA ButtonsKeepPromise ==
  ASSUME NEW ask \in Ask, NEW o \in Nat, IsPage(o, ask)
  PROVE  Promised(o, ask, Buttons(o, HasMore(ask, o), TotalOf(ask)))
<1> DEFINE h == Hits(ask)
           n == o \div PAGE
           more == HasMore(ask, o)
           total == TotalOf(ask)
           t == TotalPages(o, more, total)
<1>1. h \in Nat /\ h > o /\ PAGE \in Nat \ {0} /\ NoTotal \notin Nat
  BY AskTypes, SearchAssumption DEF IsPage
<1>2. n \in Nat /\ o = n * PAGE /\ Current(o) = n + 1
  BY <1>1, Multiple, Quotient DEF IsPage, Current
<1>3. more \in BOOLEAN /\ (more <=> h > o + PAGE) /\ total \in Totals
  BY MoreTypes, MoreIsExact, BlockTypes
<1>4. total = IF ask.form \in Counted THEN h ELSE NoTotal
  BY DEF TotalOf
<1>5. t \in Nat \ {0}
  BY <1>3, PageCount
<1> HIDE DEF n, more, total, h
\* The last page counted has posts, and is not the current one when more follow.
<1>6. (t - 1) * PAGE < h /\ (more => n + 1 < t)
  <2>1. CASE ask.form \in Counted
    <3> DEFINE q == (h + PAGE - 1) \div PAGE
    <3>1. total = h /\ h # NoTotal
      BY <1>1, <1>4, <2>1
    <3>2. q \in Nat /\ q * PAGE <= h + PAGE - 1 /\ h + PAGE - 1 < q * PAGE + PAGE
      <4>1. h + PAGE - 1 \in Nat
        BY <1>1
      <4> QED BY <1>1, <4>1, Quotient
    <3>3. t = LargerOf(1, q)
      BY <3>1 DEF TotalPages
    <3> HIDE DEF q, t
    <3>4. q >= 1
      <4>1. q = 0 => q * PAGE = 0
        BY <1>1
      <4> QED BY <1>1, <3>2, <4>1
    <3>5. t = q
      BY <3>2, <3>3, <3>4 DEF LargerOf
    <3>6. (q - 1) * PAGE = q * PAGE - PAGE
      BY <1>1, <3>2, MultipleSum
    <3>7. more => n + 1 < q
      <4> SUFFICES ASSUME more PROVE n + 1 < q
        OBVIOUS
      <4>1. h > n * PAGE + PAGE
        BY <1>2, <1>3
      <4>2. (n + 1) * PAGE = n * PAGE + PAGE
        BY <1>1, <1>2, MultipleSum
      <4>3. q * PAGE \in Int /\ (n + 1) * PAGE \in Int /\ n * PAGE \in Int
        BY <1>1, <1>2, <3>2
      <4>4. (n + 1) * PAGE < q * PAGE
        BY <1>1, <3>2, <4>1, <4>2, <4>3
      <4>5. n + 1 \in Int /\ q \in Int
        BY <1>2, <3>2
      <4> QED BY <1>1, <4>4, <4>5, MultipleOrder
    <3>8. q * PAGE \in Int
      BY <1>1, <3>2
    <3> QED BY <1>1, <3>2, <3>5, <3>6, <3>7, <3>8
  <2>2. CASE ask.form \notin Counted
    <3>1. t = n + 1 + (IF more THEN 1 ELSE 0)
      BY <1>2, <1>4, <2>2 DEF TotalPages
    <3> HIDE DEF t
    <3>2. (n + 1) * PAGE = n * PAGE + PAGE /\ n * PAGE \in Int
      BY <1>1, <1>2, MultipleSum
    <3>3. CASE more
      <4>1. t - 1 = n + 1 /\ n + 1 < t
        BY <1>2, <3>1, <3>3
      <4> QED BY <1>1, <1>2, <1>3, <3>2, <3>3, <4>1
    <3>4. CASE ~more
      <4>1. t - 1 = n
        BY <1>2, <3>1, <3>4
      <4> QED BY <1>1, <1>2, <3>4, <4>1
    <3> QED BY <3>3, <3>4
  <2> QED BY <2>1, <2>2
<1>7. ASSUME NEW b \in Buttons(o, more, total)
      PROVE  h > b
  <2>1. PICK p \in Nat \ {0} : b = (p - 1) * PAGE /\ (p <= t \/ p < n + 1)
    BY <1>2, <1>3, ButtonPages
  <2> HIDE DEF t
  <2>2. p - 1 \in Int /\ t - 1 \in Int /\ n \in Int
    BY <1>2, <1>5, <2>1
  <2>3. CASE p <= t
    <3>1. ~(t - 1 < p - 1)
      BY <1>5, <2>1, <2>3
    <3>2. ~((t - 1) * PAGE < (p - 1) * PAGE)
      BY <1>1, <2>2, <3>1, MultipleOrder
    <3>3. (t - 1) * PAGE \in Int /\ (p - 1) * PAGE \in Int
      BY <1>1, <2>2
    <3> QED BY <1>1, <1>6, <2>1, <3>2, <3>3
  <2>4. CASE p < n + 1
    <3>1. ~(n < p - 1)
      BY <1>2, <2>1, <2>4
    <3>2. ~(n * PAGE < (p - 1) * PAGE)
      BY <1>1, <2>2, <3>1, MultipleOrder
    <3>3. n * PAGE \in Int /\ (p - 1) * PAGE \in Int
      BY <1>1, <2>2
    <3> QED BY <1>1, <1>2, <2>1, <3>2, <3>3
  <2> QED BY <2>1, <2>3, <2>4
<1>8. ASSUME h > o + PAGE
      PROVE  o + PAGE \in Buttons(o, more, total)
  <2>1. more = TRUE
    BY <1>3, <1>8
  <2>2. Current(o) < TotalPages(o, TRUE, total)
    BY <1>2, <1>6, <2>1
  <2> QED BY <1>3, <2>1, <2>2, NextButton DEF IsPage
<1> QED BY <1>7, <1>8 DEF Promised, h, more, total

-----------------------------------------------------------------------------
(* runFtsQuery                                                              *)

Footers == [more : BOOLEAN, total : Totals, buttons : SUBSET Nat]
Screens == Blank \cup [kind : {"page"}, ask : Ask, from : Nat]
Flights == [stage : {"fetch", "limited"}, ask : Ask, from : Nat] \cup {Idle}

CacheTypes(cache) ==
  \A o \in DOMAIN cache : o \in Nat /\ cache[o] \in Ask /\ IsPage(o, cache[o])

LEMMA StepsBack ==
  ASSUME NEW o \in Nat
  PROVE  Steps(o) \subseteq 0..o /\ 0 \in Steps(o)
<1> DEFINE n == o \div PAGE
<1>1. PAGE \in Nat \ {0} /\ n \in Nat /\ o < n * PAGE + PAGE
  BY SearchAssumption, Quotient
<1>2. Steps(o) = {o} \cup {LargerOf(0, o - k * PAGE) : k \in 0..(n + 1)}
  BY DEF Steps
<1> HIDE DEF n
<1>3. ASSUME NEW k \in 0..(n + 1)
      PROVE  LargerOf(0, o - k * PAGE) \in 0..o
  <2>1. k * PAGE \in Nat
    BY <1>1
  <2> QED BY <2>1 DEF LargerOf
<1>4. LargerOf(0, o - (n + 1) * PAGE) = 0
  <2>1. (n + 1) * PAGE = n * PAGE + PAGE /\ n * PAGE \in Nat
    BY <1>1, MultipleSum
  <2> QED BY <1>1, <2>1 DEF LargerOf
<1>5. n + 1 \in 0..(n + 1)
  BY <1>1
<1>6. 0 \in Steps(o)
  BY <1>2, <1>4, <1>5
<1> QED BY <1>2, <1>3, <1>6

\* The query always comes to rest at a step back from o, at 0 if nowhere else.
LEMMA Lands ==
  ASSUME NEW ask, NEW o \in Nat, NEW cache
  PROVE  Landing(ask, o, cache) \in 0..o
<1> DEFINE ends == {d \in Steps(o) : EndsAt(ask, d, cache)}
<1>1. ends \subseteq 0..o
  BY StepsBack
<1>2. 0 \in ends
  BY StepsBack DEF EndsAt
<1>3. Landing(ask, o, cache) = CHOOSE c \in ends : \A d \in ends : d <= c
  BY DEF Landing
<1> HIDE DEF ends
<1>4. \E c \in ends : \A d \in ends : d <= c
  BY <1>1, <1>2, Greatest
<1> QED BY <1>1, <1>3, <1>4

\* What the steps back put into the page cache are pages of the search that runs.
LEMMA FilledPages ==
  ASSUME NEW ask \in Ask, NEW o \in Nat, NEW c, NEW cache, CacheTypes(cache)
  PROVE  /\ CacheTypes(Filled(ask, o, c, cache))
         /\ \A p \in DOMAIN Filled(ask, o, c, cache) :
              \/ Filled(ask, o, c, cache)[p] = ask
              \/ p \in DOMAIN cache /\ Filled(ask, o, c, cache)[p] = cache[p]
<1> DEFINE missed == {d \in Steps(o) : d >= c /\ d \notin DOMAIN cache /\ Known(ask, d)}
           fresh  == UNION {DOMAIN PagesOf(ask, BlockOf(d)) : d \in missed}
           filled == Filled(ask, o, c, cache)
<1>1. ASSUME NEW p \in fresh
      PROVE  p \in Nat /\ IsPage(p, ask)
  <2>1. PICK d \in missed : p \in DOMAIN PagesOf(ask, BlockOf(d))
    OBVIOUS
  <2>2. d \in Nat
    BY StepsBack
  <2>3. BlockOf(d) \in Nat /\ BlockOf(d) % PAGE = 0
    BY <2>2, BlockStart
  <2> QED BY <2>1, <2>3, BlockPages
<1>2. filled = [p \in fresh \cup DOMAIN cache |-> IF p \in fresh THEN ask ELSE cache[p]]
  BY DEF Filled, Over
<1> HIDE DEF fresh, filled
<1>3. ASSUME NEW p \in DOMAIN filled
      PROVE  /\ p \in Nat /\ filled[p] \in Ask /\ IsPage(p, filled[p])
             /\ filled[p] = ask \/ (p \in DOMAIN cache /\ filled[p] = cache[p])
  <2>1. CASE p \in fresh
    BY <1>1, <1>2, <2>1
  <2>2. CASE p \notin fresh
    BY <1>2, <2>2 DEF CacheTypes
  <2> QED BY <2>1, <2>2
<1> QED BY <1>3 DEF CacheTypes, filled

LEMMA ShowTypes ==
  ASSUME NEW o \in Nat, NEW ask \in Ask, NEW foot \in Footers, ShowPage(o, ask, o, foot)
  PROVE  /\ shown' \in Screens /\ footer' \in Footers
         /\ shown' = [kind |-> "page", ask |-> ask, from |-> o]
<1> DEFINE counted == Block(ask, BlockOf(o)).total
           total   == IF counted # NoTotal THEN counted ELSE foot.total
           more    == HasMore(ask, o)
<1>1. /\ shown' = [kind |-> "page", ask |-> ask, from |-> o]
      /\ footer' = [more |-> more, total |-> total, buttons |-> Buttons(o, more, total)]
  BY DEF ShowPage
<1>2. counted \in Totals
  BY BlockStart, BlockTypes
<1>3. more \in BOOLEAN /\ total \in Totals
  BY <1>2, MoreTypes DEF Footers
<1> HIDE DEF counted, total, more
<1>4. Buttons(o, more, total) \in SUBSET Nat
  BY <1>3, ButtonTypes
<1> QED BY <1>1, <1>3, <1>4 DEF Screens, Footers

\* A page of a search, under that search's total.
LEMMA ShowKeepsPromise ==
  ASSUME NEW o \in Nat, NEW ask \in Ask, NEW foot \in Footers, ShowPage(o, ask, o, foot),
         IsPage(o, ask), foot.total # NoTotal => foot.total = TotalOf(ask)
  PROVE  Promised(o, ask, footer'.buttons) /\ footer'.total = TotalOf(ask)
<1> DEFINE counted == Block(ask, BlockOf(o)).total
           total   == IF counted # NoTotal THEN counted ELSE foot.total
           more    == HasMore(ask, o)
<1>1. footer' = [more |-> more, total |-> total, buttons |-> Buttons(o, more, total)]
  BY DEF ShowPage
<1>2. counted = TotalOf(ask)
  BY BlockStart, BlockTypes
<1>3. total = TotalOf(ask)
  BY <1>2
<1> HIDE DEF counted, total, more
<1>4. footer'.total = TotalOf(ask) /\ footer'.buttons = Buttons(o, more, TotalOf(ask))
  BY <1>1, <1>3
<1> QED BY <1>4, ButtonsKeepPromise DEF more

\* What a query leaves in the panel, whatever was there before.
PanelRun(ask, before) ==
  /\ offset' \in Nat /\ CacheTypes(pages')
  /\ footer' \in Footers /\ shown' \in Screens
  /\ \/ live' = before
     \/ live' = [stage |-> "fetch", ask |-> ask, from |-> BlockOf(offset')]
  /\ shown'.kind = "page" => shown'.from = offset'
  /\ shown'.kind = "searching" => live' # Idle /\ live'.from = BlockOf(offset')

LEMMA RunTypes ==
  ASSUME NEW ask \in Ask, NEW o \in Nat, NEW cache, CacheTypes(cache), NEW before,
         NEW foot \in Footers, Run(ask, o, cache, before, foot)
  PROVE  PanelRun(ask, before)
<1> DEFINE c == Landing(ask, o, cache)
           filled == Filled(ask, o, c, cache)
<1>1. c \in Nat /\ offset' = c
  BY Lands DEF Run
<1>2. pages' = filled /\ CacheTypes(filled)
  BY FilledPages DEF Run
<1>3. \/ c \in DOMAIN filled /\ ShowPage(c, filled[c], c, foot) /\ live' = before
      \/ ShowNone(foot) /\ live' = before
      \/ Send(ask, c, before, foot)
  BY DEF Run
<1> HIDE DEF c, filled
<1>4. CASE c \in DOMAIN filled /\ ShowPage(c, filled[c], c, foot) /\ live' = before
  <2>1. filled[c] \in Ask
    BY <1>2, <1>4 DEF CacheTypes
  <2>2. /\ shown' \in Screens /\ footer' \in Footers
        /\ shown'.kind = "page" /\ shown'.from = c
    BY <1>1, <1>4, <2>1, ShowTypes
  <2> QED BY <1>1, <1>2, <1>4, <2>2 DEF PanelRun
<1>5. CASE ShowNone(foot) /\ live' = before
  <2>1. shown' = [kind |-> "none"] /\ footer' \in Footers
    BY <1>5 DEF ShowNone, Footers
  <2> QED BY <1>1, <1>2, <1>5, <2>1 DEF PanelRun, Screens, Blank
<1>6. CASE Send(ask, c, before, foot)
  <2>1. /\ live' = [stage |-> "fetch", ask |-> ask, from |-> BlockOf(c)]
        /\ shown' \in {[kind |-> "error"], [kind |-> "searching"]}
        /\ footer' = foot
    BY <1>6 DEF Send
  <2>2. live' # Idle
    BY <2>1 DEF Idle
  <2>3. shown' \in Screens /\ shown'.kind # "page"
    BY <2>1 DEF Screens, Blank
  <2> QED BY <1>1, <1>2, <2>1, <2>2, <2>3 DEF PanelRun
<1> QED BY <1>3, <1>4, <1>5, <1>6

\* What a query leaves there when the page cache and the footer are of its search.
SearchRun(ask) ==
  /\ \A p \in DOMAIN pages' : pages'[p] = ask
  /\ footer'.total # NoTotal => footer'.total = TotalOf(ask)
  /\ shown'.kind = "page" => shown'.ask = ask /\ Promised(offset', ask, footer'.buttons)

LEMMA RunOneSearch ==
  ASSUME NEW ask \in Ask, NEW o \in Nat, NEW cache, CacheTypes(cache), NEW before,
         NEW foot \in Footers, Run(ask, o, cache, before, foot),
         \A p \in DOMAIN cache : cache[p] = ask,
         foot.total # NoTotal => foot.total = TotalOf(ask)
  PROVE  SearchRun(ask)
<1> DEFINE c == Landing(ask, o, cache)
           filled == Filled(ask, o, c, cache)
<1>1. c \in Nat /\ offset' = c
  BY Lands DEF Run
<1>2. pages' = filled /\ CacheTypes(filled) /\ \A p \in DOMAIN filled : filled[p] = ask
  BY FilledPages DEF Run
<1>3. \/ c \in DOMAIN filled /\ ShowPage(c, filled[c], c, foot)
      \/ ShowNone(foot)
      \/ Send(ask, c, before, foot)
  BY DEF Run
<1> HIDE DEF c, filled
<1>4. CASE c \in DOMAIN filled /\ ShowPage(c, filled[c], c, foot)
  <2>1. filled[c] = ask /\ IsPage(c, ask)
    BY <1>2, <1>4 DEF CacheTypes
  <2>2. ShowPage(c, ask, c, foot)
    BY <1>4, <2>1
  <2>3. shown'.ask = ask
    BY <1>1, <2>2, ShowTypes
  <2>4. Promised(c, ask, footer'.buttons) /\ footer'.total = TotalOf(ask)
    BY <1>1, <2>1, <2>2, ShowKeepsPromise
  <2> QED BY <1>1, <1>2, <2>3, <2>4 DEF SearchRun
<1>5. CASE ShowNone(foot)
  <2>1. shown'.kind = "none" /\ footer'.total = foot.total
    BY <1>5 DEF ShowNone
  <2> QED BY <1>2, <2>1 DEF SearchRun
<1>6. CASE Send(ask, c, before, foot)
  <2>1. shown'.kind \in {"error", "searching"} /\ footer' = foot
    BY <1>6 DEF Send
  <2> QED BY <1>2, <2>1 DEF SearchRun
<1> QED BY <1>3, <1>4, <1>5, <1>6

-----------------------------------------------------------------------------
(* The panel: types, the page under the footer, the spinner.                *)

LEMMA PanelTypes ==
  ASSUME PanelInv
  PROVE  /\ footer \in Footers /\ shown \in Screens /\ live \in Flights
         /\ CacheTypes(pages)
         /\ live # Idle => /\ live.ask \in Ask /\ live.from \in Nat
                           /\ live.from % FETCH = 0
         /\ live.stage # "idle" <=> live # Idle
<1>1. footer \in Footers /\ shown \in Screens /\ live \in Flights
  BY DEF PanelInv, TypeOK, Footers, Screens, Flights
<1>2. live # Idle => live.stage # "idle" /\ live.ask \in Ask /\ live.from \in Nat
  BY <1>1 DEF Flights
<1>3. live = Idle => live.stage = "idle"
  BY DEF Idle
<1> QED BY <1>1, <1>2, <1>3 DEF PanelInv, TypeOK, PagesExist, CacheTypes, BlockAsked

\* The panel after a query of the search that ftsLastParams then is, or was.
LEMMA PanelAfterRun ==
  ASSUME PanelInv, NEW ask \in Ask, NEW before, before \in {live, Idle},
         PanelRun(ask, before),
         last' \in Ask, box' \in BOOLEAN, clicks' \in 0..MAX_CLICKS, mixed' \in BOOLEAN,
         stored' \subseteq Ask \X Nat
  PROVE  PanelInv' /\ PageMatchesOffset' /\ SpinnerAwaited'
<1>1. live' = before \/ live' = [stage |-> "fetch", ask |-> ask, from |-> BlockOf(offset')]
  BY DEF PanelRun
<1>2. offset' \in Nat /\ BlockOf(offset') \in Nat /\ BlockOf(offset') % FETCH = 0
  BY BlockStart DEF PanelRun
<1>3. live' \in Flights /\ (live' # Idle => live'.from % FETCH = 0)
  <2>1. CASE live' = before
    BY <2>1, PanelTypes DEF Flights
  <2>2. CASE live' = [stage |-> "fetch", ask |-> ask, from |-> BlockOf(offset')]
    BY <1>2, <2>2 DEF Flights
  <2> QED BY <1>1, <2>1, <2>2
<1>4. TypeOK'
  BY <1>2, <1>3 DEF TypeOK, PanelRun, CacheTypes, Footers, Screens, Flights
<1>5. Started' /\ PagesExist' /\ BlockAsked'
  BY <1>3 DEF Started, PagesExist, BlockAsked, PanelRun, CacheTypes
<1>6. live' # Idle => live'.stage # "idle"
  BY <1>3 DEF Flights
<1>7. PageMatchesOffset' /\ SpinnerAwaited'
  <2>1. BlockOf(offset)' = BlockOf(offset')
    BY DEF BlockOf
  <2> QED BY <1>6, <2>1 DEF PageMatchesOffset, SpinnerAwaited, PanelRun
<1> QED BY <1>4, <1>5, <1>7 DEF PanelInv

-----------------------------------------------------------------------------
(* The searches: one lemma for each action of the user.                     *)

LEMMA SearchStarts == Init => SearchInv
<1> SUFFICES ASSUME Init PROVE SearchInv
  OBVIOUS
<1>1. TypeOK
  <2>1. footer \in [more : BOOLEAN, total : Totals, buttons : SUBSET Nat]
    BY DEF Init, NoFooter, Totals
  <2>2. shown \in Blank /\ live = Idle /\ stored \subseteq Ask \X Nat
    BY DEF Init, Blank
  <2>3. DOMAIN pages \subseteq Nat /\ \A o \in DOMAIN pages : pages[o] \in Ask
    BY DEF Init, NoPages
  <2>4. clicks \in 0..MAX_CLICKS
    BY SearchAssumption DEF Init
  <2> QED BY <2>1, <2>2, <2>3, <2>4 DEF Init, TypeOK
<1>2. Started /\ PagesExist /\ BlockAsked
  BY DEF Init, Started, PagesExist, BlockAsked, NoPages, NoFooter
<1>3. PageMatchesOffset /\ SpinnerAwaited /\ ButtonsLeadToPosts
  BY DEF Init, PageMatchesOffset, SpinnerAwaited, ButtonsLeadToPosts
<1>4. Single
  <2>1. [form |-> "none"] \notin Ask
    BY DEF Ask
  <2> QED BY <2>1 DEF Init, Single, NoFooter
<1>5. OneSearch
  BY DEF Init, OneSearch, NoPages
<1> QED BY <1>1, <1>2, <1>3, <1>4, <1>5 DEF SearchInv, PanelInv

LEMMA EmptyPanel == CacheTypes(NoPages) /\ NoFooter \in Footers
BY DEF CacheTypes, NoPages, NoFooter, Footers, Totals

\* A query of the search in ftsLastParams keeps what is of one search.
LEMMA SearchAfterRun ==
  ASSUME PanelInv', last' \in Ask,
         ~mixed' => /\ SearchRun(last') /\ last'.op = box'
                    /\ live'.stage # "idle" => live'.ask = last'
  PROVE  Single' /\ OneSearch' /\ ButtonsLeadToPosts'
<1>1. CASE mixed'
  BY <1>1 DEF Single, OneSearch, ButtonsLeadToPosts
<1>2. CASE ~mixed'
  <2>1. SearchRun(last') /\ last'.op = box' /\ (live'.stage # "idle" => live'.ask = last')
    BY <1>2
  <2>2. live' # Idle => live'.stage # "idle"
    BY DEF PanelInv, TypeOK
  <2>3. Single'
    <3>1. footer'.total # NoTotal => footer'.total = TotalOf(last')
      BY <2>1 DEF SearchRun
    <3>2. TotalOf(last)' = TotalOf(last')
      BY DEF TotalOf, Hits
    <3> QED BY <2>1, <2>2, <3>1, <3>2 DEF Single
  <2>4. OneSearch'
    BY <2>1 DEF OneSearch, SearchRun
  <2>5. ButtonsLeadToPosts'
    <3>1. ASSUME shown'.kind = "page"
          PROVE  shown'.ask = last' /\ Promised(offset', last', footer'.buttons)
      BY <2>1, <3>1 DEF SearchRun
    <3>2. Hits(shown.ask)' = Hits(shown'.ask)
      BY DEF Hits
    <3> QED BY <3>1, <3>2 DEF ButtonsLeadToPosts, Promised
  <2> QED BY <2>3, <2>4, <2>5
<1> QED BY <1>1, <1>2, PanelInv' DEF PanelInv, TypeOK

\* A search that begins: with an empty page cache, at an offset of a link or 0.
LEMMA SearchBegins ==
  ASSUME SearchInv, Click, NEW ask \in Ask, NEW o \in Nat,
         last' \in Ask, box' \in BOOLEAN, UNCHANGED stored,
         Run(ask, o, NoPages, live, NoFooter),
         mixed' \in BOOLEAN,
         ~mixed' => last' = ask /\ last'.op = box' /\ ~OtherSearch
  PROVE  SearchInv'
<1>1. PanelRun(ask, live)
  BY EmptyPanel, RunTypes
<1>2. clicks' \in 0..MAX_CLICKS /\ stored' \subseteq Ask \X Nat
  BY SearchAssumption DEF SearchInv, PanelInv, TypeOK, Click
<1>3. PanelInv
  BY DEF SearchInv
<1>4. PanelInv' /\ PageMatchesOffset' /\ SpinnerAwaited'
  BY <1>1, <1>2, <1>3, PanelAfterRun
<1>5. SearchRun(ask)
  BY EmptyPanel, RunOneSearch DEF NoPages, NoFooter
<1>6. ~mixed' => /\ SearchRun(last') /\ last'.op = box'
                 /\ live'.stage # "idle" => live'.ask = last'
  BY <1>5 DEF OtherSearch
<1> QED BY <1>4, <1>6, SearchAfterRun DEF SearchInv

LEMMA SubmitStep ==
  ASSUME SearchInv, NEW form \in Forms, Submit(form)
  PROVE  SearchInv'
<1> DEFINE ask == [form |-> form, op |-> box]
<1>1. box \in BOOLEAN /\ ask \in Ask
  BY DEF SearchInv, PanelInv, TypeOK, Ask
<1>2. last' = ask /\ box' = box /\ mixed' = OtherSearch /\ UNCHANGED stored /\ Click
  BY DEF Submit
<1>3. Run(ask, 0, NoPages, live, NoFooter)
  BY DEF Submit
<1>4. mixed' \in BOOLEAN
  BY <1>2 DEF OtherSearch
<1>5. ask.op = box
  OBVIOUS
<1> HIDE DEF ask
<1> QED BY <1>1, <1>2, <1>3, <1>4, <1>5, SearchBegins

LEMMA SearchByUserStep ==
  ASSUME SearchInv, NEW form \in Forms, SearchByUser(form)
  PROVE  SearchInv'
<1> DEFINE ask == [form |-> form, op |-> box]
<1>1. box \in BOOLEAN /\ ask \in Ask
  BY DEF SearchInv, PanelInv, TypeOK, Ask
<1>2. /\ last' = [form |-> form, op |-> FALSE] /\ box' = box
      /\ mixed' = (OtherSearch \/ box) /\ UNCHANGED stored /\ Click
      /\ Run(ask, 0, NoPages, live, NoFooter)
  BY DEF SearchByUser
<1>3. last' \in Ask /\ mixed' \in BOOLEAN
  BY <1>1, <1>2 DEF Ask, OtherSearch
<1>4. ~mixed' => last' = ask /\ last'.op = box' /\ ~OtherSearch
  BY <1>1, <1>2
<1> HIDE DEF ask
<1> QED BY <1>1, <1>2, <1>3, <1>4, SearchBegins

LEMMA OpenLinkStep ==
  ASSUME SearchInv, NEW ask \in Ask, NEW o \in Links, OpenLink(ask, o)
  PROVE  SearchInv'
<1>1. o \in Nat /\ ask.op \in BOOLEAN
  BY SearchAssumption, AskTypes
<1>2. /\ last' = ask /\ box' = ask.op /\ mixed' = OtherSearch /\ UNCHANGED stored /\ Click
      /\ Run(ask, o, NoPages, live, NoFooter)
  BY DEF OpenLink
<1>3. mixed' \in BOOLEAN
  BY <1>2 DEF OtherSearch
<1> QED BY <1>1, <1>2, <1>3, SearchBegins

LEMMA SubmitNothingStep ==
  ASSUME SearchInv, NEW o \in Nat, NEW op \in BOOLEAN, SubmitNothing(o, op)
  PROVE  SearchInv'
<1>1. /\ box' = op /\ offset' = o /\ pages' = NoPages /\ footer' = NoFooter
      /\ shown' = [kind |-> "hint"] /\ mixed' = (mixed \/ op # box)
      /\ last' = last /\ live' = live /\ stored' = stored /\ Click
  BY DEF SubmitNothing
<1>2. PanelInv
  BY DEF SearchInv
<1>3. TypeOK'
  <2>1. clicks' \in 0..MAX_CLICKS
    BY <1>1, <1>2, SearchAssumption DEF PanelInv, TypeOK, Click
  <2>2. DOMAIN pages' \subseteq Nat /\ \A p \in DOMAIN pages' : pages'[p] \in Ask
    BY <1>1 DEF NoPages
  <2>3. footer' \in [more : BOOLEAN, total : Totals, buttons : SUBSET Nat]
    BY <1>1, EmptyPanel DEF Footers
  <2>4. shown' \in Blank
    BY <1>1 DEF Blank
  <2>5. mixed' \in BOOLEAN
    BY <1>1, <1>2 DEF PanelInv, TypeOK
  <2>6. last' \in Ask \cup {[form |-> "none"]} /\ box' \in BOOLEAN /\ offset' \in Nat
        /\ stored' \subseteq Ask \X Nat
        /\ live' \in [stage : {"fetch", "limited"}, ask : Ask, from : Nat] \cup {Idle}
    BY <1>1, <1>2 DEF PanelInv, TypeOK
  <2> QED BY <2>1, <2>2, <2>3, <2>4, <2>5, <2>6 DEF TypeOK
<1>4. Started' /\ PagesExist' /\ BlockAsked'
  BY <1>1, <1>2 DEF PanelInv, Started, PagesExist, BlockAsked, NoPages, NoFooter
<1>5. PageMatchesOffset' /\ SpinnerAwaited' /\ ButtonsLeadToPosts'
  BY <1>1 DEF PageMatchesOffset, SpinnerAwaited, ButtonsLeadToPosts
<1>6. Single' /\ OneSearch'
  <2>1. ~mixed' => ~mixed /\ box' = box
    BY <1>1, <1>2 DEF PanelInv, TypeOK
  <2> QED BY <1>1, <2>1 DEF SearchInv, Single, OneSearch, NoPages, NoFooter
<1> QED BY <1>3, <1>4, <1>5, <1>6 DEF SearchInv, PanelInv

LEMMA ToggleStep ==
  ASSUME SearchInv, Toggle
  PROVE  SearchInv'
<1>1. /\ UNCHANGED <<last, offset, pages, footer, shown, live, stored>>
      /\ box' = ~box /\ mixed' = TRUE /\ Click
  BY DEF Toggle, panel
<1>2. TypeOK'
  <2>1. clicks' \in 0..MAX_CLICKS
    BY <1>1, SearchAssumption DEF SearchInv, PanelInv, TypeOK, Click
  <2> QED BY <1>1, <2>1 DEF SearchInv, PanelInv, TypeOK
<1>3. Started' /\ PagesExist' /\ BlockAsked' /\ PageMatchesOffset' /\ SpinnerAwaited'
  BY <1>1 DEF SearchInv, PanelInv, Started, PagesExist, BlockAsked, IsPage, Hits,
              PageMatchesOffset, SpinnerAwaited, BlockOf
<1>4. Single' /\ OneSearch' /\ ButtonsLeadToPosts'
  BY <1>1 DEF Single, OneSearch, ButtonsLeadToPosts
<1> QED BY <1>2, <1>3, <1>4 DEF SearchInv, PanelInv

\* A query of the panel as it is: the next page, or one step back.
LEMMA SearchGoesOn ==
  ASSUME SearchInv, NEW ask, ask = [form |-> last.form, op |-> box], NEW o \in Nat,
         last \in Ask, NEW before \in {live, Idle}, UNCHANGED <<last, box>>,
         clicks' \in 0..MAX_CLICKS, stored' \subseteq Ask \X Nat,
         NEW cache, CacheTypes(cache), ~mixed => \A p \in DOMAIN cache : cache[p] = last,
         Run(ask, o, cache, before, footer),
         mixed' = (mixed \/ OtherSearch)
  PROVE  SearchInv'
<1>1. PanelInv /\ box \in BOOLEAN /\ mixed \in BOOLEAN
  BY DEF SearchInv, PanelInv, TypeOK
<1>2. ask \in Ask /\ footer \in Footers
  BY <1>1, AskTypes, PanelTypes DEF Ask
<1>3. PanelRun(ask, before)
  BY <1>2, RunTypes
<1>4. PanelInv' /\ PageMatchesOffset' /\ SpinnerAwaited'
  <2>1. last' \in Ask /\ box' \in BOOLEAN /\ mixed' \in BOOLEAN
    BY <1>1 DEF OtherSearch
  <2> QED BY <1>1, <1>2, <1>3, <2>1, PanelAfterRun
<1>5. ASSUME ~mixed'
      PROVE  /\ SearchRun(last') /\ last'.op = box'
             /\ live'.stage # "idle" => live'.ask = last'
  <2>1. ~mixed /\ ~OtherSearch
    BY <1>1, <1>5
  <2>2. last.op = box /\ (footer.total # NoTotal => footer.total = TotalOf(last))
    BY <2>1 DEF SearchInv, Single
  <2>3. ask = last
    BY <2>2, AskTypes
  <2>4. SearchRun(ask)
    BY <1>2, <2>1, <2>2, <2>3, RunOneSearch
  <2> QED BY <2>1, <2>2, <2>3, <2>4 DEF OtherSearch
<1> QED BY <1>4, <1>5, SearchAfterRun DEF SearchInv

LEMMA ChangePageStep ==
  ASSUME SearchInv, NEW o \in footer.buttons, ChangePage(o)
  PROVE  SearchInv'
<1> DEFINE ask == [form |-> last.form, op |-> box]
<1>1. PanelInv /\ o \in Nat /\ CacheTypes(pages)
  BY PanelTypes DEF SearchInv, Footers
<1>2. last \in Ask
  BY <1>1 DEF PanelInv, Started
<1>3. /\ UNCHANGED <<last, box, stored>> /\ Click /\ mixed' = (mixed \/ OtherSearch)
      /\ Run(ask, o, pages, live, footer)
  BY DEF ChangePage
<1>4. clicks' \in 0..MAX_CLICKS /\ stored' \subseteq Ask \X Nat
  BY <1>1, <1>3, SearchAssumption DEF PanelInv, TypeOK, Click
<1>5. ~mixed => \A p \in DOMAIN pages : pages[p] = last
  BY DEF SearchInv, OneSearch
<1> HIDE DEF ask
<1>6. ask = [form |-> last.form, op |-> box]
  BY DEF ask
<1> QED BY <1>1, <1>2, <1>3, <1>4, <1>5, <1>6, SearchGoesOn

-----------------------------------------------------------------------------
(* The answers.                                                             *)

\* The page cache with the block that has arrived.
LEMMA AnswerPages ==
  ASSUME SearchInv, live # Idle
  PROVE  LET cache == Over(PagesOf(live.ask, live.from), pages)
         IN  /\ CacheTypes(cache)
             /\ ~mixed => \A p \in DOMAIN cache : cache[p] = last
<1> DEFINE fresh == PagesOf(live.ask, live.from)
           cache == Over(fresh, pages)
<1>1. live.ask \in Ask /\ live.from \in Nat /\ live.from % FETCH = 0 /\ CacheTypes(pages)
  BY PanelTypes DEF SearchInv
<1>2. live.from % PAGE = 0
  <2> DEFINE n == live.from \div FETCH
  <2>1. FETCH \in Nat \ {0} /\ PAGE \in Nat \ {0} /\ FETCH % PAGE = 0
    BY SearchAssumption
  <2>2. n \in Nat /\ live.from = n * FETCH
    BY <1>1, <2>1, Multiple, Quotient
  <2> HIDE DEF n
  <2>3. (n * FETCH) % PAGE = 0
    BY <2>1, <2>2, MultipleOfMultiple
  <2> QED BY <2>2, <2>3
<1>3. \A p \in DOMAIN fresh : p \in Nat /\ IsPage(p, live.ask) /\ fresh[p] = live.ask
  BY <1>1, <1>2, BlockPages
<1>4. cache = [p \in DOMAIN fresh \cup DOMAIN pages |->
                 IF p \in DOMAIN fresh THEN fresh[p] ELSE pages[p]]
  BY DEF Over
<1> HIDE DEF fresh, cache
<1>5. CacheTypes(cache)
  <2> SUFFICES ASSUME NEW p \in DOMAIN cache
               PROVE  p \in Nat /\ cache[p] \in Ask /\ IsPage(p, cache[p])
    BY DEF CacheTypes
  <2>1. CASE p \in DOMAIN fresh
    BY <1>1, <1>3, <1>4, <2>1
  <2>2. CASE p \notin DOMAIN fresh
    BY <1>1, <1>4, <2>2 DEF CacheTypes
  <2> QED BY <2>1, <2>2
<1>6. ASSUME ~mixed, NEW p \in DOMAIN cache
      PROVE  cache[p] = last
  <2>1. live.ask = last
    BY <1>6 DEF SearchInv, Single
  <2>2. CASE p \in DOMAIN fresh
    BY <1>3, <1>4, <2>1, <2>2
  <2>3. CASE p \notin DOMAIN fresh
    <3>1. p \in DOMAIN pages /\ cache[p] = pages[p]
      BY <1>4, <2>3
    <3> QED BY <1>6, <3>1 DEF SearchInv, OneSearch
  <2> QED BY <2>2, <2>3
<1> QED BY <1>5, <1>6 DEF cache, fresh

\* An answer that is shown at once, or turns out empty.
LEMMA AnswerEnds ==
  ASSUME SearchInv, live # Idle, UNCHANGED <<last, box, offset, clicks>>,
         stored' \subseteq Ask \X Nat, live' = Idle, mixed' = (mixed \/ OtherSearch),
         CacheTypes(pages'), ~mixed => \A p \in DOMAIN pages' : pages'[p] = last,
         \/ offset \in DOMAIN pages' /\ ShowPage(offset, pages'[offset], offset, footer)
         \/ ShowNone(footer)
  PROVE  SearchInv'
<1>1. /\ PanelInv /\ last \in Ask /\ box \in BOOLEAN /\ offset \in Nat /\ footer \in Footers
      /\ clicks \in 0..MAX_CLICKS /\ mixed \in BOOLEAN
  BY PanelTypes DEF SearchInv, PanelInv, TypeOK, Started
<1>2. mixed' = mixed
  <2>1. ~OtherSearch
    BY DEF OtherSearch, Idle
  <2> QED BY <1>1, <2>1
<1>3. /\ footer' \in Footers /\ shown' \in Screens /\ shown'.kind # "searching"
      /\ shown'.kind = "page" => shown'.from = offset
      /\ ~mixed => SearchRun(last)
  <2>1. ~mixed => (footer.total # NoTotal => footer.total = TotalOf(last))
    BY DEF SearchInv, Single
  <2>2. CASE offset \in DOMAIN pages' /\ ShowPage(offset, pages'[offset], offset, footer)
    <3> DEFINE ask == pages'[offset]
    <3>1. ask \in Ask /\ IsPage(offset, ask) /\ ShowPage(offset, ask, offset, footer)
      BY <2>2 DEF CacheTypes
    <3>2. ~mixed => ask = last
      BY <2>2
    <3> HIDE DEF ask
    <3>3. /\ shown' = [kind |-> "page", ask |-> ask, from |-> offset]
          /\ shown' \in Screens /\ footer' \in Footers
      BY <1>1, <3>1, ShowTypes
    <3>4. ~mixed => Promised(offset, last, footer'.buttons) /\ footer'.total = TotalOf(last)
      BY <1>1, <2>1, <3>1, <3>2, ShowKeepsPromise
    <3> QED BY <3>2, <3>3, <3>4 DEF SearchRun
  <2>3. CASE ShowNone(footer)
    <3>1. shown' = [kind |-> "none"] /\ footer'.total = footer.total /\ footer' \in Footers
      BY <1>1, <2>3 DEF ShowNone, Footers
    <3>2. shown' \in Screens
      BY <3>1 DEF Screens, Blank
    <3> QED BY <2>1, <3>1, <3>2 DEF SearchRun
  <2> QED BY <2>2, <2>3
<1>4. PanelRun(live.ask, Idle) /\ live.ask \in Ask
  BY <1>1, <1>3, PanelTypes DEF PanelRun
<1>5. PanelInv' /\ PageMatchesOffset' /\ SpinnerAwaited'
  <2>1. last' \in Ask /\ box' \in BOOLEAN /\ clicks' \in 0..MAX_CLICKS /\ mixed' \in BOOLEAN
    BY <1>1, <1>2
  <2> QED BY <1>1, <1>4, <2>1, PanelAfterRun
<1>6. ASSUME ~mixed'
      PROVE  /\ SearchRun(last') /\ last'.op = box'
             /\ live'.stage # "idle" => live'.ask = last'
  <2>1. last.op = box
    BY <1>1, <1>2, <1>6 DEF SearchInv, Single
  <2> QED BY <1>2, <1>3, <1>6, <2>1 DEF Idle
<1> QED BY <1>1, <1>5, <1>6, SearchAfterRun DEF SearchInv

LEMMA AnswerStep ==
  ASSUME SearchInv, Answer
  PROVE  SearchInv'
<1> DEFINE cache == Over(PagesOf(live.ask, live.from), pages)
           ask == [form |-> last.form, op |-> box]
           back == LargerOf(0, offset - PAGE)
<1>1. /\ live.stage = "fetch" /\ UNCHANGED <<last, box, clicks>>
      /\ stored' = stored \cup {<<live.ask, live.from>>}
      /\ mixed' = (mixed \/ OtherSearch)
      /\ \/ /\ offset \in DOMAIN cache
            /\ pages' = cache /\ ShowPage(offset, cache[offset], offset, footer)
            /\ live' = Idle /\ UNCHANGED offset
         \/ /\ pages' = cache /\ ShowNone(footer)
            /\ live' = Idle /\ UNCHANGED offset
         \/ Run(ask, back, cache, Idle, footer)
  BY DEF Answer
<1>2. PanelInv /\ live # Idle
  BY <1>1 DEF SearchInv, Idle
<1>3. CacheTypes(cache) /\ (~mixed => \A p \in DOMAIN cache : cache[p] = last)
  BY <1>2, AnswerPages
<1>4. last \in Ask /\ clicks \in 0..MAX_CLICKS /\ stored' \subseteq Ask \X Nat
  BY <1>1, <1>2, PanelTypes DEF PanelInv, TypeOK, Started
<1>5. back \in Nat
  BY <1>2, SearchAssumption DEF PanelInv, TypeOK, LargerOf
<1>6. ask = [form |-> last.form, op |-> box]
  OBVIOUS
<1> HIDE DEF cache, ask, back
<1>7. CASE Run(ask, back, cache, Idle, footer)
  BY <1>1, <1>3, <1>4, <1>5, <1>6, <1>7, SearchGoesOn
<1>8. CASE /\ pages' = cache /\ live' = Idle /\ UNCHANGED offset
           /\ \/ offset \in DOMAIN cache /\ ShowPage(offset, cache[offset], offset, footer)
              \/ ShowNone(footer)
  BY <1>1, <1>2, <1>3, <1>4, <1>8, AnswerEnds
<1> QED BY <1>1, <1>7, <1>8

LEMMA LimitedStep ==
  ASSUME SearchInv, Limited
  PROVE  SearchInv'
<1>1. /\ live.stage = "fetch" /\ live' = [live EXCEPT !.stage = "limited"]
      /\ UNCHANGED <<last, box, offset, pages, footer, shown, stored, clicks, mixed>>
  BY DEF Limited
<1>2. PanelInv /\ live # Idle
  BY <1>1 DEF SearchInv, Idle
<1>3. /\ live' \in [stage : {"fetch", "limited"}, ask : Ask, from : Nat]
      /\ live'.ask = live.ask /\ live'.from = live.from /\ live'.stage = "limited"
  BY <1>1, <1>2, PanelTypes DEF Flights
<1>4. TypeOK'
  BY <1>1, <1>2, <1>3 DEF PanelInv, TypeOK
<1>5. Started' /\ PagesExist' /\ BlockAsked'
  BY <1>1, <1>2, <1>3 DEF PanelInv, Started, PagesExist, BlockAsked, IsPage, Hits
<1>6. PageMatchesOffset' /\ SpinnerAwaited'
  BY <1>1, <1>3 DEF SearchInv, PageMatchesOffset, SpinnerAwaited, BlockOf
<1>7. Single' /\ OneSearch' /\ ButtonsLeadToPosts'
  BY <1>1, <1>2, <1>3 DEF SearchInv, Single, OneSearch, ButtonsLeadToPosts, TotalOf, Hits
<1> QED BY <1>4, <1>5, <1>6, <1>7 DEF SearchInv, PanelInv

LEMMA FailsStep ==
  ASSUME SearchInv, Fails
  PROVE  SearchInv'
<1>1. /\ live.stage # "idle" /\ live' = Idle /\ shown' = [kind |-> "error"]
      /\ UNCHANGED <<last, box, offset, pages, footer, stored, clicks, mixed>>
  BY DEF Fails
<1>2. PanelInv
  BY DEF SearchInv
<1>3. TypeOK'
  <2>1. shown' \in Blank
    BY <1>1 DEF Blank
  <2> QED BY <1>1, <1>2, <2>1 DEF PanelInv, TypeOK
<1>4. Started' /\ PagesExist' /\ BlockAsked'
  BY <1>1, <1>2 DEF PanelInv, Started, PagesExist, BlockAsked, IsPage, Hits
<1>5. PageMatchesOffset' /\ SpinnerAwaited' /\ ButtonsLeadToPosts'
  BY <1>1 DEF PageMatchesOffset, SpinnerAwaited, ButtonsLeadToPosts
<1>6. Single' /\ OneSearch'
  BY <1>1 DEF SearchInv, Single, OneSearch, TotalOf, Hits
<1> QED BY <1>3, <1>4, <1>5, <1>6 DEF SearchInv, PanelInv

LEMMA QuietStep ==
  ASSUME SearchInv, Expire \/ UNCHANGED vars
  PROVE  SearchInv'
<1>1. UNCHANGED <<last, box, offset, pages, footer, shown, live, clicks, mixed>>
  BY DEF Expire, vars, panel
<1>2. stored' \subseteq stored
  BY DEF Expire, vars
<1>3. TypeOK'
  BY <1>1, <1>2 DEF SearchInv, PanelInv, TypeOK
<1>4. /\ Started' /\ PagesExist' /\ BlockAsked' /\ PageMatchesOffset' /\ SpinnerAwaited'
      /\ Single' /\ OneSearch' /\ ButtonsLeadToPosts'
  BY <1>1 DEF SearchInv, PanelInv, Started, PagesExist, BlockAsked, IsPage, Hits,
              PageMatchesOffset, SpinnerAwaited, BlockOf, Single, TotalOf, OneSearch,
              ButtonsLeadToPosts
<1> QED BY <1>3, <1>4 DEF SearchInv, PanelInv

-----------------------------------------------------------------------------
LEMMA SearchStep == SearchInv /\ [Next]_vars => SearchInv'
<1> SUFFICES ASSUME SearchInv, [Next]_vars PROVE SearchInv'
  OBVIOUS
<1>1. CASE \E form \in Forms : Submit(form)
  BY <1>1, SubmitStep
<1>2. CASE \E form \in Forms \ Counted : SearchByUser(form)
  BY <1>2, SearchByUserStep
<1>3. CASE SubmitNothing(0, box)
  <2>1. box \in BOOLEAN
    BY DEF SearchInv, PanelInv, TypeOK
  <2> QED BY <1>3, <2>1, SubmitNothingStep
<1>4. CASE \E o \in Links, op \in BOOLEAN : SubmitNothing(o, op)
  BY <1>4, SearchAssumption, SubmitNothingStep
<1>5. CASE Toggle
  BY <1>5, ToggleStep
<1>6. CASE \E ask \in Ask, o \in Links : OpenLink(ask, o)
  BY <1>6, OpenLinkStep
<1>7. CASE \E o \in footer.buttons : ChangePage(o)
  BY <1>7, ChangePageStep
<1>8. CASE Reply
  BY <1>8, AnswerStep, LimitedStep, FailsStep DEF Reply
<1>9. CASE Expire \/ UNCHANGED vars
  BY <1>9, QuietStep
<1> QED BY <1>1, <1>2, <1>3, <1>4, <1>5, <1>6, <1>7, <1>8, <1>9 DEF Next

LEMMA SearchAlways == Spec => []SearchInv
BY SearchStarts, SearchStep, PTL DEF Spec

(* The types of every variable of the panel.                                *)
THEOREM PostTypes == Spec => []TypeOK
<1>1. SearchInv => TypeOK
  BY DEF SearchInv, PanelInv
<1> QED BY <1>1, SearchAlways, PTL

(* The rows on the screen are those of the page the footer names, whichever *)
(* of a cache and a late answer rendered them.                              *)
THEOREM PageUnderFooter == Spec => []PageMatchesOffset
<1>1. SearchInv => PageMatchesOffset
  BY DEF SearchInv
<1> QED BY <1>1, SearchAlways, PTL

(* While the spinner turns, the request for the block of the user's page is *)
(* in flight.                                                               *)
THEOREM SpinnerHasRequest == Spec => []SpinnerAwaited
<1>1. SearchInv => SpinnerAwaited
  BY DEF SearchInv
<1> QED BY <1>1, SearchAlways, PTL

(* The page cache and the screen hold rows of ftsLastParams alone, unless   *)
(* the box or a request in flight was of another search.                    *)
THEOREM RowsOfOneSearch == Spec => []OneSearch
<1>1. SearchInv => OneSearch
  BY DEF SearchInv
<1> QED BY <1>1, SearchAlways, PTL

(* No button leads behind the last post and the next page is never missing, *)
(* whether the endpoint counts the posts or not.                            *)
THEOREM ButtonsAreExact == Spec => []ButtonsLeadToPosts
<1>1. SearchInv => ButtonsLeadToPosts
  BY DEF SearchInv
<1> QED BY <1>1, SearchAlways, PTL
=============================================================================
