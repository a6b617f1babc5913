----------------------------- MODULE PostSearch -----------------------------
(***************************************************************************)
(* The post search of static/search.html: triggerFtsSearch, runFtsQuery    *)
(* and its page cache, over apiFetch and the /api/search_posts endpoint.   *)
(*                                                                         *)
(* JavaScript runs one handler at a time; what interleaves are the clicks  *)
(* of the user and the answer of the request in flight.  Every request of  *)
(* the panel aborts the one before it, and an aborted request changes      *)
(* nothing but what Send says, so one request is enough: `live`.  A search *)
(* that is answered from a cache sends no request and aborts none.         *)
(*                                                                         *)
(* Posts are counted, not named, and the databases never change: a page is *)
(* known by the search it answers and its offset.                          *)
(***************************************************************************)
EXTENDS Integers

CONSTANTS
  Forms,       \* what the user can type: keywords, author, order, dates
  Size,        \* Size[form][op]: how many posts match, with thread starters only or not
  Counted,     \* the forms with keywords: only their answers carry a total
  Links,       \* the offsets in shared links
  PAGE,        \* FTS_PAGE_SIZE
  FETCH,       \* FTS_FETCH_SIZE
  NoTotal,     \* null
  MAX_CLICKS   \* bound: how often the user acts

ASSUME SearchAssumption ==
  /\ Size \in [Forms -> [BOOLEAN -> Nat]]
  /\ Counted \subseteq Forms
  /\ Links \subseteq Nat
  /\ PAGE \in Nat \ {0}
  /\ FETCH \in Nat \ {0}
  /\ FETCH % PAGE = 0
  /\ NoTotal \notin Nat
  /\ MAX_CLICKS \in Nat

VARIABLES
  last,     \* ftsLastParams: the form and its opOnly
  box,      \* the "Thread starters only" box
  offset,   \* ftsOffset
  pages,    \* ftsPageCache: the search whose page is kept at an offset
  footer,   \* ftsHasMore, ftsTotalResults and the page buttons
  shown,    \* what #fts-results shows
  live,     \* the request in flight that is not aborted
  stored,   \* the requests _apiResultCache can answer
  clicks,
  mixed     \* history: since the last search began, the box or the request in
            \* flight was of another search than ftsLastParams

panel == <<offset, pages, footer, shown, live>>
vars  == <<last, box, panel, stored, clicks, mixed>>

-----------------------------------------------------------------------------
Ask == [form : Forms, op : BOOLEAN]

Totals == Nat \cup {NoTotal}
Blank  == [kind : {"blank", "searching", "hint", "none", "error"}]
Idle   == [stage |-> "idle"]

TypeOK ==
  /\ last \in Ask \cup {[form |-> "none"]}
  /\ box \in BOOLEAN
  /\ offset \in Nat
  /\ DOMAIN pages \subseteq Nat /\ \A o \in DOMAIN pages : pages[o] \in Ask
  /\ footer \in [more : BOOLEAN, total : Totals, buttons : SUBSET Nat]
  /\ shown \in Blank \cup [kind : {"page"}, ask : Ask, from : Nat]
  /\ live \in [stage : {"fetch", "limited"}, ask : Ask, from : Nat] \cup {Idle}
  /\ stored \subseteq Ask \X Nat
  /\ clicks \in 0..MAX_CLICKS
  /\ mixed \in BOOLEAN

LargerOf(a, b)  == IF a >= b THEN a ELSE b
SmallerOf(a, b) == IF a <= b THEN a ELSE b

NoPages  == [o \in {} |-> 0]
NoFooter == [more |-> FALSE, total |-> NoTotal, buttons |-> {}]

Over(f, g) == [o \in DOMAIN f \cup DOMAIN g |-> IF o \in DOMAIN f THEN f[o] ELSE g[o]]

-----------------------------------------------------------------------------
(* The endpoint: FETCH rows from an offset, whether there are more, and the *)
(* total when there are keywords to count.                                  *)

Hits(ask) == Size[ask.form][ask.op]

Block(ask, from) ==
  [rows  |-> SmallerOf(FETCH, LargerOf(0, Hits(ask) - from)),
   more  |-> Hits(ask) > from + FETCH,
   total |-> IF ask.form \in Counted THEN Hits(ask) ELSE NoTotal]

BlockOf(o) == (o \div FETCH) * FETCH

\* cacheFtsBlock: the pages of a block, none of them empty
PagesOf(ask, from) ==
  LET starts == {k * PAGE : k \in 0..(FETCH \div PAGE)}
  IN  [o \in {from + start : start \in {n \in starts : n < Block(ask, from).rows}} |-> ask]

\* Bug: <= for <.
HasMoreInclusive(ask, o) ==
  LET block == Block(ask, BlockOf(o))
      start == o - BlockOf(o)
      rows  == SmallerOf(PAGE, block.rows - start)
  IN  IF block.total # NoTotal THEN o + rows <= block.total
      ELSE start + PAGE <= block.rows \/ block.more

\* has_more of the page that is cut from a block at o
HasMore(ask, o) ==
  LET block == Block(ask, BlockOf(o))
      start == o - BlockOf(o)
      rows  == SmallerOf(PAGE, block.rows - start)
  IN  IF block.total # NoTotal THEN o + rows < block.total
      ELSE start + PAGE < block.rows \/ block.more

-----------------------------------------------------------------------------
(* applyFtsPage and renderFtsPagination                                     *)

\* The offsets of the buttons around the page at o.
Buttons(o, more, total) ==
  LET current    == o \div PAGE + 1
      totalPages == IF total # NoTotal THEN LargerOf(1, (total + PAGE - 1) \div PAGE)
                    ELSE current + (IF more THEN 1 ELSE 0)
      first      == LargerOf(1, current - 3)
      endPage    == SmallerOf(totalPages, first + 6)
      startPage  == IF endPage - first < 6 THEN LargerOf(1, endPage - 6) ELSE first
      previous   == IF current > 1 THEN {current - 1} ELSE {}
      next       == IF current < totalPages /\ more THEN {current + 1} ELSE {}
  IN  IF o = 0 /\ ~more THEN {}
      ELSE {(p - 1) * PAGE : p \in (startPage..endPage \cup previous \cup next) \ {current}}

ShowPage(o, ask, from, foot) ==
  LET counted == Block(ask, BlockOf(from)).total
      total   == IF counted # NoTotal THEN counted ELSE foot.total
      more    == HasMore(ask, from)
  IN  /\ shown' = [kind |-> "page", ask |-> ask, from |-> from]
      /\ footer' = [more |-> more, total |-> total, buttons |-> Buttons(o, more, total)]

\* No rows at offset 0.
ShowNone(foot) ==
  /\ shown' = [kind |-> "none"]
  /\ footer' = [more |-> FALSE, total |-> foot.total, buttons |-> {}]

-----------------------------------------------------------------------------
(* runFtsQuery(o) for the search ask, over the page cache `cache`, with the *)
(* request `before` in flight.  An empty page at an offset above 0 runs the *)
(* query again one page earlier, in the same handler as long as the caches  *)
(* answer.                                                                  *)

\* Bug: the offset is not kept at 0 or above.
StepsUnclamped(o) == {o - k * PAGE : k \in 0..(o \div PAGE + 1)}

Steps(o) == {o} \cup {LargerOf(0, o - k * PAGE) : k \in 0..(o \div PAGE + 1)}

Known(ask, o) == <<ask, BlockOf(o)>> \in stored'

\* No step back from o.
EndsAt(ask, o, cache) ==
  \/ o = 0 \/ o \in DOMAIN cache
  \/ ~Known(ask, o) \/ o \in DOMAIN PagesOf(ask, BlockOf(o))

Landing(ask, o, cache) ==
  LET ends == {d \in Steps(o) : EndsAt(ask, d, cache)}
  IN  CHOOSE c \in ends : \A d \in ends : d <= c

\* The page cache when the steps from o to c have filled it (cacheFtsBlock).
Filled(ask, o, c, cache) ==
  LET missed == {d \in Steps(o) : d >= c /\ d \notin DOMAIN cache /\ Known(ask, d)}
      fresh  == UNION {DOMAIN PagesOf(ask, BlockOf(d)) : d \in missed}
  IN  Over([p \in fresh |-> ask], cache)

\* Bug: the new controller is stored before the old one is aborted.
SendAborted(ask, o, before, foot) ==
  /\ live' = Idle
  /\ shown' = [kind |-> "searching"]
  /\ footer' = foot

\* The request is sent and aborts the one before: an abort while the body of a
\* 429 is read is taken for an empty body and ends in its error message.  (So
\* would one that waits in a Turnstile challenge when that fails; challenges are
\* left out.)
Send(ask, o, before, foot) ==
  /\ live' = [stage |-> "fetch", ask |-> ask, from |-> BlockOf(o)]
  /\ shown' = [kind |-> IF before.stage = "limited" THEN "error" ELSE "searching"]
  /\ footer' = foot

Run(ask, o, cache, before, foot) ==
  LET c == Landing(ask, o, cache)
      filled == Filled(ask, o, c, cache)
  IN  /\ offset' = c
      /\ pages' = filled
      /\ \/ c \in DOMAIN filled /\ ShowPage(c, filled[c], c, foot) /\ live' = before
         \/ c \notin DOMAIN filled /\ Known(ask, c) /\ ShowNone(foot) /\ live' = before
         \/ c \notin DOMAIN filled /\ ~Known(ask, c) /\ Send(ask, c, before, foot)

OtherSearch == live'.stage # "idle" /\ live'.ask # last'

Click == clicks < MAX_CLICKS /\ clicks' = clicks + 1

-----------------------------------------------------------------------------
(* The user                                                                 *)

\* Bug: the page cache is not cleared.
SubmitKeepsPages(form) ==
  /\ Click
  /\ last' = [form |-> form, op |-> box]
  /\ UNCHANGED <<box, stored>>
  /\ Run(last', 0, pages, live, NoFooter)
  /\ mixed' = OtherSearch

\* triggerFtsSearch from the form
Submit(form) ==
  /\ Click
  /\ last' = [form |-> form, op |-> box]
  /\ UNCHANGED <<box, stored>>
  /\ Run(last', 0, NoPages, live, NoFooter)
  /\ mixed' = OtherSearch

\* With neither keywords nor an author, in the form or in a link, nothing is
\* asked, and ftsLastParams, the request in flight and the URL stay.
SubmitNothing(o, op) ==
  /\ Click
  /\ box' = op
  /\ offset' = o /\ pages' = NoPages /\ footer' = NoFooter
  /\ shown' = [kind |-> "hint"]
  /\ mixed' = (mixed \/ op # box)
  /\ UNCHANGED <<last, live, stored>>

\* restoreFtsSearchFromParams: a shared link, or back and forward
OpenLink(ask, o) ==
  /\ Click
  /\ last' = ask /\ box' = ask.op
  /\ UNCHANGED stored
  /\ Run(ask, o, NoPages, live, NoFooter)
  /\ mixed' = OtherSearch

\* searchByUser, from a profile: opOnly is '0' whatever the box shows
SearchByUser(form) ==
  /\ Click
  /\ last' = [form |-> form, op |-> FALSE]
  /\ UNCHANGED <<box, stored>>
  /\ Run([form |-> form, op |-> box], 0, NoPages, live, NoFooter)
  /\ mixed' = (OtherSearch \/ box)

\* The box asks for nothing by itself; the next page does.
Toggle ==
  /\ Click
  /\ box' = ~box
  /\ mixed' = TRUE
  /\ UNCHANGED <<last, panel, stored>>

\* changeFtsPage, from one of the buttons that are shown
ChangePage(o) ==
  /\ Click
  /\ o \in footer.buttons
  /\ UNCHANGED <<last, box, stored>>
  /\ Run([form |-> last.form, op |-> box], o, pages, live, footer)
  /\ mixed' = (mixed \/ OtherSearch)

-----------------------------------------------------------------------------
(* The request in flight                                                    *)

\* Bug: the page of the request is shown, not the page the user is at.
AnswerRequested ==
  /\ live.stage = "fetch"
  /\ stored' = stored \cup {<<live.ask, live.from>>}
  /\ live' = Idle
  /\ LET cache == Over(PagesOf(live.ask, live.from), pages)
     IN  IF live.from \in DOMAIN cache
         THEN pages' = cache /\ ShowPage(offset, live.ask, live.from, footer) /\ UNCHANGED offset
         ELSE pages' = cache /\ ShowNone(footer) /\ UNCHANGED offset
  /\ UNCHANGED <<last, box, clicks, mixed>>

Answer ==
  /\ live.stage = "fetch"
  /\ UNCHANGED <<last, box, clicks>>
  /\ stored' = stored \cup {<<live.ask, live.from>>}
  /\ LET cache == Over(PagesOf(live.ask, live.from), pages)
     IN  \/ /\ offset \in DOMAIN cache
            /\ pages' = cache /\ ShowPage(offset, cache[offset], offset, footer)
            /\ live' = Idle /\ UNCHANGED offset
         \/ /\ offset \notin DOMAIN cache /\ offset = 0
            /\ pages' = cache /\ ShowNone(footer)
            /\ live' = Idle /\ UNCHANGED offset
         \/ /\ offset \notin DOMAIN cache /\ offset # 0
            /\ Run([form |-> last.form, op |-> box], LargerOf(0, offset - PAGE),
                   cache, Idle, footer)
  /\ mixed' = (mixed \/ OtherSearch)

\* The headers of a 429 are there, its body is not.
Limited ==
  /\ live.stage = "fetch"
  /\ live' = [live EXCEPT !.stage = "limited"]
  /\ UNCHANGED <<last, box, offset, pages, footer, shown, stored, clicks, mixed>>

\* Bug: every error is treated like an abort.
FailsSilently ==
  /\ live.stage # "idle"
  /\ live' = Idle
  /\ UNCHANGED <<last, box, offset, pages, footer, shown, stored, clicks, mixed>>

\* An error status, a 429, or no answer from the network.
Fails ==
  /\ live.stage # "idle"
  /\ live' = Idle
  /\ shown' = [kind |-> "error"]
  /\ UNCHANGED <<last, box, offset, pages, footer, stored, clicks, mixed>>

\* A stored answer is older than its minute.
Expire ==
  /\ \E entry \in stored : stored' = stored \ {entry}
  /\ UNCHANGED <<last, box, panel, clicks, mixed>>

-----------------------------------------------------------------------------
Init ==
  /\ last = [form |-> "none"]
  /\ box = FALSE
  /\ offset = 0 /\ pages = NoPages /\ footer = NoFooter
  /\ shown = [kind |-> "blank"]
  /\ live = Idle
  /\ stored = {}
  /\ clicks = 0
  /\ mixed = FALSE

Reply == Fails \/ Limited \/ Answer

Next ==
  \/ \E form \in Forms : Submit(form)
  \/ \E form \in Forms \ Counted : SearchByUser(form)
  \/ SubmitNothing(0, box)
  \/ \E o \in Links, op \in BOOLEAN : SubmitNothing(o, op)
  \/ Toggle
  \/ \E ask \in Ask, o \in Links : OpenLink(ask, o)
  \/ \E o \in footer.buttons : ChangePage(o)
  \/ Reply
  \/ Expire

Spec == Init /\ [][Next]_vars

(* The browser settles every fetch, with an answer or an error.             *)
FairSpec == Spec /\ WF_vars(Reply)

-----------------------------------------------------------------------------
(* The page on the screen is that of ftsOffset, the page the footer names,  *)
(* although answers of other blocks, of the page cache and of requests that *)
(* an empty form left in flight are rendered with whatever ftsOffset is by  *)
(* then.  The URL is not modelled: an empty form sets ftsOffset to 0 and    *)
(* leaves the URL as it was (search.html:1917, 1932-1936).                  *)
PageMatchesOffset == shown.kind = "page" => shown.from = offset

(* The spinner never stays behind: while it turns, the request that will    *)
(* replace it is in flight, for the block of the page the user is at.       *)
SpinnerAwaited ==
  shown.kind = "searching" => live.stage # "idle" /\ live.from = BlockOf(offset)

(* Rows of two searches are never mixed, neither in the page cache nor on   *)
(* the screen, unless a search was answered from a cache while a request of *)
(* another search was in flight (which such an answer does not abort), or   *)
(* the box and ftsLastParams disagreed (the box is read again for each      *)
(* page).                                                                   *)
OneSearch ==
  ~mixed => /\ \A o \in DOMAIN pages : pages[o] = last
            /\ shown.kind = "page" => shown.ask = last

(* Every button leads to posts, and when there are more posts the next page *)
(* has its button, also when the answers carry no total.                    *)
ButtonsLeadToPosts ==
  shown.kind = "page" /\ ~mixed =>
    /\ \A o \in footer.buttons : Hits(shown.ask) > o
    /\ Hits(shown.ask) > offset + PAGE => offset + PAGE \in footer.buttons

(* Every search comes to an end, with posts, without, or with an error, and *)
(* also from a link to an offset far behind the last page.                  *)
EverySearchSettles == shown.kind = "searching" ~> shown.kind # "searching"
=============================================================================
