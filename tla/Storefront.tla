----------------------------- MODULE Storefront -----------------------------
(***************************************************************************)
(* The order history of the demonstration shop: the store the service      *)
(* keeps (service/order_store.py, the /v1/store handlers of server.py) and *)
(* the page that polls it (web/src/pages/Storefront.tsx).  Agents' threads *)
(* record orders while the event loop answers a poll; polls overlap, their *)
(* answers are lost or come out of order, and the service restarts.        *)
(***************************************************************************)
EXTENDS Integers, Sequences, Functions

CONSTANTS
  MaxRows,      \* rows the store keeps in memory
  MaxOrders,    \* bound: orders recorded
  MaxWeeks,     \* bound: weeks begun
  MaxStarts, MaxPolls   \* bounds: restarts, polls of the page

ASSUME StoreAssumption ==
  {MaxRows, MaxOrders, MaxStarts, MaxPolls} \subseteq Nat /\ MaxWeeks \in Nat \ {0}

VARIABLES
  journal, rows, weeks, seq, rev, life,   \* the store; its file is what a restart keeps
  body, etag, offline, busy,           \* the page
  polls, polled,                       \* polls under way, and made
  advance                              \* where the `Next week' handler is

storeVars == <<journal, rows, weeks, seq, rev, life, body, etag, offline, busy,
               polls, polled, advance>>
Store == <<journal, rows, weeks, seq, rev, life>>
Page == <<body, etag, offline, busy>>

\* `no' tells the recorded orders apart whatever number the store gives them.
Order(id, w, no) == [id |-> id, week |-> w, no |-> no]
NoBody == [week |-> 1, orders |-> <<>>, rev |-> 0, life |-> 0, tag |-> <<0, 0>>]
NoTag == <<0, 0>>

\* etag: the week and a counter of changes, which starts again with the service.
Tag == <<weeks, rev>>

ShopInit ==
  /\ journal = <<>> /\ rows = <<>> /\ weeks = 1 /\ seq = 0 /\ rev = 0 /\ life = 1
  /\ body = NoBody /\ etag = NoTag /\ offline = FALSE /\ busy = FALSE
  /\ polls = {} /\ polled = 0 /\ advance = "idle"

\* _trim: the oldest orders go, the week markers stay.
Trim(s) == IF Len(s) > MaxRows THEN SubSeq(s, Len(s) - MaxRows + 1, Len(s)) ELSE s
-----------------------------------------------------------------------------
\* record, from the handler of an order or from an agent's thread.
RecordOrder ==
  LET o == Order(seq + 1, weeks, Len(journal) + 1) IN
  /\ Len(journal) < MaxOrders
  /\ seq' = seq + 1 /\ rev' = rev + 1
  /\ journal' = Append(journal, o) /\ rows' = Trim(Append(rows, o))
  /\ UNCHANGED <<weeks, life, Page, polls, polled, advance>>

\* Mutant: the next number is taken after the oldest rows are dropped.
LoadOrders_AfterTrim == rows' = Trim(journal) /\ seq' = Len(Trim(journal))

\* _load: the numbers go on from the orders in the file.
LoadOrders == rows' = Trim(journal) /\ seq' = Len(journal)

RestartStore ==
  /\ life <= MaxStarts /\ life' = life + 1
  /\ LoadOrders /\ rev' = 0
  /\ polls' = {p \in polls : p.pc = "answered"}     \* requests it was serving fail
  /\ UNCHANGED <<journal, weeks, Page, polled, advance>>

\* advance_week runs on the event loop, so never inside a handler.
AdvanceWeek ==
  /\ advance = "sent" /\ ~\E p \in polls : p.pc = "tagged"
  /\ \/ /\ weeks < MaxWeeks /\ weeks' = weeks + 1 /\ rev' = rev + 1
     \/ UNCHANGED <<weeks, rev>>        \* refused, or not answered
  /\ advance' = "answered"
  /\ UNCHANGED <<journal, rows, seq, life, Page, polls, polled>>
-----------------------------------------------------------------------------
\* What the page makes of its body: a section for every week that has an order,
\* figures that say `this week', and a note when there is nothing.
Sections == {o.week : o \in Range(body.orders)}
ThisWeek == {o \in Range(body.orders) : o.week = body.week}
ShowsNothing == body.orders = <<>> /\ ~offline

\* GET /v1/store/orders: the tag is read, then the rows; a thread may record an
\* order in between.

ServeTag(p) ==
  /\ p.pc = "sent" /\ ~\E q \in polls : q.pc = "tagged"
  /\ polls' = (polls \ {p}) \cup
       {IF p.none = Tag THEN [p EXCEPT !.pc = "answered", !.status = 304]
        ELSE [p EXCEPT !.pc = "tagged", !.body.tag = Tag]}
  /\ UNCHANGED <<Store, Page, polled, advance>>

ServeRows(p) ==
  /\ p.pc = "tagged"
  /\ polls' = (polls \ {p}) \cup
       {[p EXCEPT !.pc = "answered", !.status = 200,
                  !.body = [p.body EXCEPT !.week = weeks, !.orders = rows,
                                          !.rev = rev, !.life = life]]}
  /\ UNCHANGED <<Store, Page, polled, advance>>

LosePoll(p) ==
  /\ polls' = polls \ {p} /\ offline' = TRUE
  /\ UNCHANGED <<Store, body, etag, busy, polled, advance>>
-----------------------------------------------------------------------------
\* The page: one poll when it is mounted and one every 1.5 seconds, whether or
\* not the one before was answered.

NewPoll == [n |-> polled + 1, none |-> etag, pc |-> "sent", status |-> 0, body |-> NoBody]

Poll ==
  /\ polled < MaxPolls /\ polled' = polled + 1 /\ polls' = polls \cup {NewPoll}
  /\ UNCHANGED <<Store, Page, advance>>

\* The tag is kept when the headers are there; the body may still fail.
Polled(p) ==
  /\ p.pc = "answered" /\ polls' = polls \ {p}
  /\ IF p.status = 304 THEN offline' = FALSE /\ UNCHANGED <<body, etag>>
     ELSE /\ etag' = p.body.tag
          /\ \/ body' = p.body /\ offline' = FALSE
             \/ UNCHANGED body /\ offline' = TRUE
  /\ UNCHANGED <<Store, busy, polled, advance>>

\* `Next week': a token, the POST whatever it answers, then a poll of its own
\* without a tag.
Advance ==
  /\ ~busy /\ busy' = TRUE /\ advance' = "sent"
  /\ UNCHANGED <<Store, body, etag, offline, polls, polled>>

NoToken ==
  /\ advance = "sent" /\ busy' = FALSE /\ advance' = "idle"
  /\ UNCHANGED <<Store, body, etag, offline, polls, polled>>

Advanced ==
  /\ advance = "answered" /\ polled < MaxPolls
  /\ etag' = NoTag /\ polled' = polled + 1
  /\ polls' = polls \cup {[NewPoll EXCEPT !.none = NoTag]}
  /\ busy' = FALSE /\ advance' = "idle"
  /\ UNCHANGED <<Store, body, offline>>

ShopNext ==
  \/ RecordOrder \/ RestartStore \/ AdvanceWeek
  \/ \E p \in polls : ServeTag(p) \/ ServeRows(p) \/ LosePoll(p) \/ Polled(p)
  \/ Poll \/ Advance \/ NoToken \/ Advanced

ShopSpec == ShopInit /\ [][ShopNext]_storeVars
-----------------------------------------------------------------------------
ShopTypes ==
  /\ Len(rows) <= MaxRows /\ seq \in 0..MaxOrders /\ weeks \in 1..MaxWeeks
  /\ offline \in BOOLEAN /\ busy \in BOOLEAN /\ polled \in 0..MaxPolls
  /\ advance \in {"idle", "sent", "answered"}

Bodies == {body} \cup {p.body : p \in {q \in polls : q.pc = "answered"}}

\* No page ever shows two orders under one number, nor rows out of their order,
\* across trims and restarts.
NumbersDistinct ==
  \A b \in Bodies : \A i, j \in DOMAIN b.orders : i < j => b.orders[i].id < b.orders[j].id

\* A body is never older than the tag it is filed under: what the tag counts is
\* in it, so a later `not modified' under that tag hides no order.
BodyNotBehindTag ==
  \A b \in Bodies : b.life > 0 => b.tag[2] <= b.rev /\ b.tag[1] <= b.week

\* The figures say `this week': they count the newest section, or no section at
\* all when the week has no order yet, though week and rows are read apart.
FiguresAreThisWeek ==
  \A w \in Sections : w <= body.week /\ (w = body.week <=> w \in {o.week : o \in ThisWeek})

\* The history: the orders of every body the page has or is about to have, the
\* tag that body is filed under, and the figures made of it.
HistoryIsSound == NumbersDistinct /\ BodyNotBehindTag /\ FiguresAreThisWeek

\* "Nothing ordered yet" is an answer of the store: not so before the first one.
NothingIsAnswered == ShowsNothing => body # NoBody

\* The tag is "a revision counter": while the page holds the service's own tag
\* and says nothing of being stale, it shows the service's orders.
TagMeansFresh ==
  polls = {} /\ ~offline /\ etag = Tag => body.orders = rows
=============================================================================
