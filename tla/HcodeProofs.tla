----------------------------- MODULE HcodeProofs -----------------------------
(***************************************************************************)
(* Theorems about Hcode, for every number of pages, turns, calls and       *)
(* events.  The order is: the pages of the feed; types and counts of       *)
(* turns; each terminal adapter beside its agent; the end of the process.  *)
(***************************************************************************)
EXTENDS Hcode, SequenceTheorems, WellFoundedInduction, TLAPS

-----------------------------------------------------------------------------
(***************************************************************************)
(* The feed.                                                               *)
(***************************************************************************)

\* A nonempty set of naturals with an upper bound has a greatest element.
LEMMA GreatestOfBounded ==
  ASSUME NEW n \in Nat, NEW T, T \subseteq 0 .. n, T # {}
  PROVE  \E x \in T : \A y \in T : y <= x
<1> DEFINE Less == {ss \in Nat \X Nat : ss[1] < ss[2]}
           Mirror == {n - y : y \in T}
<1>1. IsWellFoundedOn(Less, Nat)
  BY NatLessThanWellFounded DEF OpToRel
<1>2. Mirror \subseteq Nat /\ Mirror # {}
  <2>1. PICK y \in T : TRUE
    OBVIOUS
  <2>2. n - y \in Mirror
    BY <2>1
  <2>3. \A z \in T : n - z \in Nat
    OBVIOUS
  <2> QED BY <2>2, <2>3
<1>3. PICK m \in Mirror : \A k \in Mirror : ~(<<k, m>> \in Less)
  <2> HIDE DEF Less, Mirror
  <2> QED BY <1>1, <1>2, WFMin
<1>4. PICK x \in T : m = n - x
  OBVIOUS
<1>5. ASSUME NEW y \in T PROVE y <= x
  <2>1. n - y \in Nat /\ m \in Nat /\ ~(<<n - y, m>> \in Less)
    BY <1>2, <1>3
  <2>2. ~(n - y < m)
    BY <2>1
  <2> QED BY <2>2, <1>4
<1> QED BY <1>5

\* MAX(idx) is an upper bound, and one of the indexes.
LEMMA MaxIdxBounds ==
  ASSUME NEW n \in Nat, \A r \in stored : r.idx \in 0 .. n - 1
  PROVE  MaxIdx \in -1 .. n - 1 /\ \A r \in stored : r.idx <= MaxIdx
<1>1. CASE stored = {}
  BY <1>1 DEF MaxIdx
<1>2. CASE stored # {}
  <2> DEFINE I == {r.idx : r \in stored}
             Greatest(i) == i \in I /\ \A j \in I : i >= j
  <2>1. I \subseteq 0 .. n - 1 /\ I # {}
    BY <1>2
  <2>2. I \subseteq 0 .. n
    <3> HIDE DEF I
    <3> QED BY <2>1
  <2>3. PICK i \in I : \A j \in I : j <= i
    <3> HIDE DEF I
    <3> QED BY <2>1, <2>2, GreatestOfBounded
  <2>4. Greatest(i)
    <3> HIDE DEF I
    <3> QED BY <2>2, <2>3
  <2>5. MaxIdx = CHOOSE m \in I : \A j \in I : m >= j
    BY <1>2 DEF MaxIdx, Max
  <2>6. Greatest(MaxIdx)
    <3> HIDE DEF I
    <3> QED BY <2>4, <2>5
  <2>7. MaxIdx \in 0 .. n - 1
    BY <2>1, <2>6
  <2> QED BY <2>1, <2>6, <2>7
<1> QED BY <1>1, <1>2

\* What a page has read, and where it reads on: whatever is appended at its offset or
\* beyond is newer than all it shows.
PageStands(t) ==
  /\ \A e \in t.shows \cup t.got : e <= born
  /\ t.offset <= born /\ t.next <= born
  /\ \A r \in stored, old \in t.shows : r.idx >= t.offset => old < r.event
  /\ t.at = "answered" =>
       /\ \A r \in stored, old \in t.shows \cup t.got : r.idx >= t.next => old < r.event
       /\ \A new \in t.got, old \in t.shows : old < new

Tabs ==
  [at : {"closed", "tail", "asked", "answered"}, ticks : BOOLEAN,
   offset : 0 .. MaxEvents, next : 0 .. MaxEvents, shows : SUBSET (1 .. MaxEvents),
   got : SUBSET (1 .. MaxEvents)]

FeedInv ==
  /\ FeedTypeOK
  /\ \A r \in stored : r.event <= born /\ r.idx < born
  /\ \A p \in Pages : PageStands(page[p])

LEMMA FeedStarts == FeedInit => FeedInv
<1>1. ASSUME FeedInit PROVE FeedTypeOK
  <2>1. Closed \in Tabs
    BY EventBound DEF Closed, Tabs
  <2>2. page \in [Pages -> Tabs] /\ sse \in [Pages -> BOOLEAN] /\ edited \in BOOLEAN
    BY <1>1, <2>1 DEF FeedInit
  <2>3. stored = {} /\ born \in 0 .. MaxEvents
    BY <1>1, EventBound DEF FeedInit
  <2> QED BY <2>2, <2>3 DEF FeedTypeOK, Tabs
<1>2. ASSUME FeedInit, NEW p \in Pages PROVE PageStands(page[p])
  BY <1>2 DEF FeedInit, PageStands, Closed
<1>3. FeedInit => stored = {}
  BY DEF FeedInit
<1> QED BY <1>1, <1>2, <1>3 DEF FeedInv

LEMMA FeedFacts ==
  ASSUME FeedInv
  PROVE  /\ born \in 0 .. MaxEvents /\ MaxEvents \in Nat
         /\ page \in [Pages -> Tabs] /\ sse \in [Pages -> BOOLEAN] /\ edited \in BOOLEAN
         /\ \A r \in stored : r \in [idx : 0 .. MaxEvents, event : 1 .. MaxEvents]
         /\ \A r \in stored : r.event \in 1 .. born /\ r.idx \in 0 .. born - 1
         /\ MaxIdx \in -1 .. born - 1 /\ \A r \in stored : r.idx <= MaxIdx
<1>1. born \in 0 .. MaxEvents /\ MaxEvents \in Nat
  BY EventBound DEF FeedInv, FeedTypeOK
<1>2. \A r \in stored : r \in [idx : 0 .. MaxEvents, event : 1 .. MaxEvents]
  BY DEF FeedInv, FeedTypeOK
<1>3. \A r \in stored : r.event \in 1 .. born /\ r.idx \in 0 .. born - 1
  BY <1>1, <1>2 DEF FeedInv
<1>4. born \in Nat
  BY <1>1
<1>5. MaxIdx \in -1 .. born - 1 /\ \A r \in stored : r.idx <= MaxIdx
  BY <1>3, <1>4, MaxIdxBounds
<1> QED BY <1>1, <1>2, <1>3, <1>5 DEF FeedInv, FeedTypeOK, Tabs

\* A page that only fetches shows and knows what it did.
Unread(t, u) ==
  /\ u.shows = t.shows /\ u.got = t.got /\ u.offset = t.offset /\ u.next = t.next
  /\ u.at = "answered" <=> t.at = "answered"

LEMMA FetchReadsNothing ==
  ASSUME FeedInv, NEW p \in Pages
  PROVE  Fetch(page, p) \in Tabs /\ Unread(page[p], Fetch(page, p))
<1>1. page[p] \in Tabs
  BY FeedFacts
<1> QED BY <1>1 DEF Fetch, Listens, Unread, Tabs

LEMMA AppendKeepsFeed ==
  ASSUME FeedInv, AppendEvent
  PROVE  FeedInv'
<1>1. /\ born \in 0 .. MaxEvents /\ MaxEvents \in Nat
      /\ page \in [Pages -> Tabs] /\ sse \in [Pages -> BOOLEAN] /\ edited \in BOOLEAN
      /\ \A r \in stored : r \in [idx : 0 .. MaxEvents, event : 1 .. MaxEvents]
      /\ \A r \in stored : r.event \in 1 .. born /\ r.idx \in 0 .. born - 1
      /\ MaxIdx \in -1 .. born - 1
  BY FeedFacts
<1>2. PICK new : new = Event(MaxIdx + 1, born + 1)
  OBVIOUS
<1>3. new.idx = MaxIdx + 1 /\ new.event = born + 1
  BY <1>2 DEF Event
<1>4. /\ born < MaxEvents /\ born' = born + 1 /\ stored' = stored \cup {new}
      /\ sse' = sse /\ edited' = edited
  BY <1>2 DEF AppendEvent
<1>5. new \in [idx : 0 .. MaxEvents, event : 1 .. MaxEvents]
  BY <1>1, <1>2, <1>4 DEF Event
<1>6. PICK told \in SUBSET {p \in Pages : sse[p]} :
        page' = [p \in Pages |-> IF p \in told THEN Fetch(page, p) ELSE page[p]]
  BY DEF AppendEvent
<1>7. ASSUME NEW p \in Pages PROVE page'[p] \in Tabs /\ Unread(page[p], page'[p])
  <2>1. page'[p] = Fetch(page, p) \/ page'[p] = page[p]
    BY <1>6
  <2>2. Unread(page[p], page[p])
    BY DEF Unread
  <2> QED BY <2>1, <2>2, <1>1, FetchReadsNothing
<1>8. page' \in [Pages -> Tabs]
  BY <1>6, <1>7
<1>9. FeedTypeOK'
  BY <1>1, <1>4, <1>5, <1>8 DEF FeedTypeOK, Tabs
<1>10. \A r \in stored' : r.event <= born' /\ r.idx < born'
  BY <1>1, <1>3, <1>4
<1>11. ASSUME NEW p \in Pages PROVE PageStands(page[p])'
  <2>1. PICK t \in Tabs : t = page[p]
    BY <1>1
  <2>2. PICK u \in Tabs : u = page'[p]
    BY <1>7
  <2>3. PageStands(t) /\ Unread(t, u)
    BY <2>1, <2>2, <1>7 DEF FeedInv
  <2>4. \A e \in t.shows \cup t.got : e <= born /\ e \in Nat
    BY <2>3 DEF PageStands, Tabs
  <2>5. t.offset \in Nat /\ t.next \in Nat
    BY DEF Tabs
  <2>6. PageStands(t)'
    <3>1. \A e \in t.shows \cup t.got : e <= born' /\ e < new.event
      BY <2>4, <1>1, <1>3, <1>4
    <3>2. t.offset <= born' /\ t.next <= born'
      BY <2>3, <2>5, <1>1, <1>4 DEF PageStands
    <3>3. \A r \in stored', old \in t.shows : r.idx >= t.offset => old < r.event
      BY <2>3, <3>1, <1>4 DEF PageStands
    <3>4. t.at = "answered" =>
            /\ \A r \in stored', old \in t.shows \cup t.got : r.idx >= t.next => old < r.event
            /\ \A n \in t.got, old \in t.shows : old < n
      BY <2>3, <3>1, <1>4 DEF PageStands
    <3> QED BY <3>1, <3>2, <3>3, <3>4 DEF PageStands
  <2>7. PageStands(u)'
    BY <2>3, <2>6 DEF PageStands, Unread
  <2> QED BY <2>2, <2>7
<1> QED BY <1>9, <1>10, <1>11 DEF FeedInv

LEMMA EditKeepsFeed ==
  ASSUME FeedInv, NEW r \in stored, DeleteEvent(r) \/ TruncateEvents(r)
  PROVE  FeedInv'
<1>1. /\ stored' \subseteq stored /\ edited' = TRUE
      /\ born' = born /\ page' = page /\ sse' = sse
  BY DEF DeleteEvent, TruncateEvents
<1>2. FeedTypeOK'
  BY <1>1 DEF FeedInv, FeedTypeOK
<1>3. ASSUME NEW p \in Pages PROVE PageStands(page[p])'
  <2>1. PICK t : t = page[p]
    OBVIOUS
  <2>2. PageStands(t)
    BY <2>1 DEF FeedInv
  <2>3. PageStands(t)'
    BY <2>2, <1>1 DEF PageStands
  <2> QED BY <2>1, <2>3, <1>1
<1> QED BY <1>1, <1>2, <1>3 DEF FeedInv

\* A step of one page.
LEMMA PageKeepsFeed ==
  ASSUME FeedInv, NEW p \in Pages, NEW u \in Tabs,
         stored' = stored, born' = born, edited' = edited, sse' \in [Pages -> BOOLEAN],
         page' = [page EXCEPT ![p] = u], PageStands(u)
  PROVE  FeedInv'
<1>1. page \in [Pages -> Tabs]
  BY FeedFacts
<1>2. FeedTypeOK'
  <2>1. page' \in [Pages -> Tabs]
    BY <1>1
  <2> QED BY <2>1 DEF FeedInv, FeedTypeOK, Tabs
<1>3. ASSUME NEW q \in Pages PROVE PageStands(page[q])'
  <2>1. PICK t : t = page'[q]
    OBVIOUS
  <2>2. PageStands(t)
    BY <2>1, <1>1 DEF FeedInv
  <2>3. PageStands(t)'
    BY <2>2 DEF PageStands
  <2> QED BY <2>1, <2>3
<1> QED BY <1>2, <1>3 DEF FeedInv

\* What is read at an offset, of a page that stands, is newer than all it shows.
LEMMA ReadIsNewer ==
  ASSUME FeedInv, NEW from \in Nat
  PROVE  /\ From(from) \subseteq 1 .. MaxEvents
         /\ \A e \in From(from) : e <= born /\ \E r \in stored : r.event = e /\ r.idx >= from
<1>1. /\ born \in 0 .. MaxEvents /\ MaxEvents \in Nat
      /\ \A r \in stored : r.event \in 1 .. born /\ r.idx \in 0 .. born - 1
  BY FeedFacts
<1>2. ASSUME NEW e \in From(from)
      PROVE  e \in 1 .. MaxEvents /\ e <= born /\ \E r \in stored : r.event = e /\ r.idx >= from
  <2>1. PICK r \in stored : r.event = e /\ r.idx >= from
    BY DEF From
  <2> QED BY <2>1, <1>1
<1> QED BY <1>2

LEMMA FeedKept == FeedInv /\ (FeedNext \/ UNCHANGED feedVars) => FeedInv'
<1> SUFFICES ASSUME FeedInv, FeedNext \/ UNCHANGED feedVars PROVE FeedInv'
  OBVIOUS
<1>1. /\ born \in 0 .. MaxEvents /\ MaxEvents \in Nat
      /\ page \in [Pages -> Tabs] /\ sse \in [Pages -> BOOLEAN] /\ edited \in BOOLEAN
      /\ \A r \in stored : r.event \in 1 .. born /\ r.idx \in 0 .. born - 1
      /\ MaxIdx \in -1 .. born - 1 /\ \A r \in stored : r.idx <= MaxIdx
  BY FeedFacts
<1>2. MaxIdx + 1 \in 0 .. MaxEvents /\ MaxIdx + 1 <= born /\ 0 \in 0 .. MaxEvents
  BY <1>1
<1>3. \A r \in stored : ~(r.idx >= MaxIdx + 1)
  BY <1>1
<1>4. CASE UNCHANGED feedVars
  BY <1>4 DEF feedVars, FeedInv, FeedTypeOK, PageStands
<1>5. ASSUME NEW p \in Pages, OpenPage(p) PROVE FeedInv'
  <2>1. PICK u : u = [at |-> "asked", ticks |-> FALSE, offset |-> MaxIdx + 1, shows |-> From(0),
                      got |-> {}, next |-> 0]
    OBVIOUS
  <2>2. 0 \in Nat
    OBVIOUS
  <2>3. From(0) \subseteq 1 .. MaxEvents /\ \A e \in From(0) : e <= born
    BY <2>2, ReadIsNewer
  <2>4. u \in Tabs
    BY <2>1, <2>3, <1>2 DEF Tabs
  <2>5. PageStands(u)
    BY <2>1, <2>3, <1>1, <1>2, <1>3 DEF PageStands
  <2>6. /\ stored' = stored /\ born' = born /\ edited' = edited /\ sse' \in [Pages -> BOOLEAN]
        /\ page' = [page EXCEPT ![p] = u]
    BY <2>1, <1>1, <1>5 DEF OpenPage
  <2> QED BY <2>4, <2>5, <2>6, PageKeepsFeed
<1>6. ASSUME NEW p \in Pages, Poll(p) PROVE FeedInv'
  <2>1. PICK u : u = Fetch(page, p)
    OBVIOUS
  <2>2. PageStands(page[p]) /\ u \in Tabs /\ Unread(page[p], u)
    BY <2>1, FetchReadsNothing DEF FeedInv
  <2>3. PageStands(u)
    BY <2>2 DEF PageStands, Unread
  <2>4. /\ stored' = stored /\ born' = born /\ edited' = edited /\ sse' \in [Pages -> BOOLEAN]
        /\ page' = [page EXCEPT ![p] = u]
    BY <2>1, <1>1, <1>6 DEF Poll
  <2> QED BY <2>2, <2>3, <2>4, PageKeepsFeed
<1>7. ASSUME NEW p \in Pages, Serve(p) PROVE FeedInv'
  <2>1. PICK t \in Tabs : t = page[p]
    BY <1>1
  <2>2. PICK got : got = From(t.offset)
    OBVIOUS
  <2>3. PICK u : u = [t EXCEPT !.at = "answered", !.got = got, !.next = MaxIdx + 1]
    OBVIOUS
  <2>4. PageStands(t) /\ t.offset \in Nat
    BY <2>1 DEF FeedInv, Tabs
  <2>5. /\ got \subseteq 1 .. MaxEvents
        /\ \A e \in got : e <= born /\ \E r \in stored : r.event = e /\ r.idx >= t.offset
    BY <2>2, <2>4, ReadIsNewer
  <2>6. u \in Tabs
    BY <2>3, <2>5, <1>2 DEF Tabs
  <2>7. /\ u.shows = t.shows /\ u.got = got /\ u.offset = t.offset /\ u.next = MaxIdx + 1
    BY <2>3 DEF Tabs
  <2>8. \A new \in got, old \in t.shows : old < new
    BY <2>4, <2>5 DEF PageStands
  <2>9. PageStands(u)
    BY <2>4, <2>5, <2>7, <2>8, <1>2, <1>3 DEF PageStands
  <2>10. /\ stored' = stored /\ born' = born /\ edited' = edited /\ sse' \in [Pages -> BOOLEAN]
         /\ page' = [page EXCEPT ![p] = u]
    BY <2>1, <2>2, <2>3, <1>1, <1>7 DEF Serve, NextOffset
  <2> QED BY <2>6, <2>9, <2>10, PageKeepsFeed
<1>8. ASSUME NEW p \in Pages, Swap(p) PROVE FeedInv'
  <2>1. PICK t \in Tabs : t = page[p]
    BY <1>1
  <2>2. PICK u : u = Swapped(t)
    OBVIOUS
  <2>3. PageStands(t) /\ t.at = "answered"
    BY <2>1, <1>8 DEF FeedInv, Swap
  <2>4. /\ u \in Tabs /\ u.shows = t.shows \cup t.got /\ u.got = {} /\ u.offset = t.next
        /\ u.next = 0 /\ u.at = "tail"
    BY <2>2, <1>2 DEF Swapped, TailOf, Tabs
  <2>5. PageStands(u)
    BY <2>3, <2>4, <1>1 DEF PageStands
  <2>6. /\ stored' = stored /\ born' = born /\ edited' = edited /\ sse' \in [Pages -> BOOLEAN]
        /\ page' = [page EXCEPT ![p] = u]
    BY <2>1, <2>2, <1>1, <1>8 DEF Swap
  <2> QED BY <2>4, <2>5, <2>6, PageKeepsFeed
<1>9. ASSUME NEW p \in Pages, FetchFails(p) PROVE FeedInv'
  <2>1. PICK t \in Tabs : t = page[p]
    BY <1>1
  <2>2. PICK u : u = TailOf(t)
    OBVIOUS
  <2>3. PageStands(t)
    BY <2>1 DEF FeedInv
  <2>4. /\ u \in Tabs /\ u.shows = t.shows /\ u.got = {} /\ u.offset = t.offset
        /\ u.next = 0 /\ u.at = "tail"
    BY <2>2, <1>2 DEF TailOf, Tabs
  <2>5. PageStands(u)
    BY <2>3, <2>4, <1>1 DEF PageStands
  <2>6. /\ stored' = stored /\ born' = born /\ edited' = edited /\ sse' \in [Pages -> BOOLEAN]
        /\ page' = [page EXCEPT ![p] = u]
    BY <2>1, <2>2, <1>1, <1>9 DEF FetchFails
  <2> QED BY <2>4, <2>5, <2>6, PageKeepsFeed
<1>10. ASSUME NEW p \in Pages, Disconnect(p) \/ Reconnect(p) PROVE FeedInv'
  <2>1. /\ stored' = stored /\ born' = born /\ edited' = edited /\ sse' \in [Pages -> BOOLEAN]
        /\ page' = page
    BY <1>1, <1>10 DEF Disconnect, Reconnect
  <2> QED BY <2>1 DEF FeedInv, FeedTypeOK, PageStands
<1> QED BY <1>4, <1>5, <1>6, <1>7, <1>8, <1>9, <1>10, AppendKeepsFeed, EditKeepsFeed DEF FeedNext

LEMMA FeedSteps == [Next]_vars => FeedNext \/ UNCHANGED feedVars
  BY DEF Next, vars, OnPages, Agent, WorkerFails, OnTerminal, OnTui, OnRuntime, Published

LEMMA FeedHolds == Spec => []FeedInv
  BY FeedStarts, FeedKept, FeedSteps, PTL DEF Spec, Init

\* However bubbles are deleted, requests fail and answers are late, what a page is about to
\* show is newer than all it shows: each event once, and in the order they were appended.
THEOREM EachBubbleOnce == Spec => []ShownOnceInOrder
<1>1. FeedInv => ShownOnceInOrder
  BY DEF FeedInv, PageStands, ShownOnceInOrder
<1> QED BY <1>1, FeedHolds, PTL

-----------------------------------------------------------------------------
(***************************************************************************)
(* The agent beside an adapter: types, and how many turns and calls there  *)
(* have been.                                                              *)
(***************************************************************************)

LEMMA MoreCalls ==
  ASSUME NEW a \in Nat, NEW b \in Nat, NEW c \in Nat, a <= b
  PROVE  a * c \in Nat /\ a * c <= b * c
<1>1. PICK d \in Nat : b = a + d
  <2>1. b - a \in Nat /\ b = a + (b - a)
    OBVIOUS
  <2> QED BY <2>1
<1>2. a * c \in Nat /\ d * c \in Nat
  OBVIOUS
<1>3. b * c = a * c + d * c
  BY <1>1
<1> QED BY <1>2, <1>3

\* Turns that were asked for and are not claimed yet.
Owed == (IF row = "due" THEN 1 ELSE 0) + (IF posting # "none" THEN 1 ELSE 0)

TurnInv ==
  /\ LiveTypeOK /\ RuntimeTypeOK
  /\ adapter \in {"pages", "legacy", "terminal", "tui"} /\ asked \in 0 .. MaxTurns
  /\ run.n + Owed <= asked
  /\ run.call <= run.n * MaxCalls

\* A run holds its claim as long as the process lives, nothing is submitted beside a run,
\* and nobody submits to a process that only serves pages.
AgentInv ==
  /\ stage # "exited" => (row = "running" <=> run.at # "none")
  /\ posting # "none" => AgentRests
  /\ Serves => AgentRests /\ posting = "none"

LEMMA TurnFacts ==
  ASSUME TurnInv
  PROVE  /\ MaxTurns \in Nat /\ MaxCalls \in Nat /\ MaxPersist \in Nat
         /\ run.n \in 0 .. MaxTurns /\ run.call \in Nat /\ run.call \in Calls
         /\ run.left \in 0 .. MaxPersist /\ run.aborted \in BOOLEAN
         /\ log \in Seq(Calls \cup {UserRow}) /\ Len(log) \in Nat
         /\ row \in {"idle", "due", "running"} /\ posting \in {"none", "open", "aborted"}
         /\ run.n * MaxCalls \in Nat /\ run.n * MaxCalls <= MaxTurns * MaxCalls
<1>1. MaxTurns \in Nat /\ MaxCalls \in Nat /\ MaxPersist \in Nat
  BY TurnBounds
<1>2. MaxTurns * MaxCalls \in Nat
  BY <1>1
<1>3. /\ run.n \in 0 .. MaxTurns /\ run.call \in Calls /\ run.left \in 0 .. MaxPersist
      /\ run.aborted \in BOOLEAN
      /\ log \in Seq(Calls \cup {UserRow}) /\ Len(log) \in Nat
      /\ row \in {"idle", "due", "running"} /\ posting \in {"none", "open", "aborted"}
  BY DEF TurnInv, LiveTypeOK
<1>4. run.call \in Nat
  BY <1>2, <1>3 DEF Calls
<1>5. run.n * MaxCalls \in Nat /\ run.n * MaxCalls <= MaxTurns * MaxCalls
  BY <1>1, <1>3, MoreCalls
<1> QED BY <1>1, <1>3, <1>4, <1>5

\* One event more.
LEMMA LogGrows ==
  ASSUME TurnInv, NEW e \in Calls \cup {UserRow}, log' = Append(log, e)
  PROVE  /\ log' \in Seq(Calls \cup {UserRow}) /\ Len(log') = Len(log) + 1
         /\ \A i \in 1 .. Len(log) : log'[i] = log[i]
  BY TurnFacts

\* Steps that move no turn: the process, the pages, the waits.
TurnRests == UNCHANGED <<turnVars, asked>>

\* An adapter that takes input.
Asks == \/ adapter = "terminal" /\ phase = "prompt"
        \/ adapter = "tui" /\ turn = "none" /\ ~closed

\* What the agent, its worker and its adapter do to the turn.
TurnMoves ==
  \/ TurnRests
  \/ \E event \in LiveEvents : Progress(event) /\ UNCHANGED <<asked, stage>>
  \/ WorkerCrashes("none") /\ UNCHANGED <<asked, stage>>
  \/ Submits /\ Asks /\ asked < MaxTurns /\ asked' = asked + 1 /\ stage' = stage
  \/ (Submitted \/ Stopped) /\ UNCHANGED <<asked, stage>>
  \/ Aborted /\ UNCHANGED <<log, posting, row, crashed, asked>> /\ stage' # "exited"
  \/ ForcedEnd /\ asked' = asked

LEMMA AdapterKept == [Next]_vars => adapter' = adapter
  BY DEF Next, vars, OnPages, Agent, WorkerFails, OnTerminal, OnTui, OnRuntime, Published

LEMMA TurnSteps == [Next]_vars => TurnMoves
<1> SUFFICES ASSUME [Next]_vars PROVE TurnMoves
  OBVIOUS
<1> USE DEF Asks
<1>1. CASE UNCHANGED vars
  BY <1>1 DEF vars, TurnMoves, TurnRests
<1>2. CASE OnPages
  BY <1>2 DEF OnPages, TurnMoves, TurnRests
<1>3. CASE Agent
  BY <1>3 DEF Agent, Published, TurnMoves, runtimeVars
<1>4. CASE WorkerFails
  BY <1>4 DEF WorkerFails, Published, TurnMoves, runtimeVars
<1>5. CASE OnTerminal
  BY <1>5 DEF OnTerminal, Types, ReadLine, Interrupt, Exit, Leaves, Look, WaitOver, SubmitDone,
              TurnMoves, TurnRests, runtimeVars
<1>6. CASE OnTui
  BY <1>6 DEF OnTui, Types, OnSubmit, OnInterrupt, RequestExit, Round, WaitEnds, TurnSubmitted,
              TurnMoves, TurnRests, runtimeVars
<1>7. CASE OnRuntime
  <2>1. asked' = asked
    BY <1>7 DEF OnRuntime
  <2>2. Boot \/ Close \/ Signal \/ RequestShutdown => TurnRests
    BY <2>1 DEF Boot, Close, Signal, RequestShutdown, TurnRests
  <2>3. ServerStopped => TurnMoves
    BY <2>1 DEF ServerStopped, TurnMoves
  <2>4. ShutDown(Serves) => TurnMoves
    BY <2>1 DEF ShutDown, TurnMoves, TurnRests, turnVars
  <2> QED BY <2>1, <2>2, <2>3, <2>4, <1>7 DEF OnRuntime, RuntimeStep, TurnMoves
<1> QED BY <1>1, <1>2, <1>3, <1>4, <1>5, <1>6, <1>7 DEF Next

\* The records a run is.
Runs == [n : 0..MaxTurns, call : Calls, left : 0..MaxPersist, aborted : BOOLEAN,
         at : {"none", "between", "streaming", "persisting", "completed",
               "stopped", "failed"}]

\* The types and the counts, of a step that leaves the number of the run and its calls alone.
LEMMA RunStays ==
  ASSUME TurnInv, run' \in Runs, run'.n = run.n, run'.call = run.call,
         log' \in Seq(Calls \cup {UserRow}), posting' = posting,
         row' = row \/ row' = "idle", crashed' \in BOOLEAN
  PROVE  /\ LiveTypeOK' /\ run'.n + Owed' <= run.n + Owed
         /\ run'.call <= run'.n * MaxCalls
<1>1. /\ run.n \in 0 .. MaxTurns /\ MaxTurns \in Nat /\ run.call <= run.n * MaxCalls
      /\ posting \in {"none", "open", "aborted"} /\ row \in {"idle", "due", "running"}
  BY TurnFacts DEF TurnInv
<1>2. LiveTypeOK'
  BY <1>1 DEF LiveTypeOK, Runs
<1>3. Owed \in 0 .. 2 /\ Owed' \in 0 .. 2 /\ Owed' <= Owed
  BY DEF Owed
<1>4. run'.n + Owed' <= run.n + Owed
  BY <1>1, <1>3
<1> QED BY <1>1, <1>2, <1>4

\* What the worker and the run do keeps them: a claim owes one turn less.
LEMMA ProgressTyped ==
  ASSUME TurnInv, NEW event, Progress(event)
  PROVE  /\ LiveTypeOK' /\ run'.n + Owed' <= run.n + Owed
         /\ run'.call <= run'.n * MaxCalls
<1>1. /\ MaxTurns \in Nat /\ MaxCalls \in Nat /\ MaxPersist \in Nat
      /\ run.n \in 0 .. MaxTurns /\ run.call \in Nat /\ run.call \in Calls
      /\ run.left \in 0 .. MaxPersist /\ run.aborted \in BOOLEAN
      /\ run.n * MaxCalls \in Nat /\ run.n * MaxCalls <= MaxTurns * MaxCalls
      /\ log \in Seq(Calls \cup {UserRow})
  BY TurnFacts
<1>2. /\ LiveTypeOK /\ run.n + Owed <= asked /\ asked \in 0 .. MaxTurns
      /\ run.call <= run.n * MaxCalls /\ crashed \in BOOLEAN /\ run \in Runs
  BY DEF TurnInv, LiveTypeOK, Runs
<1>3. Owed \in 0 .. 2
  BY DEF Owed
<1>4. CASE Claim(event)
  <2>1. /\ row = "due" /\ row' = "running" /\ UNCHANGED <<log, posting, crashed>>
        /\ run' = [n |-> run.n + 1, at |-> "between", call |-> run.call,
                   left |-> 0, aborted |-> FALSE]
    BY <1>4 DEF Claim, NoRun
  <2>2. Owed = Owed' + 1 /\ Owed' \in 0 .. 1
    BY <2>1 DEF Owed
  <2>3. run.n + 1 \in 0 .. MaxTurns
    BY <2>2, <1>1, <1>2
  <2>4. run' \in Runs /\ run'.n = run.n + 1 /\ run'.call = run.call
    <3>1. 0 \in 0 .. MaxPersist
      BY <1>1
    <3> QED BY <2>1, <2>3, <1>1, <3>1 DEF Runs
  <2>5. run.n * MaxCalls <= (run.n + 1) * MaxCalls /\ (run.n + 1) * MaxCalls \in Nat
    <3>1. run.n \in Nat /\ run.n + 1 \in Nat /\ run.n <= run.n + 1
      BY <1>1
    <3> QED BY <3>1, <1>1, MoreCalls
  <2>6. LiveTypeOK'
    BY <2>1, <2>4, <1>2 DEF LiveTypeOK, Runs
  <2>7. run'.n + Owed' <= run.n + Owed
    BY <2>2, <2>4, <1>1
  <2>8. run'.call <= run'.n * MaxCalls
    BY <2>4, <2>5, <1>1, <1>2
  <2> QED BY <2>6, <2>7, <2>8
<1>6. CASE CallStarts(event)
  <2>1. /\ UNCHANGED <<log, posting, row, crashed>> /\ run.call < run.n * MaxCalls
        /\ run' = [run EXCEPT !.at = "streaming", !.call = run.call + 1]
    BY <1>6 DEF CallStarts
  <2>2. run.call + 1 <= run.n * MaxCalls /\ run.call + 1 <= MaxTurns * MaxCalls
    BY <2>1, <1>1
  <2>3. run.call + 1 \in Calls
    BY <2>2, <1>1 DEF Calls
  <2>4. run' \in Runs /\ run'.n = run.n /\ run'.call = run.call + 1
    BY <2>1, <2>3, <1>2 DEF Runs
  <2>5. LiveTypeOK'
    BY <2>1, <2>4, <1>2 DEF LiveTypeOK, Runs
  <2>6. Owed' = Owed
    BY <2>1 DEF Owed
  <2> QED BY <2>2, <2>4, <2>5, <2>6, <1>1, <1>3
<1>7. CASE Delta(event)
  BY <1>7, <1>1, <1>2, RunStays DEF Delta, turnVars
<1>8. CASE StreamEnds(event)
  <2>1. run' \in Runs /\ run'.n = run.n /\ run'.call = run.call
    BY <1>8, <1>2 DEF StreamEnds, Runs
  <2> QED BY <2>1, <1>8, <1>1, <1>2, RunStays DEF StreamEnds
<1>9. CASE Persist(event)
  <2>1. run.left - 1 \in 0 .. MaxPersist
    BY <1>9, <1>1 DEF Persist
  <2>2. run' = [run EXCEPT !.left = run.left - 1]
    BY <1>9 DEF Persist
  <2>3. run' \in Runs /\ run'.n = run.n /\ run'.call = run.call
    BY <2>1, <2>2, <1>2 DEF Runs
  <2>4. log' \in Seq(Calls \cup {UserRow})
    BY <1>9, <1>1, LogGrows DEF Persist
  <2> QED BY <2>3, <2>4, <1>9, <1>2, RunStays DEF Persist
<1>10. CASE CallFinishes(event)
  <2>1. run' \in Runs /\ run'.n = run.n /\ run'.call = run.call
    BY <1>10, <1>2 DEF CallFinishes, Runs
  <2> QED BY <2>1, <1>10, <1>1, <1>2, RunStays DEF CallFinishes
<1>11. CASE RunCompletes(event)
  <2>1. run' \in Runs /\ run'.n = run.n /\ run'.call = run.call
    BY <1>11, <1>2 DEF RunCompletes, Runs
  <2> QED BY <2>1, <1>11, <1>1, <1>2, RunStays DEF RunCompletes
<1>12. CASE RunBreaks(event)
  <2>1. PICK way \in {"stopped", "failed"} : run' = [run EXCEPT !.at = way]
    BY <1>12 DEF RunBreaks
  <2>2. run' \in Runs /\ run'.n = run.n /\ run'.call = run.call
    BY <2>1, <1>2 DEF Runs
  <2> QED BY <2>2, <1>12, <1>1, <1>2, RunStays DEF RunBreaks
<1>13. CASE ErrorStored(event)
  <2>1. 0 \in Calls
    <3>1. MaxTurns * MaxCalls \in Nat
      BY <1>1
    <3> QED BY <3>1 DEF Calls
  <2>2. run' \in Runs /\ run'.n = run.n /\ run'.call = run.call
    BY <1>13, <1>2 DEF ErrorStored, Runs
  <2>3. log' \in Seq(Calls \cup {UserRow})
    BY <2>1, <1>13, <1>1, LogGrows DEF ErrorStored
  <2> QED BY <2>2, <2>3, <1>13, <1>2, RunStays DEF ErrorStored
<1>14. CASE Settles(event)
  <2>1. 0 \in 0 .. MaxPersist
    BY <1>1
  <2>2. run' \in Runs /\ run'.n = run.n /\ run'.call = run.call
    BY <2>1, <1>14, <1>2 DEF Settles, Runs
  <2> QED BY <2>2, <1>14, <1>1, <1>2, RunStays DEF Settles
<1> QED BY <1>4, <1>6, <1>7, <1>8, <1>9, <1>10, <1>11, <1>12, <1>13, <1>14 DEF Progress

\* A process that has exited does nothing more.
LEMMA ExitedStays ==
  ASSUME [Next]_vars, stage = "exited"
  PROVE  UNCHANGED vars
<1>1. ~OnPages /\ ~Agent /\ ~WorkerFails /\ ~OnTerminal /\ ~OnTui
  BY DEF OnPages, Agent, WorkerFails, Published, OnTerminal, OnTui
<1>2. ~OnRuntime
  <2>1. ~RuntimeStep
    BY DEF RuntimeStep, Boot, ServerStopped, Close, ForcedEnd
  <2>2. ~Signal /\ ~RequestShutdown /\ ~ShutDown(Serves)
    BY DEF Signal, RequestShutdown, ShutDown
  <2> QED BY <2>1, <2>2 DEF OnRuntime
<1> QED BY <1>1, <1>2 DEF Next

LEMMA RuntimeTyped == RuntimeTypeOK /\ [Next]_vars => RuntimeTypeOK'
<1> SUFFICES ASSUME RuntimeTypeOK, [Next]_vars PROVE RuntimeTypeOK'
  OBVIOUS
<1>1. ASSUME UNCHANGED runtimeVars PROVE RuntimeTypeOK'
  BY <1>1 DEF runtimeVars, RuntimeTypeOK
<1>2. ASSUME UNCHANGED vars \/ OnPages \/ Agent \/ WorkerFails \/ OnTerminal \/ OnTui
      PROVE  UNCHANGED runtimeVars
  BY <1>2 DEF vars, OnPages, Agent, WorkerFails, Published, OnTerminal, OnTui
<1>3. CASE OnRuntime
  <2>1. RuntimeStep => RuntimeTypeOK'
    BY DEF RuntimeStep, Boot, ServerStopped, Close, ForcedEnd, RuntimeTypeOK
  <2>2. Signal \/ RequestShutdown \/ ShutDown(Serves) => RuntimeTypeOK'
    BY DEF Signal, RequestShutdown, ShutDown, RuntimeTypeOK
  <2> QED BY <2>1, <2>2, <1>3 DEF OnRuntime
<1> QED BY <1>1, <1>2, <1>3 DEF Next

LEMMA TurnKept == TurnInv /\ [Next]_vars => TurnInv'
<1> SUFFICES ASSUME TurnInv, [Next]_vars PROVE TurnInv'
  OBVIOUS
<1>1. /\ MaxTurns \in Nat /\ MaxCalls \in Nat /\ MaxPersist \in Nat
      /\ run.n \in 0 .. MaxTurns /\ run.call \in Nat /\ run.call \in Calls
      /\ log \in Seq(Calls \cup {UserRow})
      /\ row \in {"idle", "due", "running"} /\ posting \in {"none", "open", "aborted"}
  BY TurnFacts
<1>2. /\ LiveTypeOK /\ run.n + Owed <= asked /\ asked \in 0 .. MaxTurns
      /\ run.call <= run.n * MaxCalls /\ crashed \in BOOLEAN /\ run \in Runs
  BY DEF TurnInv, LiveTypeOK, Runs
<1>3. Owed \in 0 .. 2 /\ Owed' \in 0 .. 2
  BY DEF Owed
<1>4. RuntimeTypeOK' /\ adapter' \in {"pages", "legacy", "terminal", "tui"}
  BY RuntimeTyped, AdapterKept DEF TurnInv
<1>5. 0 \in Calls
  <2>1. MaxTurns * MaxCalls \in Nat
    BY <1>1
  <2> QED BY <2>1 DEF Calls
<1> DEFINE Counts == /\ LiveTypeOK' /\ run'.n + Owed' <= run.n + Owed
                     /\ run'.call <= run'.n * MaxCalls
<1>6. ASSUME Counts, asked' = asked PROVE TurnInv'
  <2>1. run'.n + Owed' <= asked'
    <3>1. run'.n \in 0 .. MaxTurns
      BY <1>6 DEF LiveTypeOK
    <3> QED BY <3>1, <1>6, <1>1, <1>2, <1>3
  <2> QED BY <2>1, <1>6, <1>2, <1>4 DEF TurnInv
<1>7. CASE TurnRests
  BY <1>7, <1>6, <1>1, <1>2, RunStays DEF TurnRests, turnVars
<1>8. CASE \E event \in LiveEvents : Progress(event) /\ UNCHANGED <<asked, stage>>
  BY <1>8, <1>6, ProgressTyped
<1>9. CASE WorkerCrashes("none") /\ UNCHANGED <<asked, stage>>
  BY <1>9, <1>6, <1>1, <1>2, RunStays DEF WorkerCrashes
<1>10. CASE Submits /\ Asks /\ asked < MaxTurns /\ asked' = asked + 1 /\ stage' = stage
  <2>1. LiveTypeOK' /\ UNCHANGED run
    BY <1>10, <1>2 DEF Submits, LiveTypeOK
  <2>2. Owed' = Owed + 1
    BY <1>10 DEF Submits, Owed
  <2>3. asked' \in 0 .. MaxTurns
    BY <1>10, <1>1, <1>2
  <2>4. run'.n + Owed' <= asked'
    BY <2>1, <2>2, <1>10, <1>1, <1>2, <1>3
  <2> QED BY <2>1, <2>3, <2>4, <1>2, <1>4 DEF TurnInv
<1>11. CASE Submitted /\ UNCHANGED <<asked, stage>>
  <2>1. log' \in Seq(Calls \cup {UserRow})
    BY <1>11, LogGrows DEF Submitted
  <2>2. Owed' <= Owed
    BY <1>11, <1>1 DEF Submitted, Scheduled, Owed
  <2>3. UNCHANGED run /\ row' \in {"idle", "due", "running"} /\ posting' = "none" /\ crashed' = crashed
    BY <1>11, <1>1 DEF Submitted, Scheduled
  <2>4. LiveTypeOK'
    BY <2>1, <2>3, <1>2 DEF LiveTypeOK
  <2>5. Counts
    BY <2>2, <2>3, <2>4, <1>1, <1>2, <1>3
  <2> QED BY <2>5, <1>6, <1>11
<1>12. CASE Stopped /\ UNCHANGED <<asked, stage>>
  <2>1. log' \in Seq(Calls \cup {UserRow})
    BY <1>12, <1>5, LogGrows DEF Stopped
  <2>2. Owed' <= Owed
    BY <1>12, <1>1 DEF Stopped, Owed
  <2>3. run' \in Runs /\ run'.n = run.n /\ run'.call = run.call
    BY <1>12, <1>2 DEF Stopped, Runs
  <2>4. row' \in {"idle", "due", "running"} /\ posting' \in {"none", "open", "aborted"}
    BY <1>12, <1>1 DEF Stopped
  <2>5. LiveTypeOK'
    BY <2>1, <2>3, <2>4, <1>12, <1>2 DEF LiveTypeOK, Runs, Stopped
  <2>6. Counts
    BY <2>2, <2>3, <2>5, <1>1, <1>2, <1>3
  <2> QED BY <2>6, <1>6, <1>12
<1>13. CASE Aborted /\ UNCHANGED <<log, posting, row, crashed, asked>> /\ stage' # "exited"
  <2>1. run' \in Runs /\ run'.n = run.n /\ run'.call = run.call
    BY <1>13, <1>2 DEF Aborted, Runs
  <2> QED BY <2>1, <1>13, <1>6, <1>1, <1>2, RunStays
<1>14. CASE ForcedEnd /\ asked' = asked
  <2>1. run' = run /\ (row' = row \/ row' = "idle") /\ UNCHANGED <<log, posting, crashed>>
    BY <1>14 DEF ForcedEnd
  <2> QED BY <2>1, <1>14, <1>6, <1>1, <1>2, RunStays
<1> HIDE DEF Counts
<1> QED BY <1>7, <1>8, <1>9, <1>10, <1>11, <1>12, <1>13, <1>14, TurnSteps DEF TurnMoves

LEMMA AgentKept ==
  ASSUME TurnInv, AgentInv, Asks => AgentRests, [Next]_vars
  PROVE  AgentInv'
<1>1. /\ row \in {"idle", "due", "running"} /\ posting \in {"none", "open", "aborted"}
      /\ run \in Runs
  BY TurnFacts DEF TurnInv, LiveTypeOK, Runs
<1>2. adapter' = adapter /\ (Serves' <=> Serves)
  BY AdapterKept DEF Serves
<1>3. stage = "exited" => UNCHANGED vars
  BY ExitedStays
<1>4. ASSUME UNCHANGED <<posting, row>>, run'.at = run.at, stage' # "exited" => stage # "exited"
      PROVE  AgentInv'
  BY <1>4, <1>2 DEF AgentInv, AgentRests
<1>5. CASE TurnRests
  <2>1. stage' # "exited" => stage # "exited"
    BY <1>3 DEF vars, runtimeVars
  <2> QED BY <2>1, <1>5, <1>4 DEF TurnRests, turnVars
<1>6. ASSUME NEW event \in LiveEvents, Progress(event), UNCHANGED <<asked, stage>>
      PROVE  AgentInv'
  <2>1. ~AgentRests /\ posting = "none" /\ ~Serves
    <3>1. ~AgentRests
      BY <1>6 DEF Progress, Claim, CallStarts, Delta, StreamEnds, Persist, CallFinishes,
                  RunCompletes, RunBreaks, ErrorStored, Settles, AgentRests
    <3> QED BY <3>1 DEF AgentInv
  <2>2. posting' = posting
    BY <1>6 DEF Progress, Claim, CallStarts, Delta, StreamEnds, Persist, CallFinishes,
                RunCompletes, RunBreaks, ErrorStored, Settles, turnVars
  <2>3. stage # "exited" => (row' = "running" <=> run'.at # "none")
    <3>1. stage # "exited" => (row = "running" <=> run.at # "none")
      BY DEF AgentInv
    <3>2. CASE Claim(event)
      BY <3>2 DEF Claim, NoRun
    <3>3. CASE Settles(event)
      BY <3>3, <1>1 DEF Settles, Runs
    <3>4. ASSUME Progress(event), ~Claim(event), ~Settles(event)
          PROVE  row' = row /\ run.at # "none" /\ run'.at # "none"
      BY <3>4, <1>1 DEF Progress, CallStarts, Delta, StreamEnds, Persist, CallFinishes,
                  RunCompletes, RunBreaks, ErrorStored, turnVars, Runs
    <3> QED BY <3>1, <3>2, <3>3, <3>4, <1>6
  <2> QED BY <2>1, <2>2, <2>3, <1>2, <1>6 DEF AgentInv
<1>7. CASE WorkerCrashes("none") /\ UNCHANGED <<asked, stage>>
  BY <1>7, <1>4 DEF WorkerCrashes
<1>8. CASE Submits /\ Asks /\ asked < MaxTurns /\ asked' = asked + 1 /\ stage' = stage
  <2>1. AgentRests /\ UNCHANGED <<row, run, stage>>
    BY <1>8 DEF Submits
  <2>2. ~Serves
    BY <1>8 DEF Asks, Serves
  <2> QED BY <2>1, <2>2, <1>2 DEF AgentInv, AgentRests
<1>9. CASE Submitted /\ UNCHANGED <<asked, stage>>
  <2>1. AgentRests /\ ~Serves /\ posting' = "none" /\ UNCHANGED run /\ row' \in {row, "due"}
    BY <1>9 DEF Submitted, Scheduled, AgentInv
  <2> QED BY <2>1, <1>2, <1>9 DEF AgentInv, AgentRests
<1>10. CASE Stopped /\ UNCHANGED <<asked, stage>>
  <2>1. /\ row' = (IF row = "due" THEN "idle" ELSE row) /\ run'.at = run.at
        /\ (posting' # "none" => posting # "none")
    BY <1>10, <1>1 DEF Stopped, Runs
  <2> QED BY <2>1, <1>2, <1>10 DEF AgentInv, AgentRests
<1>11. CASE Aborted /\ UNCHANGED <<log, posting, row, crashed, asked>> /\ stage' # "exited"
  <2>1. run'.at = run.at
    BY <1>11, <1>1 DEF Aborted, Runs
  <2>2. stage # "exited"
    BY <1>3, <1>11 DEF vars, runtimeVars
  <2> QED BY <2>1, <2>2, <1>11, <1>4
<1>12. CASE ForcedEnd /\ asked' = asked
  BY <1>12, <1>2 DEF ForcedEnd, AgentInv, AgentRests
<1> QED BY <1>5, <1>6, <1>7, <1>8, <1>9, <1>10, <1>11, <1>12, TurnSteps DEF TurnMoves

-----------------------------------------------------------------------------
(***************************************************************************)
(* The line adapter.                                                       *)
(***************************************************************************)

\* A set of natural numbers that is not empty has a least element.
LEMMA LeastOfNaturals ==
  ASSUME NEW T, T \subseteq Nat, T # {}
  PROVE  \E x \in T : \A y \in T : x <= y
<1> DEFINE Less == {ss \in Nat \X Nat : ss[1] < ss[2]}
<1>1. IsWellFoundedOn(Less, Nat)
  BY NatLessThanWellFounded DEF OpToRel
<1>2. PICK x \in T : \A y \in T : ~(<<y, x>> \in Less)
  <2> HIDE DEF Less
  <2> QED BY <1>1, WFMin
<1>3. ASSUME NEW y \in T PROVE x <= y
  <2>1. ~(<<y, x>> \in Less) /\ x \in Nat /\ y \in Nat
    BY <1>2
  <2>2. ~(y < x)
    BY <2>1
  <2> QED BY <2>1, <2>2
<1>4. QED BY <1>3

\* What Rest(from) has read up to n, for every n up to m.
Reading(from, m, g) ==
  g = [n \in from .. m |->
         IF n = from THEN <<>> ELSE IF RenderEvent(n) THEN Append(g[n - 1], n) ELSE g[n - 1]]

LEMMA ReadingEnds ==
  ASSUME NEW from \in Nat, NEW m \in Nat, from <= m
  PROVE  \E g : Reading(from, m, g)
<1> DEFINE Stuck == {n \in Nat : from <= n /\ ~\E g : Reading(from, n, g)}
<1>1. SUFFICES ASSUME Stuck # {} PROVE FALSE
  OBVIOUS
<1>2. PICK n \in Stuck : \A l \in Stuck : n <= l
  <2>1. Stuck \subseteq Nat
    OBVIOUS
  <2> HIDE DEF Stuck
  <2> QED BY <1>1, <2>1, LeastOfNaturals
<1>3. n \in Nat /\ from <= n /\ ~\E g : Reading(from, n, g)
  BY <1>2
<1>4. CASE n = from
  <2>1. Reading(from, from, [k \in from .. from |-> <<>>])
    BY DEF Reading
  <2> QED BY <2>1, <1>3, <1>4
<1>5. CASE n # from
  <2>1. n - 1 \in Nat /\ from <= n - 1 /\ ~(n <= n - 1)
    BY <1>3, <1>5
  <2>2. ~(n - 1 \in Stuck)
    <3> HIDE DEF Stuck
    <3> QED BY <2>1, <1>2
  <2>3. PICK g : Reading(from, n - 1, g)
    BY <2>1, <2>2
  <2> DEFINE Last == IF RenderEvent(n) THEN Append(g[n - 1], n) ELSE g[n - 1]
             h == [k \in from .. n |-> IF k = n THEN Last ELSE g[k]]
  <2>4. \A k \in from .. n - 1 :
          g[k] = IF k = from THEN <<>>
                 ELSE IF RenderEvent(k) THEN Append(g[k - 1], k) ELSE g[k - 1]
    BY <2>1, <2>3 DEF Reading
  <2>5. ASSUME NEW k \in from .. n
        PROVE  h[k] = IF k = from THEN <<>>
                      ELSE IF RenderEvent(k) THEN Append(h[k - 1], k) ELSE h[k - 1]
    <3>1. CASE k = n
      <4>1. k - 1 \in from .. n /\ k - 1 # n /\ k # from
        BY <3>1, <1>5, <2>1
      <4>2. h[k] = Last /\ h[k - 1] = g[k - 1]
        BY <4>1, <3>1
      <4> QED BY <4>1, <4>2, <3>1
    <3>2. CASE k # n
      <4>1. k \in from .. n - 1
        BY <3>2, <1>3
      <4>2. h[k] = g[k]
        BY <3>2
      <4>3. k # from => h[k - 1] = g[k - 1]
        <5>1. k # from => k - 1 \in from .. n /\ k - 1 # n
          BY <4>1, <1>3
        <5> QED BY <5>1
      <4> HIDE DEF h
      <4> QED BY <2>4, <4>1, <4>2, <4>3
    <3> QED BY <3>1, <3>2
  <2>6. h = [k \in from .. n |-> h[k]]
    OBVIOUS
  <2>7. Reading(from, n, h)
    <3> HIDE DEF h
    <3> QED BY <2>5, <2>6 DEF Reading
  <2> QED BY <2>7, <1>3
<1> QED BY <1>4, <1>5

\* t holds the positions, of those after "from" and up to k, that are written out, in order.
Reads(from, k, t) ==
  /\ t \in Seq(Nat \ {0})
  /\ \A i \in 1 .. Len(t) : t[i] \in from + 1 .. k /\ RenderEvent(t[i])
  /\ \A j \in from + 1 .. k : RenderEvent(j) => \E i \in 1 .. Len(t) : t[i] = j
  /\ \A i, j \in 1 .. Len(t) : i < j => t[i] < t[j]

LEMMA ReadsOn ==
  ASSUME NEW from \in Nat, NEW k \in Nat, from < k, NEW t, Reads(from, k - 1, t)
  PROVE  /\ ~RenderEvent(k) => Reads(from, k, t)
         /\ RenderEvent(k) => Reads(from, k, Append(t, k))
<1>1. /\ t \in Seq(Nat \ {0}) /\ Len(t) \in Nat
      /\ \A i \in 1 .. Len(t) : t[i] \in from + 1 .. k - 1 /\ RenderEvent(t[i])
      /\ \A j \in from + 1 .. k - 1 : RenderEvent(j) => \E i \in 1 .. Len(t) : t[i] = j
      /\ \A i, j \in 1 .. Len(t) : i < j => t[i] < t[j]
  BY DEF Reads
<1>2. \A j \in from + 1 .. k : j \in from + 1 .. k - 1 \/ j = k
  OBVIOUS
<1>3. \A j \in from + 1 .. k - 1 : j \in from + 1 .. k
  OBVIOUS
<1>4. ~RenderEvent(k) => Reads(from, k, t)
  BY <1>1, <1>2, <1>3 DEF Reads
<1>5. ASSUME RenderEvent(k) PROVE Reads(from, k, Append(t, k))
  <2>1. PICK u : u = Append(t, k)
    OBVIOUS
  <2>2. k \in Nat \ {0}
    OBVIOUS
  <2>3. /\ u \in Seq(Nat \ {0}) /\ Len(u) = Len(t) + 1 /\ u[Len(t) + 1] = k
        /\ \A i \in 1 .. Len(t) : u[i] = t[i]
    BY <1>1, <2>1, <2>2, AppendProperties
  <2>4. \A i \in 1 .. Len(u) : i \in 1 .. Len(t) \/ i = Len(t) + 1
    BY <1>1, <2>3
  <2>5. k \in from + 1 .. k
    OBVIOUS
  <2>6. \A i \in 1 .. Len(u) : u[i] \in from + 1 .. k /\ RenderEvent(u[i])
    BY <1>1, <1>3, <1>5, <2>3, <2>4, <2>5
  <2>7. \A i \in 1 .. Len(t) : i \in 1 .. Len(u)
    BY <1>1, <2>3
  <2>8. ASSUME NEW j \in from + 1 .. k, RenderEvent(j) PROVE \E i \in 1 .. Len(u) : u[i] = j
    <3>1. CASE j = k
      <4>1. Len(t) + 1 \in 1 .. Len(u)
        BY <1>1, <2>3
      <4> QED BY <4>1, <3>1, <2>3
    <3>2. CASE j # k
      <4>1. PICK i \in 1 .. Len(t) : t[i] = j
        BY <3>2, <2>8, <1>1, <1>2
      <4> QED BY <4>1, <2>3, <2>7
    <3> QED BY <3>1, <3>2
  <2>9. ASSUME NEW i \in 1 .. Len(u), NEW j \in 1 .. Len(u), i < j PROVE u[i] < u[j]
    <3>1. CASE j = Len(t) + 1
      <4>1. i \in 1 .. Len(t)
        BY <3>1, <2>9, <1>1
      <4>2. u[i] \in from + 1 .. k - 1 /\ u[j] = k
        BY <4>1, <3>1, <2>3, <1>1
      <4> QED BY <4>2
    <3>2. CASE j # Len(t) + 1
      <4>1. j \in 1 .. Len(t)
        BY <3>2, <2>4
      <4>2. i \in 1 .. Len(t)
        BY <4>1, <2>9, <1>1
      <4> QED BY <4>1, <4>2, <2>3, <2>9, <1>1
    <3> QED BY <3>1, <3>2
  <2>10. Reads(from, k, u)
    BY <2>3, <2>6, <2>8, <2>9 DEF Reads
  <2> QED BY <2>1, <2>10
<1> QED BY <1>4, <1>5

\* Rest() returns what its comment promises.
LEMMA RestReads ==
  ASSUME NEW from \in Nat, log \in Seq(Calls \cup {UserRow}), from <= Len(log)
  PROVE  Reads(from, Len(log), Rest(from))
<1>1. PICK n \in Nat : n = Len(log)
  OBVIOUS
<1>2. PICK g : g = CHOOSE f : Reading(from, n, f)
  OBVIOUS
<1>3. Rest(from) = g[n]
  BY <1>1, <1>2 DEF Rest, Reading
<1>4. Reading(from, n, g)
  BY <1>1, <1>2, ReadingEnds
<1>5. \A k \in from .. n :
        g[k] = IF k = from THEN <<>>
               ELSE IF RenderEvent(k) THEN Append(g[k - 1], k) ELSE g[k - 1]
  BY <1>4 DEF Reading
<1> DEFINE Bad == {k \in from .. n : ~Reads(from, k, g[k])}
<1>6. SUFFICES ASSUME Bad # {} PROVE FALSE
  <2>1. n \in from .. n
    BY <1>1
  <2> QED BY <2>1, <1>1, <1>3
<1>7. PICK k \in Bad : \A l \in Bad : k <= l
  <2>1. Bad \subseteq Nat
    OBVIOUS
  <2> HIDE DEF Bad
  <2> QED BY <1>6, <2>1, LeastOfNaturals
<1>8. k \in from .. n /\ ~Reads(from, k, g[k])
  BY <1>7
<1>9. k # from
  <2>1. Reads(from, from, <<>>)
    BY DEF Reads
  <2>2. g[from] = <<>>
    BY <1>1, <1>5
  <2> QED BY <1>8, <2>1, <2>2
<1>10. k - 1 \in from .. n /\ ~(k <= k - 1) /\ k \in Nat /\ from < k
  BY <1>8, <1>9
<1>11. ~(k - 1 \in Bad)
  <2> HIDE DEF Bad
  <2> QED BY <1>7, <1>10
<1>12. PICK t : t = g[k - 1]
  OBVIOUS
<1>13. Reads(from, k - 1, t)
  BY <1>10, <1>11, <1>12
<1>14. g[k] = IF RenderEvent(k) THEN Append(t, k) ELSE t
  BY <1>5, <1>8, <1>9, <1>12
<1> QED BY <1>8, <1>10, <1>13, <1>14, ReadsOn

\* Two readings, one after the other.
LEMMA ReadsJoin ==
  ASSUME NEW m \in Nat, NEW n \in Nat, m <= n, NEW a, NEW b, Reads(0, m, a), Reads(m, n, b)
  PROVE  Reads(0, n, a \o b)
<1>1. PICK t : t = a \o b
  OBVIOUS
<1>2. /\ a \in Seq(Nat \ {0}) /\ b \in Seq(Nat \ {0}) /\ Len(a) \in Nat /\ Len(b) \in Nat
      /\ \A i \in 1 .. Len(a) : a[i] \in 1 .. m /\ RenderEvent(a[i])
      /\ \A j \in 1 .. m : RenderEvent(j) => \E i \in 1 .. Len(a) : a[i] = j
      /\ \A i, j \in 1 .. Len(a) : i < j => a[i] < a[j]
      /\ \A i \in 1 .. Len(b) : b[i] \in m + 1 .. n /\ RenderEvent(b[i])
      /\ \A j \in m + 1 .. n : RenderEvent(j) => \E i \in 1 .. Len(b) : b[i] = j
      /\ \A i, j \in 1 .. Len(b) : i < j => b[i] < b[j]
  BY DEF Reads
<1>3. /\ t \in Seq(Nat \ {0}) /\ Len(t) = Len(a) + Len(b)
      /\ \A k \in 1 .. Len(a) + Len(b) : t[k] = IF k <= Len(a) THEN a[k] ELSE b[k - Len(a)]
  BY <1>1, <1>2, ConcatProperties
<1>4. \A k \in 1 .. Len(t) :
        \/ k \in 1 .. Len(a) /\ t[k] = a[k]
        \/ k > Len(a) /\ k - Len(a) \in 1 .. Len(b) /\ t[k] = b[k - Len(a)]
  BY <1>2, <1>3
<1>5. ASSUME NEW k \in 1 .. Len(t) PROVE t[k] \in 1 .. n /\ RenderEvent(t[k])
  <2>1. \A x \in 1 .. m : x \in 1 .. n
    OBVIOUS
  <2>2. \A x \in m + 1 .. n : x \in 1 .. n
    OBVIOUS
  <2> QED BY <2>1, <2>2, <1>2, <1>4
<1>6. ASSUME NEW j \in 1 .. n, RenderEvent(j) PROVE \E k \in 1 .. Len(t) : t[k] = j
  <2>1. CASE j \in 1 .. m
    <3>1. PICK i \in 1 .. Len(a) : a[i] = j
      BY <2>1, <1>2, <1>6
    <3>2. i \in 1 .. Len(t) /\ t[i] = a[i]
      BY <1>2, <1>3
    <3> QED BY <3>1, <3>2
  <2>2. CASE j \in m + 1 .. n
    <3>1. PICK i \in 1 .. Len(b) : b[i] = j
      BY <2>2, <1>2, <1>6
    <3>2. PICK k : k = Len(a) + i
      OBVIOUS
    <3>3. k \in 1 .. Len(a) + Len(b) /\ ~(k <= Len(a)) /\ k - Len(a) = i
      BY <3>2, <1>2
    <3>4. k \in 1 .. Len(t) /\ t[k] = b[i]
      BY <3>3, <1>3
    <3> QED BY <3>1, <3>4
  <2>3. j \in 1 .. m \/ j \in m + 1 .. n
    OBVIOUS
  <2> QED BY <2>1, <2>2, <2>3
<1>7. ASSUME NEW k \in 1 .. Len(t), NEW l \in 1 .. Len(t), k < l PROVE t[k] < t[l]
  <2>1. k \in Nat /\ l \in Nat /\ Len(t) \in Nat
    BY <1>2, <1>3
  <2>2. CASE l \in 1 .. Len(a)
    <3>1. k \in 1 .. Len(a)
      BY <2>1, <2>2, <1>7
    <3>2. t[k] = a[k] /\ t[l] = a[l]
      BY <3>1, <2>2, <1>2, <1>3
    <3> QED BY <3>1, <3>2, <2>2, <1>2, <1>7
  <2>3. CASE k \in 1 .. Len(a) /\ l > Len(a)
    <3>1. /\ t[k] = a[k] /\ l - Len(a) \in 1 .. Len(b) /\ t[l] = b[l - Len(a)]
      BY <2>3, <1>2, <1>4
    <3>2. t[k] \in 1 .. m /\ t[l] \in m + 1 .. n
      BY <3>1, <2>3, <1>2
    <3> QED BY <3>2
  <2>4. CASE k > Len(a) /\ l > Len(a)
    <3>1. /\ k - Len(a) \in 1 .. Len(b) /\ t[k] = b[k - Len(a)]
          /\ l - Len(a) \in 1 .. Len(b) /\ t[l] = b[l - Len(a)]
      BY <2>4, <1>2, <1>4
    <3>2. k - Len(a) < l - Len(a)
      BY <2>1, <1>2, <1>7
    <3> QED BY <3>1, <3>2, <1>2
  <2>5. l \in 1 .. Len(a) \/ (l > Len(a) /\ (k \in 1 .. Len(a) \/ k > Len(a)))
    BY <2>1, <1>2
  <2> QED BY <2>2, <2>3, <2>4, <2>5
<1>8. Reads(0, n, t)
  BY <1>3, <1>5, <1>6, <1>7 DEF Reads
<1> QED BY <1>1, <1>8

\* What was read of a log is what is read of it when it has grown.
LEMMA ReadsStay ==
  ASSUME NEW n \in Nat, NEW t, \A i \in 1 .. n : log'[i] = log[i], Reads(0, n, t)
  PROVE  Reads(0, n, t)'
<1>1. \A i \in 0 + 1 .. n : RenderEvent(i)' <=> RenderEvent(i)
  BY DEF RenderEvent
<1>2. /\ t \in Seq(Nat \ {0})
      /\ \A i \in 1 .. Len(t) : t[i] \in 0 + 1 .. n /\ RenderEvent(t[i])
      /\ \A j \in 0 + 1 .. n : RenderEvent(j) => \E i \in 1 .. Len(t) : t[i] = j
      /\ \A i, j \in 1 .. Len(t) : i < j => t[i] < t[j]
  BY DEF Reads
<1>3. \A i \in 1 .. Len(t) : RenderEvent(t[i])'
  BY <1>1, <1>2
<1>4. \A j \in 0 + 1 .. n : RenderEvent(j)' => \E i \in 1 .. Len(t) : t[i] = j
  BY <1>1, <1>2
<1> QED BY <1>2, <1>3, <1>4 DEF Reads

\* The line adapter: at the prompt everything is written and the agent rests; a stopped turn
\* has no claim to come.  Another adapter leaves its variables alone.
LineInv ==
  IF adapter = "terminal"
  THEN /\ phase \in {"prompt", "submitting", "watching", "waiting", "left", "threw"}
       /\ stopReq \in BOOLEAN
       /\ offset \in Nat /\ offset <= Len(log) /\ Reads(0, offset, written)
       /\ phase = "prompt" => offset = Len(log) /\ AgentRests /\ posting = "none"
       /\ phase \in {"watching", "waiting"} => posting = "none"
       /\ Busy /\ stopReq => row # "due" /\ posting # "open"
  ELSE TerminalInit

\* A step of others: the log may grow, but not beside a prompt.
LEMMA LineBeside ==
  ASSUME TurnInv, LineInv, adapter = "terminal", adapter' = "terminal", UNCHANGED terminalVars,
         \/ log' = log
         \/ phase # "prompt" /\ \E e \in Calls \cup {UserRow} : log' = Append(log, e),
         posting' = posting, row' = "due" => row = "due",
         phase = "prompt" => AgentRests'
  PROVE  LineInv'
<1>1. /\ phase \in {"prompt", "submitting", "watching", "waiting", "left", "threw"}
      /\ stopReq \in BOOLEAN
      /\ offset \in Nat /\ offset <= Len(log) /\ Reads(0, offset, written)
      /\ phase = "prompt" => offset = Len(log) /\ AgentRests /\ posting = "none"
      /\ phase \in {"watching", "waiting"} => posting = "none"
      /\ Busy /\ stopReq => row # "due" /\ posting # "open"
  BY DEF LineInv
<1>2. /\ Len(log') \in Nat /\ Len(log) <= Len(log') /\ \A i \in 1 .. Len(log) : log'[i] = log[i]
      /\ phase = "prompt" => Len(log') = Len(log)
  <2>1. CASE log' = log
    BY <2>1, TurnFacts
  <2>2. ASSUME NEW e \in Calls \cup {UserRow}, log' = Append(log, e), phase # "prompt"
        PROVE  <1>2!1
    BY <2>2, LogGrows, TurnFacts
  <2> QED BY <2>1, <2>2
<1>3. PICK n : n = offset
  OBVIOUS
<1>4. PICK t : t = written
  OBVIOUS
<1>5. Len(log) \in Nat
  BY TurnFacts
<1>6. \A i \in 1 .. n : log'[i] = log[i]
  BY <1>1, <1>2, <1>3, <1>5
<1>7. Reads(0, n, t)'
  BY <1>1, <1>3, <1>4, <1>6, ReadsStay
<1>8. offset' = n /\ written' = t /\ phase' = phase /\ stopReq' = stopReq
  BY <1>3, <1>4 DEF terminalVars
<1>9. Reads(0, offset, written)'
  BY <1>7, <1>8
<1>10. offset' \in Nat /\ offset' <= Len(log')
  BY <1>1, <1>2, <1>3, <1>5, <1>8
<1>11. phase' = "prompt" => offset' = Len(log') /\ AgentRests' /\ posting' = "none"
  BY <1>1, <1>2, <1>3, <1>8
<1>12. phase' \in {"watching", "waiting"} => posting' = "none"
  BY <1>1, <1>8
<1>13. Busy' /\ stopReq' => row' # "due" /\ posting' # "open"
  BY <1>1, <1>8 DEF Busy
<1> QED BY <1>1, <1>8, <1>9, <1>10, <1>11, <1>12, <1>13 DEF LineInv

LEMMA LineKept ==
  ASSUME TurnInv, AgentInv, LineInv, [Next]_vars
  PROVE  LineInv'
<1>1. adapter' = adapter
  BY AdapterKept
<1>2. CASE adapter # "terminal"
  <2>1. UNCHANGED terminalVars
    BY <1>2 DEF Next, vars, OnPages, Agent, WorkerFails, Published, OnTerminal, OnTui, OnRuntime
  <2> QED BY <2>1, <1>1, <1>2 DEF LineInv, TerminalInit, terminalVars
<1>3. SUFFICES ASSUME adapter = "terminal" PROVE LineInv'
  BY <1>2
<1>4. /\ phase \in {"prompt", "submitting", "watching", "waiting", "left", "threw"}
      /\ stopReq \in BOOLEAN
      /\ offset \in Nat /\ offset <= Len(log) /\ Reads(0, offset, written)
      /\ phase = "prompt" => offset = Len(log) /\ AgentRests /\ posting = "none"
      /\ phase \in {"watching", "waiting"} => posting = "none"
      /\ Busy /\ stopReq => row # "due" /\ posting # "open"
  BY <1>3 DEF LineInv
<1>5. /\ log \in Seq(Calls \cup {UserRow}) /\ Len(log) \in Nat
      /\ row \in {"idle", "due", "running"} /\ posting \in {"none", "open", "aborted"}
      /\ run \in Runs /\ 0 \in Calls /\ run.call \in Calls
  <2>1. MaxTurns * MaxCalls \in Nat
    BY TurnFacts
  <2>2. 0 \in Calls
    BY <2>1 DEF Calls
  <2> QED BY <2>2, TurnFacts DEF TurnInv, LiveTypeOK, Runs
<1>6. adapter' = "terminal"
  BY <1>1, <1>3
<1>7. CASE UNCHANGED vars
  <2>1. UNCHANGED terminalVars /\ UNCHANGED turnVars
    BY <1>7 DEF vars
  <2> QED BY <2>1, <1>3, <1>4, <1>6, LineBeside DEF turnVars, AgentRests
<1>8. CASE OnPages
  BY <1>8, <1>3 DEF OnPages, Serves
<1>9. CASE OnTui
  BY <1>9, <1>3 DEF OnTui
<1>10. CASE Agent
  <2>1. PICK event \in LiveEvents : Progress(event) /\ UNCHANGED terminalVars
    BY <1>10 DEF Agent, Published
  <2>2. ~AgentRests
    BY <2>1 DEF Progress, Claim, CallStarts, Delta, StreamEnds, Persist, CallFinishes,
                RunCompletes, RunBreaks, ErrorStored, Settles, AgentRests
  <2>3. posting' = posting /\ (row' = "due" => row = "due")
    BY <2>1 DEF Progress, Claim, CallStarts, Delta, StreamEnds, Persist, CallFinishes,
                RunCompletes, RunBreaks, ErrorStored, Settles, turnVars
  <2>4. log' = log \/ \E e \in Calls \cup {UserRow} : log' = Append(log, e)
    <3>1. log' = log \/ log' = Append(log, run.call) \/ log' = Append(log, 0)
      BY <2>1 DEF Progress, Claim, CallStarts, Delta, StreamEnds, Persist, CallFinishes,
                  RunCompletes, RunBreaks, ErrorStored, Settles, turnVars
    <3> QED BY <3>1, <1>5
  <2> QED BY <2>1, <2>2, <2>3, <2>4, <1>3, <1>4, <1>6, LineBeside
<1>11. CASE WorkerFails
  <2>1. UNCHANGED terminalVars /\ UNCHANGED <<log, posting, row, run>>
    BY <1>11 DEF WorkerFails, Published, WorkerCrashes
  <2> QED BY <2>1, <1>3, <1>4, <1>6, LineBeside DEF AgentRests
<1>12. CASE OnRuntime
  <2>1. UNCHANGED terminalVars
    BY <1>12 DEF OnRuntime
  <2>2. UNCHANGED <<log, posting>> /\ row' \in {row, "idle"} /\ run'.at = run.at
    <3>1. RuntimeStep => <2>2
      BY <1>5 DEF RuntimeStep, Boot, ServerStopped, Close, ForcedEnd, Aborted, turnVars, Runs
    <3>2. Signal \/ RequestShutdown \/ ShutDown(Serves) => <2>2
      BY <1>5 DEF Signal, RequestShutdown, ShutDown, Aborted, turnVars, Runs
    <3> QED BY <3>1, <3>2, <1>12 DEF OnRuntime
  <2>3. AgentRests => AgentRests'
    BY <2>2 DEF AgentRests
  <2> QED BY <2>1, <2>2, <2>3, <1>3, <1>4, <1>6, LineBeside
<1>13. CASE OnTerminal /\ ReadLine
  <2>1. /\ phase' = "submitting" /\ offset' = offset /\ written' = written /\ stopReq' = FALSE
        /\ log' = log
    BY <1>13, <1>4 DEF ReadLine, Submits
  <2>2. PICK n : n = offset
    OBVIOUS
  <2>3. PICK t : t = written
    OBVIOUS
  <2>4. Reads(0, n, t)'
    BY <2>1, <2>2, <2>3, <1>4, ReadsStay
  <2>5. Reads(0, offset, written)'
    BY <2>1, <2>2, <2>3, <2>4
  <2> QED BY <2>1, <2>5, <1>4, <1>6 DEF LineInv
<1>14. CASE OnTerminal /\ SubmitDone
  <2>1. /\ posting # "none" /\ posting' = "none" /\ log' = Append(log, UserRow)
        /\ row' = (IF posting = "aborted" THEN row ELSE "due")
        /\ phase' = (IF phase = "submitting" THEN "watching" ELSE phase)
        /\ UNCHANGED <<offset, written, stopReq>>
    BY <1>14 DEF SubmitDone, Submitted, Scheduled
  <2>2. PICK n : n = offset
    OBVIOUS
  <2>3. PICK t : t = written
    OBVIOUS
  <2>4. Len(log') = Len(log) + 1 /\ \A i \in 1 .. n : log'[i] = log[i]
    BY <2>1, <2>2, <1>4, <1>5, LogGrows
  <2>5. Reads(0, n, t)'
    BY <2>2, <2>3, <2>4, <1>4, ReadsStay
  <2>6. Reads(0, offset, written)'
    BY <2>1, <2>2, <2>3, <2>5
  <2>7. offset' \in Nat /\ offset' <= Len(log') /\ phase' # "prompt"
    BY <2>1, <2>4, <1>4, <1>5
  <2>8. Busy' /\ stopReq' => row' # "due"
    BY <2>1, <1>4, <1>5 DEF Busy
  <2>9. phase' \in {"prompt", "submitting", "watching", "waiting", "left", "threw"}
    BY <2>1, <1>4
  <2> QED BY <2>1, <2>6, <2>7, <2>8, <2>9, <1>4, <1>6 DEF LineInv
<1>15. CASE OnTerminal /\ Interrupt /\ Busy /\ ~stopReq
  <2>1. /\ phase' = phase /\ stopReq' = TRUE /\ UNCHANGED <<offset, written>>
        /\ posting' = (IF posting = "open" THEN "aborted" ELSE posting)
        /\ row' = (IF row = "due" THEN "idle" ELSE row) /\ log' = Append(log, 0)
    BY <1>15 DEF Interrupt, Stopped
  <2>2. PICK n : n = offset
    OBVIOUS
  <2>3. PICK t : t = written
    OBVIOUS
  <2>4. Len(log') = Len(log) + 1 /\ \A i \in 1 .. n : log'[i] = log[i]
    BY <2>1, <2>2, <1>4, <1>5, LogGrows
  <2>5. Reads(0, n, t)'
    BY <2>2, <2>3, <2>4, <1>4, ReadsStay
  <2>6. Reads(0, offset, written)'
    BY <2>1, <2>2, <2>3, <2>5
  <2>7. offset' \in Nat /\ offset' <= Len(log') /\ phase' # "prompt"
    BY <2>1, <2>4, <1>4, <1>5, <1>15 DEF Busy
  <2>8. phase' \in {"watching", "waiting"} => posting' = "none"
    BY <2>1, <1>4
  <2> QED BY <2>1, <2>6, <2>7, <2>8, <1>4, <1>6 DEF LineInv
<1>16. CASE OnTerminal /\ (Exit \/ (Interrupt /\ ~(Busy /\ ~stopReq)))
  <2>1. /\ phase' = "left" /\ UNCHANGED <<offset, written, stopReq, log, posting, row>>
    BY <1>16 DEF Exit, Interrupt, Leaves, turnVars
  <2>2. PICK n : n = offset
    OBVIOUS
  <2>3. PICK t : t = written
    OBVIOUS
  <2>4. Reads(0, n, t)'
    BY <2>1, <2>2, <2>3, <1>4, ReadsStay
  <2>5. Reads(0, offset, written)'
    BY <2>1, <2>2, <2>3, <2>4
  <2> QED BY <2>1, <2>5, <1>4, <1>6 DEF LineInv, Busy
<1>17. CASE OnTerminal /\ WaitOver
  <2>1. /\ phase = "waiting" /\ phase' = "watching"
        /\ UNCHANGED <<offset, written, stopReq, log, posting, row>>
    BY <1>17 DEF WaitOver, turnVars
  <2>2. PICK n : n = offset
    OBVIOUS
  <2>3. PICK t : t = written
    OBVIOUS
  <2>4. Reads(0, n, t)'
    BY <2>1, <2>2, <2>3, <1>4, ReadsStay
  <2>5. Reads(0, offset, written)'
    BY <2>1, <2>2, <2>3, <2>4
  <2> QED BY <2>1, <2>5, <1>4, <1>6 DEF LineInv, Busy
<1>18. CASE OnTerminal /\ Look /\ stage = "up"
  <2>1. phase = "watching" /\ posting = "none" /\ UNCHANGED <<stopReq, log, posting, row, run>>
    BY <1>18, <1>4 DEF Look, turnVars
  <2>2. CASE crashed
    <3>1. phase' = "threw" /\ UNCHANGED <<offset, written>>
      BY <1>18, <2>2 DEF Look
    <3>2. PICK n : n = offset
      OBVIOUS
    <3>3. PICK t : t = written
      OBVIOUS
    <3>4. Reads(0, n, t)'
      BY <2>1, <3>2, <3>3, <1>4, ReadsStay
    <3>5. Reads(0, offset, written)'
      BY <3>1, <3>2, <3>3, <3>4
    <3> QED BY <2>1, <3>1, <3>5, <1>4, <1>6 DEF LineInv, Busy
  <2>3. CASE ~crashed
    <3>1. /\ written' = written \o Rest(offset) /\ offset' = Len(log)
          /\ phase' = (IF row = "idle" THEN "prompt" ELSE "waiting")
      BY <1>18, <2>3 DEF Look, Quiet
    <3>2. PICK n : n = Len(log)
      OBVIOUS
    <3>3. PICK t : t = written \o Rest(offset)
      OBVIOUS
    <3>4. Reads(0, n, t)
      BY <3>2, <3>3, <1>4, <1>5, RestReads, ReadsJoin
    <3>5. Reads(0, n, t)'
      BY <3>2, <3>4, <2>1, <1>5, ReadsStay
    <3>6. Reads(0, offset, written)'
      BY <3>1, <3>2, <3>3, <3>5
    <3>7. row = "idle" => AgentRests'
      BY <1>18, <2>1 DEF AgentInv, AgentRests
    <3>8. offset' \in Nat /\ offset' <= Len(log') /\ offset' = Len(log')
      BY <3>1, <2>1, <1>5
    <3>9. Busy' /\ stopReq' => row' # "due" /\ posting' # "open"
      BY <2>1, <1>4 DEF Busy
    <3> QED BY <2>1, <3>1, <3>6, <3>7, <3>8, <3>9, <1>4, <1>6 DEF LineInv
  <2> QED BY <2>2, <2>3
<1>19. OnTerminal => \/ ReadLine \/ SubmitDone \/ Interrupt \/ Exit \/ WaitOver
                     \/ (Look /\ stage = "up")
  BY DEF OnTerminal, Types
<1> QED BY <1>7, <1>8, <1>9, <1>10, <1>11, <1>12, <1>13, <1>14, <1>15, <1>16, <1>17, <1>18, <1>19
        DEF Next

-----------------------------------------------------------------------------
(***************************************************************************)
(* The full-screen adapter.                                                *)
(***************************************************************************)

\* The preview is of the call that runs, which the adapter knows as the current one of the
\* current run, or it says how its call ended.
PreviewInv ==
  live.call # 0 /\ live.outcome = "none" /\ ~closed =>
    live.call = run.call /\ InCall /\ current.call = run.call /\ current.run = run.n

\* The full-screen adapter: beside an open composer everything is drawn and the agent rests;
\* a stopped turn has no claim to come.  Another adapter leaves its variables alone.
ScreenInv ==
  IF adapter = "tui"
  THEN /\ TuiTypeOK
       /\ turn = "none" /\ ~closed =>
            AgentRests /\ posting = "none" /\ drained = Len(log) /\ live.call = 0
       /\ turn \in {"watching", "waiting"} /\ ~closed => posting = "none"
       /\ turn # "none" /\ stopping => row # "due" /\ posting # "open"
       /\ PreviewInv
  ELSE TuiInit

\* An event of the run in progress, and the preview after it.
LEMMA EventKeepsPreview ==
  ASSUME TurnInv, TuiTypeOK, PreviewInv, LiveTypeOK',
         NEW event \in LiveEvents, Progress(event), OnEvent(event)
  PROVE  TuiTypeOK' /\ PreviewInv'
<1>1. /\ run \in Runs /\ run' \in Runs /\ run.call \in Calls /\ run'.call \in Calls
      /\ run'.n \in 0 .. MaxTurns /\ Len(log') \in Nat /\ 0 \in Calls
  <2>1. run \in Runs /\ run' \in Runs /\ Len(log') \in Nat
    BY DEF TurnInv, LiveTypeOK, Runs
  <2>2. MaxTurns * MaxCalls \in Nat
    BY TurnFacts
  <2>3. 0 \in Calls
    BY <2>2 DEF Calls
  <2> QED BY <2>1, <2>3 DEF Runs
<1>2. UNCHANGED <<turn, closed, stopping>>
  BY DEF OnEvent
<1>3. /\ turn \in {"none", "submitting", "watching", "waiting"}
      /\ closed \in BOOLEAN /\ stopping \in BOOLEAN /\ drained \in Nat
      /\ live \in [call : Calls, outcome : {"none", "stopped", "failed"}]
      /\ current \in [run : 0..MaxTurns, call : Calls]
      /\ status \in {"idle", "running", "stopping"}
  BY DEF TuiTypeOK
<1>4. NoPreview \in [call : Calls, outcome : {"none", "stopped", "failed"}]
  BY <1>1 DEF NoPreview
<1>5. ASSUME live' = NoPreview PROVE PreviewInv'
  BY <1>5 DEF PreviewInv, NoPreview
<1>6. ASSUME drained' \in Nat, status' \in {"idle", "running", "stopping"},
             live' \in [call : Calls, outcome : {"none", "stopped", "failed"}],
             current' \in [run : 0..MaxTurns, call : Calls]
      PROVE  TuiTypeOK'
  BY <1>2, <1>3, <1>6 DEF TuiTypeOK
<1>7. CASE closed
  <2>1. UNCHANGED <<drained, live, current, status>>
    BY <1>7 DEF OnEvent
  <2> QED BY <2>1, <1>2, <1>3, <1>6, <1>7 DEF PreviewInv
<1>8. CASE ~closed /\ UNCHANGED <<drained, live, current, status>>
           /\ (event = "none" \/ (event # "run_started" /\ current.run # run'.n))
  <2>1. TuiTypeOK'
    BY <1>3, <1>6, <1>8
  <2>2. ASSUME run'.n = run.n, event # "none" PROVE PreviewInv'
    BY <1>2, <1>8, <2>2 DEF PreviewInv, Progress, Claim
  <2>3. CASE event = "none"
    <3>1. ASSUME run'.call = run.call, run'.n = run.n, InCall => InCall' PROVE PreviewInv'
      BY <3>1, <1>2, <1>8 DEF PreviewInv
    <3>2. StreamEnds(event) \/ Persist(event) \/ ErrorStored(event) \/ Settles(event)
      BY <2>3 DEF Progress, Claim, CallStarts, Delta, CallFinishes, RunCompletes, RunBreaks
    <3>3. run'.call = run.call /\ run'.n = run.n /\ (InCall => InCall')
      BY <3>2, <1>1 DEF StreamEnds, Persist, ErrorStored, Settles, InCall, Runs
    <3> QED BY <2>1, <3>1, <3>3
  <2>4. CASE event # "none" /\ event # "run_started"
    <3>1. ~Claim(event)
      BY <2>4 DEF Claim
    <3>2. run'.n = run.n
      BY <3>1, <1>1 DEF Progress, CallStarts, Delta, StreamEnds, Persist, CallFinishes,
                        RunCompletes, RunBreaks, ErrorStored, Settles, turnVars, Runs
    <3> QED BY <2>1, <2>2, <2>4, <3>2
  <2> QED BY <2>3, <2>4, <1>8
<1>9. CASE ~closed /\ event # "none" /\ (event = "run_started" \/ current.run = run'.n)
  <2>1. PreviewEvent(event)
    BY <1>9 DEF OnEvent
  <2>2. CASE event = "run_started"
    <3>1. /\ current' = [run |-> run'.n, call |-> 0] /\ live' = NoPreview
          /\ status' = "running" /\ drained' = drained
      BY <2>1, <2>2 DEF PreviewEvent
    <3>2. current' \in [run : 0..MaxTurns, call : Calls]
      BY <3>1, <1>1
    <3> QED BY <3>1, <3>2, <1>3, <1>4, <1>5, <1>6
  <2>3. CASE event = "model_call_started"
    <3>1. /\ current' = [current EXCEPT !.call = run'.call] /\ live' = NoPreview
          /\ status' = status /\ drained' = drained
      BY <2>1, <2>3 DEF PreviewEvent
    <3>2. current' \in [run : 0..MaxTurns, call : Calls]
      BY <3>1, <1>1, <1>3
    <3> QED BY <3>1, <3>2, <1>3, <1>4, <1>5, <1>6
  <2>4. CASE event = "text_delta"
    <3>1. /\ live' = IF current.call = run'.call THEN [live EXCEPT !.call = run'.call] ELSE live
          /\ UNCHANGED <<current, status, drained>>
      BY <2>1, <2>4 DEF PreviewEvent
    <3>2. UNCHANGED run /\ run.at = "streaming"
      BY <2>4 DEF Progress, Claim, CallStarts, Delta, StreamEnds, Persist, CallFinishes,
                  RunCompletes, RunBreaks, ErrorStored, Settles, turnVars
    <3>3. live' \in [call : Calls, outcome : {"none", "stopped", "failed"}]
      BY <3>1, <1>1, <1>3
    <3>4. PreviewInv'
      <4>1. CASE current.call = run'.call
        <5>1. live'.call = run.call
          BY <4>1, <3>1, <3>2, <1>3
        <5>2. current'.call = run.call /\ current'.run = run.n /\ run' = run
          BY <4>1, <3>1, <3>2, <2>4, <1>9
        <5> QED BY <5>1, <5>2, <3>2 DEF PreviewInv, InCall
      <4>2. CASE current.call # run'.call
        BY <4>2, <3>1, <3>2, <1>2 DEF PreviewInv, InCall
      <4> QED BY <4>1, <4>2
    <3> QED BY <3>1, <3>3, <3>4, <1>3, <1>6
  <2>5. CASE event = "model_call_finished"
    <3>1. \/ /\ drained' = Len(log') /\ live' = NoPreview
             /\ current' = [current EXCEPT !.call = 0] /\ status' = status
          \/ current.call # run'.call /\ UNCHANGED <<drained, live, current, status>>
      BY <2>1, <2>5 DEF PreviewEvent, Drained
    <3>2. run'.call = run.call
      BY <2>5, <1>1 DEF Progress, Claim, CallStarts, Delta, StreamEnds, Persist, CallFinishes,
                        RunCompletes, RunBreaks, ErrorStored, Settles, Runs
    <3>3. CASE live' = NoPreview /\ drained' = Len(log') /\ status' = status
               /\ current' = [current EXCEPT !.call = 0]
      <4>1. current' \in [run : 0..MaxTurns, call : Calls]
        BY <3>3, <1>1, <1>3
      <4> QED BY <3>3, <4>1, <1>1, <1>3, <1>4, <1>5, <1>6
    <3>4. CASE current.call # run'.call /\ UNCHANGED <<drained, live, current, status>>
      BY <3>2, <3>4, <1>2, <1>3, <1>6, <1>9 DEF PreviewInv
    <3> QED BY <3>1, <3>3, <3>4
  <2>6. CASE event = "model_call_finished, run_finished"
    <3>1. /\ drained' = Len(log') /\ live' = NoPreview
          /\ current' = [current EXCEPT !.call = 0] /\ status' = status
      BY <2>1, <2>6 DEF PreviewEvent, Drained
    <3>2. current' \in [run : 0..MaxTurns, call : Calls]
      BY <3>1, <1>1, <1>3
    <3> QED BY <3>1, <3>2, <1>1, <1>3, <1>4, <1>5, <1>6
  <2>7. CASE event = "run_finished"
    <3>1. /\ drained' = Len(log') /\ live' = [live EXCEPT !.outcome = run'.at]
          /\ UNCHANGED <<current, status>>
      BY <2>1, <2>7 DEF PreviewEvent, Drained
    <3>2. run'.at \in {"stopped", "failed"}
      <4>1. RunBreaks(event)
        BY <2>7 DEF Progress, Claim, CallStarts, Delta, StreamEnds, Persist, CallFinishes,
                    RunCompletes, RunBreaks, ErrorStored, Settles
      <4> QED BY <4>1, <1>1 DEF RunBreaks, Runs
    <3>3. /\ live' \in [call : Calls, outcome : {"none", "stopped", "failed"}]
          /\ live'.outcome # "none"
      BY <3>1, <3>2, <1>3
    <3> QED BY <3>1, <3>3, <1>1, <1>3, <1>6 DEF PreviewInv
  <2> QED BY <2>2, <2>3, <2>4, <2>5, <2>6, <2>7, <1>9 DEF LiveEvents
<1>10. \/ closed
       \/ ~closed /\ UNCHANGED <<drained, live, current, status>>
          /\ (event = "none" \/ (event # "run_started" /\ current.run # run'.n))
       \/ ~closed /\ event # "none" /\ (event = "run_started" \/ current.run = run'.n)
  BY DEF OnEvent
<1> QED BY <1>7, <1>8, <1>9, <1>10

\* A step that leaves the adapter and the run's call alone, and schedules nothing.
LEMMA ScreenBeside ==
  ASSUME ScreenInv, adapter = "tui", adapter' = "tui", UNCHANGED tuiVars,
         UNCHANGED <<log, posting>>, row' \in {row, "idle"},
         run'.at = run.at, run'.n = run.n, run'.call = run.call
  PROVE  ScreenInv'
<1>1. /\ TuiTypeOK
      /\ turn = "none" /\ ~closed =>
           AgentRests /\ posting = "none" /\ drained = Len(log) /\ live.call = 0
      /\ turn \in {"watching", "waiting"} /\ ~closed => posting = "none"
      /\ turn # "none" /\ stopping => row # "due" /\ posting # "open"
      /\ PreviewInv
  BY DEF ScreenInv
<1>2. TuiTypeOK' /\ PreviewInv'
  BY <1>1 DEF TuiTypeOK, PreviewInv, InCall, tuiVars
<1>3. AgentRests => AgentRests'
  BY DEF AgentRests
<1> QED BY <1>1, <1>2, <1>3 DEF ScreenInv, tuiVars

LEMMA ScreenKept ==
  ASSUME TurnInv, AgentInv, ScreenInv, TurnInv', [Next]_vars
  PROVE  ScreenInv'
<1>1. adapter' = adapter
  BY AdapterKept
<1>2. CASE adapter # "tui"
  <2>1. UNCHANGED tuiVars
    BY <1>2 DEF Next, vars, OnPages, Agent, WorkerFails, Published, OnTerminal, OnTui, OnRuntime
  <2> QED BY <2>1, <1>1, <1>2 DEF ScreenInv, TuiInit, tuiVars
<1>3. SUFFICES ASSUME adapter = "tui" PROVE ScreenInv'
  BY <1>2
<1>4. /\ TuiTypeOK
      /\ turn = "none" /\ ~closed =>
           AgentRests /\ posting = "none" /\ drained = Len(log) /\ live.call = 0
      /\ turn \in {"watching", "waiting"} /\ ~closed => posting = "none"
      /\ turn # "none" /\ stopping => row # "due" /\ posting # "open"
      /\ PreviewInv
  BY <1>3 DEF ScreenInv
<1>5. /\ Len(log) \in Nat /\ Len(log') \in Nat
      /\ row \in {"idle", "due", "running"} /\ posting \in {"none", "open", "aborted"}
      /\ run \in Runs /\ LiveTypeOK' /\ NoPreview \in [call : Calls, outcome : {"none", "stopped", "failed"}]
  <2>1. MaxTurns * MaxCalls \in Nat
    BY TurnFacts
  <2>2. 0 \in Calls
    BY <2>1 DEF Calls
  <2> QED BY <2>2, TurnFacts DEF TurnInv, LiveTypeOK, Runs, NoPreview
<1>6. adapter' = "tui"
  BY <1>1, <1>3
<1>7. CASE UNCHANGED vars
  BY <1>7, <1>3, <1>6, ScreenBeside DEF vars, turnVars
<1>8. CASE OnPages
  BY <1>8, <1>3 DEF OnPages, Serves
<1>9. CASE OnTerminal
  BY <1>9, <1>3 DEF OnTerminal
<1>10. CASE Agent
  <2>1. PICK event \in LiveEvents : Progress(event) /\ OnEvent(event)
    BY <1>10, <1>3 DEF Agent, Published
  <2>2. TuiTypeOK' /\ PreviewInv'
    BY <2>1, <1>4, <1>5, EventKeepsPreview
  <2>3. ~AgentRests
    BY <2>1 DEF Progress, Claim, CallStarts, Delta, StreamEnds, Persist, CallFinishes,
                RunCompletes, RunBreaks, ErrorStored, Settles, AgentRests
  <2>4. posting' = posting /\ (row' = "due" => row = "due")
    BY <2>1 DEF Progress, Claim, CallStarts, Delta, StreamEnds, Persist, CallFinishes,
                RunCompletes, RunBreaks, ErrorStored, Settles, turnVars
  <2>5. UNCHANGED <<turn, closed, stopping>>
    BY <2>1 DEF OnEvent
  <2> QED BY <2>2, <2>3, <2>4, <2>5, <1>4, <1>6 DEF ScreenInv
<1>11. CASE WorkerFails
  <2>1. UNCHANGED tuiVars
    BY <1>11, <1>3 DEF WorkerFails, Published, OnEvent, tuiVars
  <2> QED BY <2>1, <1>11, <1>3, <1>6, ScreenBeside DEF WorkerFails, WorkerCrashes
<1>12. CASE OnRuntime
  <2>1. UNCHANGED tuiVars
    BY <1>12 DEF OnRuntime
  <2>2. /\ UNCHANGED <<log, posting>> /\ row' \in {row, "idle"} /\ run'.at = run.at
        /\ run'.n = run.n /\ run'.call = run.call
    <3>1. RuntimeStep => <2>2
      BY <1>5 DEF RuntimeStep, Boot, ServerStopped, Close, ForcedEnd, Aborted, turnVars, Runs
    <3>2. Signal \/ RequestShutdown \/ ShutDown(Serves) => <2>2
      BY <1>5 DEF Signal, RequestShutdown, ShutDown, Aborted, turnVars, Runs
    <3> QED BY <3>1, <3>2, <1>12 DEF OnRuntime
  <2> QED BY <2>1, <2>2, <1>3, <1>6, ScreenBeside
<1>13. CASE OnTui /\ OnSubmit
  <2>1. /\ turn' = "submitting" /\ stopping' = FALSE /\ live' = NoPreview /\ status' = "running"
        /\ UNCHANGED <<closed, drained, current>>
    BY <1>13 DEF OnSubmit
  <2>2. TuiTypeOK'
    BY <2>1, <1>4, <1>5 DEF TuiTypeOK
  <2>3. PreviewInv'
    BY <2>1 DEF PreviewInv, NoPreview
  <2> QED BY <2>1, <2>2, <2>3, <1>6 DEF ScreenInv
<1>14. CASE OnTui /\ TurnSubmitted
  <2>1. /\ posting # "none" /\ posting' = "none" /\ run' = run
        /\ row' = (IF posting = "aborted" THEN row ELSE "due")
        /\ UNCHANGED <<closed, stopping, live, current, status>>
        /\ IF closed THEN UNCHANGED <<turn, drained>> ELSE turn' = "watching" /\ drained' = Len(log')
    BY <1>14 DEF TurnSubmitted, Submitted, Scheduled, Drained
  <2>2. TuiTypeOK'
    BY <2>1, <1>4, <1>5 DEF TuiTypeOK
  <2>3. PreviewInv'
    BY <2>1, <1>4 DEF PreviewInv, InCall
  <2>4. turn' # "none" /\ stopping' => row' # "due"
    <3>1. turn' # "none" => turn # "none"
      BY <2>1, <1>4
    <3> QED BY <3>1, <2>1, <1>4, <1>5
  <2> QED BY <2>1, <2>2, <2>3, <2>4, <1>6 DEF ScreenInv
<1>15. CASE OnTui /\ Round /\ stage = "up"
  <2>1. /\ turn = "watching" /\ ~closed /\ posting = "none" /\ drained' = Len(log)
        /\ UNCHANGED <<current, log, posting, row, run>> /\ closed' = crashed
        /\ IF crashed \/ row = "idle"
           THEN turn' = "none" /\ stopping' = FALSE /\ live' = NoPreview /\ status' = "idle"
           ELSE turn' = "waiting" /\ UNCHANGED <<stopping, live, status>>
    BY <1>15, <1>4 DEF Round, Drained, turnVars
  <2>2. crashed \in BOOLEAN
    BY DEF TurnInv, LiveTypeOK
  <2>3. TuiTypeOK'
    BY <2>1, <2>2, <1>4, <1>5 DEF TuiTypeOK
  <2>4. PreviewInv'
    BY <2>1, <1>4 DEF PreviewInv, InCall, NoPreview
  <2>5. row = "idle" => AgentRests'
    BY <2>1, <1>15 DEF AgentInv, AgentRests
  <2>6. turn' = "none" => live'.call = 0
    BY <2>1 DEF NoPreview
  <2> QED BY <2>1, <2>3, <2>4, <2>5, <2>6, <1>4, <1>6 DEF ScreenInv
<1>16. CASE OnTui /\ WaitEnds
  <2>1. /\ turn = "waiting" /\ turn' = "watching"
        /\ UNCHANGED <<closed, stopping, drained, live, current, status, posting, row, run>>
    BY <1>16 DEF WaitEnds, turnVars
  <2>2. TuiTypeOK' /\ PreviewInv'
    BY <2>1, <1>4 DEF TuiTypeOK, PreviewInv, InCall
  <2> QED BY <2>1, <2>2, <1>4, <1>6 DEF ScreenInv
<1>17. CASE OnTui /\ (RequestExit \/ (OnInterrupt /\ turn = "none"))
  <2>1. /\ closed' = TRUE
        /\ UNCHANGED <<turn, stopping, drained, live, current, status, posting, row>>
    BY <1>17 DEF RequestExit, OnInterrupt, turnVars
  <2>2. TuiTypeOK' /\ PreviewInv'
    BY <2>1, <1>4 DEF TuiTypeOK, PreviewInv
  <2> QED BY <2>1, <2>2, <1>4, <1>6 DEF ScreenInv
<1>18. CASE OnTui /\ OnInterrupt /\ turn # "none"
  <2>1. /\ stopping' = TRUE /\ status' = "stopping" /\ UNCHANGED <<turn, closed, drained, live, current>>
        /\ posting' = (IF posting = "open" THEN "aborted" ELSE posting)
        /\ row' = (IF row = "due" THEN "idle" ELSE row)
        /\ run' = [run EXCEPT !.aborted = run.at # "none"]
    BY <1>18 DEF OnInterrupt, Stopped
  <2>2. run'.at = run.at /\ run'.n = run.n /\ run'.call = run.call
    BY <2>1, <1>5 DEF Runs
  <2>3. TuiTypeOK' /\ PreviewInv'
    BY <2>1, <2>2, <1>4 DEF TuiTypeOK, PreviewInv, InCall
  <2>4. turn' \in {"watching", "waiting"} /\ ~closed' => posting' = "none"
    BY <2>1, <1>4
  <2> QED BY <2>1, <2>3, <2>4, <1>6, <1>18 DEF ScreenInv
<1>19. OnTui => \/ OnSubmit \/ TurnSubmitted \/ OnInterrupt \/ RequestExit \/ WaitEnds
                \/ (Round /\ stage = "up")
  BY DEF OnTui, Types
<1> QED BY <1>7, <1>8, <1>9, <1>10, <1>11, <1>12, <1>13, <1>14, <1>15, <1>16, <1>17, <1>18, <1>19
        DEF Next

-----------------------------------------------------------------------------
(***************************************************************************)
(* The invariants together, and what they give.                            *)
(***************************************************************************)

\* A process ends when nothing is left, or by force when its claim is returned.
EndInv == ExitIsClean

HcodeInv == TurnInv /\ AgentInv /\ LineInv /\ ScreenInv /\ EndInv

LEMMA HcodeStarts == Init => HcodeInv
<1> SUFFICES ASSUME Init PROVE HcodeInv
  OBVIOUS
<1>1. /\ MaxTurns \in Nat /\ MaxPersist \in Nat /\ MaxTurns * MaxCalls \in Nat /\ MaxCalls \in Nat
  BY TurnBounds
<1>2. /\ log = <<>> /\ posting = "none" /\ row = "idle" /\ run = NoRun /\ crashed = FALSE
      /\ asked = 0 /\ stage = "booting" /\ signalled = FALSE /\ forced = FALSE
  BY DEF Init, LiveInit, RuntimeInit
<1>3. adapter \in {"pages", "legacy", "terminal", "tui"}
  BY DEF Init, AdapterFor
<1>4. 0 \in Calls /\ 0 \in 0 .. MaxPersist /\ 0 \in 0 .. MaxTurns
  BY <1>1 DEF Calls
<1>5. LiveTypeOK /\ RuntimeTypeOK
  <2>1. NoRun \in Runs
    BY <1>4 DEF NoRun, Runs
  <2>2. LiveTypeOK
    <3>1. log \in Seq(Calls \cup {UserRow})
      BY <1>2
    <3> QED BY <2>1, <3>1, <1>2 DEF LiveTypeOK, Runs
  <2> QED BY <2>2, <1>2 DEF RuntimeTypeOK
<1>6. TurnInv
  BY <1>1, <1>2, <1>3, <1>4, <1>5 DEF TurnInv, Owed, NoRun
<1>7. AgentInv
  BY <1>2 DEF AgentInv, AgentRests, NoRun
<1>8. LineInv
  <2>1. Reads(0, 0, <<>>)
    BY DEF Reads
  <2>2. phase = "prompt" /\ offset = 0 /\ written = <<>> /\ stopReq = FALSE
    BY DEF Init, TerminalInit
  <2>3. Reads(0, offset, written) /\ Len(log) = 0 /\ AgentRests
    BY <2>1, <2>2, <1>2 DEF AgentRests, NoRun
  <2>4. ~Busy /\ TerminalInit
    BY <2>2 DEF Busy, TerminalInit
  <2>5. offset \in Nat /\ offset <= Len(log) /\ offset = Len(log)
    BY <2>2, <2>3
  <2> QED BY <2>2, <2>3, <2>4, <2>5, <1>2 DEF LineInv
<1>9. ScreenInv
  <2>1. TuiTypeOK /\ PreviewInv
    BY <1>4 DEF Init, TuiInit, TuiTypeOK, PreviewInv, NoPreview
  <2> QED BY <2>1, <1>2 DEF ScreenInv, Init, TuiInit, AgentRests, NoRun, NoPreview
<1>10. EndInv
  BY <1>2 DEF EndInv, ExitIsClean
<1> QED BY <1>6, <1>7, <1>8, <1>9, <1>10 DEF HcodeInv

\* Whoever takes input does so beside an agent that rests.
LEMMA AskedAtRest ==
  ASSUME LineInv, ScreenInv
  PROVE  Asks => AgentRests
  BY DEF LineInv, ScreenInv, Asks

LEMMA EndKept ==
  ASSUME AgentInv, EndInv, [Next]_vars
  PROVE  EndInv'
<1>1. CASE stage = "exited"
  <2>1. UNCHANGED vars
    BY <1>1, ExitedStays
  <2> QED BY <2>1, <1>1 DEF EndInv, ExitIsClean, vars, turnVars, runtimeVars
<1>2. CASE stage # "exited"
  <2>1. stage' = "exited" => OnRuntime /\ (Close \/ ForcedEnd)
    <3>1. UNCHANGED vars \/ OnPages \/ Agent \/ WorkerFails \/ OnTerminal \/ OnTui
            => stage' = stage
      BY DEF vars, runtimeVars, OnPages, Agent, WorkerFails, Published, OnTerminal, OnTui
    <3>2. Boot \/ ServerStopped \/ Signal \/ RequestShutdown \/ ShutDown(Serves)
            => stage' # "exited"
      BY <1>2 DEF Boot, ServerStopped, Signal, RequestShutdown, ShutDown
    <3> QED BY <3>1, <3>2, <1>2 DEF Next, OnRuntime, RuntimeStep
  <2>2. Close => row' # "running" /\ run'.at = "none" /\ posting' = "none"
    BY <1>2 DEF Close, Settled, AgentInv, turnVars
  <2>3. ForcedEnd => row' # "running" /\ forced' = TRUE
    BY DEF ForcedEnd
  <2> QED BY <2>1, <2>2, <2>3 DEF EndInv, ExitIsClean
<1> QED BY <1>1, <1>2

LEMMA HcodeKept == HcodeInv /\ [Next]_vars => HcodeInv'
<1> SUFFICES ASSUME HcodeInv, [Next]_vars PROVE HcodeInv'
  OBVIOUS
<1>1. TurnInv /\ AgentInv /\ LineInv /\ ScreenInv /\ EndInv
  BY DEF HcodeInv
<1>2. TurnInv' /\ LineInv' /\ EndInv'
  BY <1>1, TurnKept, LineKept, EndKept
<1>3. AgentInv'
  BY <1>1, AskedAtRest, AgentKept
<1>4. ScreenInv'
  BY <1>1, <1>2, ScreenKept
<1> QED BY <1>2, <1>3, <1>4 DEF HcodeInv

LEMMA HcodeHolds == Spec => []HcodeInv
  BY HcodeStarts, HcodeKept, PTL DEF Spec

\* The variables of every part have their types.
THEOREM TypeCorrect == Spec => []TypeOK
<1>1. FeedInv /\ HcodeInv => TypeOK
  <2> SUFFICES ASSUME FeedInv, HcodeInv PROVE TypeOK
    OBVIOUS
  <2>1. FeedTypeOK
    BY DEF FeedInv
  <2>2. TerminalTypeOK
    <3>1. Reads(0, offset, written) => written \in Seq(Nat \ {0})
      BY DEF Reads
    <3>2. CASE adapter = "terminal"
      BY <3>1, <3>2 DEF HcodeInv, LineInv, TerminalTypeOK
    <3>3. CASE adapter # "terminal"
      <4>1. phase = "prompt" /\ offset = 0 /\ written = <<>> /\ stopReq = FALSE
        BY <3>3 DEF HcodeInv, LineInv, TerminalInit
      <4>2. <<>> \in Seq(Nat \ {0})
        OBVIOUS
      <4> QED BY <4>1, <4>2 DEF TerminalTypeOK
    <3> QED BY <3>2, <3>3
  <2>3. TuiTypeOK
    <3>1. MaxTurns * MaxCalls \in Nat /\ MaxTurns \in Nat
      BY TurnBounds
    <3>2. 0 \in Calls /\ 0 \in 0 .. MaxTurns
      BY <3>1 DEF Calls
    <3>3. ASSUME TuiInit PROVE TuiTypeOK
      <4>1. /\ NoPreview \in [call : Calls, outcome : {"none", "stopped", "failed"}]
            /\ [run |-> 0, call |-> 0] \in [run : 0..MaxTurns, call : Calls]
        BY <3>2 DEF NoPreview
      <4> QED BY <3>3, <4>1 DEF TuiInit, TuiTypeOK
    <3> QED BY <3>3 DEF HcodeInv, ScreenInv
  <2> QED BY <2>1, <2>2, <2>3 DEF TypeOK, HcodeInv, TurnInv
<1> QED BY <1>1, FeedHolds, HcodeHolds, PTL

\* An adapter waits for input beside an agent that rests, with all that the turns left on the
\* screen, each event once and in order, and no preview (FT-009 INV-02).
THEOREM InputMeansRest == Spec => []IdleMeansIdle
<1>1. HcodeInv => IdleMeansIdle
  <2> SUFFICES ASSUME HcodeInv, AtPrompt \/ AtRest PROVE AgentRests /\ AllShown
    BY DEF IdleMeansIdle
  <2>1. TurnInv /\ AgentInv /\ LineInv /\ ScreenInv
    BY DEF HcodeInv
  <2>2. Len(log) \in Nat /\ DOMAIN log = 1 .. Len(log)
    BY <2>1, TurnFacts
  <2>3. CASE AtPrompt
    <3>1. /\ offset = Len(log) /\ AgentRests /\ Reads(0, offset, written)
      BY <2>1, <2>3 DEF AtPrompt, LineInv
    <3>2. live = NoPreview
      BY <2>1, <2>3 DEF AtPrompt, ScreenInv, TuiInit
    <3>3. /\ written \in Seq(Nat \ {0})
          /\ \A i \in 1 .. Len(written) : written[i] \in 0 + 1 .. Len(log) /\ RenderEvent(written[i])
          /\ \A j \in 0 + 1 .. Len(log) : RenderEvent(j) => \E i \in 1 .. Len(written) : written[i] = j
          /\ \A i, j \in 1 .. Len(written) : i < j => written[i] < written[j]
      BY <3>1 DEF Reads
    <3>4. DOMAIN written = 1 .. Len(written) /\ 0 + 1 .. Len(log) = DOMAIN log
      BY <3>3, <2>2
    <3>5. {written[i] : i \in DOMAIN written} = {i \in DOMAIN log : RenderEvent(i)}
      BY <3>3, <3>4
    <3>6. Conversation.preview = {}
      BY <3>2 DEF Conversation, NoPreview
    <3> QED BY <2>3, <3>1, <3>3, <3>4, <3>5, <3>6 DEF AllShown
  <2>4. CASE AtRest
    <3>1. AgentRests /\ drained = Len(log) /\ live.call = 0
      BY <2>1, <2>4 DEF AtRest, ScreenInv
    <3>2. written = <<>>
      BY <2>1, <2>4 DEF AtRest, LineInv, TerminalInit
    <3>3. ~AtPrompt
      BY <2>4 DEF AtRest, AtPrompt
    <3>4. Conversation.events = DOMAIN log /\ Conversation.preview = {}
      BY <3>1, <2>2 DEF Conversation
    <3>5. \A i, j \in DOMAIN written : i < j => written[i] < written[j]
      BY <3>2
    <3> QED BY <3>1, <3>3, <3>4, <3>5 DEF AllShown
  <2> QED BY <2>3, <2>4
<1> QED BY <1>1, HcodeHolds, PTL

\* No preview outlives its call, unless it says how the call ended.
THEOREM PreviewFollowsItsCall == Spec => []PreviewIsLive
<1>1. HcodeInv => PreviewIsLive
  <2> SUFFICES ASSUME HcodeInv, ~closed, NEW shown \in Conversation.preview,
                      shown.outcome = "none"
               PROVE  run.call = shown.call /\ InCall
    BY DEF PreviewIsLive
  <2>1. shown = live /\ live.call # 0
    BY DEF Conversation
  <2>2. adapter = "tui"
    BY <2>1 DEF HcodeInv, ScreenInv, TuiInit, NoPreview
  <2> QED BY <2>1, <2>2 DEF HcodeInv, ScreenInv, PreviewInv
<1> QED BY <1>1, HcodeHolds, PTL

\* A turn the operator stopped never gets a run, wherever in its submission the stop fell.
THEOREM StoppedTurnsStayStopped == Spec => StoppedStays
<1>1. HcodeInv /\ [Next]_vars => [(Busy /\ stopReq) \/ (turn # "none" /\ stopping) => run'.n = run.n]_vars
  <2> SUFFICES ASSUME HcodeInv, [Next]_vars, (Busy /\ stopReq) \/ (turn # "none" /\ stopping)
               PROVE  run'.n = run.n
    OBVIOUS
  <2>1. row # "due"
    BY DEF HcodeInv, LineInv, ScreenInv, TerminalInit, TuiInit
  <2>2. run \in Runs
    BY DEF HcodeInv, TurnInv, LiveTypeOK, Runs
  <2>3. ASSUME NEW event, Progress(event) PROVE run'.n = run.n
    BY <2>1, <2>2, <2>3 DEF Progress, Claim, CallStarts, Delta, StreamEnds, Persist, CallFinishes,
                RunCompletes, RunBreaks, ErrorStored, Settles, turnVars, Runs
  <2>4. WorkerCrashes("none") \/ Submits \/ Submitted \/ TurnRests \/ ForcedEnd => run'.n = run.n
    BY DEF WorkerCrashes, Submits, Submitted, TurnRests, turnVars, ForcedEnd
  <2>5. Stopped \/ Aborted => run'.n = run.n
    BY <2>2 DEF Stopped, Aborted, Runs
  <2> QED BY <2>3, <2>4, <2>5, TurnSteps DEF TurnMoves
<1> QED BY <1>1, HcodeHolds, PTL DEF Spec, StoppedStays

\* A process that has ended left no row claimed, and nothing at work unless it was forced.
THEOREM EndsAreClean == Spec => []ExitIsClean
<1>1. HcodeInv => ExitIsClean
  BY DEF HcodeInv, EndInv
<1> QED BY <1>1, HcodeHolds, PTL

=============================================================================
