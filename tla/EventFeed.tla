----------------------------- MODULE EventFeed ------------------------------
(***************************************************************************)
(* How an agent's durable events reach the open browser pages.  A page     *)
(* starts from a full rendering and a first tail, which is fetched once,   *)
(* on load.  Each answer of GET /agent/:id/events.html?offset=N replaces   *)
(* the tail by one that is fetched again on an SSE message (events.emit -> *)
(* /events -> client.js -> hyper-tick) and every 10 s.                     *)
(***************************************************************************)
EXTENDS Integers, FiniteSets, FiniteSetsExt

CONSTANTS
  Pages,      \* browser tabs that show the agent
  MaxEvents   \* bound on the events ever appended

ASSUME EventBound == MaxEvents \in Nat

VARIABLES
  stored,  \* the events table: records of an idx and the event's identity
  born,    \* events appended so far; also names the next one
  page,    \* per tab: where its tail stands, whether its triggers are the tick and the
           \* interval, its offset, the events the tab shows
  sse,     \* per tab: whether its EventSource is connected
  edited   \* whether an event was ever deleted (no program variable)

feedVars == <<stored, born, page, sse, edited>>

Event(i, e) == [idx |-> i, event |-> e]
MaxIdx      == IF stored = {} THEN -1 ELSE Max({r.idx : r \in stored})
From(offset) == {r.event : r \in {s \in stored : s.idx >= offset}}
Closed == [at |-> "closed", ticks |-> FALSE, offset |-> 0, shows |-> {}, got |-> {}, next |-> 0]

FeedTypeOK ==
  /\ stored \subseteq [idx : 0..MaxEvents, event : 1..MaxEvents]
  /\ born \in 0..MaxEvents
  /\ page \in [Pages -> [at : {"closed", "tail", "asked", "answered"}, ticks : BOOLEAN,
                         offset : 0..MaxEvents, next : 0..MaxEvents,
                         shows : SUBSET (1..MaxEvents), got : SUBSET (1..MaxEvents)]]
  /\ sse \in [Pages -> BOOLEAN] /\ edited \in BOOLEAN

FeedInit ==
  /\ stored = {} /\ born = 0
  /\ page = [p \in Pages |-> Closed]
  /\ sse = [p \in Pages |-> FALSE] /\ edited = FALSE

-----------------------------------------------------------------------------
\* A trigger: htmx issues the request of a tail that listens to it, and drops a trigger
\* during a request.
Listens(t) == t.at = "tail" /\ t.ticks
Fetch(pages, p) == IF Listens(pages[p]) THEN [pages[p] EXCEPT !.at = "asked"]
                                        ELSE pages[p]

\* session.appendEvent: the next index, and a message on every stream, which
\* client.js turns into a tick of the pages that show this agent.
AppendEvent ==
  /\ born < MaxEvents
  /\ born' = born + 1
  /\ stored' = stored \cup {Event(MaxIdx + 1, born + 1)}
  /\ \E told \in SUBSET {p \in Pages : sse[p]} :   \* a message may come too late
       page' = [p \in Pages |-> IF p \in told THEN Fetch(page, p) ELSE page[p]]
  /\ UNCHANGED <<sse, edited>>

\* session.deleteMessageAt: the bubble of one message.
DeleteEvent(r) ==
  /\ stored' = stored \ {r}
  /\ edited' = TRUE
  /\ UNCHANGED <<born, page, sse>>

\* session.truncateMessagesFrom: everything from a boundary on.
TruncateEvents(r) ==
  /\ stored' = {s \in stored : s.idx < r.idx}
  /\ edited' = TRUE
  /\ UNCHANGED <<born, page, sse>>

-----------------------------------------------------------------------------
\* GET /agent/:id: every event, and a tail whose only trigger is the load of the page.
OpenPage(p) ==
  /\ page[p].at = "closed"
  /\ page' = [page EXCEPT ![p] = [at |-> "asked", ticks |-> FALSE, offset |-> MaxIdx + 1,
                                  shows |-> From(0), got |-> {}, next |-> 0]]
  /\ sse' = [sse EXCEPT ![p] = TRUE]
  /\ UNCHANGED <<stored, born, edited>>

\* Mutant of Poll: only while the stream is up.
PollConnected(p) ==
  /\ Listens(page[p]) /\ sse[p]
  /\ page' = [page EXCEPT ![p] = Fetch(page, p)]
  /\ UNCHANGED <<stored, born, sse, edited>>

\* "every 10s".
Poll(p) ==
  /\ Listens(page[p])
  /\ page' = [page EXCEPT ![p] = Fetch(page, p)]
  /\ UNCHANGED <<stored, born, sse, edited>>

\* Mutant of NextOffset: count the rows instead of reading their idx.
NextByCount(p) == page[p].offset + Cardinality(From(page[p].offset)) - 1

\* The offset of the new tail.
NextOffset(p) == MaxIdx + 1

\* GET /agent/:id/events.html: the rows and the maximum are read together.
Serve(p) ==
  /\ page[p].at = "asked"
  /\ page' = [page EXCEPT ![p].at = "answered", ![p].got = From(page[p].offset),
                          ![p].next = NextOffset(p)]
  /\ UNCHANGED <<stored, born, sse, edited>>

TailOf(t) == [t EXCEPT !.at = "tail", !.got = {}, !.next = 0]
\* The answer replaces the tail: its bubbles, and a tail with its offset that listens.
Swapped(t) == [TailOf(t) EXCEPT !.shows = t.shows \cup t.got, !.offset = t.next, !.ticks = TRUE]

Swap(p) ==
  /\ page[p].at = "answered"
  /\ page' = [page EXCEPT ![p] = Swapped(page[p])]
  /\ UNCHANGED <<stored, born, sse, edited>>

\* The request fails: htmx leaves the old tail in place, the first one with nothing left
\* to trigger it.
FetchFails(p) ==
  /\ page[p].at \in {"asked", "answered"}
  /\ page' = [page EXCEPT ![p] = TailOf(page[p])]
  /\ UNCHANGED <<stored, born, sse, edited>>

\* The stream breaks, and client.js connects again after its delay.
Disconnect(p) ==
  /\ sse[p] /\ sse' = [sse EXCEPT ![p] = FALSE]
  /\ UNCHANGED <<stored, born, page, edited>>
Reconnect(p) ==
  /\ ~sse[p] /\ page[p].at # "closed" /\ sse' = [sse EXCEPT ![p] = TRUE]
  /\ UNCHANGED <<stored, born, page, edited>>

FeedNext ==
  \/ AppendEvent
  \/ \E r \in stored : DeleteEvent(r) \/ TruncateEvents(r)
  \/ \E p \in Pages : \/ OpenPage(p) \/ Poll(p) \/ Serve(p) \/ Swap(p)
                      \/ FetchFails(p) \/ Disconnect(p) \/ Reconnect(p)

-----------------------------------------------------------------------------
\* A page appends only events it does not show yet, and in the order they
\* were appended: no offset, lowered or raised by edits, failed requests and
\* late answers, makes a bubble appear twice or above an older one.
ShownOnceInOrder ==
  \A p \in Pages : page[p].at = "answered" =>
    \A new \in page[p].got, old \in page[p].shows : old < new

\* The first fetch of a page failed: nothing brings its tail to fetch again.
Dead(p) == page[p].at = "tail" /\ ~page[p].ticks

Missing(p, e) == /\ page[p].at # "closed" /\ e \notin page[p].shows
                 /\ e \in From(0)
=============================================================================
