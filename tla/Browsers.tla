------------------------------ MODULE Browsers ------------------------------
(***************************************************************************)
(* Open pages and what the server pushes to them: every page holds one      *)
(* event stream, an agent may run code in all of them or send them          *)
(* elsewhere, and each shows a sidebar that htmx asks for every ten         *)
(* seconds and that agents.changed replaces at once.                        *)
(***************************************************************************)
EXTENDS Integers, Sequences, SequencesExt

CONSTANTS
  Windows,
  Requests,   \* identifiers of ui.eval() and ui.action()
  MaxList,    \* bound: changes of what the sidebar lists
  MaxMoves,   \* bound: pages opened, closed, moved or cut off
  MaxFetches  \* bound: refreshes of one page in flight

VARIABLES
  list,     \* version of what the sidebar would list: agents, titles, turns, open files
  entry,    \* the requests the server remembers
  tab,      \* "closed", "connecting", "live", or "leaving" for another page
  inbox,    \* the events sent to each page and not handled yet
  working,  \* the requests whose code each page runs
  shows,    \* the version each sidebar shows
  polls,    \* its <aside> is the one htmx knows
  asked,    \* htmx's own request: Idle, Sent, or what it brings, a version or Missing
  fetches,  \* the requests of __hyperRefreshSidebar: the same, in order of sending
  gone,     \* the pages of an agent that has been archived or deleted since
  moves     \* counts for MaxMoves

browserVars == <<list, entry, tab, inbox, working, shows, polls, asked, fetches, gone, moves>>

Versions == 0 .. MaxList
Idle == -2
Sent == -1
Missing == -3

BrowsersTypeOK ==
  /\ list \in Versions
  /\ entry \in [Requests -> {"absent", "pending", "ok", "error"}]
  /\ tab \in [Windows -> {"closed", "connecting", "live", "leaving"}]
  /\ inbox \in [Windows -> Seq([type : {"eval"}, id : Requests] \cup [type : {"navigate", "changed"}])]
  /\ working \in [Windows -> SUBSET Requests]
  /\ shows \in [Windows -> Versions] /\ polls \in [Windows -> BOOLEAN]
  /\ asked \in [Windows -> Versions \cup {Idle, Sent, Missing}]
  /\ fetches \in [Windows -> Seq(Versions \cup {Sent, Missing})]
  /\ gone \in SUBSET Windows

BrowsersInit ==
  /\ list = 0 /\ entry = [r \in Requests |-> "absent"]
  /\ tab = [t \in Windows |-> "closed"] /\ inbox = [t \in Windows |-> <<>>]
  /\ working = [t \in Windows |-> {}]
  /\ shows = [t \in Windows |-> 0] /\ polls = [t \in Windows |-> FALSE]
  /\ asked = [t \in Windows |-> Idle] /\ fetches = [t \in Windows |-> <<>>]
  /\ gone = {} /\ moves = 0

-----------------------------------------------------------------------------
\* The server.  A stream is there from its connection on, until it is cut.
Connected(t) == tab[t] \in {"live", "leaving"}
Emit(e) == inbox' = [t \in Windows |-> IF Connected(t) THEN Append(inbox[t], e) ELSE inbox[t]]

tabVars == <<tab, working, shows, polls, asked, fetches>>
pageVars == <<tabVars, gone>>

\* ui.eval() and ui.action(): remembered and sent to every page.
Ask(r) ==
  /\ entry[r] = "absent"
  /\ entry' = [entry EXCEPT ![r] = "pending"]
  /\ Emit([type |-> "eval", id |-> r])
  /\ UNCHANGED <<list, pageVars, moves>>

\* ui.openAgent(), ui.createAgent(): every page goes there.
SendElsewhere ==
  /\ moves < MaxMoves /\ moves' = moves + 1
  /\ Emit([type |-> "navigate"])
  /\ UNCHANGED <<list, entry, pageVars>>

\* An agent is created, forked, archived or deleted; in the last two cases its pages stay
\* open, wherever they are.
AgentsChange ==
  /\ list < MaxList /\ list' = list + 1
  /\ Emit([type |-> "changed"])
  /\ \E pages \in SUBSET {t \in Windows : tab[t] # "closed"} : gone' = gone \cup pages
  /\ UNCHANGED <<entry, tabVars, moves>>

\* A first message gives a title, a run starts or ends, a file is opened or closed:
\* no page does anything about it.
ListChanges ==
  /\ list < MaxList /\ list' = list + 1
  /\ UNCHANGED <<entry, inbox, pageVars, moves>>

-----------------------------------------------------------------------------
\* A page comes with the sidebar of that moment and then opens its stream.
Blank(t) ==
  /\ inbox' = [inbox EXCEPT ![t] = <<>>] /\ working' = [working EXCEPT ![t] = {}]
  /\ asked' = [asked EXCEPT ![t] = Idle] /\ fetches' = [fetches EXCEPT ![t] = <<>>]

Arrives(t) ==
  /\ Blank(t)
  /\ tab' = [tab EXCEPT ![t] = "connecting"]
  /\ shows' = [shows EXCEPT ![t] = list] /\ polls' = [polls EXCEPT ![t] = TRUE]
  /\ gone' = gone \ {t}
  /\ UNCHANGED <<list, entry>>

OpenPage(t) ==
  /\ moves < MaxMoves /\ moves' = moves + 1
  /\ tab[t] = "closed" /\ Arrives(t)

Connect(t) ==
  /\ tab[t] = "connecting" /\ tab' = [tab EXCEPT ![t] = "live"]
  /\ UNCHANGED <<list, entry, inbox, working, shows, polls, asked, fetches, gone, moves>>

\* The stream breaks: onerror() tries again, what was on the way is lost.
Breaks(t) ==
  /\ moves < MaxMoves /\ moves' = moves + 1
  /\ tab[t] = "live" /\ tab' = [tab EXCEPT ![t] = "connecting"]
  /\ inbox' = [inbox EXCEPT ![t] = <<>>]
  /\ UNCHANGED <<list, entry, working, shows, polls, asked, fetches, gone>>

Close(t) ==
  /\ moves < MaxMoves /\ moves' = moves + 1
  /\ tab[t] # "closed" /\ tab' = [tab EXCEPT ![t] = "closed"]
  /\ Blank(t) /\ gone' = gone \ {t}
  /\ UNCHANGED <<list, entry, shows, polls>>

\* The page that location.assign() asked for replaces this one, with all it was doing.
Leaves(t) == tab[t] = "leaving" /\ Arrives(t) /\ UNCHANGED moves

-----------------------------------------------------------------------------
Fetch(t) == fetches' = [fetches EXCEPT ![t] = Append(@, Sent)]

\* applyEvent() of the control script and handle() of the event client.
Handle(t) ==
  /\ Connected(t) /\ inbox[t] # <<>>
  /\ inbox' = [inbox EXCEPT ![t] = Tail(@)]
  /\ LET e == Head(inbox[t]) IN
     \/ /\ e.type = "eval" /\ working' = [working EXCEPT ![t] = @ \cup {e.id}]
        /\ UNCHANGED <<tab, fetches>>
     \/ /\ e.type = "navigate" /\ tab' = [tab EXCEPT ![t] = "leaving"]
        /\ UNCHANGED <<working, fetches>>
     \/ /\ e.type = "changed" /\ Len(fetches[t]) < MaxFetches
        /\ Fetch(t)
        /\ UNCHANGED <<tab, working>>
  /\ UNCHANGED <<list, entry, shows, polls, asked, gone, moves>>

\* POST /ui/eval/result: the last page to answer is the one remembered.
Posted(r, ok) == entry' = [entry EXCEPT ![r] = IF ok THEN "ok" ELSE "error"]

\* The code ends, or throws, or the action is unknown.
Answer(t, r, ok) ==
  /\ r \in working[t] /\ working' = [working EXCEPT ![t] = @ \ {r}]
  /\ Posted(r, ok)
  /\ UNCHANGED <<list, tab, inbox, shows, polls, asked, fetches, gone, moves>>

-----------------------------------------------------------------------------
\* htmx, every ten seconds as long as its element is in the document and it has no
\* request under way.
PollAsks(t) ==
  /\ tab[t] # "closed" /\ polls[t] /\ asked[t] = Idle
  /\ asked' = [asked EXCEPT ![t] = Sent]
  /\ UNCHANGED <<list, entry, tab, inbox, working, shows, polls, fetches, gone, moves>>

\* replaceWith(): an element htmx never processes.
Refreshed(t) == polls' = [polls EXCEPT ![t] = FALSE]

\* Mutant of Render: the fragment is the one the page was served.
RenderCached(t) == shows[t]

\* A request with x-hyper-fragment gets the sidebar of this moment.
Render(t) == list

\* The server answers one of the requests.  Both ask for the page's own address, which
\* is nowhere once its agent is gone.
Response(t) == IF t \in gone THEN Missing ELSE Render(t)

Served(t) ==
  \/ /\ asked[t] = Sent /\ asked' = [asked EXCEPT ![t] = Response(t)]
     /\ UNCHANGED <<list, entry, tab, inbox, working, shows, polls, fetches, gone, moves>>
  \/ \E i \in DOMAIN fetches[t] :
       /\ fetches[t][i] = Sent /\ fetches' = [fetches EXCEPT ![t][i] = Response(t)]
       /\ UNCHANGED <<list, entry, tab, inbox, working, shows, polls, asked, gone, moves>>

\* The answer of a poll is dropped if its element was replaced meanwhile, or if it is no
\* success.
Swapped(t) == shows' = [shows EXCEPT ![t] = IF polls[t] /\ asked[t] # Missing THEN asked[t] ELSE @]

PollShows(t) ==
  /\ asked[t] \in Versions \cup {Missing} /\ asked' = [asked EXCEPT ![t] = Idle]
  /\ Swapped(t)
  /\ UNCHANGED <<list, entry, tab, inbox, working, polls, fetches, gone, moves>>

\* A refresh that arrives is shown, in whatever order they arrive; one that is no success
\* is not.
RefreshShows(t) ==
  /\ \E i \in DOMAIN fetches[t] :
       /\ fetches' = [fetches EXCEPT ![t] = RemoveAt(@, i)]
       /\ \/ /\ fetches[t][i] \in Versions
             /\ shows' = [shows EXCEPT ![t] = fetches[t][i]] /\ Refreshed(t)
          \/ /\ fetches[t][i] = Missing /\ UNCHANGED <<shows, polls>>
  /\ UNCHANGED <<list, entry, tab, inbox, working, asked, gone, moves>>

PageStep(t) ==
  \/ OpenPage(t) \/ Connect(t) \/ Breaks(t) \/ Close(t) \/ Leaves(t) \/ Handle(t)
  \/ \E r \in Requests, ok \in BOOLEAN : Answer(t, r, ok)
  \/ PollAsks(t) \/ Served(t) \/ PollShows(t) \/ RefreshShows(t)

BrowsersNext ==
  \/ \E r \in Requests : Ask(r)
  \/ SendElsewhere \/ AgentsChange \/ ListChanges
  \/ \E t \in Windows : PageStep(t)

\* Pages handle what they are sent, code ends, the server answers, timers fire.
BrowsersFairness ==
  \A t \in Windows :
    /\ WF_browserVars(Connect(t)) /\ WF_browserVars(Leaves(t)) /\ WF_browserVars(Handle(t))
    /\ \A r \in Requests : WF_browserVars(\E ok \in BOOLEAN : Answer(t, r, ok))
    /\ WF_browserVars(PollAsks(t)) /\ WF_browserVars(Served(t))
    /\ WF_browserVars(PollShows(t)) /\ WF_browserVars(RefreshShows(t))

-----------------------------------------------------------------------------
Holds(t, r) ==
  \/ r \in working[t]
  \/ \E i \in DOMAIN inbox[t] : inbox[t][i] = [type |-> "eval", id |-> r]

\* A request that reached a page is answered, unless the page or its stream goes.
AnswersArrive ==
  \A t \in Windows, r \in Requests :
    (entry[r] = "pending" /\ Holds(t, r)) ~> (entry[r] # "pending" \/ tab[t] # "live")

\* A page that stays, with the sidebar it came with, ends up with the server's list,
\* whatever changes without an event.  Not so a page whose own agent has been archived or
\* deleted from elsewhere: its address is not found any more, and its sidebar stays as it is.
SidebarFollows ==
  \A t \in Windows : <>[](tab[t] = "live" /\ polls[t] /\ t \notin gone) => <>[](shows[t] = list)

\* What the sidebar shows gets older only if a refresh was overtaken: a poll never
\* puts back what a refresh has replaced, nor an older answer of its own.
OnlyRefreshesOvertake ==
  [][\A t \in Windows : shows'[t] < shows[t] =>
       \E i \in DOMAIN fetches[t] : fetches[t][i] = shows'[t]]_browserVars

\* "The sidebar polls itself every 10 seconds": any page that stays ends up with the
\* server's list.
SidebarPolls ==
  \A t \in Windows : <>[](tab[t] = "live") => <>[](shows[t] = list)
=============================================================================
