------------------------------ MODULE Exchanges ------------------------------
(***************************************************************************)
(* What a run of an agent says to the model and makes of the answer: the    *)
(* operator's message, the request in one of three protocols, the answer    *)
(* that streams in line by line, its prose, calls and warnings stored as    *)
(* rows, and the next request.  The operator may speak at any time: a row   *)
(* is stored at once, and the messages the agent holds in memory follow     *)
(* when its event is rendered.  A message is [role, text], a text a         *)
(* sequence of lines.  Scheduling is AgentRuns, commands are Workspace;     *)
(* here the rows count.                                                     *)
(***************************************************************************)
EXTENDS Markers

CONSTANTS
  Vocabulary,  \* the lines a model writes
  Told,        \* the texts an operator sends: trimmed and not empty
  File,        \* the lines of the file that is read
  MaxLines,    \* bound: lines the model writes in a behaviour
  MaxAsks,     \* bound: model calls
  MaxTold      \* bound: messages of the operator

\* What a line is, once it is unescaped; the numbers of a read are numbers.
Unescaped == Vocabulary \cup {l.line : l \in {v \in Vocabulary : v.is = "escaped"}}

ASSUME ExchangeAssumption ==
  /\ \A l \in Unescaped : l.is = "pair" /\ l.key # "path" => l.value \in Int
  /\ \A l \in Vocabulary : l.is = "escaped" => l.line # Blank  \* it begins with `§'
  /\ \A text \in Told \cup {File} : text \in Seq(Range(text))
  /\ MaxLines \in Nat /\ MaxAsks \in Nat /\ MaxTold \in Nat

VARIABLES
  api,     \* the protocol of the agent's endpoint
  forked,  \* whether the agent has a parent
  rows,    \* the transcript
  cache,   \* agent.messages
  rendering, \* the rows whose submission awaits the rendering of its event
  phase,   \* "idle", "asking" while an answer streams, "read", "storing" what it holds
  reply,   \* the text so far
  before,  \* rows before this answer
  todo,    \* its calls that are not over, the first one possibly begun
  begun,   \* the first call's row is stored
  errors,  \* its warnings
  asks, lines, told  \* counts for the bounds

agentVars == <<api, forked>>
toldVars == <<rendering, told>>
exchangeVars == <<agentVars, rows, cache, toldVars, phase, reply, before, todo, begun, errors,
                  asks, lines>>

-----------------------------------------------------------------------------
\* Requests.
Said(role, text) == [role |-> role, text |-> text]
Layer(name) == <<Word(name)>>

\* Core and wire format, what the agent and the command line add, the run's context.
FullSystemPrompt(perAgent, paths) ==
  Layer("core") \o Layer("wire")
    \o (IF perAgent THEN Layer("per-agent") ELSE <<>>)
    \o (IF paths THEN Layer("paths") ELSE <<>>)
    \o Layer("runtime")

\* The prompt is the first thing the user says; the system field holds the header
\* that the claude-code subscription asks for, and nothing else.
BuildLlmRequest(messages, claude, prompt) ==
  [system   |-> IF claude THEN Layer("header") ELSE <<>>,
   messages |-> <<Said("user", prompt), Said("assistant", Layer("understood"))>> \o messages]

-----------------------------------------------------------------------------
IsBlank(text) == \A i \in DOMAIN text : text[i] = Blank

\* Mutant of ToAnthropic: neighbours of one role are left as they are.
ToAnthropicApart(messages) == Chosen(messages, {i \in DOMAIN messages : ~IsBlank(messages[i].text)})

\* Blank messages are dropped, and neighbours of one role become one block.
Joined(out, m) ==
  IF IsBlank(m.text) THEN out
  ELSE IF out # <<>> /\ Last(out).role = m.role
       THEN Append(Front(out), Said(m.role, Last(out).text \o <<Blank>> \o m.text))
       ELSE Append(out, m)

ToAnthropic(messages) ==
  LET Upto[n \in 0 .. Len(messages)] ==
        IF n = 0 THEN <<>> ELSE Joined(Upto[n - 1], messages[n])
  IN Upto[Len(messages)]

\* Only an assistant message without any text is dropped.
Empty(text) == text \in {<<>>, <<Blank>>}
ToCodex(messages) ==
  Chosen(messages, {i \in DOMAIN messages :
                      messages[i].role = "assistant" => ~Empty(messages[i].text)})

ToOpenAI(request) ==
  (IF request.system = <<>> THEN <<>> ELSE <<Said("system", request.system)>>)
    \o request.messages

\* The messages of the body that goes out.
Input(protocol, request) ==
  CASE protocol = "anthropic" -> ToAnthropic(request.messages)
    [] protocol = "responses" -> ToCodex(request.messages)
    [] OTHER -> ToOpenAI(request)

-----------------------------------------------------------------------------
ExchangesInit ==
  /\ api \in {"anthropic", "responses", "chat"} /\ forked \in BOOLEAN
  /\ rows = <<>> /\ cache = <<>> /\ rendering = {} /\ phase = "idle" /\ reply = <<>>
  /\ before = 0 /\ todo = <<>> /\ begun = FALSE /\ errors = <<>>
  /\ asks = 0 /\ lines = 0 /\ told = 0

\* Only an agent with a parent reads its rows for a request.
Prompt == FullSystemPrompt(FALSE, TRUE)
Base == IF forked THEN rows ELSE cache
Request == BuildLlmRequest(Base, api = "anthropic", Prompt)
Store(role, text) == rows' = Append(rows, Said(role, text))

\* Mutant of Synced: messages that were loaded once are left as they are.
SyncedOnce == cache' = IF cache = <<>> THEN rows' ELSE cache

\* syncAgentState(): the agent's messages are the rows of this moment.
Synced == cache' = rows'

-----------------------------------------------------------------------------
CallStarts ==
  /\ asks < MaxAsks /\ asks' = asks + 1
  /\ phase' = "asking" /\ reply' = <<>> /\ before' = Len(rows')

\* submit(): the row is stored at once, whatever the agent is doing.
Operator(text) ==
  /\ told < MaxTold /\ told' = told + 1
  /\ Store("user", text) /\ rendering' = rendering \cup {Len(rows')}
  /\ UNCHANGED <<agentVars, cache, phase, reply, before, todo, begun, errors, asks, lines>>

\* Its event is rendered: the agent's messages follow, and the agent is due.
Accepted(i) ==
  /\ i \in rendering /\ rendering' = rendering \ {i}
  /\ UNCHANGED rows /\ Synced
  /\ UNCHANGED <<agentVars, told, phase, reply, before, todo, begun, errors, asks, lines>>

\* A run: when there is one is AgentRuns, not before some message has come to the agent.
RunStarts ==
  /\ phase = "idle" /\ Base # <<>>
  /\ UNCHANGED <<rows, cache>> /\ CallStarts
  /\ UNCHANGED <<agentVars, toldVars, todo, begun, errors, lines>>

\* A delta of text; thinking and usage are of no consequence here.
Delta(line) ==
  /\ phase = "asking" /\ lines < MaxLines
  /\ reply' = Append(reply, line) /\ lines' = lines + 1
  /\ UNCHANGED <<agentVars, rows, cache, toldVars, phase, before, todo, begun, errors, asks>>

RunEnds ==
  /\ phase' = "idle" /\ reply' = <<>> /\ before' = 0
  /\ todo' = <<>> /\ begun' = FALSE /\ errors' = <<>>

\* What a reader makes of an event without text: the provider's last word, its end
\* mark, its report of a failure, and the end of the connection, early or not.  None
\* waits for the last word, and two of the three skip the failure as they skip the rest.
Signals == {"finish", "done", "failure", "closed"}
StreamOpenAI(signal) == IF signal \in {"done", "closed"} THEN "ends" ELSE "skips"
StreamAnthropic(signal) == IF signal = "closed" THEN "ends" ELSE "skips"
StreamCodex(signal) ==
  CASE signal = "closed" -> "ends" [] signal = "failure" -> "throws" [] OTHER -> "skips"
Stream(signal) ==
  CASE api = "anthropic" -> StreamAnthropic(signal)
    [] api = "responses" -> StreamCodex(signal)
    [] OTHER -> StreamOpenAI(signal)

\* Whatever text is there when the stream ends is the answer.
StreamEnds ==
  /\ phase = "asking" /\ \E signal \in Signals : Stream(signal) = "ends"
  /\ phase' = "read"
  /\ UNCHANGED <<agentVars, rows, cache, toldVars, reply, before, todo, begun, errors, asks, lines>>

\* A run that fails: the worker loop brings the messages up to date, a page that runs the
\* agent itself does not.
Fails ==
  /\ RunEnds /\ UNCHANGED rows
  /\ Synced \/ UNCHANGED cache
  /\ UNCHANGED <<agentVars, toldVars, asks, lines>>

StreamThrows ==
  /\ phase = "asking" /\ \E signal \in Signals : Stream(signal) = "throws"
  /\ Fails

\* No call and no warning: the text closes the run, unless it is blank.
Answers ==
  /\ phase = "read" /\ Calls(reply) = <<>> /\ Errors(reply) = <<>>
  /\ IF IsBlank(reply) THEN UNCHANGED <<rows, cache>> ELSE Store("assistant", reply) /\ Synced
  /\ RunEnds
  /\ UNCHANGED <<agentVars, toldVars, asks, lines>>

\* The prose before the calls is a row of its own.
Splits ==
  /\ phase = "read" /\ Calls(reply) \o Errors(reply) # <<>>
  /\ LET prose == Unescape(Prose(reply)) IN
       IF IsBlank(prose) THEN UNCHANGED <<rows, cache>> ELSE Store("assistant", prose) /\ Synced
  /\ phase' = "storing" /\ todo' = Calls(reply) /\ errors' = Errors(reply)
  /\ UNCHANGED <<agentVars, toldVars, reply, before, begun, asks, lines>>

\* executeMarker: the call's row, then what it does, then the row of its result.
Begins ==
  /\ phase = "storing" /\ todo # <<>> /\ ~begun
  /\ Store("assistant", Serialize(Head(todo))) /\ Synced
  /\ IF Head(todo).kind = "html" THEN todo' = Tail(todo) /\ UNCHANGED begun
     ELSE begun' = TRUE /\ UNCHANGED todo
  /\ UNCHANGED <<agentVars, toldVars, phase, reply, before, errors, asks, lines>>

Output(call, failed) ==
  IF failed THEN <<Word("failure")>>
  ELSE IF call.kind = "read" THEN Window(ReadRequest(call.body), File)
  ELSE <<Word("output")>>

\* A read whose body is not understood fails, and every call may.
Finishes(failed) ==
  /\ begun /\ begun' = FALSE
  /\ (Head(todo).kind = "read" /\ ~ReadRequest(Head(todo).body).ok) => failed
  /\ Store("user", ResultOf(Head(todo), failed, Output(Head(todo), failed))) /\ Synced
  /\ todo' = Tail(todo)
  /\ UNCHANGED <<agentVars, toldVars, phase, reply, before, errors, asks, lines>>

\* The warnings of an answer are one message.
Warns ==
  /\ phase = "storing" /\ todo = <<>> /\ errors # <<>>
  /\ Store("user", ErrorText(errors)) /\ Synced /\ errors' = <<>>
  /\ UNCHANGED <<agentVars, toldVars, phase, reply, before, todo, begun, asks, lines>>

AsksAgain ==
  /\ phase = "storing" /\ todo = <<>> /\ errors = <<>>
  /\ UNCHANGED <<rows, cache>> /\ CallStarts
  /\ UNCHANGED <<agentVars, toldVars, todo, begun, errors, lines>>

\* An abort or a provider's failure: the rows stay.
Stops == phase # "idle" /\ Fails

\* The process ends, and the agent is loaded by the next one; what awaited its rendering
\* stays in the transcript.
Restarts ==
  /\ rows # <<>> /\ RunEnds /\ rendering' = {}
  /\ UNCHANGED rows /\ Synced
  /\ UNCHANGED <<agentVars, told, asks, lines>>

ExchangesNext ==
  \/ (\E text \in Told : Operator(text)) \/ (\E i \in rendering : Accepted(i)) \/ RunStarts
  \/ \E line \in Vocabulary : Delta(line)
  \/ StreamEnds \/ StreamThrows \/ Answers \/ Splits \/ Begins \/ (\E failed \in BOOLEAN : Finishes(failed)) \/ Warns
  \/ AsksAgain \/ Stops \/ Restarts

-----------------------------------------------------------------------------
\* What toAnthropicMessages promises, whatever was stopped, dropped or answered with
\* nothing but blanks: roles alternate, the user begins, no block is blank.
RequestIsAccepted ==
  (phase = "asking" /\ reply = <<>> /\ api = "anthropic") =>
    LET sent == Input(api, Request) IN
    /\ sent # <<>> /\ sent[1].role = "user"
    /\ \A i \in DOMAIN sent : ~IsBlank(sent[i].text)
    /\ \A i \in 1 .. Len(sent) - 1 : sent[i].role # sent[i + 1].role

\* The lines that are said and who says them, in order.
By(m) == [j \in DOMAIN Filled(m.text) |-> <<m.role, Filled(m.text)[j]>>]
Lines(messages) ==
  LET Upto[n \in 0 .. Len(messages)] ==
        IF n = 0 THEN <<>> ELSE Upto[n - 1] \o By(messages[n])
  IN Upto[Len(messages)]

\* Whichever protocol carries it, the model is told the prompt and then everything that was
\* said, by whom and in order, and nothing else: all rows but the last ones, when these are
\* messages of the operator that still await their rendering.
SameConversation ==
  (phase = "asking" /\ reply = <<>>) =>
    LET sent == Input(api, Request)
        said == Chosen(sent, {i \in DOMAIN sent : sent[i].role # "system"})
    IN \E n \in 0 .. Len(rows) :
         /\ n + 1 .. Len(rows) \subseteq rendering
         /\ Lines(said) = Lines(<<Said("user", Prompt), Said("assistant", Layer("understood"))>>
                                \o SubSeq(rows, 1, n))

\* A stream that is cut is taken for the whole answer: what is run then is what the
\* whole answer would run, but for the end of its last call and the calls after it.
EarlierCallsStand ==
  [][phase = "asking" /\ phase' = "asking" /\ reply # reply' /\ reply' # <<>> =>
       LET now == Calls(reply)
           then == Calls(reply')
       IN /\ Len(now) <= Len(then)
          /\ \A i \in DOMAIN now :
               /\ now[i].kind = then[i].kind /\ now[i].arg = then[i].arg
               /\ IsPrefix(now[i].body, then[i].body)
               /\ i < Len(now) => now[i] = then[i]]_exchangeVars

\* A reader of the answer, line by line: prose goes out; a marker waits for a line of
\* its body; a lone `§' silences the rest of the body; a ragged one waits for text behind
\* it, unless it comes first.
Canonical(m) ==
  Mark(m.kind, CASE m.kind = "edit" -> "hashline"
                 [] m.kind \in {"read", "grep"} /\ m.arg # "hashline" -> ""
                 [] OTHER -> m.arg)
ReadLine(s, l) ==
  LET text == Unescape(<<l>>) IN
  IF l = Blank THEN [s EXCEPT !.first = FALSE]
  ELSE IF l.is = "mark"
    THEN [s EXCEPT !.mode = "body", !.held = <<Canonical(l)>>, !.first = TRUE]
  ELSE IF s.mode = "prose" THEN [s EXCEPT !.out = @ \o text]
  ELSE IF s.mode = "closed" THEN s
  ELSE IF l = Close THEN [s EXCEPT !.mode = "closed", !.held = <<>>]
  ELSE IF l = Ragged /\ ~s.first
    THEN IF s.held # <<>> /\ Last(s.held) = Ragged
         THEN [s EXCEPT !.out = @ \o s.held, !.held = text]
         ELSE [s EXCEPT !.held = @ \o text]
  ELSE [s EXCEPT !.out = @ \o s.held \o text, !.held = <<>>, !.first = FALSE]
Unread == [mode |-> "prose", held |-> <<>>, first |-> FALSE, out |-> <<>>]
Reader(text) ==
  LET Upto[n \in 0 .. Len(text)] ==
        IF n = 0 THEN Unread ELSE ReadLine(Upto[n - 1], text[n])
  IN Upto[Len(text)]
AsRead(text) == Reader(text).out

\* Once an answer is worked off, its own rows hold what such a reader reads: nothing the
\* model wrote is lost or run twice, but for what follows a closing mark.
StoredAsWritten ==
  (phase = "storing" /\ todo = <<>> /\ errors = <<>>) =>
    LET own == SubSeq(rows, before + 1, Len(rows))
        said == Chosen(own, {i \in DOMAIN own : own[i].role = "assistant"})
    IN Lines(said) = By(Said("assistant", AsRead(reply)))
=============================================================================
