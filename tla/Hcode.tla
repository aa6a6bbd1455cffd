-------------------------------- MODULE Hcode -------------------------------
(***************************************************************************)
(* The process an operator starts (script/hcode): a runtime with exactly   *)
(* one of the three ways to watch an agent, which are the browser pages,   *)
(* the line adapter and the full-screen adapter.  src/$main is an older    *)
(* way to start it with the pages.                                         *)
(***************************************************************************)
EXTENDS EventFeed, Terminal, Tui, Runtime

VARIABLES
  adapter,   \* which adapter this process runs
  asked      \* submissions made, for the bound (no program variable)

vars == <<adapter, asked, feedVars, turnVars, terminalVars, tuiVars, runtimeVars>>

\* What the environment says of the terminal: TERM, in classes, TERM_PROGRAM and
\* KITTY_WINDOW_ID, which a multiplexer inherits from the terminal around it.
Environments ==
  [term : {"unset", "dumb", "multiplexer", "kitty", "other"},
   program : {"unset", "wezterm", "ghostty", "other"}, windowId : BOOLEAN]

\* Only a terminal that reports Ctrl+Enter gets the full-screen adapter.
SupportsKittyKeyboard(env) ==
  /\ env.term \notin {"unset", "dumb", "multiplexer"}
  /\ env.windowId \/ env.term = "kitty" \/ env.program \in {"wezterm", "ghostty"}

AdapterFor(command, tty, env) ==
  CASE command = "main" -> "legacy"
    [] command = "serve" -> "pages"
    [] command = "chat" /\ tty /\ SupportsKittyKeyboard(env) -> "tui"
    [] OTHER -> "terminal"

Init ==
  /\ \E command \in {"main", "serve", "chat"}, tty \in BOOLEAN, env \in Environments :
       adapter = AdapterFor(command, tty, env)
  /\ asked = 0
  /\ FeedInit /\ LiveInit /\ TerminalInit /\ TuiInit /\ RuntimeInit

TypeOK ==
  /\ adapter \in {"pages", "legacy", "terminal", "tui"} /\ asked \in 0..MaxTurns
  /\ FeedTypeOK /\ LiveTypeOK /\ TerminalTypeOK /\ TuiTypeOK /\ RuntimeTypeOK

-----------------------------------------------------------------------------
Serves == adapter \in {"pages", "legacy"}

OnPages ==
  /\ Serves /\ stage = "up" /\ FeedNext
  /\ UNCHANGED <<adapter, asked, turnVars, terminalVars, tuiVars, runtimeVars>>

\* What goes with a step that publishes an event: a claim needs the worker's
\* loop, and with the full-screen adapter attached the event is handled before
\* the step ends.
Published(event) ==
  /\ stage # "exited"
  /\ event = "run_started" => stage = "up"
  /\ IF adapter = "tui" THEN OnEvent(event) ELSE UNCHANGED tuiVars
  /\ UNCHANGED <<adapter, asked, feedVars, terminalVars, runtimeVars>>

Agent == \E event \in LiveEvents : Progress(event) /\ Published(event)

WorkerFails == /\ stage = "up" /\ ~Serves
               /\ WorkerCrashes("none") /\ Published("none")

Types(Submit) == /\ stage = "up" /\ ~signalled
                 /\ asked < MaxTurns /\ Submit /\ asked' = asked + 1

OnTerminal ==
  /\ adapter = "terminal" /\ stage # "booting" /\ stage # "exited"
  /\ \/ Types(ReadLine)
     \/ stage = "up" /\ (Interrupt \/ Exit \/ Look \/ WaitOver) /\ UNCHANGED asked
     \/ SubmitDone /\ UNCHANGED asked
  /\ UNCHANGED <<adapter, feedVars, tuiVars, runtimeVars>>

OnTui ==
  /\ adapter = "tui" /\ stage # "booting" /\ stage # "exited"
  /\ \/ Types(OnSubmit)
     \/ stage = "up" /\ (OnInterrupt \/ RequestExit \/ Round \/ WaitEnds) /\ UNCHANGED asked
     \/ TurnSubmitted /\ UNCHANGED asked
  /\ UNCHANGED <<adapter, feedVars, terminalVars, runtimeVars>>

\* The adapter returned or threw, which a signal asks of it (Exit, RequestExit);
\* a signal of the boot skips it, and in serve mode there is only the signal.
Returned == \/ signalled
            \/ adapter = "terminal" /\ ~Here
            \/ adapter = "tui" /\ closed

OnRuntime ==
  /\ \/ RuntimeStep
     \/ Signal /\ (adapter = "pages" \/ (stage = "booting" /\ adapter # "legacy"))
     \/ RequestShutdown /\ adapter = "legacy"
     \/ Returned /\ ShutDown(Serves)
  /\ UNCHANGED <<adapter, asked, feedVars, terminalVars, tuiVars>>

Next == OnPages \/ Agent \/ WorkerFails \/ OnTerminal \/ OnTui \/ OnRuntime

Spec == Init /\ [][Next]_vars

-----------------------------------------------------------------------------
\* A page polls every 10 s and its requests are answered unless they keep
\* failing; promises are resolved, loops run, grace periods pass.  Of the agent
\* no progress is assumed but the end of an aborted run, whose signal reaches
\* the model request and the command it runs.
Aside == UNCHANGED <<adapter, asked>>
OnPage(Step(_), p) ==
  /\ Serves /\ stage = "up" /\ Step(p)
  /\ Aside /\ UNCHANGED <<turnVars, terminalVars, tuiVars, runtimeVars>>
LineStep == /\ adapter = "terminal" /\ stage = "up" /\ (SubmitDone \/ Look \/ WaitOver)
            /\ Aside /\ UNCHANGED <<feedVars, tuiVars, runtimeVars>>
ScreenStep == /\ adapter = "tui" /\ stage = "up" /\ (TurnSubmitted \/ Round \/ WaitEnds)
              /\ Aside /\ UNCHANGED <<feedVars, terminalVars, runtimeVars>>
Ends == \E event \in LiveEvents :
  /\ \/ run.aborted /\ RunBreaks(event)
     \/ run.aborted /\ run.left = 0 /\ RunCompletes(event)
     \/ ErrorStored(event) \/ Settles(event)
  /\ Published(event)
Lifecycle == /\ RuntimeStep \/ (Returned /\ ShutDown(Serves))
             /\ UNCHANGED <<adapter, asked, feedVars, terminalVars, tuiVars>>

Fairness ==
  /\ \A p \in Pages : /\ WF_vars(OnPage(Poll, p))
                       /\ SF_vars(OnPage(Serve, p)) /\ SF_vars(OnPage(Swap, p))
  /\ WF_vars(LineStep) /\ WF_vars(ScreenStep)
  /\ WF_vars(Ends) /\ WF_vars(Lifecycle)

FairSpec == Spec /\ Fairness

-----------------------------------------------------------------------------
AtPrompt == adapter = "terminal" /\ stage = "up" /\ phase = "prompt"
AtRest   == adapter = "tui" /\ stage = "up" /\ turn = "none" /\ ~closed

\* An adapter that waits for input waits beside an idle agent: no run works,
\* and none is due, behind the operator's back, however a Ctrl+C fell between
\* the submission, its scheduling, the claim and the end of the run.  All that
\* the turns left is on the screen by then, each event once and in order, and
\* nothing of the preview is (FT-009 INV-02).
AgentRests == row = "idle" /\ run.at = "none"
AllShown ==
  /\ IF AtPrompt THEN {written[i] : i \in DOMAIN written} = {i \in DOMAIN log : RenderEvent(i)}
                 ELSE Conversation.events = DOMAIN log
  /\ \A i, j \in DOMAIN written : i < j => written[i] < written[j]
  /\ Conversation.preview = {}
IdleMeansIdle == AtPrompt \/ AtRest => AgentRests /\ AllShown

\* The preview is of the call under way, until its events are stored; what
\* remains of an interrupted call says how it ended.
PreviewIsLive ==
  ~closed => \A shown \in Conversation.preview :
               \/ run.call = shown.call /\ InCall
               \/ shown.outcome # "none"

\* FT-009 design: a durable event "is authoritative and is never concatenated
\* with a live preview" of the same call.
NeverBoth ==
  \A i \in Conversation.events, shown \in Conversation.preview :
    shown.outcome = "none" => log[i] # shown.call

\* A stopped turn stays stopped: no run is claimed for it afterwards, not even
\* when the stop fell into submit(), which schedules the agent at its end.
StoppedStays ==
  [][(Busy /\ stopReq) \/ (turn # "none" /\ stopping) => run'.n = run.n]_vars

\* Ctrl+C brings the prompt back, or the adapter is gone.
StopReturns ==
  /\ (Busy /\ stopReq) ~> (~Busy \/ stage # "up")
  /\ (turn # "none" /\ stopping) ~> (turn = "none" \/ closed \/ stage # "up")

\* An event reaches every open page, whatever messages and later requests are
\* lost, but for a page whose very first fetch failed, and as long as nothing
\* is deleted from the transcript.
EventsArrive ==
  \A p \in Pages, e \in 1..MaxEvents :
    Missing(p, e) ~> (~Missing(p, e) \/ Dead(p) \/ edited \/ stage # "up")

\* session/deleteMessageAt: "The resulting idx gap is harmless": the same of a
\* transcript from which messages are deleted.
EventsArriveAfterEdits ==
  \A p \in Pages, e \in 1..MaxEvents :
    Missing(p, e) ~> (~Missing(p, e) \/ Dead(p) \/ stage # "up")

\* An exit that was asked for, by a signal at any moment of the boot or by the
\* adapter, ends the process, whatever a run or an open page still does.
ExitEnds == (signalled \/ Returned) ~> stage = "exited"

\* Nothing that a closed database would fail is left when the process ends in
\* the ordinary way, and no row is left claimed when it ends by force.
ExitIsClean ==
  stage = "exited" =>
    /\ row # "running"
    /\ forced \/ (run.at = "none" /\ posting = "none")
=============================================================================
