-------------------------------- MODULE Tui ---------------------------------
(***************************************************************************)
(* cli/runTui: the full-screen adapter.  It shows the durable events it    *)
(* has drained and, below them, a preview built from the live events       *)
(* (FT-009 design, "Reconciliation State Machine").                        *)
(***************************************************************************)
EXTENDS LiveTurns

VARIABLES
  turn,      \* startTurn: "none", or where its submission and loop are
  closed,    \* requestExit or failAdapter: the finally block follows at once
  stopping,
  drained,   \* durableOffset: how many of the events the transcript shows
  live,      \* the preview: the call it is of (0: empty), and its outcome
  current,   \* currentRunId and currentCallId
  status     \* the status line

tuiVars == <<turn, closed, stopping, drained, live, current, status>>

NoPreview == [call |-> 0, outcome |-> "none"]

TuiTypeOK ==
  /\ turn \in {"none", "submitting", "watching", "waiting"}
  /\ closed \in BOOLEAN /\ stopping \in BOOLEAN
  /\ drained \in Nat
  /\ live \in [call : Calls, outcome : {"none", "stopped", "failed"}]
  /\ current \in [run : 0..MaxTurns, call : Calls]
  /\ status \in {"idle", "running", "stopping"}

TuiInit ==
  /\ turn = "none" /\ closed = FALSE /\ stopping = FALSE
  /\ drained = 0 /\ live = NoPreview
  /\ current = [run |-> 0, call |-> 0] /\ status = "idle"

\* What the view draws: renderConversation puts the preview below the events.
Conversation == [events  |-> 1..drained,
                 preview |-> IF live.call = 0 THEN {} ELSE {live}]

-----------------------------------------------------------------------------
(* drainDurable, in a state whose log is "events". *)
Drained(events) == drained' = Len(events)

\* The callback of the subscription, run inside publishLive: "event" is what
\* agent.run publishes in this step, of the run and the call in run'.
PreviewEvent(event) ==
  CASE event = "run_started" ->
         /\ current' = [run |-> run'.n, call |-> 0] /\ live' = NoPreview
         /\ status' = "running" /\ UNCHANGED drained
    [] event = "model_call_started" ->
         /\ current' = [current EXCEPT !.call = run'.call] /\ live' = NoPreview
         /\ UNCHANGED <<status, drained>>
    [] event = "text_delta" ->
         /\ live' = IF current.call = run'.call THEN [live EXCEPT !.call = run'.call]
                                                ELSE live
         /\ UNCHANGED <<current, status, drained>>
    [] event = "model_call_finished" ->
         /\ IF current.call = run'.call
            THEN Drained(log') /\ live' = NoPreview /\ current' = [current EXCEPT !.call = 0]
            ELSE UNCHANGED <<drained, live, current>>
         /\ UNCHANGED status
    [] event = "model_call_finished, run_finished" ->
         /\ Drained(log') /\ live' = NoPreview
         /\ current' = [current EXCEPT !.call = 0] /\ UNCHANGED status
    [] event = "run_finished" ->
         /\ Drained(log') /\ live' = [live EXCEPT !.outcome = run'.at]
         /\ UNCHANGED <<current, status>>

OnEvent(event) ==
  /\ IF closed \/ event = "none" \/ (event # "run_started" /\ current.run # run'.n)
     THEN UNCHANGED <<drained, live, current, status>>
     ELSE PreviewEvent(event)
  /\ UNCHANGED <<turn, closed, stopping>>

-----------------------------------------------------------------------------
\* Ctrl+Enter on a text: startTurn until submit() awaits.
OnSubmit ==
  /\ turn = "none" /\ ~closed /\ Submits
  /\ turn' = "submitting" /\ stopping' = FALSE
  /\ live' = NoPreview /\ status' = "running"
  /\ UNCHANGED <<closed, drained, current>>

TurnSubmitted ==
  /\ Submitted
  /\ IF closed THEN UNCHANGED <<turn, drained>> ELSE turn' = "watching" /\ Drained(log')
  /\ UNCHANGED <<closed, stopping, live, current, status>>

\* One round of startTurn's loop: on with the wait, or the end of the turn and
\* its finally block.  A crashed worker then fails the adapter.
Round ==
  /\ turn = "watching" /\ ~closed
  /\ Drained(log)
  /\ IF crashed \/ row = "idle"
     THEN turn' = "none" /\ stopping' = FALSE /\ live' = NoPreview /\ status' = "idle"
     ELSE turn' = "waiting" /\ UNCHANGED <<stopping, live, status>>
  /\ closed' = crashed
  /\ UNCHANGED <<current, turnVars>>

\* waitForEvent: an event that is appended ends the wait, or 50 ms.
WaitEnds == turn = "waiting" /\ turn' = "watching"
            /\ UNCHANGED <<closed, stopping, drained, live, current, status, turnVars>>

\* Ctrl+C: stops a turn once, and exits only when none is active.
OnInterrupt ==
  /\ ~closed
  /\ \/ /\ turn = "none" /\ closed' = TRUE /\ UNCHANGED <<stopping, status, turnVars>>
     \/ /\ turn # "none" /\ ~stopping
        /\ stopping' = TRUE /\ Stopped /\ status' = "stopping" /\ UNCHANGED closed
  /\ UNCHANGED <<turn, drained, live, current>>

\* Ctrl+D on an empty composer, SIGTERM, or a rendering error (failAdapter).
RequestExit ==
  /\ ~closed /\ closed' = TRUE
  /\ UNCHANGED <<turn, stopping, drained, live, current, status, turnVars>>

=============================================================================
