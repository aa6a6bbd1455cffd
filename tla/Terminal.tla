------------------------------ MODULE Terminal ------------------------------
(***************************************************************************)
(* cli/runTerminal: the line adapter.  It reads a line, submits it, and    *)
(* writes the durable events of the turn until the row is idle again.      *)
(***************************************************************************)
EXTENDS LiveTurns

VARIABLES
  phase,    \* where the loop over the lines is
  offset,   \* how many events the turn has read, those before it included
  written,  \* positions in the log of the events written out, in order
  stopReq   \* stopRequested

terminalVars == <<phase, offset, written, stopReq>>

Busy == phase \in {"submitting", "watching", "waiting"}

TerminalTypeOK ==
  /\ phase \in {"prompt", "submitting", "watching", "waiting", "left", "threw"}
  /\ offset \in Nat /\ written \in Seq(Nat \ {0})
  /\ stopReq \in BOOLEAN

TerminalInit == /\ phase = "prompt" /\ offset = 0 /\ written = <<>>
                /\ stopReq = FALSE

-----------------------------------------------------------------------------
\* A line that is not blank and not /exit: submit() is called.
ReadLine ==
  /\ phase = "prompt" /\ Submits
  /\ phase' = "submitting" /\ offset' = Len(log) /\ stopReq' = FALSE
  /\ UNCHANGED written

\* A submission left behind by an exit ends as well.
SubmitDone ==
  /\ Submitted
  /\ phase' = IF phase = "submitting" THEN "watching" ELSE phase
  /\ UNCHANGED <<offset, written, stopReq>>

\* renderEvent: what the operator typed is on the screen already.
RenderEvent(i) == log[i] # UserRow

\* The events from the offset on, in their order.
Rest(from) ==
  LET Until[n \in from .. Len(log)] ==
        IF n = from THEN <<>>
        ELSE IF RenderEvent(n) THEN Append(Until[n - 1], n) ELSE Until[n - 1]
  IN  Until[Len(log)]

\* Neither run_state nor next_run_at says otherwise.
Quiet == row = "idle"

\* One round of submitAndRender, which ends in a wait.
Look ==
  /\ phase = "watching"
  /\ IF crashed
     THEN phase' = "threw" /\ UNCHANGED <<offset, written>>
     ELSE /\ written' = written \o Rest(offset)
          /\ offset' = Len(log)
          /\ phase' = IF Quiet THEN "prompt" ELSE "waiting"
  /\ UNCHANGED <<stopReq, turnVars>>

\* waitForEvent: an event that is appended ends the wait, or 100 ms.
WaitOver == phase = "waiting" /\ phase' = "watching"
            /\ UNCHANGED <<offset, written, stopReq, turnVars>>

Here == phase \notin {"left", "threw"}

\* The exit signal wins the race with the turn, or ends the loop: at the next
\* microtask, so nothing else happens in between.
Leaves == phase' = "left" /\ UNCHANGED <<stopReq, turnVars>>

\* Ctrl+C: stops a busy turn once; otherwise it exits.
Interrupt ==
  /\ Here
  /\ IF Busy /\ ~stopReq THEN stopReq' = TRUE /\ Stopped /\ UNCHANGED phase
                        ELSE Leaves
  /\ UNCHANGED <<offset, written>>

\* SIGTERM, Ctrl+D, /exit.
Exit == Here /\ Leaves /\ UNCHANGED <<offset, written>>

=============================================================================
