----------------------------- MODULE LiveTurns ------------------------------
(***************************************************************************)
(* One agent as the terminal adapters see it: the run-state columns they   *)
(* poll, the durable events they render, and the live events agent.run     *)
(* publishes while it streams (docs: FT-009 design).  Scheduling itself is *)
(* the business of AgentRuns; here a submission makes the row due, the     *)
(* worker claims it, and the run ends one way or another.                  *)
(***************************************************************************)
EXTENDS Integers, Sequences

CONSTANTS
  MaxTurns,   \* bound: submissions by the operator
  MaxCalls,   \* bound: model calls of one run
  MaxPersist  \* bound: durable events one model call leaves

ASSUME TurnBounds == MaxTurns \in Nat /\ MaxCalls \in Nat /\ MaxPersist \in Nat

VARIABLES
  log,      \* the durable events: the call each belongs to, 0 for an error of the
            \* worker or of a stop, and UserRow for the message of the operator
  posting,  \* the submission under way: "none", "open", or its signal "aborted"
  row,      \* "idle", "due" (next_run_at set) or "running"
  run,      \* the live run: its number, call, and where it is
  crashed   \* ctx.state.workerLoopError is set

turnVars == <<log, posting, row, run, crashed>>

Calls == 0..(MaxTurns * MaxCalls)
UserRow == -1
NoRun == [n |-> 0, at |-> "none", call |-> 0, left |-> 0, aborted |-> FALSE]

LiveTypeOK ==
  /\ log \in Seq(Calls \cup {UserRow}) /\ posting \in {"none", "open", "aborted"}
  /\ row \in {"idle", "due", "running"}
  /\ run \in [n : 0..MaxTurns, call : Calls, left : 0..MaxPersist, aborted : BOOLEAN,
              at : {"none", "between", "streaming", "persisting", "completed",
                    "stopped", "failed"}]
  /\ crashed \in BOOLEAN

LiveInit ==
  log = <<>> /\ posting = "none" /\ row = "idle" /\ run = NoRun /\ crashed = FALSE

InCall == run.at \in {"streaming", "persisting"}
-----------------------------------------------------------------------------
\* agent.submit stores the message and renders its event.
Submits == /\ posting = "none" /\ posting' = "open"
           /\ UNCHANGED <<log, row, run, crashed>>

Scheduled == IF posting = "aborted" THEN row ELSE "due"
\* The end of agent.submit: the event is stored, and the agent is due unless
\* the adapter aborted the submission meanwhile.
Submitted ==
  /\ posting # "none" /\ posting' = "none"
  /\ log' = Append(log, UserRow)
  /\ row' = Scheduled
  /\ UNCHANGED <<run, crashed>>

\* Mutant of Stopped: publish idle under a live run.
StoppedAtOnce ==
  /\ posting' = IF posting = "open" THEN "aborted" ELSE posting
  /\ row' = "idle"
  /\ run' = [run EXCEPT !.aborted = run.at # "none"]
  /\ log' = Append(log, 0)
  /\ UNCHANGED crashed

\* An adapter stops its turn: it aborts the submission, and agent.stop with
\* clearQueue unschedules the agent, aborts a live run and says so.
Stopped ==
  /\ posting' = IF posting = "open" THEN "aborted" ELSE posting
  /\ row' = IF row = "due" THEN "idle" ELSE row
  /\ run' = [run EXCEPT !.aborted = run.at # "none"]
  /\ log' = Append(log, 0)
  /\ UNCHANGED crashed

-----------------------------------------------------------------------------
(* What the worker and the run do; "event" is what they publish. *)

Claim(event) ==
  /\ row = "due" /\ run.at = "none" /\ ~crashed
  /\ row' = "running"
  /\ run' = [NoRun EXCEPT !.n = (run.n + 1), !.at = "between", !.call = run.call]
  /\ event = "run_started"
  /\ UNCHANGED <<log, posting, crashed>>

CallStarts(event) ==
  /\ run.at = "between" /\ ~run.aborted /\ run.call < run.n * MaxCalls
  /\ run' = [run EXCEPT !.at = "streaming", !.call = @ + 1]
  /\ event = "model_call_started"
  /\ UNCHANGED <<log, posting, row, crashed>>

Delta(event) ==
  /\ run.at = "streaming"
  /\ event = "text_delta"
  /\ UNCHANGED turnVars

\* The stream ends; what it said is to be stored as up to MaxPersist events.
StreamEnds(event) ==
  /\ run.at = "streaming" /\ ~run.aborted
  /\ \E k \in 0..MaxPersist : run' = [run EXCEPT !.at = "persisting", !.left = k]
  /\ event = "none"
  /\ UNCHANGED <<log, posting, row, crashed>>

Persist(event) ==
  /\ run.at = "persisting" /\ run.left > 0
  /\ log' = Append(log, run.call)
  /\ run' = [run EXCEPT !.left = @ - 1]
  /\ event = "none"
  /\ UNCHANGED <<posting, row, crashed>>

\* A call with markers ends and the next one follows.
CallFinishes(event) ==
  /\ run.at = "persisting" /\ run.left = 0 /\ ~run.aborted
  /\ run' = [run EXCEPT !.at = "between"]
  /\ event = "model_call_finished"
  /\ UNCHANGED <<log, posting, row, crashed>>

\* A call without markers ends the run: both events, in one step.
RunCompletes(event) ==
  /\ run.at = "persisting" /\ run.left = 0
  /\ run' = [run EXCEPT !.at = "completed"]
  /\ event = "model_call_finished, run_finished"
  /\ UNCHANGED <<log, posting, row, crashed>>

\* An abort, or any error: reported at the next check.
RunBreaks(event) ==
  /\ run.at \in {"between", "streaming", "persisting"}
  /\ run' = [run EXCEPT !.at = IF run.aborted THEN "stopped" ELSE "failed"]
  /\ event = "run_finished"
  /\ UNCHANGED <<log, posting, row, crashed>>

\* runOne: the error becomes a durable event, then the claim is returned.
ErrorStored(event) ==
  /\ run.at = "failed"
  /\ log' = Append(log, 0)
  /\ run' = [run EXCEPT !.at = "stopped"]
  /\ event = "none"
  /\ UNCHANGED <<posting, row, crashed>>

Settles(event) ==
  /\ run.at \in {"completed", "stopped"}
  /\ row' = "idle"
  /\ run' = [run EXCEPT !.at = "none", !.aborted = FALSE, !.left = 0]
  /\ event = "none"
  /\ UNCHANGED <<log, posting, crashed>>

\* A claim throws; nobody claims any more, runs that live go on.
WorkerCrashes(event) ==
  /\ ~crashed /\ crashed' = TRUE
  /\ event = "none"
  /\ UNCHANGED <<log, posting, row, run>>

Progress(event) ==
  \/ Claim(event) \/ CallStarts(event) \/ Delta(event) \/ StreamEnds(event)
  \/ Persist(event) \/ CallFinishes(event) \/ RunCompletes(event)
  \/ RunBreaks(event) \/ ErrorStored(event) \/ Settles(event)

LiveEvents == {"none", "run_started", "model_call_started", "text_delta",
               "model_call_finished", "run_finished",
               "model_call_finished, run_finished"}
=============================================================================
