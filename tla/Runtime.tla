------------------------------ MODULE Runtime -------------------------------
(***************************************************************************)
(* runtime/start and script/hcode: the process boots, runs one adapter     *)
(* beside the worker, and shuts down.  AgentRuns has what a shutdown does  *)
(* to claims and schedules of many agents; here is when it starts, what it *)
(* waits for, and that it ends.                                            *)
(***************************************************************************)
EXTENDS LiveTurns

VARIABLES
  stage,     \* "booting", "up", "quiescing" (the server), "draining" or "exited"
  signalled, \* SIGINT or SIGTERM, where no adapter handles it
  forced     \* the grace period passed with work left

runtimeVars == <<stage, signalled, forced>>

RuntimeTypeOK ==
  /\ stage \in {"booting", "up", "quiescing", "draining", "exited"}
  /\ signalled \in BOOLEAN /\ forced \in BOOLEAN

RuntimeInit == stage = "booting" /\ signalled = FALSE /\ forced = FALSE

-----------------------------------------------------------------------------
\* The handlers are installed before the boot; the boot is not interrupted.
Signal ==
  /\ stage \in {"booting", "up"} /\ ~signalled
  /\ signalled' = TRUE
  /\ UNCHANGED <<stage, forced, turnVars>>

\* src/$main, the other way to start the server: its handler shuts down at once,
\* or remembers the signal until the boot has returned.
RequestShutdown ==
  /\ stage \in {"booting", "up"} /\ ~signalled
  /\ signalled' = TRUE
  /\ stage' = IF stage = "up" THEN "quiescing" ELSE stage
  /\ UNCHANGED <<forced, turnVars>>

\* startRuntime: the worker starts as the last step; a failure shuts down.
Boot ==
  /\ stage = "booting"
  /\ stage' \in {"up", "draining"}
  /\ UNCHANGED <<signalled, forced, turnVars>>

\* Abort every run in progress, then wait.
Aborted == run' = [run EXCEPT !.aborted = run.at # "none"]

\* main's finally: shutdown() with or without a server to stop first.
ShutDown(server) ==
  /\ stage = "up"
  /\ stage' = IF server THEN "quiescing" ELSE "draining"
  /\ IF server THEN UNCHANGED run ELSE Aborted
  /\ UNCHANGED <<signalled, forced, log, posting, row, crashed>>

\* server.stop() or, after the grace, server.stop(true): an open stream does
\* not keep it.
ServerStopped ==
  /\ stage = "quiescing"
  /\ stage' = "draining" /\ Aborted
  /\ UNCHANGED <<signalled, forced, log, posting, row, crashed>>

\* Mutant of Settled: the tracked submissions are forgotten.
SettledWorker == run.at = "none"

\* The worker, the tracked runs and the tracked submissions.
Settled == run.at = "none" /\ posting = "none"

\* All settled: the database is closed and the process ends.
Close ==
  /\ stage = "draining" /\ Settled
  /\ stage' = "exited"
  /\ UNCHANGED <<signalled, forced, turnVars>>

\* Mutant of ForcedEnd: only runs are given up on.
ForceRuns ==
  /\ stage = "draining" /\ ~SettledWorker
  /\ stage' = "exited" /\ forced' = TRUE
  /\ row' = IF row = "running" THEN "idle" ELSE row
  /\ UNCHANGED <<signalled, log, posting, run, crashed>>

\* They did not within the grace: claims are returned, and the process ends by
\* process.exit with code 125.
ForcedEnd ==
  /\ stage = "draining" /\ ~Settled
  /\ stage' = "exited" /\ forced' = TRUE
  /\ row' = IF row = "running" THEN "idle" ELSE row
  /\ UNCHANGED <<signalled, log, posting, run, crashed>>

RuntimeStep == Boot \/ ServerStopped \/ Close \/ ForcedEnd
=============================================================================
