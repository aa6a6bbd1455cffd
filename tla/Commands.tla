------------------------------ MODULE Commands -------------------------------
(***************************************************************************)
(* agent.executeBash: the command of a marker, its process group, and the  *)
(* abort that ends it: SIGTERM, and SIGKILL 250 ms later.                  *)
(***************************************************************************)
CONSTANT Escaping   \* bound: whether commands leave processes of another session

ASSUME EscapingAssumption == Escaping \in BOOLEAN

VARIABLE command    \* the command, what of it lives, and the kill timer

\* alive: who still holds the output pipes; obeys: whether SIGTERM ends them;
\* told: terminationStarted; term: a SIGTERM not delivered yet.
Quiet == [running |-> FALSE, alive |-> {}, obeys |-> FALSE, told |-> FALSE,
          term |-> FALSE, timer |-> FALSE]

Processes == {"shell", "child"} \cup (IF Escaping THEN {"escaped"} ELSE {})

CommandTypeOK ==
  command \in [running : BOOLEAN, alive : SUBSET Processes, obeys : BOOLEAN,
               told : BOOLEAN, term : BOOLEAN, timer : BOOLEAN]

CommandInit == command = Quiet

-----------------------------------------------------------------------------
\* Mutant of Told: no SIGKILL follows.
ToldOnlyTerm(c) == IF c.running /\ ~c.told THEN [c EXCEPT !.told = TRUE, !.term = TRUE] ELSE c

\* onAbort: once.
Told(c) == IF c.running /\ ~c.told
           THEN [c EXCEPT !.told = TRUE, !.term = TRUE, !.timer = TRUE] ELSE c

\* Spawned as the leader of a group; a timer that an earlier command left
\* behind would still run.
Spawn ==
  /\ ~command.running
  /\ \E alive \in SUBSET Processes, obeys \in BOOLEAN :
       /\ "shell" \in alive
       /\ command' = [Quiet EXCEPT !.running = TRUE, !.alive = alive, !.obeys = obeys,
                                   !.timer = command.timer]

\* A process ends by itself.
ProcessEnds ==
  \E p \in command.alive : command' = [command EXCEPT !.alive = @ \ {p}]

\* The group receives SIGTERM.
Terminated ==
  /\ command.term
  /\ command' = [command EXCEPT !.term = FALSE,
                   !.alive = IF command.obeys THEN @ \ {"shell", "child"} ELSE @]

\* The timer fires: SIGKILL to the group.
Killed ==
  /\ command.timer
  /\ command' = [command EXCEPT !.timer = FALSE, !.alive = @ \ {"shell", "child"}]

\* Mutant of Returned: the timer is not cleared.
ReturnedWithTimer == [Quiet EXCEPT !.timer = command.timer]

\* Both pipes are closed and the shell has exited: the finally block.
Returned == Quiet
CommandReturns ==
  /\ command.running /\ command.alive = {}
  /\ command' = Returned

-----------------------------------------------------------------------------
\* The kill timer never outlives its command: a SIGKILL that came later would
\* go to whatever then has that process group number.
KillsOnlyItsOwn == command.timer => command.running /\ command.told
=============================================================================
