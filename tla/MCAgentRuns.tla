---------------------------- MODULE MCAgentRuns ----------------------------
(* Instances of AgentRuns for TLC: agents, runs and submissions are            *)
(* interchangeable; a process that may die and is always started again.        *)
EXTENDS AgentRuns, TLC

Symmetry == Permutations(Agents) \cup Permutations(Runs) \cup Permutations(Subs)

RecoverySpec ==
  /\ Init /\ [][ServingNext \/ Crash \/ Restart]_vars
  /\ ServingFairness /\ WF_vars(Restart)

=============================================================================
