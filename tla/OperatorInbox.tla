---------------------------- MODULE OperatorInbox ----------------------------
(***************************************************************************)
(* What the scheduler promises about operator input, whatever columns and  *)
(* promises it is built from.  Each agent has a box of messages; at most   *)
(* one turn per agent is under way, it holds exactly the messages that     *)
(* were waiting when it began, and its end either acknowledges all it      *)
(* holds or gives all of it back.  Input that arrives meanwhile waits.     *)
(***************************************************************************)
EXTENDS Integers

CONSTANTS Agents, MaxIdx

VARIABLES
  status,  \* status[a][i]: where message i of agent a stands
  busy     \* busy[a]: a turn of agent a is under way

inbox == <<status, busy>>

Slots == 0 .. MaxIdx
Status == {"absent", "waiting", "held", "done"}

TypeOK ==
  /\ status \in [Agents -> [Slots -> Status]]
  /\ busy \in [Agents -> BOOLEAN]

\* Every message of agent a that is `from` becomes `to`.
Moved(a, from, to) ==
  [i \in Slots |-> IF status[a][i] = from THEN to ELSE status[a][i]]

Init ==
  /\ status = [a \in Agents |-> [i \in Slots |-> "absent"]]
  /\ busy = [a \in Agents |-> FALSE]

Arrive(a, i) ==
  /\ status[a][i] = "absent"
  /\ status' = [status EXCEPT ![a][i] = "waiting"]
  /\ UNCHANGED busy

Begin(a) ==
  /\ ~busy[a]
  /\ status' = [status EXCEPT ![a] = Moved(a, "waiting", "held")]
  /\ busy' = [busy EXCEPT ![a] = TRUE]

Acknowledge(a) ==
  /\ busy[a]
  /\ status' = [status EXCEPT ![a] = Moved(a, "held", "done")]
  /\ busy' = [busy EXCEPT ![a] = FALSE]

GiveBack(a) ==
  /\ busy[a]
  /\ status' = [status EXCEPT ![a] = Moved(a, "held", "waiting")]
  /\ busy' = [busy EXCEPT ![a] = FALSE]

\* The agent is deleted; a turn under way has nothing left to acknowledge.
Discard(a) ==
  /\ status' = [status EXCEPT ![a] = [i \in Slots |-> "absent"]]
  /\ UNCHANGED busy

\* The process goes away: every turn gives back what it held.
GiveBackAll ==
  /\ status' = [a \in Agents |-> Moved(a, "held", "waiting")]
  /\ busy' = [a \in Agents |-> FALSE]

Next ==
  \/ GiveBackAll
  \/ \E a \in Agents :
       \/ Begin(a) \/ Acknowledge(a) \/ GiveBack(a) \/ Discard(a)
       \/ \E i \in Slots : Arrive(a, i)

Spec == Init /\ [][Next]_inbox

=============================================================================
