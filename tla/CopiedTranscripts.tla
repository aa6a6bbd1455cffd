------------------------- MODULE CopiedTranscripts -------------------------
(***************************************************************************)
(* What a fork promises (memory-bank/domain/rules.md DR-05 and             *)
(* memory-bank/use-cases/UC-003, BR-01): the child starts with a copy of   *)
(* its parent's transcript, keeps that copy for good and continues it on   *)
(* its own; nothing one agent writes reaches the transcript of another.    *)
(***************************************************************************)
EXTENDS Integers, Sequences

CONSTANT Agents

VARIABLES
  known,    \* the agents there are
  history,  \* what each of them reads as its conversation
  base      \* how much of it was there when the agent was made

vars == <<known, history, base>>

Init ==
  /\ known = {}
  /\ history = [a \in Agents |-> <<>>]
  /\ base = [a \in Agents |-> 0]

\* A new agent, with nothing before it or with a copy of what p reads now.
Make(a, inherited) ==
  /\ a \notin known
  /\ known' = known \cup {a}
  /\ history' = [history EXCEPT ![a] = inherited]
  /\ base' = [base EXCEPT ![a] = Len(inherited)]

Start(a) == Make(a, <<>>)

Branch(p, a) == p \in known /\ Make(a, history[p])

\* a appends to, cuts or rewrites its own continuation, and only that.
Continue(a) ==
  /\ a \in known
  /\ Len(history'[a]) >= base[a]
  /\ \A i \in 1 .. base[a] : history'[a][i] = history[a][i]
  /\ history' = [history EXCEPT ![a] = history'[a]]
  /\ UNCHANGED <<known, base>>

Remove(a) ==
  /\ known' = known \ {a}
  /\ history' = [history EXCEPT ![a] = <<>>]
  /\ base' = [base EXCEPT ![a] = 0]

Next ==
  \E a \in Agents :
    \/ Start(a) \/ Continue(a) \/ Remove(a)
    \/ \E p \in Agents : Branch(p, a)

Spec == Init /\ [][Next]_vars

=============================================================================
