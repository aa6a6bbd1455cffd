------------------------------ MODULE MCReading ------------------------------
(* What goes to a model and what comes back, for TLC: an agent's exchanges, with  *)
(* one marker of each sort of result and every sort of line, or a question asked  *)
(* outside of them.  They share no state: a behaviour is about one of them.       *)
EXTENDS Exchanges, OneOffCalls, TLC

VARIABLE subject

MCVocabulary ==
  {Mark("eval", ""), Mark("html", ""), Mark("read", "plain"), Close, Ragged, Stray, Blank,
   Escaped(Mark("eval", "")), Word("a"), Pair("path", "f"), Pair("maxLines", 0)}
MCTold == {<<Word("m")>>}
MCFile == <<Word("f1"), Word("f2")>>
MCLimits == {-1, 2}

allVars == <<subject, exchangeVars, oneOffVars>>

Init ==
  /\ subject \in {"exchanges", "questions"} /\ ExchangesInit /\ OneOffInit
  /\ forked => api = "chat"  \* bound: one protocol for an agent with a parent
  /\ IF subject = "exchanges"
       THEN endpoint = [api |-> "chat", key |-> "good"] /\ limit = 2 /\ size = 0
       ELSE api = "chat" /\ ~forked

\* Bound: the operator interrupts short answers.
Short == told' = 2 => lines' <= 2

Next ==
  \/ subject = "exchanges" /\ ExchangesNext /\ Short /\ UNCHANGED <<subject, oneOffVars>>
  \/ subject = "questions" /\ OneOffNext /\ UNCHANGED <<subject, exchangeVars>>

Spec == Init /\ [][Next]_allVars
=============================================================================
