--------------------------- MODULE AgentRunsProofs ---------------------------
(***************************************************************************)
(* Theorems about AgentRuns, for every set of agents, of concurrent runs   *)
(* and of submissions.  The order is: indices, typing, the facts that tie  *)
(* a run to the row and the controller of its agent, then the properties.  *)
(***************************************************************************)
EXTENDS AgentRuns, WellFoundedInduction, TLAPS

\* Every action of every specification of AgentRuns.
AnyNext == DurableNext \/ BypassNext

-----------------------------------------------------------------------------
(***************************************************************************)
(* Indices.                                                                *)
(***************************************************************************)

\* A nonempty set of naturals with an upper bound has a greatest element.
LEMMA GreatestOfBounded ==
  ASSUME NEW n \in Nat, NEW T, T \subseteq 0 .. n, T # {}
  PROVE  \E x \in T : \A y \in T : y <= x
<1> DEFINE Less == {ss \in Nat \X Nat : ss[1] < ss[2]}
           Mirror == {n - y : y \in T}
<1>1. IsWellFoundedOn(Less, Nat)
  BY NatLessThanWellFounded DEF OpToRel
<1>2. Mirror \subseteq Nat /\ Mirror # {}
  <2>1. PICK y \in T : TRUE
    OBVIOUS
  <2>2. n - y \in Mirror
    BY <2>1
  <2>3. \A z \in T : n - z \in Nat
    OBVIOUS
  <2> QED BY <2>2, <2>3
<1>3. PICK m \in Mirror : \A k \in Mirror : ~(<<k, m>> \in Less)
  <2> HIDE DEF Less, Mirror
  <2> QED BY <1>1, <1>2, WFMin
<1>4. PICK x \in T : m = n - x
  OBVIOUS
<1>5. ASSUME NEW y \in T PROVE y <= x
  <2>1. n - y \in Nat /\ m \in Nat /\ ~(<<n - y, m>> \in Less)
    BY <1>2, <1>3
  <2>2. ~(n - y < m)
    BY <2>1
  <2> QED BY <2>2, <1>4
<1> QED BY <1>5

\* MAX(idx) of any set of rows is -1 or the idx of a row that none exceeds.
LEMMA MaxIdxOfBounds ==
  ASSUME NEW rows \in SUBSET Message
  PROVE  /\ MaxIdxOf(rows) \in Idx
         /\ \A m \in rows : m.idx <= MaxIdxOf(rows)
         /\ rows # {} => \E m \in rows : m.idx = MaxIdxOf(rows)
<1>1. CASE rows = {}
  BY <1>1, ConstantsAssumption DEF MaxIdxOf, Idx
<1>2. CASE rows # {}
  <2> DEFINE T == {m.idx : m \in rows}
  <2>1. T \subseteq 0 .. MaxIdx /\ T # {}
    BY <1>2 DEF Message
  <2>2. PICK x \in T : \A y \in T : y <= x
    <3> HIDE DEF T
    <3> QED BY <2>1, GreatestOfBounded, ConstantsAssumption
  <2>3. \E m \in rows : \A n \in rows : n.idx <= m.idx
    BY <2>2
  <2> DEFINE top == CHOOSE m \in rows : \A n \in rows : n.idx <= m.idx
  <2>4. top \in rows /\ \A n \in rows : n.idx <= top.idx
    BY <2>3
  <2>5. MaxIdxOf(rows) = top.idx
    BY <1>2 DEF MaxIdxOf
  <2>6. top.idx \in Idx
    BY <2>4, ConstantsAssumption DEF Message, Idx
  <2> QED BY <2>4, <2>5, <2>6
<1> QED BY <1>1, <1>2

\* Consequences for the frontier of an agent and for the index of the next row.
LEMMA Indices ==
  ASSUME TypeOK, NEW a \in Agents
  PROVE  /\ Frontier(a) \in Idx
         /\ NextIdx(a) \in Nat
         /\ \A m \in msgs[a] : m.idx < NextIdx(a)
         /\ \A m \in msgs[a] : m.op => m.idx <= Frontier(a)
<1>1. msgs[a] \in SUBSET Message /\ Operator(msgs[a]) \in SUBSET Message
  BY DEF TypeOK, Operator
<1>2. /\ MaxIdxOf(msgs[a]) \in Idx
      /\ \A m \in msgs[a] : m.idx <= MaxIdxOf(msgs[a])
  BY <1>1, MaxIdxOfBounds
<1>3. /\ MaxIdxOf(Operator(msgs[a])) \in Idx
      /\ \A m \in Operator(msgs[a]) : m.idx <= MaxIdxOf(Operator(msgs[a]))
  BY <1>1, MaxIdxOfBounds
<1>4. \A m \in msgs[a] : m.idx \in Int
  BY <1>1 DEF Message
<1> QED BY <1>2, <1>3, <1>4, ConstantsAssumption DEF Frontier, NextIdx, Idx, Operator
-----------------------------------------------------------------------------
(***************************************************************************)
(* Typing.                                                                 *)
(***************************************************************************)

\* A live run belongs to an agent, a suspended submission to an agent and a row.
Owned ==
  /\ \A r \in Runs : Live(r) => run[r].agent \in Agents
  /\ \A s \in Subs : sub[s].st = "gap" => sub[s].agent \in Agents /\ sub[s].idx \in 0 .. MaxIdx

TypeInv == TypeOK /\ Owned

LEMMA TypeInit == Init => TypeInv
<1> SUFFICES ASSUME Init PROVE TypeInv
  OBVIOUS
<1>1. TypeOK
  BY ConstantsAssumption DEF Init, TypeOK, Idx, Message, Run, Submission, FreeRun, FreeSub
<1>2. Owned
  BY DEF Init, Owned, Live, FreeRun, FreeSub
<1> QED BY <1>1, <1>2 DEF TypeInv

LEMMA RowTyped ==
  ASSUME NEW i \in 0 .. MaxIdx, NEW op \in BOOLEAN, NEW fate \in Fates
  PROVE  Row(i, op, fate) \in Message
BY DEF Row, Message

LEMMA NewRunTyped ==
  ASSUME NEW a \in Agents, NEW kind \in {"worker", "direct"}, NEW f \in Idx
  PROVE  NewRun(a, kind, f) \in Run /\ NewRun(a, kind, f).agent = a
BY DEF NewRun, Run

LEMMA SubmitBeginTyped ==
  ASSUME TypeInv, NEW s \in Subs, NEW a \in Agents, NEW at \in {"due", "later"},
         NEW t \in BOOLEAN, SubmitBegin(s, a, at, t)
  PROVE  TypeInv'
<1>1. NextIdx(a) \in 0 .. MaxIdx
  BY Indices, ConstantsAssumption DEF TypeInv, SubmitBegin
<1>2. Row(NextIdx(a), TRUE, "open") \in Message
  BY <1>1, RowTyped DEF Fates
<1>3. TypeOK'
  <2>1. msgs' \in [Agents -> SUBSET Message]
    BY <1>2 DEF TypeInv, TypeOK, SubmitBegin
  <2>2. sub' \in [Subs -> Submission]
    BY <1>1, ConstantsAssumption DEF TypeInv, TypeOK, SubmitBegin, Submission, Idx
  <2> QED BY <2>1, <2>2 DEF TypeInv, TypeOK, SubmitBegin
<1>4. Owned'
  BY <1>1 DEF TypeInv, TypeOK, Owned, Live, SubmitBegin
<1> QED BY <1>3, <1>4 DEF TypeInv

LEMMA SubmitEndTyped ==
  ASSUME TypeInv, NEW s \in Subs, SubmitEnd(s)
  PROVE  TypeInv'
<1>1. TypeOK'
  <2>1. nextRun' \in [Agents -> {"none", "due", "later"}]
    BY DEF TypeInv, TypeOK, SubmitEnd, Latest
  <2>2. msgs' \in [Agents -> SUBSET Message]
    <3> DEFINE a == sub[s].agent
               Withdrawn(m) == IF m.idx = sub[s].idx /\ m.fate = "open"
                               THEN [m EXCEPT !.fate = "returned"] ELSE m
               rows == {Withdrawn(m) : m \in msgs[a]}
    <3>1. a \in Agents /\ msgs[a] \in SUBSET Message
      BY DEF TypeInv, TypeOK, Owned, SubmitEnd
    <3>2. \A m \in Message : Withdrawn(m) \in Message
      BY DEF Message, Fates
    <3>3. rows \in SUBSET Message
      BY <3>1, <3>2
    <3>4. msgs' = msgs \/ msgs' = [msgs EXCEPT ![a] = rows]
      BY DEF SubmitEnd
    <3> QED BY <3>3, <3>4 DEF TypeInv, TypeOK
  <2>3. sub' \in [Subs -> Submission]
    BY ConstantsAssumption DEF TypeInv, TypeOK, SubmitEnd, Submission, FreeSub, Idx
  <2> QED BY <2>1, <2>2, <2>3 DEF TypeInv, TypeOK, SubmitEnd, cacheVars
<1>2. Owned'
  BY DEF TypeInv, TypeOK, Owned, Live, SubmitEnd, FreeSub
<1> QED BY <1>1, <1>2 DEF TypeInv

LEMMA ClaimTyped ==
  ASSUME TypeInv, NEW r \in Runs, NEW a \in Agents, Claim(r, a)
  PROVE  TypeInv'
<1>1. NewRun(a, "worker", Frontier(a)) \in Run
  BY NewRunTyped, Indices DEF TypeInv
<1>2. NewRun(a, "worker", Frontier(a)).agent = a
  BY NewRunTyped, Indices DEF TypeInv
<1>3. WithFate(msgs[a], {"open", "returned"}, "taken") \in SUBSET Message
  BY DEF TypeInv, TypeOK, WithFate, Message, Fates
<1>4. TypeOK'
  BY <1>1, <1>3 DEF TypeInv, TypeOK, Claim
<1>5. Owned'
  BY <1>2 DEF TypeInv, TypeOK, Owned, Live, Claim
<1> QED BY <1>4, <1>5 DEF TypeInv

LEMMA RunAppendTyped ==
  ASSUME TypeInv, NEW r \in Runs, RunAppend(r)
  PROVE  TypeInv'
<1>1. run[r].agent \in Agents
  BY DEF TypeInv, Owned, Live, RunAppend
<1>2. Row(NextIdx(run[r].agent), FALSE, "none") \in Message
  <2>1. NextIdx(run[r].agent) \in 0 .. MaxIdx
    BY <1>1, Indices, ConstantsAssumption DEF TypeInv, RunAppend
  <2> QED BY <2>1, RowTyped DEF Fates
<1> QED BY <1>1, <1>2 DEF TypeInv, TypeOK, Owned, Live, RunAppend, cacheVars

LEMMA RunCloseTyped ==
  ASSUME TypeInv, NEW r \in Runs, RunClose(r)
  PROVE  TypeInv'
<1>1. run[r].agent \in Agents
  BY DEF TypeInv, Owned, Live, RunClose
<1>2. Row(NextIdx(run[r].agent), FALSE, "none") \in Message
  <2>1. NextIdx(run[r].agent) \in 0 .. MaxIdx
    BY <1>1, Indices, ConstantsAssumption DEF TypeInv, RunClose
  <2> QED BY <2>1, RowTyped DEF Fates
<1>3. run' \in [Runs -> Run]
  BY DEF TypeInv, TypeOK, RunClose, Run
<1>4. TypeOK'
  BY <1>1, <1>2, <1>3 DEF TypeInv, TypeOK, RunClose, cacheVars
<1>5. Owned'
  BY DEF TypeInv, TypeOK, Owned, Live, RunClose, Run
<1> QED BY <1>4, <1>5 DEF TypeInv

LEMMA RunSettleTyped ==
  ASSUME TypeInv, NEW r \in Runs, NEW o \in {"ok", "error", "abort"}, RunSettle(r, o)
  PROVE  TypeInv'
<1>1. run' \in [Runs -> Run]
  <2> DEFINE out == IF o = "error" /\ phase # "up" THEN "abort" ELSE o
  <2>1. [run[r] EXCEPT !.st = "settled", !.outcome = out] \in Run
    <3>1. out \in {"ok", "error", "abort"} /\ run[r] \in Run
      BY DEF TypeInv, TypeOK
    <3> HIDE DEF out
    <3> QED BY <3>1 DEF Run
  <2>2. run' = [run EXCEPT ![r] = [run[r] EXCEPT !.st = "settled", !.outcome = out]]
    BY DEF TypeInv, TypeOK, RunSettle
  <2> QED BY <2>1, <2>2 DEF TypeInv, TypeOK
<1>2. TypeOK'
  BY <1>1 DEF TypeInv, TypeOK, RunSettle, rowVars, cacheVars
<1>3. Owned'
  BY DEF TypeInv, TypeOK, Owned, Live, RunSettle, Run
<1> QED BY <1>2, <1>3 DEF TypeInv

\* The history update of finally stays within the fates.
LEMMA FateTyped ==
  ASSUME TypeInv, NEW q \in Run, NEW m \in Message
  PROVE  [m EXCEPT !.fate = FateAfter(q, m)] \in Message
<1>1. FateAfter(q, m) \in Fates
  BY DEF FateAfter, Message, Fates
<1> QED BY <1>1 DEF Message

LEMMA RunFinallyTyped ==
  ASSUME TypeInv, NEW r \in Runs, RunFinally(r)
  PROVE  TypeInv'
<1> DEFINE q == run[r]
           a == run[r].agent
           rows == {[m EXCEPT !.fate = FateAfter(q, m)] : m \in msgs[a]}
<1>1. a \in Agents /\ q \in Run
  BY DEF TypeInv, TypeOK, Owned, Live, RunFinally
<1>2. rows \in SUBSET Message
  BY <1>1, FateTyped DEF TypeInv, TypeOK
<1>3. msgs' \in [Agents -> SUBSET Message]
  BY <1>2 DEF TypeInv, TypeOK, RunFinally
<1>4. cursor' \in [Agents -> Idx]
  <2>1. CursorAfter(q) \in Idx
    BY <1>1 DEF TypeInv, TypeOK, CursorAfter, Run
  <2> QED BY <2>1 DEF TypeInv, TypeOK, RunFinally
<1>5. nextRun' \in [Agents -> {"none", "due", "later"}]
  <2>1. NextRunAfter(q) \in {"none", "due", "later"}
    BY <1>1 DEF TypeInv, TypeOK, NextRunAfter
  <2> QED BY <2>1 DEF TypeInv, TypeOK, RunFinally
<1>6. /\ runState' \in [Agents -> {"idle", "running"}]
      /\ ctl' \in [Agents -> Runs \cup {NoRun, OldRun}]
      /\ streaming' \in [Agents -> BOOLEAN]
  BY DEF TypeInv, TypeOK, RunFinally
<1>7. run' \in [Runs -> Run]
  BY ConstantsAssumption DEF TypeInv, TypeOK, RunFinally, Run, FreeRun, Idx
<1>8. TypeOK'
  BY <1>3, <1>4, <1>5, <1>6, <1>7 DEF TypeInv, TypeOK, RunFinally
<1>9. Owned'
  BY DEF TypeInv, TypeOK, Owned, Live, RunFinally, FreeRun
<1> QED BY <1>8, <1>9 DEF TypeInv

\* An abort keeps a run a run and, for the rest, what it was.
LEMMA MarkedTyped ==
  ASSUME NEW q \in Run, NEW by \in {"none", "operator", "shutdown"}
  PROVE  /\ [q EXCEPT !.aborted = TRUE, !.by = by] \in Run
         /\ [q EXCEPT !.aborted = TRUE, !.by = by].agent = q.agent
         /\ [q EXCEPT !.aborted = TRUE, !.by = by].st = q.st
         /\ [q EXCEPT !.aborted = TRUE, !.by = by].kind = q.kind
         /\ [q EXCEPT !.aborted = TRUE, !.by = by].detached = q.detached
         /\ [q EXCEPT !.aborted = TRUE, !.by = by].frontier = q.frontier
BY DEF Run

LEMMA AbortedTyped ==
  ASSUME TypeInv, NEW c \in Runs \cup {NoRun, OldRun}
  PROVE  /\ Aborted(c, "operator") \in [Runs -> Run]
         /\ \A r \in Runs : LET p == Aborted(c, "operator")[r] IN
              /\ p.agent = run[r].agent /\ p.st = run[r].st /\ p.kind = run[r].kind
              /\ p.detached = run[r].detached
<1>1. CASE c \in Runs
  <2>1. [run[c] EXCEPT !.aborted = TRUE, !.by = "operator"] \in Run
    BY <1>1, MarkedTyped DEF TypeInv, TypeOK
  <2>2. Aborted(c, "operator") =
          [run EXCEPT ![c] = [run[c] EXCEPT !.aborted = TRUE, !.by = "operator"]]
    BY <1>1 DEF TypeInv, TypeOK, Aborted
  <2>3. Aborted(c, "operator") \in [Runs -> Run]
    BY <2>1, <2>2 DEF TypeInv, TypeOK
  <2>4. LET p == [run[c] EXCEPT !.aborted = TRUE, !.by = "operator"] IN
          /\ p.agent = run[c].agent /\ p.st = run[c].st /\ p.kind = run[c].kind
          /\ p.detached = run[c].detached
    BY <1>1 DEF TypeInv, TypeOK, Run
  <2>5. /\ Aborted(c, "operator")[c] = [run[c] EXCEPT !.aborted = TRUE, !.by = "operator"]
        /\ \A r \in Runs : r # c => Aborted(c, "operator")[r] = run[r]
    BY <1>1, <2>2 DEF TypeInv, TypeOK
  <2> QED BY <2>3, <2>4, <2>5
<1>2. CASE c \notin Runs
  BY <1>2 DEF TypeInv, TypeOK, Aborted
<1> QED BY <1>1, <1>2

LEMMA StopTyped ==
  ASSUME TypeInv, NEW a \in Agents, NEW c \in BOOLEAN, NEW t \in BOOLEAN, Stop(a, c, t)
  PROVE  TypeInv'
<1>1. /\ run' \in [Runs -> Run]
      /\ \A r \in Runs : run'[r].agent = run[r].agent /\ run'[r].st = run[r].st
  <2>1. ctl[a] \in Runs \cup {NoRun, OldRun} /\ run' = Aborted(ctl[a], "operator")
    BY DEF TypeInv, TypeOK, Stop
  <2> QED BY <2>1, AbortedTyped
<1>2. runState' \in [Agents -> {"idle", "running"}]
  BY DEF TypeInv, TypeOK, Stop, StoppedState
<1>3. nextRun' \in [Agents -> {"none", "due", "later"}]
  BY DEF TypeInv, TypeOK, Stop
<1>4. sub' \in [Subs -> Submission]
      /\ \A s \in Subs : sub'[s].agent = sub[s].agent /\ sub'[s].st = sub[s].st
                         /\ sub'[s].idx = sub[s].idx
  <2>1. \A q \in Submission : LET p == [q EXCEPT !.cancelled = TRUE] IN
          p \in Submission /\ p.agent = q.agent /\ p.st = q.st /\ p.idx = q.idx
    BY DEF Submission
  <2> QED BY <2>1 DEF TypeInv, TypeOK, Stop, CancelTerminal
<1>5. msgs' \in [Agents -> SUBSET Message]
  <2> DEFINE Withdrawn(m) == IF m.fate = "open" /\ ~InGap(a, m.idx)
                             THEN [m EXCEPT !.fate = "returned"] ELSE m
             rows == {Withdrawn(m) : m \in msgs[a]}
  <2>1. \A m \in Message : Withdrawn(m) \in Message
    BY DEF Message, Fates
  <2>2. rows \in SUBSET Message
    BY <2>1 DEF TypeInv, TypeOK
  <2>3. msgs' = msgs \/ msgs' = [msgs EXCEPT ![a] = rows]
    BY DEF Stop
  <2> QED BY <2>2, <2>3 DEF TypeInv, TypeOK
<1>6. cleared' \subseteq Agents
  BY DEF TypeInv, TypeOK, Stop
<1>7. TypeOK'
  BY <1>1, <1>2, <1>3, <1>4, <1>5, <1>6 DEF TypeInv, TypeOK, Stop, cacheVars
<1>8. Owned'
  BY <1>1, <1>4 DEF TypeInv, Owned, Live
<1> QED BY <1>7, <1>8 DEF TypeInv

\* Marking runs detached changes nothing else about them.
LEMMA DetachedTyped ==
  ASSUME TypeInv, NEW a \in Agents
  PROVE  /\ Detached(a) \in [Runs -> Run]
         /\ \A r \in Runs : /\ Detached(a)[r].agent = run[r].agent
                            /\ Detached(a)[r].st = run[r].st
                            /\ Detached(a)[r].kind = run[r].kind
                            /\ run[r].agent # a => Detached(a)[r] = run[r]
<1>1. \A q \in Run : LET p == [q EXCEPT !.detached = TRUE] IN
        p \in Run /\ p.agent = q.agent /\ p.st = q.st /\ p.kind = q.kind
  BY DEF Run
<1> QED BY <1>1 DEF TypeInv, TypeOK, Detached, RunsOf

LEMMA ArchiveTyped ==
  ASSUME TypeInv, NEW a \in Agents, Archive(a)
  PROVE  TypeInv'
<1>1. TypeOK'
  BY DetachedTyped DEF TypeInv, TypeOK, Archive
<1>2. Owned'
  BY DetachedTyped DEF TypeInv, TypeOK, Owned, Live, Archive
<1> QED BY <1>1, <1>2 DEF TypeInv

LEMMA DeleteAgentTyped ==
  ASSUME TypeInv, NEW a \in Agents, DeleteAgent(a)
  PROVE  TypeInv'
<1>1. TypeOK'
  BY DetachedTyped, ConstantsAssumption DEF TypeInv, TypeOK, DeleteAgent, Idx
<1>2. Owned'
  BY DetachedTyped DEF TypeInv, TypeOK, Owned, Live, DeleteAgent
<1> QED BY <1>1, <1>2 DEF TypeInv

LEMMA DeleteMessageTyped ==
  ASSUME TypeInv, NEW a \in Agents, NEW m \in msgs[a], NEW fromHere \in BOOLEAN,
         DeleteMessage(a, m, fromHere)
  PROVE  TypeInv'
<1>1. TypeOK'
  BY DEF TypeInv, TypeOK, DeleteMessage, cacheVars
<1>2. Owned'
  BY DEF TypeInv, TypeOK, Owned, Live, DeleteMessage
<1> QED BY <1>1, <1>2 DEF TypeInv

LEMMA ResetAgentTyped ==
  ASSUME TypeInv, NEW a \in Agents, ResetAgent(a)
  PROVE  /\ TypeInv'
         /\ \A r \in Runs : /\ run'[r].agent = run[r].agent /\ run'[r].st = run[r].st
                            /\ run'[r].kind = run[r].kind
<1>1. /\ run' \in [Runs -> Run]
      /\ \A r \in Runs : run'[r].agent = run[r].agent /\ run'[r].st = run[r].st /\ run'[r].kind = run[r].kind
  <2>1. \A r \in Runs : run[r] \in Run
    BY DEF TypeInv, TypeOK
  <2>2. \A r \in Runs : /\ run'[r] \in Run
                        /\ run'[r].agent = run[r].agent /\ run'[r].st = run[r].st /\ run'[r].kind = run[r].kind
    <3> SUFFICES ASSUME NEW r \in Runs
                 PROVE  /\ run'[r] \in Run
                        /\ run'[r].agent = run[r].agent /\ run'[r].st = run[r].st /\ run'[r].kind = run[r].kind
      OBVIOUS
    <3> DEFINE ab == run[r].aborted \/ (cached[a] /\ ctl[a] = r)
               by == IF cached[a] /\ ctl[a] = r THEN "operator" ELSE run[r].by
    <3>1. ab \in BOOLEAN /\ by \in {"none", "operator", "shutdown"}
      BY <2>1 DEF Run
    <3>2. run'[r] = run[r] \/ run'[r] = [run[r] EXCEPT !.detached = TRUE, !.aborted = ab, !.by = by]
      BY Zenon DEF ResetAgent
    <3> HIDE DEF ab, by
    <3>3. LET p == [run[r] EXCEPT !.detached = TRUE, !.aborted = ab, !.by = by] IN
          p \in Run /\ p.agent = run[r].agent /\ p.st = run[r].st /\ p.kind = run[r].kind
      BY <2>1, <3>1 DEF Run
    <3> QED BY <2>1, <3>2, <3>3
  <2> QED BY <2>2 DEF ResetAgent
<1>2. TypeOK'
  BY <1>1 DEF TypeInv, TypeOK, ResetAgent, rowVars
<1>3. Owned'
  BY <1>1 DEF TypeInv, Owned, Live, ResetAgent
<1> QED BY <1>1, <1>2, <1>3 DEF TypeInv

LEMMA DirectRunTyped ==
  ASSUME TypeInv, NEW r \in Runs, NEW a \in Agents, DirectRun(r, a)
  PROVE  TypeInv'
<1>1. NextIdx(a) \in 0 .. MaxIdx /\ NextIdx(a) \in Idx
  BY Indices, ConstantsAssumption DEF TypeInv, DirectRun, Idx
<1>2. Row(NextIdx(a), TRUE, "taken") \in Message
  BY <1>1, RowTyped DEF Fates
<1>3. NewRun(a, "direct", NextIdx(a)) \in Run /\ NewRun(a, "direct", NextIdx(a)).agent = a
  BY <1>1, NewRunTyped
<1>4. TypeOK'
  BY <1>2, <1>3 DEF TypeInv, TypeOK, DirectRun
<1>5. Owned'
  BY <1>3 DEF TypeInv, TypeOK, Owned, Live, DirectRun
<1> QED BY <1>4, <1>5 DEF TypeInv

LEMMA DirectFinallyTyped ==
  ASSUME TypeInv, NEW r \in Runs, DirectFinally(r)
  PROVE  TypeInv'
<1>1. msgs' \in [Agents -> SUBSET Message]
  <2> DEFINE q == run[r]
             Ended(m) == IF m.idx = q.frontier /\ m.fate = "taken"
                         THEN [m EXCEPT !.fate = IF q.outcome = "ok" THEN "acked"
                                                 ELSE "returned"]
                         ELSE m
             rows == {Ended(m) : m \in msgs[q.agent]}
  <2>1. \A m \in Message : Ended(m) \in Message
    BY DEF Message, Fates
  <2>2. q.agent \in Agents
    BY DEF TypeInv, Owned, Live, DirectFinally
  <2>3. rows \in SUBSET Message
    BY <2>1, <2>2 DEF TypeInv, TypeOK
  <2>4. msgs' = [msgs EXCEPT ![q.agent] = rows]
    BY DEF DirectFinally
  <2> QED BY <2>3, <2>4 DEF TypeInv, TypeOK
<1>2. run' \in [Runs -> Run]
  BY ConstantsAssumption DEF TypeInv, TypeOK, DirectFinally, Run, FreeRun, Idx
<1>3. streaming' \in [Agents -> BOOLEAN] /\ ctl' \in [Agents -> Runs \cup {NoRun, OldRun}]
  BY DEF TypeInv, TypeOK, DirectFinally
<1>4. TypeOK'
  BY <1>1, <1>2, <1>3 DEF TypeInv, TypeOK, DirectFinally
<1>5. Owned'
  BY DEF TypeInv, TypeOK, Owned, Live, DirectFinally, FreeRun
<1> QED BY <1>4, <1>5 DEF TypeInv

LEMMA ShutdownAbortTyped ==
  ASSUME TypeInv, ShutdownAbort
  PROVE  /\ TypeInv'
         /\ \A r \in Runs : /\ run'[r].agent = run[r].agent /\ run'[r].st = run[r].st
                            /\ run'[r].kind = run[r].kind
                            /\ run'[r].detached = run[r].detached
                            /\ run'[r].frontier = run[r].frontier
<1>1. \A r \in Runs : /\ run'[r] \in Run
                      /\ run'[r].agent = run[r].agent /\ run'[r].st = run[r].st
                      /\ run'[r].kind = run[r].kind /\ run'[r].detached = run[r].detached
                      /\ run'[r].frontier = run[r].frontier
  <2> SUFFICES ASSUME NEW r \in Runs
               PROVE  /\ run'[r] \in Run
                      /\ run'[r].agent = run[r].agent /\ run'[r].st = run[r].st
                      /\ run'[r].kind = run[r].kind /\ run'[r].detached = run[r].detached
                      /\ run'[r].frontier = run[r].frontier
    OBVIOUS
  <2> DEFINE by == IF run[r].by = "none" THEN "shutdown" ELSE run[r].by
  <2>1. run[r] \in Run /\ by \in {"none", "operator", "shutdown"}
    BY DEF TypeInv, TypeOK, Run
  <2>2. run'[r] = run[r] \/ run'[r] = [run[r] EXCEPT !.aborted = TRUE, !.by = by]
    BY Zenon DEF ShutdownAbort
  <2> HIDE DEF by
  <2> DEFINE p == [run[r] EXCEPT !.aborted = TRUE, !.by = by]
  <2>3. /\ p \in Run /\ p.agent = run[r].agent /\ p.st = run[r].st
        /\ p.kind = run[r].kind /\ p.detached = run[r].detached
        /\ p.frontier = run[r].frontier
    BY <2>1, MarkedTyped
  <2>4. run'[r] = run[r] \/ run'[r] = p
    BY <2>2
  <2> HIDE DEF p
  <2> QED BY <2>1, <2>3, <2>4
<1>2. run' \in [Runs -> Run]
  BY <1>1 DEF ShutdownAbort
<1>3. TypeOK'
  BY <1>2 DEF TypeInv, TypeOK, ShutdownAbort, rowVars, cacheVars
<1>4. Owned'
  BY <1>1 DEF TypeInv, Owned, Live, ShutdownAbort
<1> QED BY <1>1, <1>3, <1>4 DEF TypeInv

LEMMA ProcessGoneTyped ==
  ASSUME TypeInv, ProcessGone, runState' \in [Agents -> {"idle", "running"}]
  PROVE  TypeInv'
<1>1. msgs' \in [Agents -> SUBSET Message]
  <2> DEFINE Left(a, m) ==
        IF m.fate = "taken"
        THEN [m EXCEPT !.fate = IF \E r \in RunsOf(a) : run[r].by = "operator"
                                THEN "returned" ELSE "open"]
        ELSE m
  <2>1. \A a \in Agents : \A m \in Message : Left(a, m) \in Message
    BY DEF Message, Fates
  <2>2. msgs' = [a \in Agents |-> {Left(a, m) : m \in msgs[a]}]
    BY DEF ProcessGone
  <2> HIDE DEF Left
  <2>3. \A a \in Agents : {Left(a, m) : m \in msgs[a]} \in SUBSET Message
    BY <2>1 DEF TypeInv, TypeOK
  <2> QED BY <2>2, <2>3
<1>2. run' \in [Runs -> Run] /\ \A r \in Runs : run'[r].st = "free"
  BY ConstantsAssumption DEF ProcessGone, Run, FreeRun, Idx
<1>3. sub' \in [Subs -> Submission] /\ \A s \in Subs : sub'[s].st = "free"
  BY ConstantsAssumption DEF ProcessGone, Submission, FreeSub, Idx
<1>4. TypeOK'
  BY <1>1, <1>2, <1>3 DEF TypeInv, TypeOK, ProcessGone, cacheVars
<1>5. Owned'
  BY <1>2, <1>3 DEF Owned, Live
<1> QED BY <1>4, <1>5 DEF TypeInv

LEMMA ShutdownTyped ==
  ASSUME TypeInv, ShutdownStep \/ Crash
  PROVE  TypeInv'
<1>1. CASE ShutdownBegin
  BY <1>1 DEF TypeInv, TypeOK, Owned, Live, ShutdownBegin, rowVars, cacheVars
<1>2. CASE ShutdownAbort
  BY <1>2, ShutdownAbortTyped
<1>3. CASE ShutdownSettled \/ ShutdownExit \/ Crash
  BY <1>3, ProcessGoneTyped DEF TypeInv, TypeOK, ShutdownSettled, ShutdownExit, Crash
<1>4. CASE ShutdownForce
  BY <1>4 DEF TypeInv, TypeOK, Owned, Live, ShutdownForce, cacheVars
<1>5. CASE Restart
  BY <1>5 DEF TypeInv, TypeOK, Owned, Live, Restart, rowVars
<1> QED BY <1>1, <1>2, <1>3, <1>4, <1>5 DEF ShutdownStep

LEMMA TypeStep ==
  ASSUME TypeInv, [AnyNext]_vars
  PROVE  TypeInv'
<1>1. ASSUME NEW r \in Runs, RunStep(r) PROVE TypeInv'
  BY <1>1, ClaimTyped, RunAppendTyped, RunCloseTyped, RunSettleTyped, RunFinallyTyped
     DEF RunStep
<1>2. CASE SubmitStep
  <2>1. ASSUME NEW s \in Subs, SendAtPasses(s) PROVE TypeInv'
    BY <2>1 DEF TypeInv, TypeOK, Owned, Live, SendAtPasses, Submission, rowVars, cacheVars
  <2>2. ASSUME NEW a \in Agents, TimePasses(a) PROVE TypeInv'
    BY <2>2 DEF TypeInv, TypeOK, Owned, Live, TimePasses, cacheVars
  <2> QED BY <1>2, <2>1, <2>2, SubmitBeginTyped, SubmitEndTyped DEF SubmitStep
<1>3. CASE OperatorStep
  BY <1>3, StopTyped, ArchiveTyped, DeleteAgentTyped DEF OperatorStep
<1>4. CASE ShutdownStep \/ Crash
  BY <1>4, ShutdownTyped
<1>5. ASSUME NEW a \in Agents, EditStep(a) PROVE TypeInv'
  BY <1>5, DeleteMessageTyped DEF EditStep
<1>6. CASE BypassNext
  BY <1>1, <1>2, <1>3, <1>4, <1>6, ResetAgentTyped, DirectRunTyped, DirectFinallyTyped
     DEF BypassNext, WorkerNext
<1>7. CASE UNCHANGED vars
  BY <1>7 DEF TypeInv, TypeOK, Owned, Live, vars
<1> QED BY <1>1, <1>2, <1>3, <1>4, <1>5, <1>6, <1>7 DEF AnyNext, DurableNext, CrashNext, WorkerNext

\* Type correctness of the scheduled path with crashes and edits, and of both ways
\* around the claim: every index a run or a submission computes stays in range.
THEOREM TypeCorrect == DurableSpec => []TypeOK
<1>1. Init => TypeInv
  BY TypeInit
<1>2. TypeInv /\ [DurableNext]_vars => TypeInv'
  BY TypeStep DEF AnyNext
<1>3. TypeInv => TypeOK
  BY DEF TypeInv
<1> QED BY <1>1, <1>2, <1>3, PTL DEF DurableSpec

-----------------------------------------------------------------------------
(***************************************************************************)
(* One run per agent.  The claim is a lock kept in two places: run_state,  *)
(* which claimOne tests, and the controller of the cached object, which    *)
(* stop() tests before it releases the row.  Exclusion needs both to       *)
(* follow the live run, and the object to be found only while the row is   *)
(* active, because archive and delete forget it.                           *)
(***************************************************************************)
OnlyWorkerRuns == \A r \in Runs : Live(r) => run[r].kind = "worker"

NoRunsWhenDown == phase = "down" => \A r \in Runs : ~Live(r)

ControllerFollowsRun ==
  \A r \in Runs : Live(r) /\ rowState[run[r].agent] = "active"
                  => ctl[run[r].agent] = r /\ ~run[r].detached

CachedOnlyActive == \A a \in Agents : cached[a] => rowState[a] = "active"

Held ==
  /\ OnlyWorkerRuns /\ NoRunsWhenDown /\ ControllerFollowsRun /\ CachedOnlyActive
  /\ OneRunPerAgent /\ RunHoldsRow

\* What Held reads of a run.
SameRuns ==
  \A r \in Runs : /\ run'[r].st = "free" <=> run[r].st = "free"
                  /\ run'[r].agent = run[r].agent /\ run'[r].kind = run[r].kind
                  /\ run'[r].detached = run[r].detached

\* Steps that leave the claims, the controllers and the set of live runs alone.
LEMMA HeldFrame ==
  ASSUME Held, SameRuns, UNCHANGED <<rowState, runState, cached, ctl>>,
         phase' = "down" => phase = "down", phase = "swept" => phase' = "swept"
  PROVE  Held'
BY DEF Held, SameRuns, OnlyWorkerRuns, NoRunsWhenDown, ControllerFollowsRun,
       CachedOnlyActive, OneRunPerAgent, RunHoldsRow, Live, Exists

LEMMA HeldInit == Init => Held
BY DEF Init, Held, OnlyWorkerRuns, NoRunsWhenDown, ControllerFollowsRun,
       CachedOnlyActive, OneRunPerAgent, RunHoldsRow, Live, FreeRun

\* A claim finds no live run of its agent: RunHoldsRow says one would show in run_state.
LEMMA ClaimHeld ==
  ASSUME TypeInv, Held, NEW r \in Runs, NEW a \in Agents, Claim(r, a)
  PROVE  Held'
<1>1. \A q \in Runs : Live(q) => run[q].agent # a
  BY DEF Held, OnlyWorkerRuns, RunHoldsRow, Claim, Exists
<1>2. /\ run'[r].st = "working" /\ run'[r].agent = a /\ run'[r].kind = "worker"
      /\ run'[r].detached = FALSE
      /\ \A q \in Runs : q # r => run'[q] = run[q]
  BY DEF TypeInv, TypeOK, Claim, NewRun
<1>3. ctl'[a] = r /\ \A b \in Agents : b # a => ctl'[b] = ctl[b]
  BY DEF TypeInv, TypeOK, Claim
<1>4. OneRunPerAgent'
  BY <1>1, <1>2 DEF Held, OneRunPerAgent, Live
<1>5. ControllerFollowsRun'
  BY <1>1, <1>2, <1>3 DEF TypeInv, Owned, Held, ControllerFollowsRun, Live, Claim
<1>6. RunHoldsRow'
  BY <1>1, <1>2 DEF TypeInv, TypeOK, Owned, Held, RunHoldsRow, Live, Exists, Claim
<1>7. OnlyWorkerRuns' /\ NoRunsWhenDown' /\ CachedOnlyActive'
  BY <1>2 DEF TypeInv, TypeOK, Held, OnlyWorkerRuns, NoRunsWhenDown, CachedOnlyActive,
              Live, Claim
<1> QED BY <1>4, <1>5, <1>6, <1>7 DEF Held

\* finally frees the only run of the agent, so releasing the row hurts no other.
LEMMA RunFinallyHeld ==
  ASSUME TypeInv, Held, NEW r \in Runs, RunFinally(r)
  PROVE  Held'
<1>1. run'[r].st = "free" /\ \A q \in Runs : q # r => run'[q] = run[q]
  BY DEF TypeInv, TypeOK, RunFinally, FreeRun
<1>2. \A q \in Runs : q # r /\ Live(q) => run[q].agent # run[r].agent
  BY DEF Held, OneRunPerAgent, Live, RunFinally
<1>3. \A b \in Agents : b # run[r].agent => ctl'[b] = ctl[b] /\ runState'[b] = runState[b]
  BY DEF TypeInv, TypeOK, RunFinally
<1>4. OneRunPerAgent' /\ OnlyWorkerRuns' /\ NoRunsWhenDown' /\ CachedOnlyActive'
  BY <1>1 DEF Held, OneRunPerAgent, OnlyWorkerRuns, NoRunsWhenDown, CachedOnlyActive,
              Live, RunFinally
<1>5. ControllerFollowsRun'
  BY <1>1, <1>2, <1>3 DEF TypeInv, Owned, Held, ControllerFollowsRun, Live, RunFinally
<1>6. RunHoldsRow'
  BY <1>1, <1>2, <1>3 DEF TypeInv, Owned, Held, RunHoldsRow, Live, Exists, RunFinally
<1> QED BY <1>4, <1>5, <1>6 DEF Held

\* stop() releases a row only when no controller is installed, hence no run lives.
LEMMA StopHeld ==
  ASSUME TypeInv, Held, NEW a \in Agents, NEW c \in BOOLEAN, NEW t \in BOOLEAN, Stop(a, c, t)
  PROVE  Held'
<1>1. \A q \in Runs : /\ run'[q].agent = run[q].agent /\ run'[q].st = run[q].st
                      /\ run'[q].kind = run[q].kind /\ run'[q].detached = run[q].detached
  <2>1. ctl[a] \in Runs \cup {NoRun, OldRun} /\ run' = Aborted(ctl[a], "operator")
    BY DEF TypeInv, TypeOK, Stop
  <2> QED BY <2>1, AbortedTyped
<1>2. rowState[a] = "active"
  BY DEF Held, CachedOnlyActive, Stop
<1>3. \A q \in Runs : Live(q) /\ run[q].agent = a => ctl[a] # NoRun
  BY <1>2, ConstantsAssumption DEF Held, ControllerFollowsRun
<1>4. RunHoldsRow'
  BY <1>1, <1>2, <1>3 DEF TypeInv, TypeOK, Owned, Held, RunHoldsRow, Live, Exists, Stop,
                          StoppedState
<1>5. OneRunPerAgent' /\ OnlyWorkerRuns' /\ NoRunsWhenDown' /\ CachedOnlyActive'
  BY <1>1 DEF Held, OneRunPerAgent, OnlyWorkerRuns, NoRunsWhenDown, CachedOnlyActive,
              Live, Stop, cacheVars
<1>6. ControllerFollowsRun'
  BY <1>1 DEF Held, ControllerFollowsRun, Live, Stop, cacheVars
<1> QED BY <1>4, <1>5, <1>6 DEF Held

\* Forgetting the object is harmless because the agent is not active any more.
LEMMA ArchiveHeld ==
  ASSUME TypeInv, Held, NEW a \in Agents, Archive(a) \/ DeleteAgent(a)
  PROVE  Held'
<1>1. /\ run' = Detached(a) /\ phase' = phase /\ rowState'[a] # "active"
      /\ cached'[a] = FALSE
      /\ \A b \in Agents : b # a => /\ rowState'[b] = rowState[b]
                                   /\ runState'[b] = runState[b]
                                   /\ ctl'[b] = ctl[b] /\ cached'[b] = cached[b]
      /\ rowState'[a] # "deleted" => runState'[a] = runState[a] /\ rowState[a] # "deleted"
  BY DEF TypeInv, TypeOK, Archive, DeleteAgent
<1>2. \A q \in Runs : /\ run'[q].agent = run[q].agent /\ run'[q].st = run[q].st
                      /\ run'[q].kind = run[q].kind
                      /\ run[q].agent # a => run'[q] = run[q]
  BY <1>1, DetachedTyped
<1>3. OneRunPerAgent' /\ OnlyWorkerRuns' /\ NoRunsWhenDown'
  BY <1>1, <1>2 DEF Held, OneRunPerAgent, OnlyWorkerRuns, NoRunsWhenDown, Live
<1>4. CachedOnlyActive'
  BY <1>1 DEF Held, CachedOnlyActive
<1>5. ControllerFollowsRun'
  BY <1>1, <1>2 DEF TypeInv, Owned, Held, ControllerFollowsRun, Live
<1>6. RunHoldsRow'
  BY <1>1, <1>2 DEF TypeInv, Owned, Held, RunHoldsRow, Live, Exists
<1> QED BY <1>3, <1>4, <1>5, <1>6 DEF Held

LEMMA HeldWithoutRuns ==
  ASSUME Held, \A r \in Runs : run'[r].st = "free", CachedOnlyActive'
  PROVE  Held'
BY DEF Held, OnlyWorkerRuns, NoRunsWhenDown, ControllerFollowsRun, OneRunPerAgent,
       RunHoldsRow, Live

LEMMA ShutdownHeld ==
  ASSUME TypeInv, Held, ShutdownStep \/ Crash
  PROVE  Held'
<1>1. CASE ShutdownBegin
  BY <1>1, HeldFrame DEF SameRuns, ShutdownBegin, rowVars, cacheVars
<1>2. CASE ShutdownAbort
  <2>1. SameRuns
    BY <1>2, ShutdownAbortTyped DEF SameRuns
  <2> QED BY <1>2, <2>1, HeldFrame DEF ShutdownAbort, rowVars, cacheVars
<1>3. CASE ShutdownSettled \/ ShutdownExit \/ Crash
  <2>1. \A r \in Runs : run'[r].st = "free"
    BY <1>3 DEF ShutdownSettled, ShutdownExit, Crash, ProcessGone, FreeRun
  <2>2. CachedOnlyActive'
    BY <1>3 DEF Held, CachedOnlyActive, ShutdownSettled, ShutdownExit, Crash, ProcessGone,
                cacheVars
  <2> QED BY <2>1, <2>2, HeldWithoutRuns
<1>4. CASE ShutdownForce
  BY <1>4 DEF Held, OnlyWorkerRuns, NoRunsWhenDown, ControllerFollowsRun, CachedOnlyActive,
              OneRunPerAgent, RunHoldsRow, Live, ShutdownForce, cacheVars
<1>5. CASE Restart
  <2>1. \A r \in Runs : run'[r].st = "free"
    BY <1>5 DEF Held, NoRunsWhenDown, Live, Restart
  <2>2. CachedOnlyActive'
    BY <1>5 DEF CachedOnlyActive, Restart, rowVars
  <2> QED BY <2>1, <2>2, HeldWithoutRuns
<1> QED BY <1>1, <1>2, <1>3, <1>4, <1>5 DEF ShutdownStep

LEMMA HeldStep ==
  ASSUME TypeInv, Held, [DurableNext]_vars
  PROVE  Held'
<1>1. ASSUME NEW r \in Runs, RunStep(r) PROVE Held'
  <2>1. ASSUME RunAppend(r) PROVE Held'
    BY <2>1, HeldFrame DEF SameRuns, RunAppend, cacheVars
  <2>2. ASSUME RunClose(r) PROVE Held'
    <3>1. SameRuns
      BY <2>2 DEF TypeInv, TypeOK, SameRuns, RunClose, Run
    <3> QED BY <2>2, <3>1, HeldFrame DEF RunClose, cacheVars
  <2>3. ASSUME NEW o \in {"ok", "error", "abort"}, RunSettle(r, o) PROVE Held'
    <3>1. SameRuns
      BY <2>3 DEF TypeInv, TypeOK, SameRuns, RunSettle, Run
    <3> QED BY <2>3, <3>1, HeldFrame DEF RunSettle, rowVars, cacheVars
  <2> QED BY <1>1, <2>1, <2>2, <2>3, ClaimHeld, RunFinallyHeld DEF RunStep
<1>2. CASE SubmitStep
  <2>1. ASSUME NEW s \in Subs, NEW a \in Agents, NEW at \in {"due", "later"},
               NEW t \in BOOLEAN, SubmitBegin(s, a, at, t)
        PROVE  Held'
    BY <2>1 DEF TypeInv, TypeOK, Held, OnlyWorkerRuns, NoRunsWhenDown, ControllerFollowsRun,
                CachedOnlyActive, OneRunPerAgent, RunHoldsRow, Live, Exists, SubmitBegin
  <2>2. ASSUME NEW s \in Subs, SubmitEnd(s) \/ SendAtPasses(s) PROVE Held'
    BY <2>2, HeldFrame DEF SameRuns, SubmitEnd, SendAtPasses, rowVars, cacheVars
  <2>3. ASSUME NEW a \in Agents, TimePasses(a) PROVE Held'
    BY <2>3, HeldFrame DEF SameRuns, TimePasses, cacheVars
  <2> QED BY <1>2, <2>1, <2>2, <2>3 DEF SubmitStep
<1>3. CASE OperatorStep
  BY <1>3, StopHeld, ArchiveHeld DEF OperatorStep
<1>4. CASE ShutdownStep \/ Crash
  BY <1>4, ShutdownHeld
<1>5. ASSUME NEW a \in Agents, EditStep(a) PROVE Held'
  BY <1>5, HeldFrame DEF SameRuns, EditStep, DeleteMessage, cacheVars
<1>6. CASE UNCHANGED vars
  BY <1>6, HeldFrame DEF SameRuns, vars
<1> QED BY <1>1, <1>2, <1>3, <1>4, <1>5, <1>6 DEF DurableNext, CrashNext, WorkerNext

LEMMA DurableHeld == DurableSpec => [](TypeInv /\ Held)
<1>1. Init => TypeInv /\ Held
  BY TypeInit, HeldInit
<1>2. TypeInv /\ Held /\ [DurableNext]_vars => (TypeInv /\ Held)'
  BY TypeStep, HeldStep DEF AnyNext
<1> QED BY <1>1, <1>2, PTL DEF DurableSpec

\* Per-agent serialisation, whatever stops, archives, edits, crashes and shutdowns do.
THEOREM SerialisedPerAgent == DurableSpec => []OneRunPerAgent
BY DurableHeld, PTL DEF Held

\* A live run holds its row until it ends; only the forced sweep takes the row away.
THEOREM ClaimOutlivesItsRun == DurableSpec => []RunHoldsRow
BY DurableHeld, PTL DEF Held

-----------------------------------------------------------------------------
(***************************************************************************)
(* A cleared queue.  What could schedule the agent again are the run that  *)
(* is being stopped and a submission that was suspended before the stop;   *)
(* the invariant says of the second that it has been cancelled.            *)
(***************************************************************************)
ClearedIsCancelled ==
  \A a \in cleared : \A s \in Subs :
    sub[s].st = "gap" /\ sub[s].agent = a => sub[s].cancelled

ClearedInv == ClearedStaysCleared /\ ClearedIsCancelled

LEMMA ClearedFrame ==
  ASSUME ClearedInv, UNCHANGED <<nextRun, cleared>>,
         \A s \in Subs : sub'[s].st = "gap" => /\ sub[s].st = "gap"
                                             /\ sub'[s].agent = sub[s].agent
                                             /\ sub'[s].cancelled = sub[s].cancelled
  PROVE  ClearedInv'
BY DEF ClearedInv, ClearedStaysCleared, ClearedIsCancelled

LEMMA SubmitEndCleared ==
  ASSUME TypeInv, ClearedInv, NEW s \in Subs, SubmitEnd(s)
  PROVE  ClearedInv'
<1>1. /\ sub'[s].st = "free" /\ cleared' = cleared
      /\ \A t \in Subs : t # s => sub'[t] = sub[t]
  BY DEF TypeInv, TypeOK, SubmitEnd, FreeSub
<1>2. ClearedIsCancelled'
  BY <1>1 DEF ClearedInv, ClearedIsCancelled
<1>3. \A a \in cleared : nextRun'[a] = nextRun[a]
  BY DEF TypeInv, TypeOK, ClearedInv, ClearedIsCancelled, SubmitEnd
<1>4. ClearedStaysCleared'
  BY <1>1, <1>3 DEF ClearedInv, ClearedStaysCleared
<1> QED BY <1>2, <1>4 DEF ClearedInv

\* finally keeps a missing schedule missing: all its ways to reschedule ask for one.
LEMMA RunFinallyCleared ==
  ASSUME TypeInv, ClearedInv, NEW r \in Runs, RunFinally(r)
  PROVE  ClearedInv'
<1>1. nextRun[run[r].agent] = "none" => NextRunAfter(run[r]) = "none"
  BY DEF NextRunAfter, PreserveForShutdown, StillPending
<1>2. \A a \in cleared : nextRun'[a] = "none"
  BY <1>1 DEF TypeInv, TypeOK, ClearedInv, ClearedStaysCleared, RunFinally
<1>3. cleared' = cleared /\ sub' = sub
  BY DEF RunFinally
<1> QED BY <1>2, <1>3 DEF ClearedInv, ClearedStaysCleared, ClearedIsCancelled

LEMMA StopCleared ==
  ASSUME TypeInv, ClearedInv, NEW a \in Agents, NEW c \in BOOLEAN, NEW t \in BOOLEAN, Stop(a, c, t)
  PROVE  ClearedInv'
<1>1. \A s \in Subs : /\ sub'[s].st = sub[s].st /\ sub'[s].agent = sub[s].agent
                      /\ sub[s].cancelled => sub'[s].cancelled
  <2>1. \A q \in Submission : LET p == [q EXCEPT !.cancelled = TRUE] IN
          p.st = q.st /\ p.agent = q.agent /\ p.cancelled
    BY DEF Submission
  <2> QED BY <2>1 DEF TypeInv, TypeOK, Stop, CancelTerminal
<1>2. \A b \in cleared' : b \in cleared \/ (b = a /\ c)
  BY DEF Stop
<1>3. \A b \in cleared' : b \in cleared \/ \A s \in Subs : sub[s].agent = b => sub'[s].cancelled
  BY DEF Stop
<1>4. ClearedStaysCleared'
  BY <1>2 DEF TypeInv, TypeOK, ClearedInv, ClearedStaysCleared, Stop
<1>5. ClearedIsCancelled'
  BY <1>1, <1>3 DEF ClearedInv, ClearedIsCancelled
<1> QED BY <1>4, <1>5 DEF ClearedInv

LEMMA ClearedStep ==
  ASSUME TypeInv, ClearedInv, [DurableNext]_vars
  PROVE  ClearedInv'
<1>1. ASSUME NEW r \in Runs, RunStep(r) PROVE ClearedInv'
  <2>1. ASSUME NEW a \in Agents, Claim(r, a) PROVE ClearedInv'
    BY <2>1, ClearedFrame DEF Claim
  <2>2. ASSUME RunAppend(r) \/ RunClose(r) PROVE ClearedInv'
    BY <2>2, ClearedFrame DEF RunAppend, RunClose
  <2>3. ASSUME NEW o \in {"ok", "error", "abort"}, RunSettle(r, o) PROVE ClearedInv'
    BY <2>3, ClearedFrame DEF RunSettle, rowVars
  <2> QED BY <1>1, <2>1, <2>2, <2>3, RunFinallyCleared DEF RunStep
<1>2. CASE SubmitStep
  <2>1. ASSUME NEW s \in Subs, NEW a \in Agents, NEW at \in {"due", "later"},
               NEW t \in BOOLEAN, SubmitBegin(s, a, at, t)
        PROVE  ClearedInv'
    BY <2>1 DEF TypeInv, TypeOK, ClearedInv, ClearedStaysCleared, ClearedIsCancelled,
                SubmitBegin
  <2>2. ASSUME NEW s \in Subs, SendAtPasses(s) PROVE ClearedInv'
    <3>1. \A t \in Subs : /\ sub'[t].st = sub[t].st /\ sub'[t].agent = sub[t].agent
                          /\ sub'[t].cancelled = sub[t].cancelled
      BY <2>2 DEF TypeInv, TypeOK, Submission, SendAtPasses
    <3> QED BY <2>2, <3>1, ClearedFrame DEF SendAtPasses, rowVars
  <2>3. ASSUME NEW a \in Agents, TimePasses(a) PROVE ClearedInv'
    BY <2>3 DEF TypeInv, TypeOK, ClearedInv, ClearedStaysCleared, ClearedIsCancelled, TimePasses
  <2> QED BY <1>2, <2>1, <2>2, <2>3, SubmitEndCleared DEF SubmitStep
<1>3. CASE OperatorStep
  <2>1. ASSUME NEW a \in Agents, Archive(a) PROVE ClearedInv'
    BY <2>1, ClearedFrame DEF Archive
  <2>2. ASSUME NEW a \in Agents, DeleteAgent(a) PROVE ClearedInv'
    BY <2>2 DEF TypeInv, TypeOK, ClearedInv, ClearedStaysCleared, ClearedIsCancelled,
                DeleteAgent
  <2> QED BY <1>3, <2>1, <2>2, StopCleared DEF OperatorStep
<1>4. CASE ShutdownStep \/ Crash
  <2>1. nextRun' = nextRun /\ cleared' = cleared
    BY <1>4 DEF ShutdownStep, ShutdownBegin, ShutdownAbort, ShutdownSettled, ShutdownForce,
                ShutdownExit, Restart, Crash, ProcessGone, rowVars
  <2>2. sub' = sub \/ \A s \in Subs : sub'[s].st = "free"
    <3>1. ASSUME ProcessGone PROVE \A s \in Subs : sub'[s].st = "free"
      BY <3>1 DEF ProcessGone, FreeSub
    <3> QED BY <1>4, <3>1 DEF ShutdownStep, ShutdownBegin, ShutdownAbort, ShutdownSettled,
                              ShutdownForce, ShutdownExit, Restart, Crash
  <2> QED BY <2>1, <2>2, ClearedFrame
<1>5. ASSUME NEW a \in Agents, EditStep(a) PROVE ClearedInv'
  BY <1>5, ClearedFrame DEF EditStep, DeleteMessage
<1>6. CASE UNCHANGED vars
  BY <1>6, ClearedFrame DEF vars
<1> QED BY <1>1, <1>2, <1>3, <1>4, <1>5, <1>6 DEF DurableNext, CrashNext, WorkerNext

\* stop({clearQueue: true}) wins over the dying run, over a cancelled submission that
\* resumes, over shutdown and over a crash.
THEOREM ClearedQueueStaysCleared == DurableSpec => []ClearedStaysCleared
<1>1. Init => TypeInv /\ ClearedInv
  <2>1. Init => ClearedInv
    BY DEF Init, ClearedInv, ClearedStaysCleared, ClearedIsCancelled
  <2> QED BY <2>1, TypeInit
<1>2. TypeInv /\ ClearedInv /\ [DurableNext]_vars => (TypeInv /\ ClearedInv)'
  BY TypeStep, ClearedStep DEF AnyNext
<1>3. TypeInv /\ ClearedInv => ClearedStaysCleared
  BY DEF ClearedInv
<1> QED BY <1>1, <1>2, <1>3, PTL DEF DurableSpec

-----------------------------------------------------------------------------
(***************************************************************************)
(* Claims and the process.  Without a crash every claim is returned: the   *)
(* process ends either when no run is left or after the sweep.             *)
(***************************************************************************)
IdleWhenSwept == phase = "swept" => \A a \in Agents : runState[a] # "running"

DeletedUnclaimed == \A a \in Agents : ~Exists(a) => runState[a] # "running"

ReturnInv == IdleWhenSwept /\ DeletedUnclaimed

\* What a step keeps of the claims of each agent, those a crash has left apart.
RunsKept == \A a \in Agents : HasRun(a) => HasRun(a)'

LEMMA ReturnFrame ==
  ASSUME ReturnInv, \A a \in Agents : runState'[a] = "running" => runState[a] = "running",
         \A a \in Agents : ~Exists(a)' => ~Exists(a) \/ runState'[a] # "running",
         phase' = "swept" => phase = "swept",
         \A r \in Runs : Live(r) /\ run[r].kind = "worker"
           => run'[r].st # "free" /\ run'[r].agent = run[r].agent /\ run'[r].kind = "worker"
  PROVE  ReturnInv' /\ RunsKept
<1>1. \A a \in Agents : \A r \in WorkerRunsOf(a) : r \in WorkerRunsOf(a)'
  BY DEF WorkerRunsOf, RunsOf, Live
<1>2. RunsKept
  BY <1>1 DEF RunsKept, HasRun
<1>3. IdleWhenSwept'
  BY DEF ReturnInv, IdleWhenSwept
<1>4. DeletedUnclaimed'
  BY DEF ReturnInv, DeletedUnclaimed
<1> QED BY <1>2, <1>3, <1>4 DEF ReturnInv

LEMMA ClaimReturn ==
  ASSUME TypeInv, ReturnInv, NEW r \in Runs, NEW a \in Agents, Claim(r, a)
  PROVE  ReturnInv' /\ RunsKept
<1>1. /\ run'[r].st = "working" /\ run'[r].agent = a /\ run'[r].kind = "worker"
      /\ \A q \in Runs : q # r => run'[q] = run[q]
      /\ \A b \in Agents : b # a => runState'[b] = runState[b]
      /\ run[r].st = "free" /\ phase' = "up"
  BY DEF TypeInv, TypeOK, Claim, NewRun
<1>2. r \in WorkerRunsOf(a)'
  BY <1>1 DEF WorkerRunsOf, RunsOf, Live
<1>3. \A b \in Agents : \A q \in WorkerRunsOf(b) : q \in WorkerRunsOf(b)'
  BY <1>1 DEF WorkerRunsOf, RunsOf, Live
<1>4. RunsKept
  BY <1>1, <1>2, <1>3 DEF RunsKept, HasRun
<1>5. IdleWhenSwept' /\ DeletedUnclaimed'
  BY <1>1 DEF ReturnInv, IdleWhenSwept, DeletedUnclaimed, Exists, Claim
<1> QED BY <1>4, <1>5 DEF ReturnInv

LEMMA RunFinallyReturn ==
  ASSUME TypeInv, ReturnInv, NEW r \in Runs, RunFinally(r)
  PROVE  ReturnInv' /\ RunsKept
<1> DEFINE a == run[r].agent
<1>1. a \in Agents /\ phase' = phase
  BY DEF TypeInv, Owned, Live, RunFinally
<1>2. /\ \A q \in Runs : q # r => run'[q] = run[q]
      /\ \A b \in Agents : b # a => runState'[b] = runState[b]
      /\ runState'[a] # "running" /\ rowState' = rowState
  BY <1>1 DEF TypeInv, TypeOK, ReturnInv, DeletedUnclaimed, RunFinally, Exists
<1>3. \A b \in Agents : b # a => \A q \in WorkerRunsOf(b) : q \in WorkerRunsOf(b)'
  BY <1>2 DEF WorkerRunsOf, RunsOf, Live
<1>4. RunsKept
  BY <1>2, <1>3 DEF RunsKept, HasRun
<1>5. IdleWhenSwept' /\ DeletedUnclaimed'
  BY <1>1, <1>2 DEF ReturnInv, IdleWhenSwept, DeletedUnclaimed, Exists
<1> QED BY <1>4, <1>5 DEF ReturnInv

LEMMA OperatorReturn ==
  ASSUME TypeInv, ReturnInv, NEW a \in Agents,
         (\E c, t \in BOOLEAN : Stop(a, c, t)) \/ Archive(a) \/ DeleteAgent(a) \/ ResetAgent(a)
  PROVE  ReturnInv' /\ RunsKept
<1>1. \A r \in Runs : run'[r].st = run[r].st /\ run'[r].agent = run[r].agent /\ run'[r].kind = run[r].kind
  <2>1. ASSUME \E c, t \in BOOLEAN : Stop(a, c, t)
        PROVE  \A r \in Runs : /\ run'[r].st = run[r].st /\ run'[r].agent = run[r].agent
                              /\ run'[r].kind = run[r].kind
    <3>1. ctl[a] \in Runs \cup {NoRun, OldRun} /\ run' = Aborted(ctl[a], "operator")
      BY <2>1 DEF TypeInv, TypeOK, Stop
    <3> QED BY <3>1, AbortedTyped
  <2>2. ASSUME Archive(a) \/ DeleteAgent(a)
        PROVE  \A r \in Runs : /\ run'[r].st = run[r].st /\ run'[r].agent = run[r].agent
                              /\ run'[r].kind = run[r].kind
    BY <2>2, DetachedTyped DEF Archive, DeleteAgent
  <2>3. ASSUME ResetAgent(a)
        PROVE  \A r \in Runs : /\ run'[r].st = run[r].st /\ run'[r].agent = run[r].agent
                              /\ run'[r].kind = run[r].kind
    BY <2>3, ResetAgentTyped
  <2> QED BY <2>1, <2>2, <2>3
<1>2. \A b \in Agents : runState'[b] = "running" => runState[b] = "running"
  BY DEF TypeInv, TypeOK, Stop, StoppedState, Archive, DeleteAgent, ResetAgent, rowVars
<1>3. \A b \in Agents : ~Exists(b)' => ~Exists(b) \/ runState'[b] # "running"
  BY DEF TypeInv, TypeOK, Exists, Stop, Archive, DeleteAgent, ResetAgent, rowVars
<1>4. phase' = phase
  BY DEF Stop, Archive, DeleteAgent, ResetAgent
<1> QED BY <1>1, <1>2, <1>3, <1>4, ReturnFrame DEF Live

LEMMA ShutdownReturn ==
  ASSUME TypeInv, ReturnInv, ShutdownStep
  PROVE  ReturnInv' /\ RunsKept
<1>1. CASE ShutdownBegin
  BY <1>1, ReturnFrame DEF ShutdownBegin, rowVars, Live, Exists
<1>2. CASE ShutdownAbort
  <2>1. \A r \in Runs : /\ run'[r].st = run[r].st /\ run'[r].agent = run[r].agent
                        /\ run'[r].kind = run[r].kind
    BY <1>2, ShutdownAbortTyped
  <2> QED BY <1>2, <2>1, ReturnFrame DEF ShutdownAbort, rowVars, Live, Exists
<1>3. CASE ShutdownSettled
  <2>1. \A a \in Agents : HasRun(a) => runState[a] # "running"
    BY <1>3 DEF HasRun, WorkerRunsOf, RunsOf, ShutdownSettled
  <2> QED BY <1>3, <2>1 DEF ReturnInv, RunsKept, HasRun, IdleWhenSwept, DeletedUnclaimed,
                           ShutdownSettled, ProcessGone, Exists
<1>4. CASE ShutdownForce
  <2>1. \A a \in Agents : runState'[a] # "running"
    BY <1>4 DEF ShutdownForce
  <2> QED BY <1>4, <2>1 DEF ReturnInv, RunsKept, HasRun, IdleWhenSwept, DeletedUnclaimed
<1>5. CASE ShutdownExit
  <2>1. \A a \in Agents : runState'[a] # "running"
    BY <1>5 DEF ReturnInv, IdleWhenSwept, ShutdownExit
  <2> QED BY <1>5, <2>1 DEF ReturnInv, RunsKept, HasRun, IdleWhenSwept, DeletedUnclaimed
<1>6. CASE Restart
  BY <1>6, ReturnFrame DEF Restart, rowVars, Live, Exists
<1> QED BY <1>1, <1>2, <1>3, <1>4, <1>5, <1>6 DEF ShutdownStep

LEMMA ReturnStep ==
  ASSUME TypeInv, ReturnInv, [BypassNext]_vars
  PROVE  ReturnInv' /\ RunsKept
<1>1. ASSUME NEW r \in Runs, RunStep(r) PROVE ReturnInv' /\ RunsKept
  <2>1. ASSUME RunAppend(r) PROVE ReturnInv' /\ RunsKept
    BY <2>1, ReturnFrame DEF RunAppend, Live, Exists
  <2>2. ASSUME RunClose(r) \/ \E o \in {"ok", "error", "abort"} : RunSettle(r, o)
        PROVE  ReturnInv' /\ RunsKept
    <3>1. \A q \in Runs : /\ run'[q].st # "free" <=> run[q].st # "free"
                          /\ run'[q].agent = run[q].agent /\ run'[q].kind = run[q].kind
      <4>1. ASSUME RunClose(r)
            PROVE  \A q \in Runs : /\ run'[q].st # "free" <=> run[q].st # "free"
                                  /\ run'[q].agent = run[q].agent
                                  /\ run'[q].kind = run[q].kind
        BY <4>1 DEF TypeInv, TypeOK, RunClose, Run
      <4>2. ASSUME NEW o \in {"ok", "error", "abort"}, RunSettle(r, o)
            PROVE  \A q \in Runs : /\ run'[q].st # "free" <=> run[q].st # "free"
                                  /\ run'[q].agent = run[q].agent
                                  /\ run'[q].kind = run[q].kind
        BY <4>2 DEF TypeInv, TypeOK, RunSettle, Run
      <4> QED BY <2>2, <4>1, <4>2
    <3>2. runState' = runState /\ rowState' = rowState /\ phase' = phase
      BY <2>2 DEF RunClose, RunSettle, rowVars
    <3> QED BY <3>1, <3>2, ReturnFrame DEF Live, Exists
  <2> QED BY <1>1, <2>1, <2>2, ClaimReturn, RunFinallyReturn DEF RunStep
<1>2. CASE SubmitStep
  BY <1>2, ReturnFrame DEF SubmitStep, SubmitBegin, SubmitEnd, SendAtPasses, TimePasses,
                           rowVars, Live, Exists
<1>3. CASE OperatorStep
  BY <1>3, OperatorReturn DEF OperatorStep
<1>4. CASE ShutdownStep
  BY <1>4, ShutdownReturn
<1>5. ASSUME NEW a \in Agents, ResetAgent(a) PROVE ReturnInv' /\ RunsKept
  BY <1>5, OperatorReturn
<1>6. ASSUME NEW r \in Runs, NEW a \in Agents, DirectRun(r, a) PROVE ReturnInv' /\ RunsKept
  <2>1. \A q \in Runs : Live(q) => run'[q] = run[q]
    BY <1>6 DEF TypeInv, TypeOK, Live, DirectRun
  <2> QED BY <1>6, <2>1, ReturnFrame DEF DirectRun, Live, Exists
<1>7. ASSUME NEW r \in Runs, DirectFinally(r) PROVE ReturnInv' /\ RunsKept
  <2>1. \A q \in Runs : run[q].kind = "worker" => run'[q] = run[q]
    BY <1>7 DEF TypeInv, TypeOK, DirectFinally
  <2> QED BY <1>7, <2>1, ReturnFrame DEF DirectFinally, Live, Exists
<1>8. CASE UNCHANGED vars
  BY <1>8, ReturnFrame DEF vars, Live, Exists
<1> QED BY <1>1, <1>2, <1>3, <1>4, <1>5, <1>6, <1>7, <1>8 DEF BypassNext, WorkerNext

LEMMA ReturnEdit ==
  ASSUME TypeInv, ReturnInv, NEW a \in Agents, EditStep(a)
  PROVE  ReturnInv' /\ RunsKept
  BY ReturnFrame DEF EditStep, DeleteMessage, Live, Exists

LEMMA ReturnCrash ==
  ASSUME TypeInv, ReturnInv, Crash
  PROVE  ReturnInv' /\ (CutOff \/ RunsKept)
  BY DEF ReturnInv, RunsKept, HasRun, CutOff, Crash, ProcessGone, IdleWhenSwept,
         DeletedUnclaimed, Exists

LEMMA ReturnInit == Init => TypeInv /\ ReturnInv /\ RunningRowHasRun
<1>1. Init => ReturnInv /\ RunningRowHasRun
  BY DEF Init, ReturnInv, RunningRowHasRun, HasRun, IdleWhenSwept, DeletedUnclaimed
<1> QED BY <1>1, TypeInit

\* Without a crash no agent stays claimed: a row says 'running' only while a run of
\* the worker lives, direct runs and dropped objects included.
THEOREM ClaimsAreReturned == BypassSpec => []RunningRowHasRun
<1>1. TypeInv /\ ReturnInv /\ RunningRowHasRun /\ [BypassNext]_vars
      => (TypeInv /\ ReturnInv /\ RunningRowHasRun)'
  BY TypeStep, ReturnStep DEF AnyNext, RunsKept, RunningRowHasRun
<1> QED BY <1>1, ReturnInit, PTL DEF BypassSpec

\* Whatever else happens to the rows and the process, only a process that dies before
\* its sweep leaves a claim without its run.
THEOREM ClaimsEndWithRuns == DurableSpec => OnlyCrashesLeaveClaims
<1>1. TypeInv /\ ReturnInv /\ [DurableNext]_vars => ReturnInv' /\ (CutOff \/ RunsKept)
  BY ReturnStep, ReturnEdit, ReturnCrash DEF DurableNext, CrashNext, BypassNext
<1>2. TypeInv /\ ReturnInv /\ [DurableNext]_vars => (TypeInv /\ ReturnInv)'
  BY <1>1, TypeStep DEF AnyNext
<1>3. TypeInv /\ ReturnInv /\ [DurableNext]_vars
      => [~CutOff => \A a \in Agents : HasRun(a) => HasRun(a)']_vars
  BY <1>1 DEF RunsKept
<1> QED BY <1>2, <1>3, ReturnInit, PTL DEF DurableSpec, OnlyCrashesLeaveClaims

-----------------------------------------------------------------------------
(***************************************************************************)
(* DR-04.  The cursor may only claim what a successful run began with, so  *)
(* the frontier a run carries has to keep meaning what it meant when the   *)
(* run was claimed: everything up to it is still in that run's hands, and  *)
(* whatever arrives later gets an index beyond it and beyond the cursor.   *)
(***************************************************************************)
FatesKnown == \A a \in Agents : \A m \in Operator(msgs[a]) : m.fate # "none"

DeletedHasNoInput == \A a \in Agents : ~Exists(a) => Operator(msgs[a]) = {}

CursorBehind == \A a \in Agents : Exists(a) => cursor[a] < NextIdx(a)

FrontierTaken ==
  \A r \in Runs : Live(r) /\ Exists(run[r].agent) =>
    /\ run[r].frontier < NextIdx(run[r].agent)
    /\ \A m \in Operator(msgs[run[r].agent]) :
         m.idx <= run[r].frontier => m.fate \in {"taken", "acked"}

CursorInv ==
  /\ FatesKnown /\ DeletedHasNoInput /\ CursorBehind /\ FrontierTaken
  /\ CursorCoversOnlyAcked

\* While no row goes away, the next index only grows.
LEMMA NextIdxGrows ==
  ASSUME TypeOK, TypeOK', NEW a \in Agents,
         \A m \in msgs[a] : \E n \in msgs'[a] : n.idx = m.idx
  PROVE  NextIdx(a) <= NextIdx(a)'
<1>1. msgs[a] \in SUBSET Message /\ msgs'[a] \in SUBSET Message
  BY DEF TypeOK
<1>2. /\ MaxIdxOf(msgs[a]) \in Idx
      /\ msgs[a] # {} => \E m \in msgs[a] : m.idx = MaxIdxOf(msgs[a])
  BY <1>1, MaxIdxOfBounds
<1>3. /\ MaxIdxOf(msgs'[a]) \in Idx
      /\ \A n \in msgs'[a] : n.idx <= MaxIdxOf(msgs'[a])
  BY <1>1, MaxIdxOfBounds
<1>4. MaxIdxOf(msgs[a]) <= MaxIdxOf(msgs'[a])
  <2>1. CASE msgs[a] = {}
    BY <2>1, <1>3, ConstantsAssumption DEF MaxIdxOf, Idx
  <2>2. CASE msgs[a] # {}
    BY <2>2, <1>2, <1>3
  <2> QED BY <2>1, <2>2
<1> QED BY <1>2, <1>3, <1>4, ConstantsAssumption DEF NextIdx, Idx

\* What a step may do to the operator rows of an agent without touching its cursor:
\* append an open one, withdraw an open one, and, once no run is left, settle others.
KeptOf(a) ==
  /\ \A m \in msgs[a] : \E n \in msgs'[a] : n.idx = m.idx
  /\ \A n \in msgs'[a] : n.op =>
       \/ n.idx = NextIdx(a) /\ n.fate = "open" /\ Exists(a)
       \/ \E m \in msgs[a] : /\ m.op /\ m.idx = n.idx
                            /\ \/ n.fate = m.fate
                               \/ m.fate = "open" /\ n.fate = "returned"
                               \/ m.fate # "acked" /\ n.fate # "none"
                                  /\ \A r \in Runs : run'[r].st = "free"

InputKept == \A a \in Agents : KeptOf(a)

LEMMA InputFrame ==
  ASSUME TypeInv, TypeInv', CursorInv, InputKept, UNCHANGED cursor,
         \A a \in Agents : Exists(a)' <=> Exists(a),
         \A r \in Runs : run'[r].st # "free" => /\ Live(r)
                                               /\ run'[r].agent = run[r].agent
                                               /\ run'[r].frontier = run[r].frontier
  PROVE  CursorInv'
<1>1. \A a \in Agents : /\ NextIdx(a) \in Nat /\ NextIdx(a)' \in Int
                        /\ NextIdx(a) <= NextIdx(a)'
  <2>1. \A a \in Agents : MaxIdxOf(msgs'[a]) \in Idx
    BY MaxIdxOfBounds DEF TypeInv, TypeOK
  <2> QED BY <2>1, Indices, NextIdxGrows, ConstantsAssumption
          DEF TypeInv, InputKept, KeptOf, NextIdx, Idx
<1>2. FatesKnown'
  BY DEF CursorInv, FatesKnown, InputKept, KeptOf, Operator
<1>3. DeletedHasNoInput'
  BY DEF CursorInv, DeletedHasNoInput, InputKept, KeptOf, Operator
<1>4. \A a \in Agents : cursor[a] \in Int
  BY ConstantsAssumption DEF TypeInv, TypeOK, Idx
<1>5. CursorBehind'
  BY <1>1, <1>4 DEF CursorInv, CursorBehind
<1>6. FrontierTaken'
  <2> SUFFICES ASSUME NEW r \in Runs, Live(r)', Exists(run[r].agent)
               PROVE  /\ run[r].frontier < NextIdx(run[r].agent)'
                      /\ \A n \in msgs'[run[r].agent] :
                           n.op /\ n.idx <= run[r].frontier => n.fate \in {"taken", "acked"}
    BY DEF FrontierTaken, Live, Operator, TypeInv, Owned
  <2>1. /\ Live(r) /\ run[r].agent \in Agents /\ run[r].frontier \in Int
        /\ run'[r].st # "free"
    BY ConstantsAssumption DEF TypeInv, TypeOK, Owned, Live, Run, Idx
  <2>2. /\ run[r].frontier < NextIdx(run[r].agent)
        /\ \A m \in msgs[run[r].agent] :
             m.op /\ m.idx <= run[r].frontier => m.fate \in {"taken", "acked"}
    BY <2>1 DEF CursorInv, FrontierTaken, Operator
  <2>3. run[r].frontier < NextIdx(run[r].agent)'
    BY <2>1, <2>2, <1>1
  <2>4. ASSUME NEW n \in msgs'[run[r].agent], n.op, n.idx <= run[r].frontier
        PROVE  n.fate \in {"taken", "acked"}
    BY <2>1, <2>2, <2>4, <1>1 DEF InputKept, KeptOf
  <2> QED BY <2>3, <2>4
<1>7. CursorCoversOnlyAcked'
  <2> SUFFICES ASSUME NEW a \in Agents, NEW n \in msgs'[a], n.op, n.idx <= cursor[a]
               PROVE  n.fate = "acked"
    BY DEF CursorCoversOnlyAcked, Operator
  <2>1. CASE n.idx = NextIdx(a) /\ n.fate = "open" /\ Exists(a)
    BY <2>1, <1>1, <1>4 DEF CursorInv, CursorBehind
  <2>2. CASE \E m \in msgs[a] : /\ m.op /\ m.idx = n.idx
                               /\ \/ n.fate = m.fate
                                  \/ m.fate = "open" /\ n.fate = "returned"
                                  \/ m.fate # "acked" /\ n.fate # "none"
                                     /\ \A r \in Runs : run'[r].st = "free"
    BY <2>2 DEF CursorInv, CursorCoversOnlyAcked, Operator
  <2> QED BY <2>1, <2>2 DEF InputKept, KeptOf
<1> QED BY <1>2, <1>3, <1>5, <1>6, <1>7 DEF CursorInv

\* Every operator message there is, in whatever fate an earlier run left it, is taken.
LEMMA ClaimCursor ==
  ASSUME TypeInv, TypeInv', Held, CursorInv, NEW r \in Runs, NEW a \in Agents, Claim(r, a)
  PROVE  CursorInv'
<1>1. /\ run'[r] = NewRun(a, "worker", Frontier(a))
      /\ \A q \in Runs : q # r => run'[q] = run[q]
      /\ msgs'[a] = WithFate(msgs[a], {"open", "returned"}, "taken")
      /\ \A b \in Agents : b # a => msgs'[b] = msgs[b]
      /\ cursor' = cursor /\ rowState' = rowState /\ rowState[a] = "active"
  BY DEF TypeInv, TypeOK, Claim
<1>2. \A n \in msgs'[a] : \E m \in msgs[a] :
        /\ n.idx = m.idx /\ n.op = m.op
        /\ m.op => n.fate \in {"taken", "acked"} /\ (m.fate = "acked" => n.fate = "acked")
  <2> SUFFICES ASSUME NEW m \in msgs[a],
                      NEW n, n = IF m.op /\ m.fate \in {"open", "returned"}
                                 THEN [m EXCEPT !.fate = "taken"] ELSE m
               PROVE  /\ n.idx = m.idx /\ n.op = m.op
                      /\ m.op => n.fate \in {"taken", "acked"}
                                 /\ (m.fate = "acked" => n.fate = "acked")
    BY <1>1 DEF WithFate
  <2>1. m \in Message /\ (m.op => m.fate # "none")
    BY DEF TypeInv, TypeOK, CursorInv, FatesKnown, Operator
  <2> QED BY <2>1 DEF Message, Fates
<1>3. \A m \in msgs[a] : \E n \in msgs'[a] : n.idx = m.idx
  <2> SUFFICES ASSUME NEW m \in msgs[a] PROVE \E n \in msgs'[a] : n.idx = m.idx
    OBVIOUS
  <2> DEFINE n == IF m.op /\ m.fate \in {"open", "returned"}
                  THEN [m EXCEPT !.fate = "taken"] ELSE m
  <2>1. m \in Message
    BY DEF TypeInv, TypeOK
  <2>2. n \in msgs'[a] /\ n.idx = m.idx
    BY <1>1, <2>1 DEF WithFate, Message
  <2> QED BY <2>2
<1>4. \A b \in Agents : NextIdx(b) <= NextIdx(b)' /\ NextIdx(b) \in Nat /\ NextIdx(b)' \in Int
  <2>1. \A b \in Agents : MaxIdxOf(msgs'[b]) \in Idx
    BY MaxIdxOfBounds DEF TypeInv, TypeOK
  <2>2. \A b \in Agents : \A m \in msgs[b] : \E n \in msgs'[b] : n.idx = m.idx
    BY <1>1, <1>3
  <2> QED BY <2>1, <2>2, Indices, NextIdxGrows, ConstantsAssumption DEF TypeInv, NextIdx, Idx
<1>5. FatesKnown' /\ DeletedHasNoInput'
  BY <1>1, <1>2 DEF CursorInv, FatesKnown, DeletedHasNoInput, Operator, Exists
<1>6. CursorBehind'
  <2>1. \A b \in Agents : cursor[b] \in Int
    BY ConstantsAssumption DEF TypeInv, TypeOK, Idx
  <2> QED BY <1>1, <1>4, <2>1 DEF CursorInv, CursorBehind, Exists
<1>7. Frontier(a) \in Int /\ Frontier(a) < NextIdx(a)
  <2>1. Operator(msgs[a]) \in SUBSET Message /\ Operator(msgs[a]) \subseteq msgs[a]
    BY DEF TypeInv, TypeOK, Operator
  <2>2. /\ Frontier(a) = -1 \/ \E m \in msgs[a] : m.idx = Frontier(a)
        /\ Frontier(a) \in Idx
    BY <2>1, MaxIdxOfBounds DEF Frontier, MaxIdxOf
  <2> QED BY <2>2, Indices, ConstantsAssumption DEF TypeInv, Idx
<1>8. FrontierTaken'
  <2> SUFFICES ASSUME NEW q \in Runs, Live(q)', Exists(run[q].agent)'
               PROVE  /\ run'[q].frontier < NextIdx(run[q].agent)'
                      /\ \A n \in msgs'[run'[q].agent] :
                           n.op /\ n.idx <= run'[q].frontier => n.fate \in {"taken", "acked"}
    BY DEF FrontierTaken, Operator
  <2>1. CASE q = r
    <3>1. run'[q].frontier = Frontier(a) /\ run'[q].agent = a
      BY <2>1, <1>1 DEF NewRun
    <3> QED BY <3>1, <1>2, <1>4, <1>7
  <2>2. CASE q # r
    <3>1. /\ run'[q] = run[q] /\ Live(q) /\ run[q].agent \in Agents /\ Exists(run[q].agent)
          /\ run[q].frontier \in Int
      BY <2>2, <1>1, ConstantsAssumption DEF TypeInv, TypeOK, Owned, Live, Exists, Run, Idx
    <3>2. run[q].agent # a
      BY <3>1 DEF Held, OnlyWorkerRuns, RunHoldsRow, Claim
    <3> QED BY <1>1, <1>4, <3>1, <3>2 DEF CursorInv, FrontierTaken, Operator
  <2> QED BY <2>1, <2>2
<1>9. CursorCoversOnlyAcked'
  BY <1>1, <1>2 DEF CursorInv, CursorCoversOnlyAcked, Operator
<1> QED BY <1>5, <1>6, <1>8, <1>9 DEF CursorInv

\* Success turns everything up to the frontier, in the run's hands since the claim,
\* into acknowledged input; otherwise the cursor stays where it was.
\* What the end of a run does not undo: acknowledgements, and being an input at all.
LEMMA FateKept ==
  ASSUME NEW q, NEW m
  PROVE  /\ m.fate = "acked" => FateAfter(q, m) = "acked"
         /\ m.fate # "none" => FateAfter(q, m) # "none"
         /\ m.fate = "taken" /\ q.outcome = "ok" => FateAfter(q, m) = "acked"
BY DEF FateAfter

LEMMA RunFinallyCursor ==
  ASSUME TypeInv, TypeInv', Held, CursorInv, NEW r \in Runs, RunFinally(r)
  PROVE  CursorInv'
<1> PICK q \in Run, a \in Agents : q = run[r] /\ a = run[r].agent
  BY DEF TypeInv, TypeOK, Owned, Live, RunFinally
<1>1. Live(r)
  BY DEF Live, RunFinally
<1>2. /\ run'[r].st = "free" /\ \A p \in Runs : p # r => run'[p] = run[p]
      /\ msgs'[a] = {[m EXCEPT !.fate = FateAfter(q, m)] : m \in msgs[a]}
      /\ \A b \in Agents : b # a => msgs'[b] = msgs[b] /\ cursor'[b] = cursor[b]
      /\ rowState' = rowState
      /\ cursor'[a] = IF Exists(a) THEN CursorAfter(q) ELSE cursor[a]
  BY <1>1 DEF TypeInv, TypeOK, RunFinally, FreeRun
<1> DEFINE After(m) == [m EXCEPT !.fate = FateAfter(q, m)]
<1>3. \A m \in msgs[a] :
        /\ After(m).idx = m.idx /\ After(m).op = m.op
        /\ m.fate = "acked" => After(m).fate = "acked"
        /\ m.fate # "none" => After(m).fate # "none"
        /\ m.fate = "taken" /\ q.outcome = "ok" => After(m).fate = "acked"
  <2> SUFFICES ASSUME NEW m \in msgs[a]
               PROVE  /\ After(m).idx = m.idx /\ After(m).op = m.op
                      /\ m.fate = "acked" => After(m).fate = "acked"
                      /\ m.fate # "none" => After(m).fate # "none"
                      /\ m.fate = "taken" /\ q.outcome = "ok" => After(m).fate = "acked"
    OBVIOUS
  <2>1. /\ m.fate = "acked" => FateAfter(q, m) = "acked"
        /\ m.fate # "none" => FateAfter(q, m) # "none"
        /\ m.fate = "taken" /\ q.outcome = "ok" => FateAfter(q, m) = "acked"
    BY FateKept
  <2>2. m \in Message
    BY <1>1 DEF TypeInv, TypeOK
  <2>3. /\ After(m).idx = m.idx /\ After(m).op = m.op /\ After(m).fate = FateAfter(q, m)
    BY <2>2 DEF Message
  <2> HIDE DEF After
  <2> QED BY <2>1, <2>3
<1>4. msgs'[a] = {After(m) : m \in msgs[a]}
  BY <1>2
<1> HIDE DEF After
<1>5. \A n \in msgs'[a] : \E m \in msgs[a] :
        /\ n.idx = m.idx /\ (n.op => m.op)
        /\ m.fate = "acked" => n.fate = "acked"
        /\ m.fate # "none" => n.fate # "none"
        /\ m.fate = "taken" /\ q.outcome = "ok" => n.fate = "acked"
  BY <1>3, <1>4
<1>6. \A b \in Agents : NextIdx(b) <= NextIdx(b)' /\ NextIdx(b) \in Nat /\ NextIdx(b)' \in Int
  <2>1. \A b \in Agents : MaxIdxOf(msgs'[b]) \in Idx
    BY MaxIdxOfBounds DEF TypeInv, TypeOK
  <2>2. \A b \in Agents : \A m \in msgs[b] : \E n \in msgs'[b] : n.idx = m.idx
    BY <1>2, <1>3, <1>4
  <2> QED BY <2>1, <2>2, Indices, NextIdxGrows, ConstantsAssumption DEF TypeInv, NextIdx, Idx
<1>7. FatesKnown' /\ DeletedHasNoInput'
  BY <1>2, <1>5 DEF CursorInv, FatesKnown, DeletedHasNoInput, Operator, Exists
<1>8. Exists(a) => /\ q.frontier < NextIdx(a)
                   /\ \A m \in msgs[a] : m.op /\ m.idx <= q.frontier
                                         => m.fate \in {"taken", "acked"}
  BY <1>1 DEF CursorInv, FrontierTaken, Operator
<1>9. CursorBehind'
  <2>1. /\ \A b \in Agents : cursor[b] \in Int
        /\ q.frontier \in Int
    BY <1>1, ConstantsAssumption DEF TypeInv, TypeOK, Run, Idx
  <2>2. Exists(a) => cursor'[a] < NextIdx(a)'
    <3>1. Exists(a) => cursor'[a] = q.frontier \/ cursor'[a] = cursor[a]
      BY <1>2 DEF CursorAfter
    <3>2. Exists(a) => cursor[a] < NextIdx(a) /\ q.frontier < NextIdx(a)
      BY <1>1, <1>8 DEF CursorInv, CursorBehind
    <3> QED BY <1>1, <1>6, <2>1, <3>1, <3>2
  <2> QED BY <1>2, <1>6, <2>1, <2>2 DEF CursorInv, CursorBehind, Exists
<1>10. FrontierTaken'
  <2> SUFFICES ASSUME NEW p \in Runs, Live(p)', Exists(run[p].agent)'
               PROVE  /\ run'[p].frontier < NextIdx(run[p].agent)'
                      /\ \A n \in msgs'[run'[p].agent] :
                           n.op /\ n.idx <= run'[p].frontier => n.fate \in {"taken", "acked"}
    BY DEF FrontierTaken, Operator
  <2>1. /\ p # r /\ run'[p] = run[p] /\ Live(p) /\ run[p].agent \in Agents
        /\ Exists(run[p].agent) /\ run[p].frontier \in Int
    BY <1>2, ConstantsAssumption DEF TypeInv, TypeOK, Owned, Live, Exists, Run, Idx
  <2>2. run[p].agent # a
    BY <1>1, <2>1 DEF Held, OneRunPerAgent
  <2> QED BY <1>2, <1>6, <2>1, <2>2 DEF CursorInv, FrontierTaken, Operator
<1>11. CursorCoversOnlyAcked'
  <2> SUFFICES ASSUME NEW b \in Agents, NEW n \in msgs'[b], n.op, n.idx <= cursor'[b]
               PROVE  n.fate = "acked"
    BY DEF CursorCoversOnlyAcked, Operator
  <2>1. CASE b # a
    BY <1>2, <2>1 DEF CursorInv, CursorCoversOnlyAcked, Operator
  <2>2. CASE b = a
    <3>1. PICK m \in msgs[a] : /\ n.idx = m.idx /\ (n.op => m.op)
                               /\ m.fate = "acked" => n.fate = "acked"
                               /\ m.fate = "taken" /\ q.outcome = "ok" => n.fate = "acked"
      <4>1. n \in msgs'[a]
        BY <2>2
      <4> QED BY <1>5, <4>1
    <3>2. CASE Exists(a) /\ q.outcome = "ok"
      BY <1>2, <1>8, <2>2, <3>1, <3>2 DEF CursorAfter
    <3>3. CASE ~(Exists(a) /\ q.outcome = "ok")
      <4>1. cursor'[a] = cursor[a]
        BY <1>2, <3>3 DEF CursorAfter
      <4> QED BY <1>1, <2>2, <3>1, <4>1 DEF CursorInv, CursorCoversOnlyAcked, Operator
    <3> QED BY <3>2, <3>3
  <2> QED BY <2>1, <2>2
<1> QED BY <1>7, <1>9, <1>10, <1>11 DEF CursorInv

LEMMA DeleteAgentCursor ==
  ASSUME TypeInv, TypeInv', CursorInv, NEW a \in Agents, DeleteAgent(a)
  PROVE  CursorInv'
<1>1. /\ msgs'[a] = {} /\ cursor'[a] = -1 /\ rowState'[a] = "deleted"
      /\ \A b \in Agents : b # a => /\ msgs'[b] = msgs[b] /\ cursor'[b] = cursor[b]
                                   /\ rowState'[b] = rowState[b]
  BY DEF TypeInv, TypeOK, DeleteAgent
<1>2. \A r \in Runs : /\ run'[r].agent = run[r].agent /\ run'[r].st = run[r].st
                      /\ run[r].agent # a => run'[r] = run[r]
  BY DetachedTyped DEF DeleteAgent
<1>3. FatesKnown' /\ DeletedHasNoInput' /\ CursorCoversOnlyAcked'
  BY <1>1 DEF CursorInv, FatesKnown, DeletedHasNoInput, CursorCoversOnlyAcked, Operator, Exists
<1>4. CursorBehind'
  BY <1>1 DEF CursorInv, CursorBehind, NextIdx, Exists
<1>5. FrontierTaken'
  BY <1>1, <1>2 DEF TypeInv, Owned, CursorInv, FrontierTaken, NextIdx, Operator, Exists, Live
<1> QED BY <1>3, <1>4, <1>5 DEF CursorInv

\* Appending one row of either kind, and appending nothing.
LEMMA AppendKept ==
  ASSUME TypeInv, CursorInv, NEW a \in Agents, NEW op \in BOOLEAN, NEW fate,
         op => fate = "open" /\ Exists(a),
         msgs' = [msgs EXCEPT ![a] = @ \cup {Row(NextIdx(a), op, fate)}]
  PROVE  InputKept
<1>1. \A b \in Agents : \A m \in msgs[b] : m \in msgs'[b]
  BY DEF TypeInv, TypeOK
<1>2. \A b \in Agents : \A n \in msgs'[b] :
        n \in msgs[b] \/ (b = a /\ n = Row(NextIdx(a), op, fate))
  BY DEF TypeInv, TypeOK
<1> QED BY <1>1, <1>2 DEF InputKept, KeptOf, Row

LEMMA UnchangedKept ==
  ASSUME msgs' = msgs
  PROVE  InputKept
BY DEF InputKept, KeptOf

\* Withdrawing some open rows of one agent.
LEMMA WithdrawKept ==
  ASSUME TypeInv, NEW a \in Agents, NEW W \in SUBSET msgs[a],
         \A m \in W : m.fate = "open",
         msgs' = [msgs EXCEPT ![a] = {IF m \in W THEN [m EXCEPT !.fate = "returned"] ELSE m : m \in @}]
  PROVE  InputKept
<1> DEFINE New(m) == IF m \in W THEN [m EXCEPT !.fate = "returned"] ELSE m
<1>1. \A m \in msgs[a] : /\ New(m).idx = m.idx /\ (New(m).op => m.op)
                         /\ New(m).fate = m.fate \/ (m.fate = "open" /\ New(m).fate = "returned")
  BY DEF TypeInv, TypeOK, Message
<1>2. msgs'[a] = {New(m) : m \in msgs[a]} /\ \A b \in Agents : b # a => msgs'[b] = msgs[b]
  BY DEF TypeInv, TypeOK
<1> HIDE DEF New
<1>3. \A m \in msgs[a] : \E n \in msgs'[a] : n.idx = m.idx
  BY <1>1, <1>2
<1>4. \A n \in msgs'[a] : \E m \in msgs[a] :
        /\ m.idx = n.idx /\ (n.op => m.op)
        /\ n.fate = m.fate \/ (m.fate = "open" /\ n.fate = "returned")
  BY <1>1, <1>2
<1>5. KeptOf(a)
  <2>1. ASSUME NEW n \in msgs'[a], n.op
        PROVE  \E m \in msgs[a] : /\ m.op /\ m.idx = n.idx
                                 /\ \/ n.fate = m.fate
                                    \/ m.fate = "open" /\ n.fate = "returned"
                                    \/ m.fate # "acked" /\ n.fate # "none"
                                       /\ \A r \in Runs : run'[r].st = "free"
    <3>1. PICK m \in msgs[a] : /\ m.idx = n.idx /\ (n.op => m.op)
                               /\ n.fate = m.fate \/ (m.fate = "open" /\ n.fate = "returned")
      BY <1>4
    <3> QED BY <2>1, <3>1
  <2> QED BY <1>3, <2>1, Zenon DEF KeptOf
<1>6. ASSUME NEW b \in Agents, b # a PROVE KeptOf(b)
  <2>1. msgs'[b] = msgs[b]
    BY <1>2, <1>6
  <2> QED BY <2>1 DEF KeptOf
<1> QED BY <1>5, <1>6 DEF InputKept

LEMMA ProcessGoneKept ==
  ASSUME TypeInv, CursorInv, ProcessGone
  PROVE  InputKept
<1> DEFINE Left(a, m) ==
      IF m.fate = "taken"
      THEN [m EXCEPT !.fate = IF \E r \in RunsOf(a) : run[r].by = "operator"
                              THEN "returned" ELSE "open"]
      ELSE m
<1>1. \A r \in Runs : run'[r].st = "free"
  BY DEF ProcessGone, FreeRun
<1>2. \A a \in Agents : msgs'[a] = {Left(a, m) : m \in msgs[a]}
  BY DEF ProcessGone
<1>3. \A a \in Agents : \A m \in msgs[a] :
        /\ Left(a, m).idx = m.idx /\ (Left(a, m).op => m.op)
        /\ \/ Left(a, m).fate = m.fate
           \/ m.fate # "acked" /\ Left(a, m).fate # "none"
  BY DEF TypeInv, TypeOK, Message
<1> HIDE DEF Left
<1>4. \A a \in Agents : \A m \in msgs[a] : \E n \in msgs'[a] : n.idx = m.idx
  BY <1>2, <1>3
<1>5. \A a \in Agents : \A n \in msgs'[a] : \E m \in msgs[a] :
        /\ m.idx = n.idx /\ (n.op => m.op)
        /\ n.fate = m.fate \/ (m.fate # "acked" /\ n.fate # "none")
  BY <1>2, <1>3
<1>6. ASSUME NEW a \in Agents, NEW n \in msgs'[a], n.op
      PROVE  \E m \in msgs[a] : /\ m.op /\ m.idx = n.idx
                               /\ \/ n.fate = m.fate
                                  \/ m.fate = "open" /\ n.fate = "returned"
                                  \/ m.fate # "acked" /\ n.fate # "none"
                                     /\ \A r \in Runs : run'[r].st = "free"
  BY <1>1, <1>5, <1>6
<1> QED BY <1>4, <1>6 DEF InputKept, KeptOf

LEMMA SubmitCursor ==
  ASSUME TypeInv, TypeInv', CursorInv, SubmitStep
  PROVE  CursorInv'
<1>1. /\ run' = run /\ cursor' = cursor /\ rowState' = rowState
  BY DEF SubmitStep, SubmitBegin, SubmitEnd, SendAtPasses, TimePasses, rowVars
<1>2. ASSUME NEW s \in Subs, NEW a \in Agents, NEW at \in {"due", "later"},
             NEW t \in BOOLEAN, SubmitBegin(s, a, at, t)
      PROVE  InputKept
  BY <1>2, AppendKept DEF SubmitBegin, Exists
<1>3. ASSUME NEW s \in Subs, SubmitEnd(s)
      PROVE  InputKept
  <2> PICK a \in Agents : a = sub[s].agent
    BY <1>3 DEF TypeInv, Owned, SubmitEnd
  <2> DEFINE W == {m \in msgs[a] : m.idx = sub[s].idx /\ m.fate = "open"}
  <2>1. CASE sub[s].cancelled
    <3>1. msgs' = [msgs EXCEPT ![a] = {IF m \in W THEN [m EXCEPT !.fate = "returned"]
                                       ELSE m : m \in msgs[a]}]
      BY <1>3, <2>1 DEF SubmitEnd
    <3>2. W \in SUBSET msgs[a] /\ \A m \in W : m.fate = "open"
      OBVIOUS
    <3> HIDE DEF W
    <3> QED BY <3>1, <3>2, WithdrawKept DEF TypeInv, TypeOK
  <2>2. CASE ~sub[s].cancelled
    BY <1>3, <2>2, UnchangedKept DEF SubmitEnd
  <2> QED BY <2>1, <2>2
<1>4. ASSUME \/ \E s \in Subs : SendAtPasses(s)
             \/ \E a \in Agents : TimePasses(a)
      PROVE  InputKept
  BY <1>4, UnchangedKept DEF SendAtPasses, TimePasses, rowVars
<1>5. InputKept
  BY <1>2, <1>3, <1>4 DEF SubmitStep
<1> QED BY <1>1, <1>5, InputFrame DEF Exists, Live

LEMMA RunningCursor ==
  ASSUME TypeInv, TypeInv', CursorInv, NEW r \in Runs,
         RunAppend(r) \/ RunClose(r) \/ \E o \in {"ok", "error", "abort"} : RunSettle(r, o)
  PROVE  CursorInv'
<1>1. \A q \in Runs : /\ run'[q].st # "free" => run[q].st # "free"
                      /\ run'[q].agent = run[q].agent /\ run'[q].frontier = run[q].frontier
  <2>1. ASSUME RunClose(r)
        PROVE  \A q \in Runs : /\ run'[q].st # "free" => run[q].st # "free"
                              /\ run'[q].agent = run[q].agent
                              /\ run'[q].frontier = run[q].frontier
    BY <2>1 DEF TypeInv, TypeOK, RunClose, Run
  <2>2. ASSUME NEW o \in {"ok", "error", "abort"}, RunSettle(r, o)
        PROVE  \A q \in Runs : /\ run'[q].st # "free" => run[q].st # "free"
                              /\ run'[q].agent = run[q].agent
                              /\ run'[q].frontier = run[q].frontier
    BY <2>2 DEF TypeInv, TypeOK, RunSettle, Run
  <2> QED BY <2>1, <2>2 DEF RunAppend
<1>2. InputKept
  <2>1. ASSUME RunAppend(r) \/ RunClose(r) PROVE InputKept
    <3> PICK a \in Agents : a = run[r].agent
      BY <2>1 DEF TypeInv, Owned, Live, RunAppend, RunClose
    <3>1. msgs' = [msgs EXCEPT ![a] = @ \cup {Row(NextIdx(a), FALSE, "none")}]
      BY <2>1 DEF RunAppend, RunClose
    <3> QED BY <3>1, AppendKept
  <2>2. ASSUME \E o \in {"ok", "error", "abort"} : RunSettle(r, o) PROVE InputKept
    BY <2>2, UnchangedKept DEF RunSettle, rowVars
  <2> QED BY <2>1, <2>2
<1>3. cursor' = cursor /\ rowState' = rowState
  BY DEF RunAppend, RunClose, RunSettle, rowVars
<1> QED BY <1>1, <1>2, <1>3, InputFrame DEF Exists, Live

LEMMA StopCursor ==
  ASSUME TypeInv, TypeInv', CursorInv, NEW a \in Agents,
         NEW c \in BOOLEAN, NEW t \in BOOLEAN, Stop(a, c, t)
  PROVE  CursorInv'
<1>1. \A q \in Runs : /\ run'[q].st = run[q].st /\ run'[q].agent = run[q].agent
                      /\ run'[q].frontier = run[q].frontier
  BY DEF TypeInv, TypeOK, Stop, Aborted, Run
<1>2. InputKept
  <2> DEFINE W == {m \in msgs[a] : m.fate = "open" /\ ~InGap(a, m.idx)}
  <2>1. CASE c
    <3>1. msgs' = [msgs EXCEPT ![a] = {IF m \in W THEN [m EXCEPT !.fate = "returned"]
                                       ELSE m : m \in msgs[a]}]
      BY <2>1 DEF Stop
    <3>2. W \in SUBSET msgs[a] /\ \A m \in W : m.fate = "open"
      OBVIOUS
    <3> HIDE DEF W
    <3> QED BY <3>1, <3>2, WithdrawKept DEF TypeInv, TypeOK
  <2>2. CASE ~c
    BY <2>2, UnchangedKept DEF Stop
  <2> QED BY <2>1, <2>2
<1> QED BY <1>1, <1>2, InputFrame DEF Stop, Exists, Live

LEMMA ArchiveCursor ==
  ASSUME TypeInv, TypeInv', CursorInv, NEW a \in Agents, Archive(a)
  PROVE  CursorInv'
<1>1. \A q \in Runs : /\ run'[q].st = run[q].st /\ run'[q].agent = run[q].agent
                      /\ run'[q].frontier = run[q].frontier
  BY DEF TypeInv, TypeOK, Archive, Detached, Run
<1>2. \A b \in Agents : Exists(b)' <=> Exists(b)
  BY DEF TypeInv, TypeOK, Archive, Exists
<1> QED BY <1>1, <1>2, UnchangedKept, InputFrame DEF Archive, Live

LEMMA ShutdownCursor ==
  ASSUME TypeInv, TypeInv', CursorInv, ShutdownStep
  PROVE  CursorInv'
<1>1. rowState' = rowState /\ cursor' = cursor
  BY DEF ShutdownStep, ShutdownBegin, ShutdownAbort, ShutdownSettled, ShutdownForce,
         ShutdownExit, Restart, ProcessGone, rowVars
<1>2. CASE ShutdownSettled \/ ShutdownExit
  <2>1. InputKept
    BY <1>2, ProcessGoneKept DEF ShutdownSettled, ShutdownExit
  <2>2. \A r \in Runs : run'[r].st = "free"
    BY <1>2 DEF ShutdownSettled, ShutdownExit, ProcessGone, FreeRun
  <2> QED BY <1>1, <2>1, <2>2, InputFrame DEF Exists
<1>3. CASE ShutdownAbort
  <2>1. \A q \in Runs : /\ run'[q].st = run[q].st /\ run'[q].agent = run[q].agent
                        /\ run'[q].frontier = run[q].frontier
    BY <1>3, ShutdownAbortTyped
  <2> QED BY <1>1, <1>3, <2>1, UnchangedKept, InputFrame DEF ShutdownAbort, rowVars, Exists, Live
<1>4. CASE ShutdownBegin \/ ShutdownForce \/ Restart
  <2>1. run' = run /\ msgs' = msgs
    BY <1>4 DEF ShutdownBegin, ShutdownForce, Restart, rowVars
  <2> QED BY <1>1, <2>1, UnchangedKept, InputFrame DEF Exists, Live
<1> QED BY <1>2, <1>3, <1>4 DEF ShutdownStep

LEMMA CrashCursor ==
  ASSUME TypeInv, TypeInv', CursorInv, Crash
  PROVE  CursorInv'
<1>1. rowState' = rowState /\ cursor' = cursor /\ \A r \in Runs : run'[r].st = "free"
  BY DEF Crash, ProcessGone, FreeRun
<1>2. InputKept
  BY ProcessGoneKept DEF Crash
<1> QED BY <1>1, <1>2, InputFrame DEF Exists

LEMMA CursorStep ==
  ASSUME TypeInv, TypeInv', Held, CursorInv, [CrashNext]_vars
  PROVE  CursorInv'
<1>1. ASSUME NEW r \in Runs, RunStep(r) PROVE CursorInv'
  BY <1>1, ClaimCursor, RunningCursor, RunFinallyCursor DEF RunStep
<1>2. CASE OperatorStep
  BY <1>2, StopCursor, ArchiveCursor, DeleteAgentCursor DEF OperatorStep
<1>3. CASE UNCHANGED vars
  BY <1>3, UnchangedKept, InputFrame DEF vars, Exists, Live
<1> QED BY <1>1, <1>2, <1>3, SubmitCursor, ShutdownCursor, CrashCursor DEF CrashNext, WorkerNext

LEMMA CursorInit == Init => CursorInv
BY DEF Init, CursorInv, FatesKnown, DeletedHasNoInput, CursorBehind, FrontierTaken,
       CursorCoversOnlyAcked, Operator, NextIdx, MaxIdxOf, Live, FreeRun

\* DR-04 on the scheduled path, crashes included: no failed, stopped or interrupted run,
\* and no message that arrived while one was under way, is ever covered by the cursor.
THEOREM CursorIsHonest == CrashSpec => []CursorCoversOnlyAcked
<1>1. Init => TypeInv /\ Held /\ CursorInv
  BY TypeInit, HeldInit, CursorInit
<1>2. TypeInv /\ Held /\ CursorInv /\ [CrashNext]_vars => (TypeInv /\ Held /\ CursorInv)'
  <2> SUFFICES ASSUME TypeInv, Held, CursorInv, [CrashNext]_vars
               PROVE  (TypeInv /\ Held /\ CursorInv)'
    OBVIOUS
  <2>1. [DurableNext]_vars /\ [AnyNext]_vars
    BY DEF DurableNext, AnyNext
  <2>2. TypeInv'
    BY <2>1, TypeStep
  <2> QED BY <2>1, <2>2, HeldStep, CursorStep
<1>3. TypeInv /\ Held /\ CursorInv => CursorCoversOnlyAcked
  BY DEF CursorInv
<1> QED BY <1>1, <1>2, <1>3, PTL DEF CrashSpec

-----------------------------------------------------------------------------
(***************************************************************************)
(* Nothing left behind but by failures.  A run that succeeds or is aborted *)
(* may drop the schedule only if nothing waits for it.  That takes three   *)
(* facts about a live run: what it holds is held by nobody else; whatever  *)
(* is open lies beyond its frontier; and unless the operator stopped it,   *)
(* its claim's own schedule still stands, so that a shutdown or a crash,   *)
(* which puts the run's input back, finds it scheduled.                    *)
(***************************************************************************)
InputStands(a) ==
  /\ \A m \in msgs[a] : m.fate \in {"open", "taken"} => m.op
  /\ \A m \in msgs[a] : m.fate = "taken" => \E r \in Runs : Live(r) /\ run[r].agent = a
  /\ \A r \in Runs : Live(r) /\ run[r].agent = a /\ run[r].by # "operator" => nextRun[a] # "none"
  /\ \A r \in Runs : run[r].agent = a /\ run[r].st = "settled" => run[r].outcome # "none"

StrandInv == \A a \in Agents : rowState[a] = "active" => InputStands(a)

\* What InputStands reads of the runs and the submissions of an agent.
RunsOfKept(a) ==
  /\ \A r \in Runs : Live(r) /\ run[r].agent = a => Live(r)' /\ run'[r].agent = a
  /\ \A r \in Runs : Live(r)' /\ run'[r].agent = a /\ run'[r].by # "operator"
                     => Live(r) /\ run[r].agent = a /\ run[r].by # "operator"
  /\ \A r \in Runs : run'[r].agent = a /\ run'[r].st = "settled" /\ run'[r].outcome = "none"
                     => run[r].agent = a /\ run[r].st = "settled" /\ run[r].outcome = "none"

GapsOfKept(a) == \A i \in 0 .. MaxIdx : InGap(a, i) => InGap(a, i)'

\* An agent whose input is at most joined by rows that are settled, withdrawn or about
\* to be scheduled.
LEMMA StandsFrame ==
  ASSUME TypeInv, NEW a \in Agents, rowState[a] = "active", InputStands(a),
         RunsOfKept(a), GapsOfKept(a),
         nextRun[a] # "none" => nextRun'[a] # "none",
         \A n \in msgs'[a] : \/ n \in msgs[a]
                             \/ n.fate \notin {"open", "taken"}
                             \/ n.fate = "open" /\ n.op /\ InGap(a, n.idx)'
  PROVE  InputStands(a)' /\ StrandsNothingElse(a)
<1>1. \A m \in msgs[a] : m.idx \in 0 .. MaxIdx
  BY DEF TypeInv, TypeOK, Message
<1>2. ASSUME NEW n \in Stranded(a)' PROVE n \in Stranded(a)
  <2>1. /\ n \in msgs'[a] /\ n.fate = "open" /\ nextRun'[a] = "none" /\ ~InGap(a, n.idx)'
    BY <1>2 DEF Stranded
  <2>2. n \in msgs[a] /\ nextRun[a] = "none"
    BY <2>1
  <2>3. ~InGap(a, n.idx)
    BY <1>1, <2>1, <2>2 DEF GapsOfKept
  <2> QED BY <2>1, <2>2, <2>3 DEF Stranded
<1>3. ASSUME NEW n \in msgs'[a], n.fate = "taken"
      PROVE  \E r \in Runs : Live(r)' /\ run'[r].agent = a
  BY <1>3 DEF InputStands, RunsOfKept
<1>4. ASSUME NEW r \in Runs, Live(r)', run'[r].agent = a, run'[r].by # "operator"
      PROVE  nextRun'[a] # "none"
  BY <1>4 DEF InputStands, RunsOfKept
<1>5. ASSUME NEW n \in msgs'[a], n.fate \in {"open", "taken"} PROVE n.op
  BY <1>5 DEF InputStands
<1>6. ASSUME NEW r \in Runs, run'[r].agent = a, run'[r].st = "settled"
      PROVE  run'[r].outcome # "none"
  BY <1>6 DEF InputStands, RunsOfKept
<1>7. InputStands(a)'
  BY <1>3, <1>4, <1>5, <1>6 DEF InputStands
<1> QED BY <1>2, <1>7 DEF StrandsNothingElse

\* The step of one agent's input, for all agents: one that is not active has none.
StrandStep == StrandInv' /\ \A a \in Agents : StrandsNothingElse(a)

LEMMA StepByAgent ==
  ASSUME \A b \in Agents : rowState'[b] = "active" => InputStands(b)' /\ StrandsNothingElse(b)
  PROVE  StrandStep
<1>1. ASSUME NEW b \in Agents, rowState'[b] # "active" PROVE StrandsNothingElse(b)
  BY <1>1 DEF StrandsNothingElse, Stranded
<1> QED BY <1>1 DEF StrandStep, StrandInv

\* The new message is open, and the submission that inserted it will schedule it.
LEMMA SubmitBeginStands ==
  ASSUME TypeInv, StrandInv, NEW s \in Subs, NEW a \in Agents, NEW at \in {"due", "later"},
         NEW t \in BOOLEAN, SubmitBegin(s, a, at, t)
  PROVE  StrandStep
<1> SUFFICES ASSUME NEW b \in Agents, rowState[b] = "active"
             PROVE  InputStands(b)' /\ StrandsNothingElse(b)
  BY StepByAgent DEF SubmitBegin
<1>1. /\ sub'[s].st = "gap" /\ sub'[s].agent = a /\ sub'[s].idx = NextIdx(a)
      /\ \A x \in Subs : x # s => sub'[x] = sub[x]
      /\ sub[s].st # "gap" /\ run' = run /\ nextRun' = nextRun
      /\ \A n \in msgs'[b] : n \in msgs[b] \/ (b = a /\ n = Row(NextIdx(a), TRUE, "open"))
  BY DEF TypeInv, TypeOK, SubmitBegin
<1>2. RunsOfKept(b) /\ GapsOfKept(b)
  BY <1>1 DEF RunsOfKept, GapsOfKept, InGap, Live
<1>3. ASSUME NEW n \in msgs'[b], n \notin msgs[b]
      PROVE  n.fate = "open" /\ n.op /\ InGap(b, n.idx)'
  <2>1. b = a /\ n = Row(NextIdx(a), TRUE, "open")
    BY <1>1, <1>3
  <2> QED BY <2>1, <1>1 DEF Row, InGap
<1> QED BY <1>1, <1>2, <1>3, StandsFrame DEF StrandInv

\* Scheduling, or withdrawing the message when the caller has cancelled.
LEMMA SubmitEndStands ==
  ASSUME TypeInv, StrandInv, NEW s \in Subs, SubmitEnd(s)
  PROVE  StrandStep
<1> SUFFICES ASSUME NEW b \in Agents, rowState[b] = "active"
             PROVE  InputStands(b)' /\ StrandsNothingElse(b)
  BY StepByAgent DEF SubmitEnd
<1> DEFINE a == sub[s].agent
           Withdrawn(m) == IF m.idx = sub[s].idx /\ m.fate = "open"
                           THEN [m EXCEPT !.fate = "returned"] ELSE m
<1>1. /\ a \in Agents /\ sub'[s].st = "free" /\ run' = run
      /\ \A x \in Subs : x # s => sub'[x] = sub[x]
  BY DEF TypeInv, TypeOK, Owned, SubmitEnd, FreeSub
<1>2. InputStands(b) /\ RunsOfKept(b)
  BY <1>1 DEF StrandInv, RunsOfKept, Live
<1>3. CASE b # a
  <2>1. GapsOfKept(b) /\ msgs'[b] = msgs[b] /\ nextRun'[b] = nextRun[b]
    BY <1>1, <1>3 DEF TypeInv, TypeOK, SubmitEnd, GapsOfKept, InGap
  <2> QED BY <1>2, <2>1, StandsFrame
<1>4. CASE b = a /\ ~sub[s].cancelled
  <2>1. nextRun'[b] \in {"due", "later"} /\ msgs' = msgs
    BY <1>4 DEF TypeInv, TypeOK, SubmitEnd, Latest, Exists
  <2>2. Stranded(b)' = {}
    BY <2>1 DEF Stranded
  <2> QED BY <1>1, <1>2, <2>1, <2>2 DEF InputStands, Live, StrandsNothingElse
<1>5. CASE b = a /\ sub[s].cancelled
  <2>1. nextRun' = nextRun /\ msgs'[b] = {Withdrawn(m) : m \in msgs[b]}
    BY <1>5 DEF TypeInv, TypeOK, SubmitEnd
  <2>2. \A m \in msgs[b] : \/ Withdrawn(m) = m /\ ~(m.idx = sub[s].idx /\ m.fate = "open")
                           \/ Withdrawn(m).fate = "returned"
    BY DEF TypeInv, TypeOK, Message
  <2>3. \A i : InGap(b, i) /\ i # sub[s].idx => InGap(b, i)'
    BY <1>1 DEF InGap
  <2>4. \A n \in msgs'[b] : \/ n \in msgs[b] /\ ~(n.idx = sub[s].idx /\ n.fate = "open")
                            \/ n.fate = "returned"
    BY <2>1, <2>2
  <2>5. InputStands(b)'
    BY <1>1, <1>2, <2>1, <2>4 DEF InputStands, Live
  <2>6. \A n \in Stranded(b)' : n \in Stranded(b)
    BY <2>1, <2>3, <2>4 DEF Stranded
  <2> QED BY <2>5, <2>6 DEF StrandsNothingElse
<1> QED BY <1>3, <1>4, <1>5

\* Nothing is open once an agent is claimed, and the claim leaves its schedule.
LEMMA ClaimStands ==
  ASSUME TypeInv, StrandInv, Held, NEW r \in Runs, NEW a \in Agents, Claim(r, a)
  PROVE  StrandStep
<1> SUFFICES ASSUME NEW b \in Agents, rowState[b] = "active"
             PROVE  InputStands(b)' /\ StrandsNothingElse(b)
  BY StepByAgent DEF Claim
<1>1. /\ run'[r].st = "working" /\ run'[r].agent = a
      /\ \A q \in Runs : q # r => run'[q] = run[q]
      /\ ~Live(r) /\ nextRun' = nextRun /\ nextRun[a] = "due" /\ sub' = sub
  BY DEF TypeInv, TypeOK, Claim, NewRun, Live
<1>2. CASE b # a
  <2>1. RunsOfKept(b) /\ GapsOfKept(b) /\ msgs'[b] = msgs[b]
    BY <1>1, <1>2 DEF TypeInv, TypeOK, Claim, RunsOfKept, GapsOfKept, InGap, Live
  <2> QED BY <1>1, <2>1, StandsFrame DEF StrandInv
<1>3. CASE b = a
  <2>1. \A n \in msgs'[a] : n.fate # "open"
    <3>1. \A m \in msgs[a] : m.fate = "open" => m.op
      BY <1>3 DEF StrandInv, InputStands
    <3>2. ASSUME NEW m \in msgs[a]
          PROVE  (IF m.op /\ m.fate \in {"open", "returned"}
                  THEN [m EXCEPT !.fate = "taken"] ELSE m).fate # "open"
      BY <3>1 DEF TypeInv, TypeOK, Message
    <3>3. msgs'[a] = WithFate(msgs[a], {"open", "returned"}, "taken")
      BY DEF TypeInv, TypeOK, Claim
    <3> QED BY <3>2, <3>3 DEF WithFate
  <2>3. \A n \in msgs'[a] : n.fate = "taken" => n.op
    <3>1. \A m \in msgs[a] : m.fate = "taken" => m.op
      BY <1>3 DEF StrandInv, InputStands
    <3>2. ASSUME NEW m \in msgs[a],
                 (IF m.op /\ m.fate \in {"open", "returned"}
                  THEN [m EXCEPT !.fate = "taken"] ELSE m).fate = "taken"
          PROVE  (IF m.op /\ m.fate \in {"open", "returned"}
                  THEN [m EXCEPT !.fate = "taken"] ELSE m).op
      BY <3>1, <3>2 DEF TypeInv, TypeOK, Message
    <3>3. msgs'[a] = WithFate(msgs[a], {"open", "returned"}, "taken")
      BY DEF TypeInv, TypeOK, Claim
    <3> QED BY <3>2, <3>3 DEF WithFate
  <2>2. Live(r)'
    BY <1>1 DEF Live
  <2>4. \A q \in Runs : run'[q].agent = a /\ run'[q].st = "settled" => run'[q].outcome # "none"
    BY <1>1, <1>3 DEF StrandInv, InputStands
  <2>5. Stranded(a)' = {}
    BY <2>1 DEF Stranded
  <2> QED BY <1>1, <1>3, <2>1, <2>2, <2>3, <2>4, <2>5 DEF InputStands, StrandsNothingElse
<1> QED BY <1>2, <1>3

\* What may still be open when run q ends: input that arrived behind it, and is therefore
\* beyond its frontier, or input it gives back because the process is shutting down.
LEMMA OpenAfterRun ==
  ASSUME NEW q \in Run, NEW m \in Message, FateAfter(q, m) = "open"
  PROVE  \/ m.fate = "open"
         \/ m.fate = "taken" /\ q.outcome = "abort" /\ phase # "up" /\ q.by # "operator"
BY DEF FateAfter

\* finally drops the schedule only when what is open is about to be scheduled.
LEMMA RunFinallyStands ==
  ASSUME TypeInv, StrandInv, Held, CursorInv, NEW r \in Runs, RunFinally(r)
  PROVE  StrandStep
<1> SUFFICES ASSUME NEW b \in Agents, rowState[b] = "active"
             PROVE  InputStands(b)' /\ StrandsNothingElse(b)
  BY StepByAgent DEF RunFinally
<1> PICK q \in Run, a \in Agents : q = run[r] /\ a = run[r].agent
  BY DEF TypeInv, TypeOK, Owned, Live, RunFinally
<1> DEFINE After(m) == [m EXCEPT !.fate = FateAfter(q, m)]
<1>1. /\ Live(r) /\ run'[r].st = "free" /\ \A p \in Runs : p # r => run'[p] = run[p]
      /\ sub' = sub /\ q.agent = a
  BY DEF TypeInv, TypeOK, RunFinally, FreeRun, Live
<1>2. CASE b # a
  <2>1. RunsOfKept(b) /\ GapsOfKept(b) /\ msgs'[b] = msgs[b] /\ nextRun'[b] = nextRun[b]
    BY <1>1, <1>2 DEF TypeInv, TypeOK, RunFinally, RunsOfKept, GapsOfKept, InGap, Live
  <2> QED BY <2>1, StandsFrame DEF StrandInv
<1>3. CASE b = a
  <2>1. InputStands(a)
    BY <1>3 DEF StrandInv
  <2>2. msgs'[a] = {After(m) : m \in msgs[a]} /\ nextRun'[a] = NextRunAfter(q)
    BY <1>3 DEF TypeInv, TypeOK, RunFinally, Exists
  <2>3. \A m \in msgs[a] : /\ m \in Message /\ After(m).fate = FateAfter(q, m)
                           /\ After(m).idx = m.idx /\ After(m).op = m.op
    BY DEF TypeInv, TypeOK, Message
  <2>4. \A p \in Runs : ~(Live(p)' /\ run'[p].agent = a)
    BY <1>1 DEF Held, OneRunPerAgent, Live
  <2>5. \A m \in msgs[a] : FateAfter(q, m) # "taken"
    BY DEF FateAfter
  <2>6. ASSUME NEW m \in msgs[a], FateAfter(q, m) = "open"
        PROVE  /\ m.op
               /\ \/ nextRun'[a] # "none"
                  \/ m.fate = "open" /\ nextRun[a] = "none"
                  \/ m.fate = "open" /\ q.outcome = "error" /\ q.frontier < m.idx
    <3>1. m.op
      BY <2>1, <2>3, <2>6, OpenAfterRun DEF InputStands
    <3>2. CASE m.fate = "taken" /\ q.outcome = "abort" /\ phase # "up" /\ q.by # "operator"
      <4>1. nextRun[a] # "none"
        BY <1>1, <2>1, <3>2 DEF InputStands
      <4> QED BY <2>2, <3>1, <3>2, <4>1 DEF NextRunAfter, PreserveForShutdown
    <3>3. CASE m.fate = "open" /\ nextRun[a] # "none"
      <4>1. q.frontier \in Int /\ Frontier(a) \in Int /\ m.idx \in Int /\ m.idx <= Frontier(a)
        BY <2>3, <3>1, Indices, ConstantsAssumption DEF TypeInv, Run, Message, Idx
      <4>2. ~(m.idx <= q.frontier)
        <5>1. Exists(a)
          BY <1>3 DEF Exists
        <5>2. m \in Operator(msgs[a])
          BY <3>1 DEF Operator
        <5> QED BY <1>1, <3>3, <5>1, <5>2 DEF CursorInv, FrontierTaken
      <4>3. Frontier(a) > q.frontier /\ q.frontier < m.idx
        BY <4>1, <4>2
      <4>4. q.outcome # "none"
        BY <2>1 DEF RunFinally, InputStands
      <4> QED BY <1>1, <2>2, <3>1, <3>3, <4>3, <4>4
              DEF NextRunAfter, StillPending, CursorAfter, Run
    <3> QED BY <1>1, <2>1, <2>3, <2>6, <3>1, <3>2, <3>3, OpenAfterRun DEF InputStands
  <2>7. \A i : InGap(a, i)' <=> InGap(a, i)
    BY <1>1 DEF InGap
  <2>8. \A m \in msgs[a] : m.fate = "open" => After(m) = m
    BY <2>3 DEF FateAfter, Message
  <2> HIDE DEF After
  <2>9. ASSUME NEW n \in msgs'[a], n.fate \in {"open", "taken"} PROVE n.op
    BY <2>2, <2>3, <2>5, <2>6, <2>9
  <2>10. \A n \in msgs'[a] : n.fate # "taken"
    BY <2>2, <2>3, <2>5
  <2>11. ASSUME NEW p \in Runs, run'[p].agent = a, run'[p].st = "settled" PROVE FALSE
    BY <2>4, <2>11 DEF Live
  <2>12. InputStands(a)'
    BY <2>4, <2>9, <2>10, <2>11 DEF InputStands
  <2>13. ASSUME NEW n \in Stranded(a)' PROVE n \in Stranded(a) \/ LateInFailedRun(a, n)
    <3>1. /\ n \in msgs'[a] /\ n.fate = "open" /\ nextRun'[a] = "none" /\ ~InGap(a, n.idx)
      BY <2>7, <2>13 DEF Stranded
    <3>2. PICK m \in msgs[a] : n = After(m)
      BY <2>2, <3>1
    <3>3. m.fate = "open" /\ (nextRun[a] = "none" \/ (q.outcome = "error" /\ q.frontier < m.idx))
      BY <2>3, <2>6, <3>1, <3>2
    <3>4. n = m
      BY <2>8, <3>2, <3>3
    <3>5. CASE nextRun[a] = "none"
      BY <1>3, <3>1, <3>3, <3>4, <3>5 DEF Stranded
    <3>6. CASE q.outcome = "error" /\ q.frontier < m.idx
      BY <1>1, <3>4, <3>6 DEF LateInFailedRun
    <3> QED BY <3>3, <3>5, <3>6
  <2> QED BY <1>3, <2>12, <2>13 DEF StrandsNothingElse
<1> QED BY <1>2, <1>3

LEMMA OperatorStands ==
  ASSUME TypeInv, StrandInv, Held, OperatorStep
  PROVE  StrandStep
<1>1. ASSUME NEW a \in Agents, NEW c \in BOOLEAN, NEW t \in BOOLEAN, Stop(a, c, t)
      PROVE  StrandStep
  <2> SUFFICES ASSUME NEW b \in Agents, rowState[b] = "active"
               PROVE  InputStands(b)' /\ StrandsNothingElse(b)
    BY <1>1, StepByAgent DEF Stop
  <2> DEFINE New(m) == IF m.fate = "open" /\ ~InGap(a, m.idx)
                       THEN [m EXCEPT !.fate = "returned"] ELSE m
  <2>1. \A q \in Runs : /\ run'[q].st = run[q].st /\ run'[q].agent = run[q].agent
                        /\ run'[q].outcome = run[q].outcome
                        /\ run'[q].by = run[q].by \/ run'[q].by = "operator"
                        /\ q = ctl[a] => run'[q].by = "operator"
    BY <1>1 DEF TypeInv, TypeOK, Stop, Aborted, Run
  <2>2. \A x \in Subs : /\ sub'[x].st = sub[x].st /\ sub'[x].agent = sub[x].agent
                        /\ sub'[x].idx = sub[x].idx
    BY <1>1 DEF TypeInv, TypeOK, Stop, CancelTerminal, Submission
  <2>3. RunsOfKept(b) /\ GapsOfKept(b) /\ \A i : InGap(b, i)' <=> InGap(b, i)
    BY <2>1, <2>2 DEF RunsOfKept, GapsOfKept, InGap, Live
  <2>4. CASE b # a \/ ~c
    <3>1. msgs'[b] = msgs[b] /\ nextRun'[b] = nextRun[b]
      BY <1>1, <2>4 DEF TypeInv, TypeOK, Stop
    <3> QED BY <2>3, <3>1, StandsFrame DEF StrandInv
  <2>5. CASE b = a /\ c
    <3>1. InputStands(a) /\ msgs'[a] = {New(m) : m \in msgs[a]}
      BY <1>1, <2>5 DEF StrandInv, TypeInv, TypeOK, Stop
    <3>2. \A m \in msgs[a] : \/ New(m) = m /\ ~(m.fate = "open" /\ ~InGap(a, m.idx))
                             \/ New(m).fate = "returned"
      BY DEF TypeInv, TypeOK, Message
    <3>3. \A n \in msgs'[a] : \/ n \in msgs[a] /\ (n.fate = "open" => InGap(a, n.idx))
                             \/ n.fate = "returned"
      BY <3>1, <3>2
    <3>4. \A q \in Runs : Live(q) /\ run[q].agent = a => run'[q].by = "operator"
      <4>1. \A q \in Runs : Live(q) /\ run[q].agent = a => ctl[a] = q
        BY <2>5 DEF Held, ControllerFollowsRun
      <4> QED BY <2>1, <4>1
    <3> HIDE DEF New
    <3>5. \A n \in msgs'[a] : n.fate = "taken" => \E r \in Runs : Live(r)' /\ run'[r].agent = a
      BY <2>1, <3>1, <3>3 DEF InputStands, Live
    <3>6. ASSUME NEW n \in msgs'[a], n.fate \in {"open", "taken"} PROVE n.op
      BY <3>1, <3>3, <3>6 DEF InputStands
    <3>7. ASSUME NEW n \in msgs'[a], n.fate = "open" PROVE InGap(a, n.idx)'
      BY <2>3, <2>5, <3>3, <3>7
    <3>9. ASSUME NEW r \in Runs, Live(r)', run'[r].agent = a PROVE run'[r].by = "operator"
      BY <2>1, <3>4, <3>9 DEF Live
    <3>10. ASSUME NEW r \in Runs, run'[r].agent = a, run'[r].st = "settled"
           PROVE  run'[r].outcome # "none"
      BY <2>1, <3>1, <3>10 DEF InputStands
    <3>8. InputStands(a)'
      BY <3>5, <3>6, <3>9, <3>10 DEF InputStands
    <3>11. Stranded(a)' = {}
      BY <3>7 DEF Stranded
    <3> QED BY <2>5, <3>8, <3>11 DEF StrandsNothingElse
  <2> QED BY <2>4, <2>5
<1>2. ASSUME NEW a \in Agents, Archive(a) \/ DeleteAgent(a)
      PROVE  StrandStep
  <2> SUFFICES ASSUME NEW b \in Agents, rowState'[b] = "active"
               PROVE  InputStands(b)' /\ StrandsNothingElse(b)
    BY StepByAgent
  <2>1. /\ b # a /\ rowState[b] = "active" /\ msgs'[b] = msgs[b] /\ nextRun'[b] = nextRun[b]
        /\ run' = Detached(a) /\ sub' = sub
    BY <1>2 DEF TypeInv, TypeOK, Archive, DeleteAgent
  <2>2. \A q \in Runs : run'[q].agent = run[q].agent /\ (run[q].agent # a => run'[q] = run[q])
    BY <2>1, DetachedTyped
  <2>3. RunsOfKept(b) /\ GapsOfKept(b)
    BY <2>1, <2>2 DEF RunsOfKept, GapsOfKept, InGap, Live
  <2> QED BY <2>1, <2>3, StandsFrame DEF StrandInv
<1> QED BY <1>1, <1>2 DEF OperatorStep

\* The process is gone: what its runs held is open again, and still scheduled; what was
\* about to be scheduled is left behind.
LEMMA ProcessGoneStands ==
  ASSUME TypeInv, StrandInv, ProcessGone
  PROVE  StrandStep
<1> SUFFICES ASSUME NEW a \in Agents, rowState[a] = "active"
             PROVE  InputStands(a)' /\ StrandsNothingElse(a)
  BY StepByAgent DEF ProcessGone
<1> DEFINE Left(m) ==
      IF m.fate = "taken"
      THEN [m EXCEPT !.fate = IF \E r \in RunsOf(a) : run[r].by = "operator"
                              THEN "returned" ELSE "open"]
      ELSE m
<1>1. /\ InputStands(a) /\ msgs'[a] = {Left(m) : m \in msgs[a]} /\ nextRun' = nextRun
      /\ \A r \in Runs : run'[r].st = "free"
      /\ phase' = "down"
  BY DEF StrandInv, ProcessGone, FreeRun
<1>2. ASSUME NEW m \in msgs[a]
      PROVE  /\ Left(m).fate # "taken"
             /\ Left(m).fate = "open"
                => Left(m).op /\ (nextRun[a] # "none" \/ (Left(m) = m /\ m.fate = "open"))
  <2>1. m \in Message
    BY DEF TypeInv, TypeOK
  <2>2. CASE m.fate = "taken"
    <3>1. m.op /\ \E r \in Runs : Live(r) /\ run[r].agent = a
      BY <1>1, <2>2 DEF InputStands
    <3>2. nextRun[a] = "none" => \E r \in RunsOf(a) : run[r].by = "operator"
      BY <1>1, <3>1 DEF InputStands, RunsOf
    <3> QED BY <2>1, <2>2, <3>1, <3>2 DEF Message
  <2>3. CASE m.fate # "taken"
    BY <1>1, <2>1, <2>3 DEF InputStands, Message
  <2> QED BY <2>2, <2>3
<1> HIDE DEF Left
<1>3. ASSUME NEW n \in msgs'[a] PROVE n.fate # "taken"
  BY <1>1, <1>2
<1>4. ASSUME NEW n \in msgs'[a], n.fate = "open"
      PROVE  n.op /\ (nextRun[a] # "none" \/ n \in msgs[a])
  BY <1>1, <1>2, <1>4
<1>5. \A r \in Runs : ~Live(r)' /\ run'[r].st # "settled"
  BY <1>1 DEF Live
<1>6. ASSUME NEW n \in Stranded(a)' PROVE n \in Stranded(a) \/ DiedInGap(a, n)
  <2>1. n \in msgs'[a] /\ n.fate = "open" /\ nextRun[a] = "none"
    BY <1>1, <1>6 DEF Stranded
  <2>2. n \in msgs[a]
    BY <1>4, <2>1
  <2> QED BY <1>1, <2>1, <2>2 DEF Stranded, DiedInGap
<1> QED BY <1>3, <1>4, <1>5, <1>6 DEF InputStands, StrandsNothingElse

LEMMA StandsStep ==
  ASSUME TypeInv, TypeInv', Held, CursorInv, StrandInv, [CrashNext]_vars
  PROVE  StrandStep
<1>1. ASSUME rowState' = rowState,
             \A a \in Agents : RunsOfKept(a) /\ GapsOfKept(a) /\ nextRun'[a] = nextRun[a]
                              /\ \A n \in msgs'[a] : n \in msgs[a] \/ n.fate = "none"
      PROVE  StrandStep
  BY <1>1, StandsFrame, StepByAgent DEF StrandInv
<1>2. ASSUME NEW r \in Runs, RunAppend(r) \/ RunClose(r)
      PROVE  StrandStep
  <2>1. \A a \in Agents : \A n \in msgs'[a] : n \in msgs[a] \/ n.fate = "none"
    BY <1>2 DEF TypeInv, TypeOK, RunAppend, RunClose, Row
  <2>2. \A q \in Runs : /\ run'[q].agent = run[q].agent /\ run'[q].by = run[q].by
                        /\ run'[q].outcome = run[q].outcome
                        /\ \/ run'[q].st = run[q].st
                           \/ run[q].st = "working" /\ run'[q].st = "closing"
    <3>1. ASSUME RunClose(r), NEW q \in Runs
          PROVE  /\ run'[q].agent = run[q].agent /\ run'[q].by = run[q].by
                 /\ run'[q].outcome = run[q].outcome
                 /\ \/ run'[q].st = run[q].st
                    \/ run[q].st = "working" /\ run'[q].st = "closing"
      <4>1. run[r] \in Run /\ run' = [run EXCEPT ![r].st = "closing"] /\ run[r].st = "working"
        BY <3>1 DEF TypeInv, TypeOK, RunClose
      <4>2. run'[r] = [run[r] EXCEPT !.st = "closing"] /\ (q # r => run'[q] = run[q])
        BY <4>1 DEF TypeInv, TypeOK
      <4> QED BY <4>1, <4>2 DEF Run
    <3> QED BY <1>2, <3>1 DEF RunAppend
  <2>3. \A a \in Agents : RunsOfKept(a) /\ GapsOfKept(a)
    BY <1>2, <2>2 DEF RunsOfKept, GapsOfKept, InGap, Live, RunAppend, RunClose
  <2> QED BY <1>1, <1>2, <2>1, <2>3 DEF RunAppend, RunClose
<1>3. ASSUME NEW r \in Runs, NEW o \in {"ok", "error", "abort"}, RunSettle(r, o)
      PROVE  StrandStep
  <2>1. \A q \in Runs : /\ run'[q].agent = run[q].agent /\ run'[q].by = run[q].by
                        /\ run'[q] = run[q] \/ (/\ Live(q) /\ run'[q].st = "settled"
                                                /\ run'[q].outcome # "none")
    BY <1>3 DEF TypeInv, TypeOK, RunSettle, Run, Live
  <2>2. \A a \in Agents : RunsOfKept(a) /\ GapsOfKept(a)
    BY <1>3, <2>1 DEF RunsOfKept, GapsOfKept, InGap, Live, RunSettle
  <2> QED BY <1>1, <1>3, <2>2 DEF RunSettle, rowVars
<1>4. CASE SubmitStep
  <2>1. ASSUME NEW s \in Subs, SendAtPasses(s) PROVE StrandStep
    <3>1. \A x \in Subs : /\ sub'[x].st = sub[x].st /\ sub'[x].agent = sub[x].agent
                          /\ sub'[x].idx = sub[x].idx
      BY <2>1 DEF TypeInv, TypeOK, SendAtPasses, Submission
    <3> QED BY <1>1, <2>1, <3>1 DEF SendAtPasses, rowVars, RunsOfKept, GapsOfKept, InGap, Live
  <2>2. ASSUME NEW a \in Agents, TimePasses(a) PROVE StrandStep
    <3>1. \A b \in Agents : nextRun[b] # "none" => nextRun'[b] # "none"
      BY <2>2 DEF TypeInv, TypeOK, TimePasses
    <3>2. \A b \in Agents : RunsOfKept(b) /\ GapsOfKept(b)
      BY <2>2 DEF TimePasses, RunsOfKept, GapsOfKept, InGap, Live
    <3> SUFFICES ASSUME NEW b \in Agents, rowState[b] = "active"
                 PROVE  InputStands(b)' /\ StrandsNothingElse(b)
      BY <2>2, StepByAgent DEF TimePasses
    <3>3. msgs'[b] = msgs[b] /\ InputStands(b)
      BY <2>2 DEF StrandInv, TimePasses
    <3> QED BY <3>1, <3>2, <3>3, StandsFrame
  <2> QED BY <1>4, <2>1, <2>2, SubmitBeginStands, SubmitEndStands DEF SubmitStep
<1>5. CASE ShutdownStep
  <2>1. CASE ShutdownAbort
    <3>1. \A q \in Runs : /\ run'[q].st = run[q].st /\ run'[q].agent = run[q].agent
                          /\ run'[q].outcome = run[q].outcome
                          /\ run'[q].by = run[q].by \/ run[q].by = "none"
      <4> SUFFICES ASSUME NEW q \in Runs
                   PROVE  /\ run'[q].st = run[q].st /\ run'[q].agent = run[q].agent
                          /\ run'[q].outcome = run[q].outcome
                          /\ run'[q].by = run[q].by \/ run[q].by = "none"
        OBVIOUS
      <4>1. run[q] \in Run
        BY DEF TypeInv, TypeOK
      <4>2. \/ run'[q] = run[q]
            \/ run'[q] = [run[q] EXCEPT !.aborted = TRUE,
                                        !.by = IF @ = "none" THEN "shutdown" ELSE @]
        BY <2>1 DEF ShutdownAbort
      <4> QED BY <4>1, <4>2 DEF Run
    <3>2. \A a \in Agents : RunsOfKept(a) /\ GapsOfKept(a)
      BY <2>1, <3>1 DEF ShutdownAbort, RunsOfKept, GapsOfKept, InGap, Live
    <3> QED BY <1>1, <2>1, <3>2 DEF ShutdownAbort, rowVars
  <2>2. CASE ShutdownBegin \/ ShutdownForce \/ Restart
    BY <1>1, <2>2 DEF ShutdownBegin, ShutdownForce, Restart, rowVars, RunsOfKept, GapsOfKept,
                      InGap, Live
  <2>3. CASE ShutdownSettled \/ ShutdownExit
    BY <2>3, ProcessGoneStands DEF ShutdownSettled, ShutdownExit
  <2> QED BY <1>5, <2>1, <2>2, <2>3 DEF ShutdownStep
<1>6. CASE Crash
  BY <1>6, ProcessGoneStands DEF Crash
<1>7. CASE UNCHANGED vars
  BY <1>1, <1>7 DEF vars, RunsOfKept, GapsOfKept, InGap, Live
<1> QED BY <1>2, <1>3, <1>4, <1>5, <1>6, <1>7, ClaimStands, RunFinallyStands, OperatorStands
        DEF CrashNext, WorkerNext, RunStep

LEMMA CrashSafe == CrashSpec => [](TypeInv /\ Held /\ CursorInv /\ StrandInv)
<1>1. Init => TypeInv /\ Held /\ CursorInv /\ StrandInv
  <2>1. Init => StrandInv
    BY DEF Init, StrandInv, InputStands, Live, FreeRun
  <2> QED BY <2>1, TypeInit, HeldInit, CursorInit
<1>2. TypeInv /\ Held /\ CursorInv /\ StrandInv /\ [CrashNext]_vars
      => (TypeInv /\ Held /\ CursorInv /\ StrandInv)'
  <2> SUFFICES ASSUME TypeInv, Held, CursorInv, StrandInv, [CrashNext]_vars
               PROVE  (TypeInv /\ Held /\ CursorInv /\ StrandInv)'
    OBVIOUS
  <2>1. [DurableNext]_vars /\ [AnyNext]_vars
    BY DEF DurableNext, AnyNext
  <2>2. TypeInv'
    BY <2>1, TypeStep
  <2> QED BY <2>1, <2>2, HeldStep, CursorStep, StandsStep DEF StrandStep
<1> QED BY <1>1, <1>2, PTL DEF CrashSpec

\* On the scheduled path, crashes and shutdowns included, whatever the runs, stops,
\* archivings and restarts before: a step that leaves input behind which no run has started
\* with and none is scheduled to is the end of a failed run it arrived during, or the death
\* of the process while its submission was suspended.
THEOREM NothingIsLeftBehind == CrashSpec => OnlyFailuresStrand
<1>1. TypeInv /\ TypeInv' /\ Held /\ CursorInv /\ StrandInv /\ [CrashNext]_vars
      => [\A a \in Agents : StrandsNothingElse(a)]_vars
  BY StandsStep DEF StrandStep
<1>2. [](TypeInv /\ Held /\ CursorInv /\ StrandInv) /\ [][CrashNext]_vars
      => [][\A a \in Agents : StrandsNothingElse(a)]_vars
  BY <1>1, PTL
<1> QED BY <1>2, CrashSafe, PTL DEF CrashSpec, OnlyFailuresStrand

-----------------------------------------------------------------------------
(***************************************************************************)
(* The inbox.  BoxStatus reads three things of an agent: where its input   *)
(* lies, how far its cursor reaches, and what its runs began with.  For    *)
(* the end of a run to acknowledge exactly what it held, the cursor must   *)
(* not reach beyond the frontier of a live run, and both must stand on     *)
(* input there is, or a claim could find the cursor ahead of all input.    *)
(***************************************************************************)
Anchored(a, i) == i = -1 \/ \E m \in msgs[a] : m.op /\ m.idx = i

Anchors(a) ==
  Exists(a) =>
    /\ Anchored(a, cursor[a])
    /\ \A r \in Runs : Live(r) /\ run[r].agent = a
                       => Anchored(a, run[r].frontier) /\ cursor[a] <= run[r].frontier

AnchorInv == \A a \in Agents : Anchors(a)

InputGrows(a) == \A m \in msgs[a] : m.op => \E n \in msgs'[a] : n.op /\ n.idx = m.idx

NoNewInput(a) == \A n \in msgs'[a] : n.op => \E m \in msgs[a] : m.op /\ m.idx = n.idx

SameTurns(a) ==
  /\ \A r \in Runs : Live(r)' /\ run'[r].agent = a <=> Live(r) /\ run[r].agent = a
  /\ \A r \in Runs : Live(r) /\ run[r].agent = a => /\ run'[r].kind = run[r].kind
                                                  /\ run'[r].frontier = run[r].frontier

SameBox(a) ==
  /\ InputGrows(a) /\ NoNewInput(a) /\ SameTurns(a) /\ cursor'[a] = cursor[a]
  /\ Exists(a)' => Exists(a)

LEMMA AnchorsFrame ==
  ASSUME NEW a \in Agents, Anchors(a), InputGrows(a), SameTurns(a), cursor'[a] = cursor[a],
         Exists(a)' => Exists(a)
  PROVE  Anchors(a)'
BY DEF Anchors, Anchored, InputGrows, SameTurns

BoxOf(a) == [i \in 0 .. MaxIdx |-> BoxStatus(a, i)]
Busy(a) == WorkerRunsOf(a) # {}

LEMMA SameBoxIsSame ==
  ASSUME NEW a \in Agents, SameBox(a)
  PROVE  BoxOf(a)' = BoxOf(a) /\ Busy(a)' = Busy(a)
<1>1. \A r \in Runs : /\ r \in WorkerRunsOf(a)' <=> r \in WorkerRunsOf(a)
                      /\ r \in WorkerRunsOf(a) => run'[r].frontier = run[r].frontier
  BY DEF SameBox, SameTurns, WorkerRunsOf, RunsOf
<1>2. WorkerRunsOf(a) \subseteq Runs /\ WorkerRunsOf(a)' \subseteq Runs
  BY DEF WorkerRunsOf, RunsOf
<1>3. ASSUME NEW i \in 0 .. MaxIdx
      PROVE  BoxStatus(a, i)' = BoxStatus(a, i)
  <2>1. (\E m \in msgs'[a] : m.idx = i /\ m.op) <=> (\E m \in msgs[a] : m.idx = i /\ m.op)
    BY DEF SameBox, InputGrows, NoNewInput
  <2>2. (\E r \in WorkerRunsOf(a)' : i <= run'[r].frontier)
        <=> (\E r \in WorkerRunsOf(a) : i <= run[r].frontier)
    BY <1>1, <1>2
  <2> QED BY <2>1, <2>2 DEF SameBox, BoxStatus
<1>4. BoxOf(a)' = BoxOf(a)
  BY <1>3 DEF BoxOf
<1>5. WorkerRunsOf(a)' = WorkerRunsOf(a)
  BY <1>1, <1>2
<1> QED BY <1>4, <1>5 DEF Busy

Boxes == [a \in Agents |-> BoxOf(a)]
Turns == [a \in Agents |-> Busy(a)]

LEMMA InboxIsBoxes ==
  /\ Inbox!inbox = <<Boxes, Turns>>
  /\ (Inbox!inbox)' = <<Boxes', Turns'>>
BY DEF Inbox!inbox, Boxes, Turns, BoxOf, Busy

\* A step that touches the box of one agent at most.
LEMMA OneBox ==
  ASSUME NEW a \in Agents, \A b \in Agents : b # a => SameBox(b)
  PROVE  /\ Boxes' = [Boxes EXCEPT ![a] = BoxOf(a)']
         /\ Turns' = [Turns EXCEPT ![a] = Busy(a)']
<1>1. \A b \in Agents : b # a => BoxOf(b)' = BoxOf(b) /\ Busy(b)' = Busy(b)
  BY SameBoxIsSame
<1> QED BY <1>1 DEF Boxes, Turns

LEMMA Stutters ==
  ASSUME \A a \in Agents : SameBox(a)
  PROVE  UNCHANGED Inbox!inbox
<1>1. Boxes' = Boxes /\ Turns' = Turns
  BY SameBoxIsSame DEF Boxes, Turns
<1> QED BY <1>1, InboxIsBoxes

\* Rows that change their fate at most are the same input.
SameRows(a) ==
  /\ \A m \in msgs[a] : \E n \in msgs'[a] : n.op = m.op /\ n.idx = m.idx
  /\ \A n \in msgs'[a] : n.op => \E m \in msgs[a] : m.op /\ m.idx = n.idx

\* A step that leaves the turns and the cursors alone, and of the rows the input.
LEMMA QuietFrame ==
  ASSUME \A a \in Agents : (Exists(a)' => Exists(a)) /\ SameRows(a), cursor' = cursor,
         \A q \in Runs : /\ run'[q].st = "free" <=> run[q].st = "free"
                         /\ run'[q].agent = run[q].agent /\ run'[q].kind = run[q].kind
                         /\ run'[q].frontier = run[q].frontier
  PROVE  \A a \in Agents : SameBox(a)
BY DEF SameBox, SameTurns, SameRows, InputGrows, NoNewInput, Live

LEMMA UnchangedRows ==
  ASSUME msgs' = msgs
  PROVE  \A a \in Agents : SameRows(a)
BY DEF SameRows

LEMMA QuietRuns ==
  ASSUME TypeInv, NEW r \in Runs,
         RunAppend(r) \/ RunClose(r) \/ \E o \in {"ok", "error", "abort"} : RunSettle(r, o)
  PROVE  \A a \in Agents : SameBox(a)
<1>1. \A q \in Runs : /\ run'[q].st = "free" <=> run[q].st = "free"
                      /\ run'[q].agent = run[q].agent /\ run'[q].kind = run[q].kind
                      /\ run'[q].frontier = run[q].frontier
  <2> SUFFICES ASSUME NEW q \in Runs
               PROVE  /\ run'[q].st = "free" <=> run[q].st = "free"
                      /\ run'[q].agent = run[q].agent /\ run'[q].kind = run[q].kind
                      /\ run'[q].frontier = run[q].frontier
    OBVIOUS
  <2>1. run[q] \in Run
    BY DEF TypeInv, TypeOK
  <2>2. CASE RunAppend(r)
    BY <2>2 DEF RunAppend
  <2>3. CASE RunClose(r)
    BY <2>1, <2>3 DEF TypeInv, TypeOK, RunClose, Run
  <2>4. CASE \E o \in {"ok", "error", "abort"} : RunSettle(r, o)
    BY <2>1, <2>4 DEF TypeInv, TypeOK, RunSettle, Run
  <2> QED BY <2>2, <2>3, <2>4
<1>2. \A a \in Agents : SameRows(a)
  <2>1. CASE RunAppend(r) \/ RunClose(r)
    <3>1. \A a \in Agents : /\ \A m \in msgs[a] : m \in msgs'[a]
                            /\ \A n \in msgs'[a] : n \in msgs[a] \/ ~n.op
      BY <2>1 DEF TypeInv, TypeOK, RunAppend, RunClose, Row
    <3> QED BY <3>1 DEF SameRows
  <2>2. CASE \E o \in {"ok", "error", "abort"} : RunSettle(r, o)
    BY <2>2, UnchangedRows DEF RunSettle, rowVars
  <2> QED BY <2>1, <2>2
<1>3. cursor' = cursor /\ rowState' = rowState
  BY DEF RunAppend, RunClose, RunSettle, rowVars
<1> QED BY <1>1, <1>2, <1>3, QuietFrame DEF Exists

LEMMA QuietSubmissions ==
  ASSUME TypeInv, \/ \E s \in Subs : SubmitEnd(s) \/ SendAtPasses(s)
                  \/ \E a \in Agents : TimePasses(a)
  PROVE  \A a \in Agents : SameBox(a)
<1>1. run' = run /\ cursor' = cursor /\ rowState' = rowState
  BY DEF SubmitEnd, SendAtPasses, TimePasses, rowVars
<1>2. ASSUME NEW s \in Subs, SubmitEnd(s), NEW b \in Agents PROVE SameRows(b)
  <2>1. CASE msgs'[b] = msgs[b]
    BY <2>1 DEF SameRows
  <2>2. CASE msgs'[b] # msgs[b]
    <3> DEFINE New(m) == IF m.idx = sub[s].idx /\ m.fate = "open"
                         THEN [m EXCEPT !.fate = "returned"] ELSE m
    <3>1. \A m \in msgs[b] : New(m).op = m.op /\ New(m).idx = m.idx
      BY DEF TypeInv, TypeOK, Message
    <3>2. msgs'[b] = {New(m) : m \in msgs[b]}
      BY <1>2, <2>2 DEF TypeInv, TypeOK, SubmitEnd
    <3> HIDE DEF New
    <3> QED BY <3>1, <3>2 DEF SameRows
  <2> QED BY <2>1, <2>2
<1>3. \A b \in Agents : SameRows(b)
  BY <1>2, UnchangedRows DEF SendAtPasses, TimePasses, rowVars
<1> QED BY <1>1, <1>3, QuietFrame DEF Exists

LEMMA QuietOperator ==
  ASSUME TypeInv, NEW a \in Agents,
         Archive(a) \/ \E c \in BOOLEAN, t \in BOOLEAN : Stop(a, c, t)
  PROVE  \A b \in Agents : SameBox(b)
<1>1. CASE Archive(a)
  <2>1. \A q \in Runs : /\ run'[q].st = run[q].st /\ run'[q].agent = run[q].agent
                        /\ run'[q].kind = run[q].kind /\ run'[q].frontier = run[q].frontier
    BY <1>1 DEF TypeInv, TypeOK, Archive, Detached, Run
  <2>2. \A b \in Agents : Exists(b)' => Exists(b)
    BY <1>1 DEF TypeInv, TypeOK, Archive, Exists
  <2> QED BY <1>1, <2>1, <2>2, UnchangedRows, QuietFrame DEF Archive
<1>2. ASSUME NEW c \in BOOLEAN, NEW t \in BOOLEAN, Stop(a, c, t)
      PROVE  \A b \in Agents : SameBox(b)
  <2>1. \A q \in Runs : /\ run'[q].st = run[q].st /\ run'[q].agent = run[q].agent
                        /\ run'[q].kind = run[q].kind /\ run'[q].frontier = run[q].frontier
    BY <1>2 DEF TypeInv, TypeOK, Stop, Aborted, Run
  <2>2. ASSUME NEW b \in Agents PROVE SameRows(b)
    <3>1. CASE msgs'[b] = msgs[b]
      BY <3>1 DEF SameRows
    <3>2. CASE msgs'[b] # msgs[b]
      <4> DEFINE New(m) == IF m.fate = "open" /\ ~InGap(a, m.idx)
                           THEN [m EXCEPT !.fate = "returned"] ELSE m
      <4>1. \A m \in msgs[b] : New(m).op = m.op /\ New(m).idx = m.idx
        BY DEF TypeInv, TypeOK, Message
      <4>2. msgs'[b] = {New(m) : m \in msgs[b]}
        BY <1>2, <3>2 DEF TypeInv, TypeOK, Stop
      <4> HIDE DEF New
      <4> QED BY <4>1, <4>2 DEF SameRows
    <3> QED BY <3>1, <3>2
  <2> QED BY <1>2, <2>1, <2>2, QuietFrame DEF Stop, Exists
<1> QED BY <1>1, <1>2

LEMMA QuietShutdown ==
  ASSUME TypeInv, ShutdownBegin \/ ShutdownAbort \/ ShutdownForce \/ Restart \/ UNCHANGED vars
  PROVE  \A a \in Agents : SameBox(a)
<1>1. \A q \in Runs : /\ run'[q].st = run[q].st /\ run'[q].agent = run[q].agent
                      /\ run'[q].kind = run[q].kind /\ run'[q].frontier = run[q].frontier
  <2>1. CASE ShutdownAbort
    BY <2>1, ShutdownAbortTyped
  <2>2. CASE ShutdownBegin \/ ShutdownForce \/ Restart \/ UNCHANGED vars
    BY <2>2 DEF ShutdownBegin, ShutdownForce, Restart, vars
  <2> QED BY <2>1, <2>2
<1>2. rowState' = rowState /\ cursor' = cursor /\ msgs' = msgs
  BY DEF ShutdownBegin, ShutdownAbort, ShutdownForce, Restart, vars, rowVars
<1> QED BY <1>1, <1>2, UnchangedRows, QuietFrame DEF Exists

-----------------------------------------------------------------------------
(* The steps of the inbox. *)

\* A new message waits: neither the cursor nor a live run reaches the next index.
LEMMA SubmitArrives ==
  ASSUME TypeInv, CursorInv, NEW s \in Subs, NEW a \in Agents,
         NEW at \in {"due", "later"}, NEW t \in BOOLEAN, SubmitBegin(s, a, at, t)
  PROVE  Inbox!Next /\ \A b \in Agents : InputGrows(b) /\ SameTurns(b)
<1> PICK i \in 0 .. MaxIdx : i = NextIdx(a)
  BY Indices, ConstantsAssumption DEF TypeInv, SubmitBegin
<1>1. /\ Exists(a) /\ run' = run /\ cursor' = cursor /\ rowState' = rowState
      /\ msgs'[a] = msgs[a] \cup {Row(i, TRUE, "open")}
      /\ \A b \in Agents : b # a => msgs'[b] = msgs[b]
  BY DEF TypeInv, TypeOK, SubmitBegin, Exists
<1>2. \A b \in Agents : InputGrows(b) /\ SameTurns(b)
  BY <1>1 DEF InputGrows, SameTurns, Live
<1>3. \A b \in Agents : b # a => SameBox(b)
  BY <1>1, <1>2 DEF SameBox, NoNewInput, Exists
<1>4. \A m \in msgs[a] : m.idx < i
  BY Indices DEF TypeInv
<1>5. BoxStatus(a, i) = "absent"
  BY <1>1, <1>4 DEF BoxStatus
<1>6. WorkerRunsOf(a)' = WorkerRunsOf(a)
  BY <1>1 DEF WorkerRunsOf, RunsOf, Live
<1>7. BoxStatus(a, i)' = "waiting"
  <2>1. \E m \in msgs'[a] : m.idx = i /\ m.op
    <3>1. Row(i, TRUE, "open") \in msgs'[a]
      BY <1>1
    <3>2. Row(i, TRUE, "open").idx = i /\ Row(i, TRUE, "open").op = TRUE
      BY DEF Row
    <3> QED BY <3>1, <3>2
  <2>2. ~(i <= cursor[a])
    BY <1>1, ConstantsAssumption DEF CursorInv, CursorBehind, TypeInv, TypeOK, Idx
  <2>3. ASSUME NEW r \in WorkerRunsOf(a) PROVE ~(i <= run[r].frontier)
    BY <1>1, ConstantsAssumption
       DEF CursorInv, FrontierTaken, WorkerRunsOf, RunsOf, TypeInv, TypeOK, Run, Idx
  <2> QED BY <1>1, <1>6, <2>1, <2>2, <2>3 DEF BoxStatus
<1>8. \A j \in 0 .. MaxIdx : j # i => BoxStatus(a, j)' = BoxStatus(a, j)
  <2> SUFFICES ASSUME NEW j \in 0 .. MaxIdx, j # i PROVE BoxStatus(a, j)' = BoxStatus(a, j)
    OBVIOUS
  <2>1. (\E m \in msgs'[a] : m.idx = j /\ m.op) <=> (\E m \in msgs[a] : m.idx = j /\ m.op)
    BY <1>1 DEF Row
  <2> QED BY <1>1, <1>6, <2>1 DEF BoxStatus
<1>9. Boxes' = [Boxes EXCEPT ![a][i] = "waiting"] /\ Turns' = Turns
  <2>1. BoxOf(a)' = [BoxOf(a) EXCEPT ![i] = "waiting"]
    BY <1>1, <1>7, <1>8 DEF BoxOf
  <2>2. Busy(a)' = Busy(a)
    BY <1>6 DEF Busy
  <2>3. Boxes[a] = BoxOf(a) /\ Turns[a] = Busy(a)
    BY DEF Boxes, Turns
  <2> QED BY <1>3, <2>1, <2>2, <2>3, OneBox DEF Boxes, Turns
<1>10. Inbox!Arrive(a, i)
  <2>1. Boxes[a][i] = "absent"
    BY <1>1, <1>5 DEF Boxes, BoxOf
  <2> QED BY <1>9, <2>1 DEF Inbox!Arrive, Boxes, Turns, BoxOf, Busy
<1> QED BY <1>1, <1>2, <1>10 DEF Inbox!Next, Inbox!Slots

\* The mapped actions in terms of Boxes and Turns.
LEMMA InboxSteps ==
  ASSUME NEW a \in Agents
  PROVE  /\ ~Busy(a) /\ Boxes' = [Boxes EXCEPT ![a] = Inbox!Moved(a, "waiting", "held")]
            /\ Turns' = [Turns EXCEPT ![a] = TRUE] => Inbox!Begin(a)
         /\ Busy(a) /\ Boxes' = [Boxes EXCEPT ![a] = Inbox!Moved(a, "held", "done")]
            /\ Turns' = [Turns EXCEPT ![a] = FALSE] => Inbox!Acknowledge(a)
         /\ Busy(a) /\ Boxes' = [Boxes EXCEPT ![a] = Inbox!Moved(a, "held", "waiting")]
            /\ Turns' = [Turns EXCEPT ![a] = FALSE] => Inbox!GiveBack(a)
         /\ Boxes' = [Boxes EXCEPT ![a] = [i \in 0 .. MaxIdx |-> "absent"]]
            /\ Turns' = Turns => Inbox!Discard(a)
<1>1. Turns[a] = Busy(a)
  BY DEF Turns
<1> QED BY <1>1 DEF Inbox!Begin, Inbox!Acknowledge, Inbox!GiveBack, Inbox!Discard, Inbox!Slots,
        Boxes, Turns, BoxOf, Busy

LEMMA MovesBox ==
  ASSUME NEW a \in Agents, NEW from, NEW to,
         \A i \in 0 .. MaxIdx : BoxStatus(a, i)' = IF BoxStatus(a, i) = from THEN to
                                                   ELSE BoxStatus(a, i)
  PROVE  BoxOf(a)' = Inbox!Moved(a, from, to)
<1>1. Inbox!Moved(a, from, to)
      = [i \in 0 .. MaxIdx |-> IF BoxStatus(a, i) = from THEN to ELSE BoxStatus(a, i)]
  BY DEF Inbox!Moved, Inbox!Slots
<1> QED BY <1>1 DEF BoxOf

\* A claim holds exactly what was waiting: its frontier is the last input there is.
LEMMA ClaimBegins ==
  ASSUME TypeInv, Held, AnchorInv, NEW r \in Runs, NEW a \in Agents, Claim(r, a)
  PROVE  Inbox!Next /\ AnchorInv'
<1>1. /\ run'[r] = NewRun(a, "worker", Frontier(a)) /\ ~Live(r)
      /\ \A q \in Runs : q # r => run'[q] = run[q]
      /\ cursor' = cursor /\ rowState' = rowState /\ Exists(a)
      /\ \A b \in Agents : b # a => msgs'[b] = msgs[b]
  BY DEF TypeInv, TypeOK, Claim, Live, Exists
<1>2. /\ run'[r].st = "working" /\ run'[r].agent = a /\ run'[r].kind = "worker"
      /\ run'[r].frontier = Frontier(a)
  BY <1>1 DEF NewRun
<1>3. \A q \in Runs : ~(Live(q) /\ run[q].agent = a)
  BY DEF Held, OnlyWorkerRuns, RunHoldsRow, Claim, Exists
<1>4. \A b \in Agents : b # a => SameBox(b)
  BY <1>1, <1>2 DEF SameBox, InputGrows, NoNewInput, SameTurns, Live, Exists
<1>5. SameRows(a)
  <2> DEFINE New(m) == IF m.op /\ m.fate \in {"open", "returned"}
                       THEN [m EXCEPT !.fate = "taken"] ELSE m
  <2>1. \A m \in msgs[a] : New(m).op = m.op /\ New(m).idx = m.idx
    BY DEF TypeInv, TypeOK, Message
  <2>2. msgs'[a] = {New(m) : m \in msgs[a]}
    BY DEF TypeInv, TypeOK, Claim, WithFate
  <2> HIDE DEF New
  <2> QED BY <2>1, <2>2 DEF SameRows
<1>6. WorkerRunsOf(a) = {} /\ WorkerRunsOf(a)' = {r}
  BY <1>1, <1>2, <1>3 DEF WorkerRunsOf, RunsOf, Live
<1>7. \A i \in 0 .. MaxIdx : BoxStatus(a, i)'
        = IF BoxStatus(a, i) = "waiting" THEN "held" ELSE BoxStatus(a, i)
  <2> SUFFICES ASSUME NEW i \in 0 .. MaxIdx
               PROVE  BoxStatus(a, i)'
                      = IF BoxStatus(a, i) = "waiting" THEN "held" ELSE BoxStatus(a, i)
    OBVIOUS
  <2>1. (\E m \in msgs'[a] : m.idx = i /\ m.op) <=> (\E m \in msgs[a] : m.idx = i /\ m.op)
    BY <1>5 DEF SameRows
  <2>2. (\E m \in msgs[a] : m.idx = i /\ m.op) => i <= Frontier(a)
    BY Indices DEF TypeInv
  <2> QED BY <1>1, <1>2, <1>6, <2>1, <2>2 DEF BoxStatus
<1>8. Inbox!Begin(a)
  <2>1. BoxOf(a)' = Inbox!Moved(a, "waiting", "held")
    BY <1>7, MovesBox
  <2>2. ~Busy(a) /\ Busy(a)' = TRUE
    BY <1>6 DEF Busy
  <2> QED BY <1>4, <2>1, <2>2, OneBox, InboxSteps
<1>9. AnchorInv'
  <2>1. ASSUME NEW b \in Agents, b # a PROVE Anchors(b)'
    BY <1>4, <2>1, AnchorsFrame DEF AnchorInv, SameBox
  <2>2. Anchored(a, Frontier(a)) /\ cursor[a] <= Frontier(a)
    <3>1. Operator(msgs[a]) \in SUBSET Message
      BY DEF TypeInv, TypeOK, Operator
    <3>2. Frontier(a) = -1 \/ \E m \in Operator(msgs[a]) : m.idx = Frontier(a)
      BY <3>1, MaxIdxOfBounds DEF Frontier, MaxIdxOf
    <3>3. Anchored(a, Frontier(a))
      BY <3>2 DEF Anchored, Operator
    <3>4. cursor[a] = -1 \/ \E m \in msgs[a] : m.op /\ m.idx = cursor[a]
      BY <1>1 DEF AnchorInv, Anchors, Anchored
    <3>5. Frontier(a) \in Idx /\ \A m \in msgs[a] : m.op => m.idx <= Frontier(a)
      BY Indices DEF TypeInv
    <3> QED BY <3>3, <3>4, <3>5, ConstantsAssumption DEF Idx
  <2>3. \A i : Anchored(a, i) => Anchored(a, i)'
    BY <1>5 DEF Anchored, SameRows
  <2>4. Anchors(a)'
    <3>1. Anchored(a, cursor[a])'
      BY <1>1, <2>3 DEF AnchorInv, Anchors
    <3>2. ASSUME NEW q \in Runs, Live(q)', run'[q].agent = a
          PROVE  Anchored(a, run[q].frontier)' /\ cursor'[a] <= run'[q].frontier
      <4>1. q = r
        BY <1>1, <1>3, <3>2 DEF Live
      <4> QED BY <1>1, <1>2, <2>2, <2>3, <4>1
    <3> QED BY <3>1, <3>2 DEF Anchors
  <2> QED BY <2>1, <2>4 DEF AnchorInv
<1> QED BY <1>8, <1>9 DEF Inbox!Next

\* The end of a run acknowledges all it held or gives all of it back; of a deleted agent
\* there is nothing left either way.
LEMMA FinallyEndsTurn ==
  ASSUME TypeInv, Held, CursorInv, AnchorInv, NEW r \in Runs, RunFinally(r)
  PROVE  Inbox!Next /\ AnchorInv'
<1> PICK q \in Run, a \in Agents : q = run[r] /\ a = run[r].agent
  BY DEF TypeInv, TypeOK, Owned, Live, RunFinally
<1>1. /\ Live(r) /\ q.kind = "worker" /\ q.agent = a
      /\ run'[r].st = "free" /\ \A p \in Runs : p # r => run'[p] = run[p]
      /\ rowState' = rowState
      /\ \A b \in Agents : b # a => msgs'[b] = msgs[b] /\ cursor'[b] = cursor[b]
      /\ cursor'[a] = IF Exists(a) THEN CursorAfter(q) ELSE cursor[a]
  BY DEF TypeInv, TypeOK, RunFinally, FreeRun, Live
<1>2. \A p \in Runs : Live(p) /\ run[p].agent = a <=> p = r
  BY <1>1 DEF Held, OneRunPerAgent
<1>3. \A p \in Runs : ~(Live(p)' /\ run'[p].agent = a)
  BY <1>1, <1>2 DEF Live
<1>4. WorkerRunsOf(a) = {r} /\ WorkerRunsOf(a)' = {}
  BY <1>1, <1>2, <1>3 DEF WorkerRunsOf, RunsOf
<1>5. \A b \in Agents : b # a => SameBox(b)
  BY <1>1 DEF SameBox, InputGrows, NoNewInput, SameTurns, Live, Exists
<1>6. SameRows(a)
  <2> DEFINE New(m) == [m EXCEPT !.fate = FateAfter(q, m)]
  <2>1. \A m \in msgs[a] : New(m).op = m.op /\ New(m).idx = m.idx
    BY DEF TypeInv, TypeOK, Message
  <2>2. msgs'[a] = {New(m) : m \in msgs[a]}
    BY DEF TypeInv, TypeOK, RunFinally
  <2> HIDE DEF New
  <2> QED BY <2>1, <2>2 DEF SameRows
<1>7. /\ cursor[a] \in Int /\ q.frontier \in Int
      /\ Exists(a) => /\ cursor[a] <= q.frontier
                      /\ Anchored(a, cursor[a]) /\ Anchored(a, q.frontier)
  BY <1>1, ConstantsAssumption DEF AnchorInv, Anchors, TypeInv, TypeOK, Run, Idx
<1>8. \A i \in 0 .. MaxIdx :
        /\ (\E m \in msgs'[a] : m.idx = i /\ m.op) <=> (\E m \in msgs[a] : m.idx = i /\ m.op)
        /\ (\E p \in WorkerRunsOf(a) : i <= run[p].frontier) <=> i <= q.frontier
        /\ ~Exists(a) => ~\E m \in msgs[a] : m.idx = i /\ m.op
  BY <1>4, <1>6 DEF SameRows, CursorInv, DeletedHasNoInput, Operator
<1>9. ASSUME Exists(a) /\ q.outcome = "ok" PROVE Inbox!Next
  <2>1. cursor'[a] = q.frontier
    BY <1>1, <1>9 DEF CursorAfter
  <2>2. \A i \in 0 .. MaxIdx : BoxStatus(a, i)'
          = IF BoxStatus(a, i) = "held" THEN "done" ELSE BoxStatus(a, i)
    BY <1>4, <1>7, <1>8, <1>9, <2>1 DEF BoxStatus
  <2>3. BoxOf(a)' = Inbox!Moved(a, "held", "done")
    BY <2>2, MovesBox
  <2>4. Busy(a) /\ Busy(a)' = FALSE
    BY <1>4 DEF Busy
  <2>5. Inbox!Acknowledge(a)
    BY <1>5, <2>3, <2>4, OneBox, InboxSteps
  <2> QED BY <2>5 DEF Inbox!Next
<1>10. ASSUME ~(Exists(a) /\ q.outcome = "ok") PROVE Inbox!Next
  <2>1. cursor'[a] = cursor[a]
    BY <1>1, <1>10 DEF CursorAfter
  <2>2. \A i \in 0 .. MaxIdx : BoxStatus(a, i)'
          = IF BoxStatus(a, i) = "held" THEN "waiting" ELSE BoxStatus(a, i)
    BY <1>4, <1>7, <1>8, <1>10, <2>1 DEF BoxStatus
  <2>3. BoxOf(a)' = Inbox!Moved(a, "held", "waiting")
    BY <2>2, MovesBox
  <2>4. Busy(a) /\ Busy(a)' = FALSE
    BY <1>4 DEF Busy
  <2>5. Inbox!GiveBack(a)
    BY <1>5, <2>3, <2>4, OneBox, InboxSteps
  <2> QED BY <2>5 DEF Inbox!Next
<1>11. AnchorInv'
  <2>1. ASSUME NEW b \in Agents, b # a PROVE Anchors(b)'
    BY <1>5, <2>1, AnchorsFrame DEF AnchorInv, SameBox
  <2>2. \A i : Anchored(a, i) => Anchored(a, i)'
    BY <1>6 DEF Anchored, SameRows
  <2>3. Exists(a) => Anchored(a, cursor[a])'
    BY <1>1, <1>7, <2>2 DEF CursorAfter
  <2>4. Anchors(a)'
    BY <1>1, <1>3, <2>3 DEF Anchors, Exists
  <2> QED BY <2>1, <2>4 DEF AnchorInv
<1>12. Inbox!Next
  BY <1>9, <1>10
<1> QED BY <1>11, <1>12

LEMMA DeleteDiscards ==
  ASSUME TypeInv, AnchorInv, NEW a \in Agents, DeleteAgent(a)
  PROVE  Inbox!Next /\ AnchorInv'
<1>1. /\ msgs'[a] = {} /\ rowState'[a] = "deleted" /\ run' = Detached(a)
      /\ \A b \in Agents : b # a => /\ msgs'[b] = msgs[b] /\ cursor'[b] = cursor[b]
                                   /\ rowState'[b] = rowState[b]
  BY DEF TypeInv, TypeOK, DeleteAgent
<1>2. \A q \in Runs : /\ run'[q].agent = run[q].agent /\ run'[q].st = run[q].st
                      /\ run'[q].kind = run[q].kind /\ run'[q].frontier = run[q].frontier
  BY <1>1 DEF TypeInv, TypeOK, Detached, Run
<1>3. \A b \in Agents : b # a => SameBox(b)
  BY <1>1, <1>2 DEF SameBox, InputGrows, NoNewInput, SameTurns, Live, Exists
<1>4. BoxOf(a)' = [i \in 0 .. MaxIdx |-> "absent"]
  BY <1>1 DEF BoxOf, BoxStatus
<1>5. Busy(a)' = Busy(a)
  <2>1. WorkerRunsOf(a)' = WorkerRunsOf(a)
    BY <1>2 DEF WorkerRunsOf, RunsOf, Live
  <2> QED BY <2>1 DEF Busy
<1>6. Inbox!Discard(a)
  <2>1. Boxes' = [Boxes EXCEPT ![a] = BoxOf(a)'] /\ Turns' = [Turns EXCEPT ![a] = Busy(a)']
    BY <1>3, OneBox
  <2>2. Turns' = Turns
    BY <1>5, <2>1 DEF Turns
  <2> QED BY <1>4, <2>1, <2>2, InboxSteps
<1>7. AnchorInv'
  <2>1. ASSUME NEW b \in Agents, b # a PROVE Anchors(b)'
    BY <1>3, <2>1, AnchorsFrame DEF AnchorInv, SameBox
  <2>2. Anchors(a)'
    BY <1>1 DEF Anchors, Exists
  <2> QED BY <2>1, <2>2 DEF AnchorInv
<1> QED BY <1>6, <1>7 DEF Inbox!Next

\* Whatever was under way when the process goes is given back.
LEMMA GoneGivesBack ==
  ASSUME TypeInv, AnchorInv, ProcessGone
  PROVE  Inbox!Next /\ AnchorInv'
<1>1. /\ cursor' = cursor /\ rowState' = rowState /\ \A r \in Runs : ~Live(r)'
  BY DEF ProcessGone, FreeRun, Live
<1>2. ASSUME NEW a \in Agents PROVE SameRows(a)
  <2> DEFINE New(m) ==
        IF m.fate = "taken"
        THEN [m EXCEPT !.fate = IF \E r \in RunsOf(a) : run[r].by = "operator"
                                THEN "returned" ELSE "open"]
        ELSE m
  <2>1. \A m \in msgs[a] : New(m).op = m.op /\ New(m).idx = m.idx
    BY DEF TypeInv, TypeOK, Message
  <2>2. msgs'[a] = {New(m) : m \in msgs[a]}
    BY DEF ProcessGone
  <2> HIDE DEF New
  <2> QED BY <2>1, <2>2 DEF SameRows
<1>3. \A a \in Agents : WorkerRunsOf(a)' = {}
  BY <1>1 DEF WorkerRunsOf, RunsOf
<1>4. ASSUME NEW a \in Agents, NEW i \in 0 .. MaxIdx
      PROVE  BoxStatus(a, i)' = IF BoxStatus(a, i) = "held" THEN "waiting" ELSE BoxStatus(a, i)
  <2>1. (\E m \in msgs'[a] : m.idx = i /\ m.op) <=> (\E m \in msgs[a] : m.idx = i /\ m.op)
    BY <1>2 DEF SameRows
  <2> QED BY <1>1, <1>3, <2>1 DEF BoxStatus
<1>5. \A a \in Agents : BoxOf(a)' = Inbox!Moved(a, "held", "waiting")
  BY <1>4, MovesBox
<1>6. Boxes' = [a \in Agents |-> Inbox!Moved(a, "held", "waiting")]
  BY <1>5 DEF Boxes
<1>7. Turns' = [a \in Agents |-> FALSE]
  BY <1>3 DEF Turns, Busy
<1>8. Inbox!GiveBackAll
  BY <1>6, <1>7 DEF Inbox!GiveBackAll, Boxes, Turns, BoxOf, Busy
<1>9. AnchorInv'
  BY <1>1, <1>2 DEF AnchorInv, Anchors, Anchored, SameRows, Exists
<1> QED BY <1>8, <1>9 DEF Inbox!Next

LEMMA BoxStep ==
  ASSUME TypeInv, Held, CursorInv, AnchorInv, [CrashNext]_vars
  PROVE  [Inbox!Next]_(Inbox!inbox) /\ AnchorInv'
<1>1. ASSUME \A a \in Agents : SameBox(a)
      PROVE  [Inbox!Next]_(Inbox!inbox) /\ AnchorInv'
  BY <1>1, Stutters, AnchorsFrame DEF AnchorInv, SameBox
<1>2. ASSUME NEW r \in Runs, RunStep(r)
      PROVE  [Inbox!Next]_(Inbox!inbox) /\ AnchorInv'
  BY <1>1, <1>2, QuietRuns, ClaimBegins, FinallyEndsTurn DEF RunStep
<1>3. CASE SubmitStep
  <2>1. ASSUME NEW s \in Subs, NEW a \in Agents, NEW at \in {"due", "later"}, NEW t \in BOOLEAN,
               SubmitBegin(s, a, at, t)
        PROVE  [Inbox!Next]_(Inbox!inbox) /\ AnchorInv'
    <3>1. cursor' = cursor /\ rowState' = rowState
      BY <2>1 DEF SubmitBegin
    <3> QED BY <2>1, <3>1, SubmitArrives, AnchorsFrame DEF AnchorInv, Exists
  <2> QED BY <1>1, <1>3, <2>1, QuietSubmissions DEF SubmitStep
<1>4. CASE OperatorStep
  BY <1>1, <1>4, QuietOperator, DeleteDiscards DEF OperatorStep
<1>5. CASE ShutdownStep \/ Crash \/ UNCHANGED vars
  BY <1>1, <1>5, QuietShutdown, GoneGivesBack
     DEF ShutdownStep, ShutdownSettled, ShutdownExit, Crash
<1> QED BY <1>2, <1>3, <1>4, <1>5 DEF CrashNext, WorkerNext

\* The scheduled path, crashes and shutdowns included, implements the inbox: turns of an
\* agent are exclusive, each acknowledges exactly what it began with or gives all of it
\* back, and everything else is still waiting.
THEOREM SchedulerKeepsInbox == CrashSpec => KeepsInbox
<1>1. Init => Inbox!Init /\ AnchorInv
  <2> SUFFICES ASSUME Init PROVE Inbox!Init /\ AnchorInv
    OBVIOUS
  <2>1. \A a \in Agents : WorkerRunsOf(a) = {} /\ msgs[a] = {}
    BY DEF Init, WorkerRunsOf, RunsOf, Live, FreeRun
  <2>2. Inbox!Init
    BY <2>1 DEF Inbox!Init, Inbox!Slots, BoxStatus
  <2>3. AnchorInv
    BY DEF Init, AnchorInv, Anchors, Anchored, Live, FreeRun
  <2> QED BY <2>2, <2>3
<1>2. TypeInv /\ Held /\ CursorInv /\ AnchorInv /\ [CrashNext]_vars
      => [Inbox!Next]_(Inbox!inbox) /\ AnchorInv'
  BY BoxStep
<1> QED BY <1>1, <1>2, CrashSafe, PTL DEF CrashSpec, KeepsInbox, Inbox!Spec

=============================================================================
