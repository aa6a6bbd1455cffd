----------------------------- MODULE Delegation -----------------------------
(***************************************************************************)
(* Delegated tasks: a run makes a child, hands it a contract and a prompt   *)
(* and, unless the task is asynchronous, waits for the end of the child's   *)
(* run; the child reports with finishTask, from that run or from one that   *)
(* an operator's message started beside it.  What forks read is Forks.      *)
(***************************************************************************)
EXTENDS Integers, Sequences, FiniteSets

CONSTANTS
  Orders,     \* [task, extra, format] of a delegation
  None,
  MaxAgents,  \* bound: agents
  MaxReports  \* bound: calls of finishTask

ASSUME DelegationAssumption == MaxAgents \in Nat /\ MaxReports \in Nat

Ids == 1 .. MaxAgents

VARIABLES
  made,      \* agents there are: 1 .. made
  contract,  \* scratchpad.delegateTask of each
  told,      \* the prompt of the task it was made for
  working,   \* its runs: "task", which delegateTask started, and "own", the worker's
  awaiting,  \* the run that awaits the end of an agent's task: <<agent, run>>
  waiters,   \* ctx.state.delegateTaskWaiters
  outcome,   \* of an awaited task: still open, failed, lost, or the result
  reports    \* count for MaxReports

delegationVars == <<made, contract, told, working, awaiting, waiters, outcome, reports>>

DelegationInit ==
  /\ made = 1 /\ contract = [a \in Ids |-> None] /\ told = [a \in Ids |-> None]
  /\ working = [a \in Ids |-> {}] /\ awaiting = [a \in Ids |-> None]
  /\ waiters = {} /\ outcome = [a \in Ids |-> None] /\ reports = 0

Open == [is |-> "open"]
ASSUME NoneIsNoOutcome == None # Open
Failed == [is |-> "failed"]
Lost == [is |-> "lost"]
Result(a) == [is |-> "result", by |-> a, answers |-> told[a]]

-----------------------------------------------------------------------------
\* The return contract in words: an unnamed kind asks for a structured result.
DescribeResponseFormat(format) ==
  CASE format \in {"", "text"} -> <<"summary">>
    [] format \in {"json", "report"} -> <<"summary", format>>
    [] OTHER -> <<"kind", "summary", format>>

BuildDelegatedTaskPrompt(order) ==
  <<"rules", order.task>>
    \o (IF order.extra = "" THEN <<>> ELSE <<order.extra>>)
    \o DescribeResponseFormat(order.format)

\* The child's contract, in place of whatever the parent's copied scratchpad held.
Contract(copied, parent, mode) ==
  [parent |-> parent, mode |-> mode, status |-> "running", result |-> None]

\* updateScratchpad: the whole scratchpad of one agent is written.
UpdateScratchpad(a, saved) == contract' = [contract EXCEPT ![a] = saved]

\* start(), the saves and the prompt, up to the first await of the child's run.
Delegate(p, r, order, forkContext, mode) ==
  LET c == made + 1
      copied == IF forkContext THEN contract[p] ELSE None
  IN
  /\ r \in working[p] /\ c \in Ids /\ made' = c
  /\ UpdateScratchpad(c, Contract(copied, p, mode))
  /\ told' = [told EXCEPT ![c] = BuildDelegatedTaskPrompt(order)]
  /\ working' = [working EXCEPT ![c] = {"task"}]
  /\ IF mode = "await"
       THEN /\ awaiting' = [awaiting EXCEPT ![c] = <<p, r>>] /\ waiters' = waiters \cup {c}
            /\ outcome' = [outcome EXCEPT ![c] = Open]
       ELSE UNCHANGED <<awaiting, waiters, outcome>>
  /\ UNCHANGED reports

\* fork() by an operator copies the scratchpad, a contract of the parent's included.
Fork(p) ==
  /\ p <= made /\ made + 1 \in Ids /\ made' = made + 1
  /\ contract' = [contract EXCEPT ![made + 1] = contract[p]]
  /\ UNCHANGED <<told, working, awaiting, waiters, outcome, reports>>

\* An operator's message to an agent starts a run of the worker, beside any other.
WorkerRuns(a) ==
  /\ a <= made /\ "own" \notin working[a]
  /\ working' = [working EXCEPT ![a] = @ \cup {"own"}]
  /\ UNCHANGED <<made, contract, told, awaiting, waiters, outcome, reports>>

\* finishTask() from a run of a: without a contract it throws.  It resolves a promise
\* that nobody awaits; the parent goes on when the run ends.
FinishTask(a, r) ==
  /\ r \in working[a] /\ contract[a] # None
  /\ reports < MaxReports /\ reports' = reports + 1
  /\ UpdateScratchpad(a, [contract[a] EXCEPT !.status = "finished", !.result = Result(a)])
  /\ waiters' = IF contract[a].mode = "await" THEN waiters \ {a} ELSE waiters
  /\ UNCHANGED <<made, told, working, awaiting, outcome>>

\* Mutant of Answer: the parent is answered by the waiter, which only a report resolves.
AnswerOfWaiter(c, failed) ==
  IF contract[c].status = "finished" THEN contract[c].result ELSE Open

\* What the parent gets when the child's run has ended.
Answer(c, failed) ==
  IF ~failed /\ contract[c].status = "finished" THEN contract[c].result ELSE Failed

\* The process ends, with all its runs; the contracts are in the database.
Dies ==
  /\ working' = [a \in Ids |-> {}] /\ awaiting' = [a \in Ids |-> None] /\ waiters' = {}
  /\ outcome' = [a \in Ids |-> IF outcome[a] = Open THEN Lost ELSE outcome[a]]
  /\ UNCHANGED <<made, contract, told, reports>>

\* A run that awaits a child does not end before; its stop is noticed afterwards.
CanEnd(a, r) == r \in working[a] /\ \A c \in Ids : awaiting[c] # <<a, r>>

TaskEnds(a, failed) ==
  /\ CanEnd(a, "task") /\ awaiting[a] # None
  /\ working' = [working EXCEPT ![a] = @ \ {"task"}]
  /\ outcome' = [outcome EXCEPT ![a] = Answer(a, failed)]
  /\ awaiting' = [awaiting EXCEPT ![a] = IF outcome'[a] = Open THEN @ ELSE None]
  /\ waiters' = waiters \ {a}
  /\ UNCHANGED <<made, contract, told, reports>>

\* Nothing awaits the run of an asynchronous task: its failure ends the process.
AsyncTaskEnds(a, failed) ==
  /\ CanEnd(a, "task") /\ awaiting[a] = None
  /\ IF failed THEN Dies
     ELSE /\ working' = [working EXCEPT ![a] = @ \ {"task"}]
          /\ UNCHANGED <<made, contract, told, awaiting, waiters, outcome, reports>>

OwnRunEnds(a) ==
  /\ CanEnd(a, "own") /\ working' = [working EXCEPT ![a] = @ \ {"own"}]
  /\ UNCHANGED <<made, contract, told, awaiting, waiters, outcome, reports>>

AnyRunEnds(a) == (\E failed \in BOOLEAN : TaskEnds(a, failed) \/ AsyncTaskEnds(a, failed)) \/ OwnRunEnds(a)

DelegationNext ==
  \/ \E a \in Ids :
       \/ \E r \in working[a], order \in Orders, forkContext \in BOOLEAN, mode \in {"await", "async"} :
            Delegate(a, r, order, forkContext, mode)
       \/ \E r \in working[a] : FinishTask(a, r)
       \/ Fork(a) \/ WorkerRuns(a) \/ AnyRunEnds(a)
  \/ Dies

\* A run that waits for nothing ends: the model stops calling, or the call fails.
DelegationFairness ==
  \A a \in Ids : WF_delegationVars(\E failed \in BOOLEAN : TaskEnds(a, failed))

-----------------------------------------------------------------------------
\* A parent gets what the child it made reported on the task it gave, and neither what
\* a copied scratchpad held nor what a fork of the child reported.
OwnResult ==
  \A c \in Ids : outcome[c] # None /\ outcome[c].is = "result" =>
    outcome[c].by = c /\ outcome[c].answers = told[c]

\* However delegations nest, and whether the child reports, reports twice, reports from
\* another run, fails or just stops, the parent that waits for it goes on.
AwaitedEnds == \A c \in Ids : awaiting[c] # None ~> awaiting[c] = None
=============================================================================
