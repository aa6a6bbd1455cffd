------------------------------ MODULE AgentRuns ------------------------------
(***************************************************************************)
(* The life of an agent's runs: operator input is submitted, the worker    *)
(* claims due agents, each claim becomes a concurrent runOne(), and every  *)
(* run ends in the finally block that settles the agents row.  The process *)
(* is one JavaScript thread, so an action is a stretch of code between two *)
(* awaits; whatever else happens, happens at the awaits.                   *)
(*                                                                         *)
(*   agents row    rowState, runState, nextRun, cursor                     *)
(*   messages      msgs: per agent a set of rows [idx, op, fate]           *)
(*   agent cache   cached, ctl, streaming: ctx.state.agent[id], its        *)
(*                 abortController and isStreaming                         *)
(*   promises      run: runs in flight; sub: submit() calls suspended      *)
(*                 between inserting their message and scheduling it       *)
(*   process       phase: where runtime shutdown() stands                  *)
(*                                                                         *)
(* Time is abstract: next_run_at is NULL ("none"), in the future ("later") *)
(* or not later than now ("due"), and TimePasses turns "later" into "due". *)
(* Two pieces of history carry no code: the fate of a message and cleared. *)
(***************************************************************************)
EXTENDS Integers, FiniteSets

CONSTANTS
  Agents,   \* agent ids
  Runs,     \* names for concurrent runs (promises); a bound on how many live at once
  Subs,     \* names for concurrent submit() calls
  MaxIdx,   \* bound on messages.idx
  NoAgent,  \* the agent of a free run or submission
  NoRun,    \* abortController = null
  OldRun    \* a controller left behind by a run that is over

ASSUME ConstantsAssumption ==
  /\ MaxIdx \in Nat
  /\ NoAgent \notin Agents
  /\ NoRun \notin Runs
  /\ OldRun \notin Runs \cup {NoRun}

VARIABLES
  rowState,   \* rowState[a]: "active", "archived" (archived_at set) or "deleted"
  runState,   \* agents.run_state
  nextRun,    \* agents.next_run_at, abstracted
  cursor,     \* agents.last_processed_msg_idx
  msgs,       \* the messages rows of each agent
  cached,     \* ctx.state.agent[a] is present
  ctl,        \* abortController of the cached object
  streaming,  \* isStreaming of the cached object
  run,        \* the runs in flight
  sub,        \* the submissions suspended in submit()
  phase,      \* "up", "closing", "aborted", "swept" or "down"
  cleared     \* history: queues cleared with nothing submitted since

rowVars   == <<rowState, runState, nextRun, cursor, msgs>>
cacheVars == <<cached, ctl, streaming>>
vars == <<rowState, runState, nextRun, cursor, msgs, cached, ctl, streaming,
          run, sub, phase, cleared>>

(***************************************************************************)
(* Data.  The fate of an operator message: "open" no run has started with  *)
(* it yet; "taken" a live run started with it; "acked" such a run          *)
(* succeeded; "returned" its run failed or was stopped, its queue was      *)
(* cleared or its submission cancelled, and by design nothing retries it.  *)
(* Rows written by a run (assistant rows, and user rows with               *)
(* excluded_from_cursor) have op FALSE.                                    *)
(***************************************************************************)
Fates == {"none", "open", "taken", "acked", "returned"}
Idx == -1 .. MaxIdx
Message == [idx : 0 .. MaxIdx, op : BOOLEAN, fate : Fates]

Run == [st : {"free", "working", "closing", "settled"}, agent : Agents \cup {NoAgent},
        kind : {"worker", "direct"}, frontier : Idx, aborted : BOOLEAN,
        by : {"none", "operator", "shutdown"},
        outcome : {"none", "ok", "error", "abort"}, detached : BOOLEAN]

Submission == [st : {"free", "gap"}, agent : Agents \cup {NoAgent},
               at : {"due", "later"}, idx : Idx, terminal : BOOLEAN,
               cancelled : BOOLEAN]

FreeRun == [st |-> "free", agent |-> NoAgent, kind |-> "worker", frontier |-> -1,
            aborted |-> FALSE, by |-> "none", outcome |-> "none", detached |-> FALSE]

FreeSub == [st |-> "free", agent |-> NoAgent, at |-> "due", idx |-> -1,
            terminal |-> FALSE, cancelled |-> FALSE]

NewRun(a, kind, frontier) ==
  [st |-> "working", agent |-> a, kind |-> kind, frontier |-> frontier,
   aborted |-> FALSE, by |-> "none", outcome |-> "none", detached |-> FALSE]

\* SELECT COALESCE(MAX(idx), -1) over a set of rows.
MaxIdxOf(rows) ==
  IF rows = {} THEN -1
  ELSE (CHOOSE m \in rows : \A n \in rows : n.idx <= m.idx).idx

Operator(rows) == {m \in rows : m.op}

\* role = 'user' AND excluded_from_cursor = 0: what runOne calls the frontier.
Frontier(a) == MaxIdxOf(Operator(msgs[a]))

NextIdx(a) == MaxIdxOf(msgs[a]) + 1

Row(i, op, fate) == [idx |-> i, op |-> op, fate |-> fate]

WithFate(rows, from, to) ==
  {IF m.op /\ m.fate \in from THEN [m EXCEPT !.fate = to] ELSE m : m \in rows}

\* A submission is suspended between inserting message i and scheduling it.
InGap(a, i) == \E s \in Subs : sub[s].st = "gap" /\ sub[s].agent = a /\ sub[s].idx = i

\* MAX(COALESCE(next_run_at, 0), sendAt)
Latest(next, at) == IF "later" \in {next, at} THEN "later" ELSE "due"

Exists(a) == rowState[a] # "deleted"
Live(r) == run[r].st # "free"
RunsOf(a) == {r \in Runs : Live(r) /\ run[r].agent = a}
WorkerRunsOf(a) == {r \in RunsOf(a) : run[r].kind = "worker"}

\* Dropping ctx.state.agent[a]: its runs keep an object nobody can find again.
Detached(a) == [r \in Runs |-> IF r \in RunsOf(a) THEN [run[r] EXCEPT !.detached = TRUE]
                               ELSE run[r]]

Aborted(r, by) ==
  IF r \in Runs THEN [run EXCEPT ![r].aborted = TRUE, ![r].by = by] ELSE run

Init ==
  /\ rowState = [a \in Agents |-> "active"]
  /\ runState = [a \in Agents |-> "idle"]
  /\ nextRun = [a \in Agents |-> "none"]
  /\ cursor = [a \in Agents |-> -1]
  /\ msgs = [a \in Agents |-> {}]
  /\ cached = [a \in Agents |-> TRUE]
  /\ ctl = [a \in Agents |-> NoRun]
  /\ streaming = [a \in Agents |-> FALSE]
  /\ run = [r \in Runs |-> FreeRun]
  /\ sub = [s \in Subs |-> FreeSub]
  /\ phase = "up"
  /\ cleared = {}

-----------------------------------------------------------------------------
(***************************************************************************)
(* Submitting input: submit() inserts the message, suspends while the user *)
(* event is rendered, and only then schedules the agent.                   *)
(***************************************************************************)

\* POST /agent/:id (or a terminal turn): load the agent, start submit(), insert
\* the message row.  The tracked submit() rejects once shutdown has begun.
SubmitBegin(s, a, at, terminal) ==
  LET i == NextIdx(a) IN
  /\ phase = "up"
  /\ sub[s].st = "free"
  /\ rowState[a] = "active"
  /\ terminal => cached[a]
  /\ i <= MaxIdx
  /\ msgs' = [msgs EXCEPT ![a] = @ \cup {Row(i, TRUE, "open")}]
  /\ sub' = [sub EXCEPT ![s] = [st |-> "gap", agent |-> a, at |-> at, idx |-> i,
                                terminal |-> terminal, cancelled |-> FALSE]]
  /\ cached' = [cached EXCEPT ![a] = TRUE]
  /\ cleared' = cleared \ {a}
  /\ UNCHANGED <<rowState, runState, nextRun, cursor, ctl, streaming, run, phase>>

\* submit() resumes: return without scheduling when the caller has cancelled,
\* otherwise push next_run_at out to sendAt.
SubmitEnd(s) ==
  LET a == sub[s].agent IN
  /\ phase # "down"
  /\ sub[s].st = "gap"
  /\ nextRun' = IF Exists(a) /\ ~sub[s].cancelled
                THEN [nextRun EXCEPT ![a] = Latest(@, sub[s].at)] ELSE nextRun
  /\ msgs' = IF sub[s].cancelled
             THEN [msgs EXCEPT ![a] = {IF m.idx = sub[s].idx /\ m.fate = "open"
                                       THEN [m EXCEPT !.fate = "returned"] ELSE m : m \in @}]
             ELSE msgs
  /\ sub' = [sub EXCEPT ![s] = FreeSub]
  /\ UNCHANGED <<rowState, runState, cursor, cacheVars, run, phase, cleared>>

\* Wall-clock time reaches next_run_at, or the sendAt a submission still holds.
TimePasses(a) ==
  /\ nextRun[a] = "later"
  /\ nextRun' = [nextRun EXCEPT ![a] = "due"]
  /\ UNCHANGED <<rowState, runState, cursor, msgs, cacheVars, run, sub, phase, cleared>>

SendAtPasses(s) ==
  /\ sub[s].st = "gap" /\ sub[s].at = "later"
  /\ sub' = [sub EXCEPT ![s].at = "due"]
  /\ UNCHANGED <<rowVars, cacheVars, run, phase, cleared>>

-----------------------------------------------------------------------------
(***************************************************************************)
(* The worker: claimOne and runOne up to the first await of run().         *)
(***************************************************************************)

\* The atomic UPDATE ... RETURNING of claimOne, then runOne up to its first await:
\* load the agent, snapshot the frontier, enter run(), install its controller.
\* next_run_at keeps its value while the run lives.
Claim(r, a) ==
  /\ phase = "up"
  /\ run[r].st = "free"
  /\ rowState[a] = "active"
  /\ runState[a] = "idle"
  /\ nextRun[a] = "due"
  /\ runState' = [runState EXCEPT ![a] = "running"]
  /\ run' = [run EXCEPT ![r] = NewRun(a, "worker", Frontier(a))]
  /\ msgs' = [msgs EXCEPT ![a] = WithFate(@, {"open", "returned"}, "taken")]
  /\ cached' = [cached EXCEPT ![a] = TRUE]
  /\ ctl' = [ctl EXCEPT ![a] = r]
  /\ streaming' = [streaming EXCEPT ![a] = TRUE]
  /\ UNCHANGED <<rowState, nextRun, cursor, sub, phase, cleared>>

\* run() persists a row of its own: prose, an action, its result, a parser error.
RunAppend(r) ==
  LET a == run[r].agent  i == NextIdx(run[r].agent) IN
  /\ phase # "down"
  /\ run[r].st = "working"
  /\ i <= MaxIdx
  /\ msgs' = [msgs EXCEPT ![a] = @ \cup {Row(i, FALSE, "none")}]
  /\ UNCHANGED <<rowState, runState, nextRun, cursor, cacheVars, run, sub, phase, cleared>>

\* The closing answer: after the last throwIfAborted the assistant row is inserted
\* and only its event is still awaited, so an abort from here on is not noticed.
RunClose(r) ==
  LET a == run[r].agent  i == NextIdx(run[r].agent) IN
  /\ phase # "down"
  /\ run[r].st = "working" /\ ~run[r].aborted
  /\ i <= MaxIdx
  /\ msgs' = [msgs EXCEPT ![a] = @ \cup {Row(i, FALSE, "none")}]
  /\ run' = [run EXCEPT ![r].st = "closing"]
  /\ UNCHANGED <<rowState, runState, nextRun, cursor, cacheVars, sub, phase, cleared>>

\* run() returns or throws, and the catch block of runOne classifies what it threw.
\* Success means the closing answer, or an empty completion seen before any abort.
\* Any exception whose text mentions "aborted" counts as an abort, and so does every
\* exception once the runtime is shutting down.
RunSettle(r, outcome) ==
  /\ phase # "down"
  /\ \/ run[r].st = "closing" /\ outcome = "ok"
     \/ run[r].st = "working" /\ outcome \in {"error", "abort"}
     \/ run[r].st = "working" /\ outcome = "ok" /\ ~run[r].aborted
  /\ run' = [run EXCEPT ![r].st = "settled",
                        ![r].outcome = IF outcome = "error" /\ phase # "up"
                                       THEN "abort" ELSE outcome]
  /\ UNCHANGED <<rowVars, cacheVars, sub, phase, cleared>>

\* Mutants of CursorAfter: whatever has arrived by now; the snapshot even when the run
\* failed.
CursorToLatest(q) == IF q.outcome = "ok" THEN Frontier(q.agent) ELSE cursor[q.agent]
CursorAlways(q) == q.frontier

\* last_processed_msg_idx after run q: only success advances it, to the snapshot.
CursorAfter(q) == IF q.outcome = "ok" THEN q.frontier ELSE cursor[q.agent]

\* An abort while the runtime shuts down keeps a schedule that still stands.
PreserveForShutdown(q) ==
  q.outcome = "abort" /\ phase # "up" /\ nextRun[q.agent] # "none"

\* Mutants of StillPending: late messages count although the queue was cleared; they
\* count only after a success.
StillPendingByMessages(q) ==
  \/ q.outcome = "ok" /\ Frontier(q.agent) > CursorAfter(q)
  \/ q.outcome = "abort" /\ Frontier(q.agent) > q.frontier

StillPendingAfterSuccess(q) ==
  nextRun[q.agent] # "none" /\ q.outcome = "ok" /\ Frontier(q.agent) > CursorAfter(q)

\* Operator messages arrived behind the run's back and are still scheduled.
StillPending(q) ==
  /\ nextRun[q.agent] # "none"
  /\ \/ q.outcome = "ok" /\ Frontier(q.agent) > CursorAfter(q)
     \/ q.outcome = "abort" /\ Frontier(q.agent) > q.frontier

\* Mutant of NextRunAfter: finally forgets to reschedule.
NextRunDropped(q) == IF PreserveForShutdown(q) THEN nextRun[q.agent] ELSE "none"

\* next_run_at after run q.
NextRunAfter(q) ==
  IF PreserveForShutdown(q) THEN nextRun[q.agent]
  ELSE IF StillPending(q) THEN "later" ELSE "none"

\* History: what the end of run q means for message m of its agent.
FateAfter(q, m) ==
  LET retried == q.outcome = "abort" /\ phase # "up" /\ q.by # "operator" IN
  IF m.fate # "taken" THEN m.fate
  ELSE IF q.outcome = "ok" THEN "acked" ELSE IF retried THEN "open" ELSE "returned"

\* The finally block of runOne: one UPDATE settles the row (of a deleted agent it
\* matches nothing), then the object the run was started on is released.
RunFinally(r) ==
  LET q == run[r]  a == run[r].agent IN
  /\ phase # "down"
  /\ q.st = "settled" /\ q.kind = "worker"
  /\ IF Exists(a)
     THEN /\ runState' = [runState EXCEPT ![a] = "idle"]
          /\ cursor' = [cursor EXCEPT ![a] = CursorAfter(q)]
          /\ nextRun' = [nextRun EXCEPT ![a] = NextRunAfter(q)]
     ELSE UNCHANGED <<runState, cursor, nextRun>>
  /\ msgs' = [msgs EXCEPT ![a] = {[m EXCEPT !.fate = FateAfter(q, m)] : m \in @}]
  /\ IF q.detached
     THEN UNCHANGED <<ctl, streaming>>
     ELSE /\ ctl' = [ctl EXCEPT ![a] = NoRun]
          /\ streaming' = [streaming EXCEPT ![a] = FALSE]
  /\ run' = [run EXCEPT ![r] = FreeRun]
  /\ UNCHANGED <<rowState, cached, sub, phase, cleared>>

-----------------------------------------------------------------------------
(***************************************************************************)
(* What the operator does besides submitting.  HTTP requests are served    *)
(* until the server has been stopped (phases "up" and "closing").          *)
(***************************************************************************)
Serving == phase \in {"up", "closing"}

\* Mutant of StoppedState: publish idle at once.
StoppedIdle(a) == "idle"

\* run_state after stop(): a live controller keeps the claim until finally.
StoppedState(a) ==
  IF runState[a] = "running" /\ ctl[a] # NoRun THEN "running" ELSE "idle"

CancelTerminal(a) ==
  [s \in Subs |-> IF sub[s].agent = a /\ sub[s].terminal
                  THEN [sub[s] EXCEPT !.cancelled = TRUE] ELSE sub[s]]

\* agent.stop from POST /agent/:id/stop or from Ctrl+C in a terminal, which clears
\* the queue and cancels its own submission first.
Stop(a, clearQueue, terminal) ==
  /\ Serving
  /\ cached[a]
  /\ terminal => clearQueue
  /\ run' = Aborted(ctl[a], "operator")
  /\ runState' = [runState EXCEPT ![a] = StoppedState(a)]
  /\ nextRun' = IF clearQueue THEN [nextRun EXCEPT ![a] = "none"] ELSE nextRun
  /\ sub' = IF terminal THEN CancelTerminal(a) ELSE sub
  /\ msgs' = IF clearQueue
             THEN [msgs EXCEPT ![a] = {IF m.fate = "open" /\ ~InGap(a, m.idx)
                                       THEN [m EXCEPT !.fate = "returned"] ELSE m : m \in @}]
             ELSE msgs
  /\ cleared' = IF clearQueue /\ \A s \in Subs : sub[s].agent = a => sub'[s].cancelled
                THEN cleared \cup {a} ELSE cleared
  /\ UNCHANGED <<rowState, cursor, cacheVars, phase>>

\* POST /agent/:id/archive: forget the cached object, set archived_at.
Archive(a) ==
  /\ Serving
  /\ rowState[a] = "active"
  /\ rowState' = [rowState EXCEPT ![a] = "archived"]
  /\ run' = Detached(a)
  /\ cached' = [cached EXCEPT ![a] = FALSE]
  /\ ctl' = [ctl EXCEPT ![a] = NoRun]
  /\ streaming' = [streaming EXCEPT ![a] = FALSE]
  /\ UNCHANGED <<runState, nextRun, cursor, msgs, sub, phase, cleared>>

\* POST /agent/:id/delete: delete the row with its messages and events, forget the
\* cached object.  A run in flight is not told.
DeleteAgent(a) ==
  /\ Serving
  /\ Exists(a)
  /\ rowState' = [rowState EXCEPT ![a] = "deleted"]
  /\ runState' = [runState EXCEPT ![a] = "idle"]
  /\ nextRun' = [nextRun EXCEPT ![a] = "none"]
  /\ cursor' = [cursor EXCEPT ![a] = -1]
  /\ msgs' = [msgs EXCEPT ![a] = {}]
  /\ run' = Detached(a)
  /\ cached' = [cached EXCEPT ![a] = FALSE]
  /\ ctl' = [ctl EXCEPT ![a] = NoRun]
  /\ streaming' = [streaming EXCEPT ![a] = FALSE]
  /\ UNCHANGED <<sub, phase, cleared>>

\* POST /agent/:id/messages/delete: one row, or every row from this one on.  Rows
\* keep their idx and appends use MAX(idx) + 1, so the idx of a deleted tail is
\* given out again.
DeleteMessage(a, m, fromHere) ==
  /\ Serving
  /\ rowState[a] = "active"
  /\ m \in msgs[a]
  /\ msgs' = [msgs EXCEPT ![a] = {n \in @ : IF fromHere THEN n.idx < m.idx ELSE n # m}]
  /\ UNCHANGED <<rowState, runState, nextRun, cursor, cacheVars, run, sub, phase, cleared>>

\* DELETE /agent/:id: agent.clear aborts and drops the controller, the object is
\* forgotten; session.delete gets a bare id where it expects {id}, so no row goes.
ResetAgent(a) ==
  /\ Serving
  /\ run' = [r \in Runs |->
               IF r \in RunsOf(a)
               THEN [run[r] EXCEPT !.detached = TRUE,
                                   !.aborted = @ \/ (cached[a] /\ ctl[a] = r),
                                   !.by = IF cached[a] /\ ctl[a] = r THEN "operator" ELSE @]
               ELSE run[r]]
  /\ cached' = [cached EXCEPT ![a] = FALSE]
  /\ ctl' = [ctl EXCEPT ![a] = NoRun]
  /\ streaming' = [streaming EXCEPT ![a] = FALSE]
  /\ UNCHANGED <<rowVars, sub, phase, cleared>>

\* ui.sendToAgent: start run() beside the worker, guarded by isStreaming only.  The
\* run appends the operator message itself and the agents row is not touched.
DirectRun(r, a) ==
  LET i == NextIdx(a) IN
  /\ phase = "up"
  /\ run[r].st = "free"
  /\ cached[a] /\ ~streaming[a]
  /\ i <= MaxIdx
  /\ msgs' = [msgs EXCEPT ![a] = @ \cup {Row(i, TRUE, "taken")}]
  /\ run' = [run EXCEPT ![r] = NewRun(a, "direct", i)]
  /\ ctl' = [ctl EXCEPT ![a] = r]
  /\ streaming' = [streaming EXCEPT ![a] = TRUE]
  /\ UNCHANGED <<rowState, runState, nextRun, cursor, cached, sub, phase, cleared>>

\* The end of a direct run: isStreaming is reset, the controller stays behind.
DirectFinally(r) ==
  LET q == run[r]  a == run[r].agent IN
  /\ phase # "down"
  /\ q.st = "settled" /\ q.kind = "direct"
  /\ streaming' = IF q.detached THEN streaming ELSE [streaming EXCEPT ![a] = FALSE]
  /\ ctl' = [b \in Agents |-> IF ctl[b] = r THEN OldRun ELSE ctl[b]]
  /\ msgs' = [msgs EXCEPT ![a] = {IF m.idx = q.frontier /\ m.fate = "taken"
                                  THEN [m EXCEPT !.fate = IF q.outcome = "ok" THEN "acked"
                                                          ELSE "returned"]
                                  ELSE m : m \in @}]
  /\ run' = [run EXCEPT ![r] = FreeRun]
  /\ UNCHANGED <<rowState, runState, nextRun, cursor, cached, sub, phase, cleared>>

-----------------------------------------------------------------------------
(***************************************************************************)
(* The process: graceful and forced shutdown, crash, restart.              *)
(***************************************************************************)

\* shutdown(): stop the worker loop, raise the gate for new runs and submissions.
ShutdownBegin ==
  /\ phase = "up"
  /\ phase' = "closing"
  /\ UNCHANGED <<rowVars, cacheVars, run, sub, cleared>>

\* The server has stopped: abort the controller of every cached agent.
ShutdownAbort ==
  /\ phase = "closing"
  /\ phase' = "aborted"
  /\ run' = [r \in Runs |->
               IF Live(r) /\ ctl[run[r].agent] = r
               THEN [run[r] EXCEPT !.aborted = TRUE,
                                   !.by = IF @ = "none" THEN "shutdown" ELSE @]
               ELSE run[r]]
  /\ UNCHANGED <<rowVars, cacheVars, sub, cleared>>

\* The process is gone: promises vanish, rows stay as they are.  History: what a
\* run had taken is open again unless the operator had stopped that run.
ProcessGone ==
  /\ phase' = "down"
  /\ run' = [r \in Runs |-> FreeRun]
  /\ sub' = [s \in Subs |-> FreeSub]
  /\ msgs' = [a \in Agents |->
       {IF m.fate = "taken"
        THEN [m EXCEPT !.fate = IF \E r \in RunsOf(a) : run[r].by = "operator"
                                THEN "returned" ELSE "open"]
        ELSE m : m \in msgs[a]}]
  /\ UNCHANGED <<rowState, nextRun, cursor, cacheVars, cleared>>

\* Every run and submission settled within the grace: close the database.
ShutdownSettled ==
  /\ phase = "aborted"
  /\ \A r \in Runs : ~Live(r)
  /\ \A s \in Subs : sub[s].st = "free"
  /\ ProcessGone
  /\ UNCHANGED runState

\* Mutant of ShutdownForce: forget to return the claims.
ShutdownForceUnswept ==
  /\ phase = "aborted"
  /\ \/ \E r \in Runs : Live(r)
     \/ \E s \in Subs : sub[s].st = "gap"
  /\ phase' = "swept"
  /\ UNCHANGED <<rowVars, cacheVars, run, sub, cleared>>

\* Something ignored its abort beyond the grace: return every claim to idle and
\* keep next_run_at, while the stragglers may still finish until the exit.
ShutdownForce ==
  /\ phase = "aborted"
  /\ \/ \E r \in Runs : Live(r)
     \/ \E s \in Subs : sub[s].st = "gap"
  /\ phase' = "swept"
  /\ runState' = [a \in Agents |-> "idle"]
  /\ UNCHANGED <<rowState, nextRun, cursor, msgs, cacheVars, run, sub, cleared>>

ShutdownExit ==
  /\ phase = "swept"
  /\ ProcessGone
  /\ UNCHANGED runState

\* The process dies without shutdown(): claimed rows stay 'running'.
Crash ==
  /\ phase # "down"
  /\ ProcessGone
  /\ UNCHANGED runState

\* startRuntime: loadAll rehydrates every agent that is not archived.  Nothing
\* resets run_state.
Restart ==
  /\ phase = "down"
  /\ phase' = "up"
  /\ cached' = [a \in Agents |-> rowState[a] = "active"]
  /\ ctl' = [a \in Agents |-> NoRun]
  /\ streaming' = [a \in Agents |-> FALSE]
  /\ UNCHANGED <<rowVars, run, sub, cleared>>

-----------------------------------------------------------------------------
RunStep(r) ==
  \/ \E a \in Agents : Claim(r, a)
  \/ RunAppend(r)
  \/ RunClose(r)
  \/ \E o \in {"ok", "error", "abort"} : RunSettle(r, o)
  \/ RunFinally(r)

SubmitStep ==
  \/ \E s \in Subs, a \in Agents, at \in {"due", "later"}, t \in BOOLEAN :
       SubmitBegin(s, a, at, t)
  \/ \E s \in Subs : SubmitEnd(s) \/ SendAtPasses(s)
  \/ \E a \in Agents : TimePasses(a)

OperatorStep ==
  \/ \E a \in Agents, c \in BOOLEAN, t \in BOOLEAN : Stop(a, c, t)
  \/ \E a \in Agents : Archive(a) \/ DeleteAgent(a)

ShutdownStep ==
  ShutdownBegin \/ ShutdownAbort \/ ShutdownSettled \/ ShutdownForce \/ ShutdownExit \/ Restart

\* The scheduled path: all input goes through submit(), all runs through claimOne.
WorkerNext ==
  \/ \E r \in Runs : RunStep(r)
  \/ SubmitStep
  \/ OperatorStep
  \/ ShutdownStep

\* The same in a process that may die at any moment.
CrashNext == WorkerNext \/ Crash

EditStep(a) == \E m \in msgs[a], fromHere \in BOOLEAN : DeleteMessage(a, m, fromHere)

\* And with edits of the transcript at any moment.
DurableNext == CrashNext \/ \E a \in Agents : EditStep(a)

\* The two ways around the claim: an object dropped while its run lives, and runs
\* started beside the worker.
BypassNext ==
  \/ WorkerNext
  \/ \E a \in Agents : ResetAgent(a)
  \/ \E r \in Runs : DirectFinally(r) \/ \E a \in Agents : DirectRun(r, a)

CrashSpec == Init /\ [][CrashNext]_vars
DurableSpec == Init /\ [][DurableNext]_vars
BypassSpec == Init /\ [][BypassNext]_vars

-----------------------------------------------------------------------------
(***************************************************************************)
(* Properties.                                                             *)
(***************************************************************************)

\* Every variable stays in its range.
TypeOK ==
  /\ rowState \in [Agents -> {"active", "archived", "deleted"}]
  /\ runState \in [Agents -> {"idle", "running"}]
  /\ nextRun \in [Agents -> {"none", "due", "later"}]
  /\ cursor \in [Agents -> Idx]
  /\ msgs \in [Agents -> SUBSET Message]
  /\ cached \in [Agents -> BOOLEAN]
  /\ ctl \in [Agents -> Runs \cup {NoRun, OldRun}]
  /\ streaming \in [Agents -> BOOLEAN]
  /\ run \in [Runs -> Run]
  /\ sub \in [Subs -> Submission]
  /\ phase \in {"up", "closing", "aborted", "swept", "down"}
  /\ cleared \subseteq Agents

\* Per-agent serialisation (the header of workerLoop.ts): never two runs of one agent.
\* stop() publishing idle before the run quiesces, or a claim that does not test
\* run_state, would break it.
OneRunPerAgent ==
  \A r1, r2 \in Runs : Live(r1) /\ Live(r2) /\ run[r1].agent = run[r2].agent => r1 = r2

\* A claim the worker started still holds the row: as long as its run lives and the
\* agent exists, run_state says so.  Only the forced sweep of shutdown takes it away.
RunHoldsRow ==
  phase # "swept" =>
    \A r \in Runs : Live(r) /\ run[r].kind = "worker" /\ Exists(run[r].agent)
                     => runState[run[r].agent] = "running"

\* And without a crash nobody else holds it: a row says 'running' only on behalf of a
\* live run of this process, so after a graceful or forced shutdown every agent can
\* be claimed again.
HasRun(a) == runState[a] = "running" => WorkerRunsOf(a) # {}

RunningRowHasRun == \A a \in Agents : HasRun(a)

\* The process dies before shutdown has returned the claims.
CutOff == phase # "swept" /\ Crash

\* With crashes, nothing else leaves a row claimed by nobody: no end of a run, stop,
\* edit, deletion or shutdown, forced or not, makes a claim outlive its run.
OnlyCrashesLeaveClaims ==
  [][~CutOff => \A a \in Agents : HasRun(a) => HasRun(a)']_vars

\* Input nobody will start a run for by itself: no run has started with it, its agent
\* has no schedule and no submission is about to make one.
Stranded(a) ==
  {m \in msgs[a] : /\ m.fate = "open" /\ rowState[a] = "active"
                   /\ nextRun[a] = "none" /\ ~InGap(a, m.idx)}

\* The two ways the code leaves input behind: it arrived during a run that failed
\* (docs/architecture.md:138, "Failed run -> no rescheduling", holds for late input as
\* well), or the process died while its submission was suspended.
LateInFailedRun(a, m) ==
  \E r \in Runs : /\ run[r].agent = a /\ run[r].outcome = "error"
                  /\ run[r].frontier < m.idx /\ RunFinally(r)

DiedInGap(a, m) == phase' = "down" /\ InGap(a, m.idx)

StrandsNothingElse(a) ==
  \A m \in Stranded(a)' : m \in Stranded(a) \/ LateInFailedRun(a, m) \/ DiedInGap(a, m)

\* Nothing else does: input becomes stranded neither by a run that succeeds, is stopped
\* or is cut short by a shutdown, nor by a stop or an archiving, nor by a crash during a
\* run, whatever else happened before.
OnlyFailuresStrand ==
  [][\A a \in Agents : StrandsNothingElse(a)]_vars

\* DR-04: the cursor claims only input that a successful run started with; a failed,
\* stopped or interrupted run, or a message that arrived during one, is never covered.
CursorCoversOnlyAcked ==
  \A a \in Agents : \A m \in Operator(msgs[a]) : m.idx <= cursor[a] => m.fate = "acked"

\* stop({clearQueue: true}) wins: once the queue is cleared and nothing was submitted
\* since, neither the dying run's finally block nor a cancelled submission that
\* resumes nor shutdown schedules the agent again.
ClearedStaysCleared == \A a \in cleared : nextRun[a] = "none"

-----------------------------------------------------------------------------
(***************************************************************************)
(* Refinement.  The promise about operator input, read off the columns and *)
(* promises that implement it, without the history variables: a message is *)
(* done when the cursor covers it and held when a live run started with it.*)
(***************************************************************************)
BoxStatus(a, i) ==
  IF ~\E m \in msgs[a] : m.idx = i /\ m.op THEN "absent"
  ELSE IF i <= cursor[a] THEN "done"
  ELSE IF \E r \in WorkerRunsOf(a) : i <= run[r].frontier THEN "held"
  ELSE "waiting"

Inbox == INSTANCE OperatorInbox WITH
  status <- [a \in Agents |-> [i \in 0 .. MaxIdx |-> BoxStatus(a, i)]],
  busy <- [a \in Agents |-> WorkerRunsOf(a) # {}]

\* The scheduled path keeps the inbox's promise: exclusive turns, acknowledgement of
\* exactly what the turn began with, everything else still waiting.
KeepsInbox == Inbox!Spec

-----------------------------------------------------------------------------
(***************************************************************************)
(* Liveness.  A due agent is claimed because the worker loop wakes at the  *)
(* latest when its timeout fires; timers fire; a suspended submission is   *)
(* waiting for in-process rendering; finally runs once run() has settled.  *)
(* Nothing is assumed about run() itself, which waits for a provider or a  *)
(* tool: the property asks for it.                                         *)
(***************************************************************************)
ServingNext ==
  \/ \E r \in Runs : RunStep(r)
  \/ SubmitStep
  \/ OperatorStep

ServingFairness ==
  /\ \A a \in Agents : WF_vars(TimePasses(a)) /\ WF_vars(\E r \in Runs : Claim(r, a))
  /\ \A s \in Subs : WF_vars(SubmitEnd(s))
  /\ \A r \in Runs : WF_vars(RunFinally(r))

ServingSpec == Init /\ [][ServingNext]_vars /\ ServingFairness

RunsSettle == \A r \in Runs : []<>(run[r].st \notin {"working", "closing"})

Unseen(a, i) == \E m \in msgs[a] : m.op /\ m.idx = i /\ m.fate = "open"

\* A run is to start with it, now or once its submission goes on.
Awaited(a, i) == Unseen(a, i) /\ (nextRun[a] # "none" \/ InGap(a, i))

\* A run that began before it has failed.
FailedBefore(a, i) ==
  \E r \in Runs : /\ run[r].agent = a /\ run[r].st = "settled"
                  /\ run[r].outcome = "error" /\ run[r].frontier < i

\* If runs end, input that waits is taken: by a run, or withdrawn by a stop, unless its
\* agent is archived or the run it arrived during fails, which leaves it behind.
InputIsTaken ==
  RunsSettle =>
    \A a \in Agents : \A i \in 0 .. MaxIdx :
      Awaited(a, i) ~> (~Unseen(a, i) \/ rowState[a] # "active" \/ FailedBefore(a, i))

-----------------------------------------------------------------------------
(***************************************************************************)
(* What the repository says of the program and the program does not do.    *)
(***************************************************************************)

\* docs/architecture.md:117, "pending run_state='running' rows reset on next worker
\* pass": a claim whose process died does not stay claimed in the next one.
StaleClaim(a) ==
  /\ phase = "up" /\ rowState[a] = "active"
  /\ runState[a] = "running" /\ WorkerRunsOf(a) = {}

StaleClaimsReset == \A a \in Agents : StaleClaim(a) ~> ~StaleClaim(a)

=============================================================================
