------------------------------- MODULE Forks -------------------------------
(***************************************************************************)
(* Agents, their forks and the transcripts they read.  A fork stores only  *)
(* its parent and an offset; what it inherits is read from the parent's    *)
(* rows whenever it is needed, and the objects in ctx.state.agent cache    *)
(* the result.                                                             *)
(*                                                                         *)
(* Every action is one handler, or one piece of a run, between two awaits. *)
(***************************************************************************)
EXTENDS Integers, Sequences

CONSTANTS
  MaxAgents,  \* bound on the agents ever made
  MaxSaid     \* bound on the rows one agent ever writes

ASSUME BoundsAssumption == MaxAgents \in Nat /\ MaxSaid \in Nat

\* nextId() encodes the numbers 1, 2, ... as a, b, ..., z, aa, ...; 0 is a null parent_id.
Ids == 1 .. MaxAgents
NoParent == 0

\* by: the agent it was written for; n: which of its rows, over all time.
Messages == [by : Ids, n : Nat]

VARIABLES
  idCounter,  \* kv 'agent:idCounter'
  status,     \* the agents row: there, there with archived_at, or not there
  parent,     \* agents.parent_id
  offset,     \* agents.fork_offset, 0 for null
  rows,       \* messages of each agent ORDER BY idx
  said,       \* history: rows ever written for it, the identity of the last one
  cached,     \* the keys of ctx.state.agent
  context     \* agent.messages of the cached objects

tables == <<idCounter, status, parent, offset, rows, said>>
vars == <<tables, cached, context>>

Exists(a) == status[a] \in {"active", "archived"}

-----------------------------------------------------------------------------
(***************************************************************************)
(* Reading a transcript.                                                   *)
(***************************************************************************)

\* Array.prototype.slice(0, n)
Slice(s, n) == SubSeq(s, 1, IF n < Len(s) THEN n ELSE Len(s))

\* getFullMessages() along a given table of parents, offsets and own rows.
Assembled(par, off, own) ==
  LET full[a \in Ids] ==
        IF par[a] = NoParent THEN own[a] ELSE Slice(full[par[a]], off[a]) \o own[a]
  IN full

\* The rows of an agent without an agents row are not read.
Readable == [a \in Ids |-> IF Exists(a) THEN rows[a] ELSE <<>>]

\* getFullMessages(): what was inherited, then the agent's own rows.
Full == Assembled(parent, offset, Readable)

\* Mutant of ForkOffset: count the parent's own rows.
ForkOffsetOfOwn(p) == Len(rows[p])

\* fork(): the boundary is the length of all the parent reads, inherited rows included.
ForkOffset(p) == Len(Full[p])

Inherited(p, off) == IF p = NoParent THEN <<>> ELSE Slice(Full[p], off)

\* syncAgentState() on the object of agent a, if ctx.state.agent holds it.
Resync(a, full) == IF a \in cached THEN [context EXCEPT ![a] = full] ELSE context

\* ctx.state.agent[id] ?? session.load(id)
Reachable(a) == a \in cached \/ status[a] = "active"

-----------------------------------------------------------------------------
(***************************************************************************)
(* New agents.                                                             *)
(***************************************************************************)

\* Mutant of NextId: one more than the greatest id there is a row for.
NextIdOfRows ==
  CHOOSE n \in 1 .. MaxAgents + 1 :
    /\ \A a \in Ids : Exists(a) => a < n
    /\ n = 1 \/ Exists(n - 1)

\* nextId(): one more than the persisted counter.
NextId == idCounter + 1

\* agent.messages of the object start() makes, which every save() of a new agent, its
\* own, fork()'s and delegateTask()'s, writes as the agent's rows.
FirstMessages(p, off) == <<>>

\* start() of a child of p, or of a root, and the save()s that follow without an await.
NewAgent(p, off, synced) ==
  /\ idCounter < MaxAgents
  /\ idCounter' = NextId
  /\ status' = [status EXCEPT ![NextId] = "active"]
  /\ parent' = [parent EXCEPT ![NextId] = p]
  /\ offset' = [offset EXCEPT ![NextId] = off]
  /\ rows' = [rows EXCEPT ![NextId] = FirstMessages(p, off)]
  /\ cached' = cached \cup {NextId}
  /\ context' = [context EXCEPT ![NextId] =
       IF synced THEN Inherited(p, off) \o FirstMessages(p, off) ELSE FirstMessages(p, off)]
  /\ UNCHANGED said

Start == NewAgent(NoParent, 0, FALSE)

\* session.fork(), from the page or from code; an agent that is neither cached nor
\* loadable throws.
Fork(p) == Reachable(p) /\ NewAgent(p, ForkOffset(p), FALSE)

\* delegateTask() up to the first await of the child's run.
Delegate(p, forkContext) ==
  IF forkContext
    THEN Reachable(p) /\ NewAgent(p, ForkOffset(p), TRUE)
    ELSE status[p] # "unborn" /\ NewAgent(NoParent, 0, TRUE)

-----------------------------------------------------------------------------
(***************************************************************************)
(* Writing and editing.                                                    *)
(***************************************************************************)
NewMessage(a) == [by |-> a, n |-> said[a] + 1]

\* appendMessage(), by a submission or a run; a run in flight also writes for an agent
\* that has been archived or deleted meanwhile.  The cached object follows when the
\* run or the submission synchronises it.
Say(a, synced) ==
  /\ status[a] # "unborn" /\ said[a] < MaxSaid
  /\ rows' = [rows EXCEPT ![a] = Append(@, NewMessage(a))]
  /\ said' = [said EXCEPT ![a] = @ + 1]
  /\ UNCHANGED <<idCounter, status, parent, offset, cached>>
  /\ context' = IF synced THEN Resync(a, Full'[a]) ELSE context

\* No fork has inherited a's row i or a later one.
BeyondForks(a, i) ==
  \A c \in Ids : parent[c] = a => offset[c] < Len(Full[a]) - Len(rows[a]) + i

\* POST /agent/:id/messages/delete: one row, or everything from it on.
DeleteRows(a, i, fromHere) ==
  /\ Reachable(a) /\ i \in DOMAIN rows[a]
  /\ rows' = [rows EXCEPT ![a] =
       SubSeq(@, 1, i - 1) \o (IF fromHere THEN <<>> ELSE SubSeq(@, i + 1, Len(@)))]
  /\ UNCHANGED <<idCounter, status, parent, offset, said, cached>>
  /\ context' = Resync(a, Full'[a])

\* compact(): everything from message i on, or message i alone, becomes a note.  It
\* rewrites agent.messages, all the agent reads, and stores it as the agent's rows.
Compact(a, i, fromHere) ==
  /\ Reachable(a) /\ said[a] < MaxSaid /\ i \in DOMAIN Full[a]
  /\ rows' = [rows EXCEPT ![a] =
       SubSeq(Full[a], 1, i - 1) \o <<NewMessage(a)>>
         \o (IF fromHere THEN <<>> ELSE SubSeq(Full[a], i + 1, Len(Full[a])))]
  /\ said' = [said EXCEPT ![a] = @ + 1]
  /\ UNCHANGED <<idCounter, status, parent, offset, cached>>
  /\ context' = Resync(a, Full'[a])

-----------------------------------------------------------------------------
(***************************************************************************)
(* Objects and rows coming and going.                                      *)
(***************************************************************************)

\* GET /agent/:id puts a loaded object into ctx.state.agent; load() refuses archived rows.
Open(a) ==
  /\ status[a] = "active"
  /\ cached' = cached \cup {a}
  /\ context' = IF a \in cached THEN context ELSE [context EXCEPT ![a] = Full[a]]
  /\ UNCHANGED tables

\* DELETE /agent/:id clears the object and drops it; the row stays, because it calls
\* session.delete with a string where the callee expects { id }.
Forget(a) ==
  /\ cached' = cached \ {a}
  /\ context' = [context EXCEPT ![a] = <<>>]
  /\ UNCHANGED tables

\* POST /agent/:id/archive
Archive(a) ==
  /\ Exists(a)
  /\ status' = [status EXCEPT ![a] = "archived"]
  /\ cached' = cached \ {a}
  /\ context' = [context EXCEPT ![a] = <<>>]
  /\ UNCHANGED <<idCounter, parent, offset, rows, said>>

ForkedFrom(a) == \E c \in Ids : parent[c] = a

RowGone(a) ==
  /\ Exists(a)
  /\ status' = [status EXCEPT ![a] = "deleted"]
  /\ parent' = [parent EXCEPT ![a] = NoParent]
  /\ offset' = [offset EXCEPT ![a] = 0]
  /\ UNCHANGED <<idCounter, said>>

\* POST /agent/:id/delete: the agents row, then its messages.
Delete(a) ==
  /\ RowGone(a)
  /\ rows' = [rows EXCEPT ![a] = <<>>]
  /\ cached' = cached \ {a}
  /\ context' = [context EXCEPT ![a] = <<>>]

\* startRuntime() of the next process: loadAll() caches every agent not archived.
Reload ==
  /\ cached' = {a \in Ids : status'[a] = "active"}
  /\ context' = [a \in Ids |-> IF status'[a] = "active" THEN Full'[a] ELSE <<>>]

\* The process ends, between two handlers,
Restart == UNCHANGED tables /\ Reload

\* after nextId() and before the first save(),
RestartInStart ==
  /\ idCounter < MaxAgents
  /\ idCounter' = NextId
  /\ UNCHANGED <<status, parent, offset, rows, said>>
  /\ Reload

\* or after the first of session.delete's statements.
RestartInDelete(a) == RowGone(a) /\ UNCHANGED rows /\ Reload

-----------------------------------------------------------------------------
Init ==
  /\ idCounter = 0
  /\ status = [a \in Ids |-> "unborn"]
  /\ parent = [a \in Ids |-> NoParent]
  /\ offset = [a \in Ids |-> 0]
  /\ rows = [a \in Ids |-> <<>>]
  /\ said = [a \in Ids |-> 0]
  /\ cached = {}
  /\ context = [a \in Ids |-> <<>>]

MakeStep ==
  \/ Start
  \/ \E p \in Ids : Fork(p) \/ \E f \in BOOLEAN : Delegate(p, f)

\* Parents are edited beyond the boundaries of their forks (UC-003, EX-02), agents
\* that were forked are kept, and only roots compact themselves.
WriteStep(a) ==
  \/ \E s \in BOOLEAN : Say(a, s)
  \/ \E i \in 1 .. MaxSaid, f \in BOOLEAN :
       BeyondForks(a, i) /\ (DeleteRows(a, i, f) \/ (parent[a] = NoParent /\ Compact(a, i, f)))

KeepStep(a) ==
  \/ Open(a) \/ Forget(a) \/ Archive(a)
  \/ ~ForkedFrom(a) /\ (Delete(a) \/ RestartInDelete(a))

Next ==
  \/ MakeStep
  \/ \E a \in Ids : WriteStep(a) \/ KeepStep(a)
  \/ Restart \/ RestartInStart

Spec == Init /\ [][Next]_vars

-----------------------------------------------------------------------------
(***************************************************************************)
(* Properties.                                                             *)
(***************************************************************************)

\* Every variable stays in its range.
TypeOK ==
  /\ idCounter \in 0 .. MaxAgents
  /\ status \in [Ids -> {"unborn", "active", "archived", "deleted"}]
  /\ parent \in [Ids -> Ids \cup {NoParent}]
  /\ offset \in [Ids -> Nat]
  /\ rows \in [Ids -> Seq(Messages)]
  /\ said \in [Ids -> Nat]
  /\ cached \subseteq Ids
  /\ context \in [Ids -> Seq(Messages)]

\* DR-05, "then owns its local continuation": only rows written for an agent are stored
\* as its own.  save() writes agent.messages, which after a synchronisation holds the
\* inherited rows as well.
OwnContinuation == \A a \in Ids : \A i \in DOMAIN rows[a] : rows[a][i].by = a

\* The id of a deleted agent is never given again, over restarts too: no run, page or
\* child link that still names it comes to mean another agent (nextId, kv table).
DeletedStaysDeleted == [][\A a \in Ids : status[a] = "deleted" => status'[a] = "deleted"]_vars

\* A cached object is behind the tables at most by rows appended since: never does
\* agent.messages, which buildLlmRequest() sends for a root, hold what was deleted.
CacheIsNotAhead ==
  \A a \in cached :
    /\ Len(context[a]) <= Len(Full[a])
    /\ \A i \in DOMAIN context[a] : context[a][i] = Full[a][i]

\* Reading a parent lazily up to an offset is as good as a copy made at the fork, over
\* nested forks, archived parents, restarts and whatever agents do to their own rows.
Copies == INSTANCE CopiedTranscripts WITH
  Agents <- Ids,
  known <- {a \in Ids : Exists(a)},
  history <- Full,
  base <- offset

ForkIsACopy == Copies!Spec

=============================================================================
