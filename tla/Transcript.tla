----------------------------- MODULE Transcript -----------------------------
(***************************************************************************)
(* One agent's transcript: the rows of `messages` the model sees and the   *)
(* rows of `events` the operator sees, while a turn appends to both,       *)
(* operators submit and delete, and the agent compacts its own context.    *)
(*                                                                         *)
(* A turn runs through the plan of the model's answer item by item.  What  *)
(* it awaits (the model, a marker, the rendering of a bubble) is a value   *)
(* of `at`; everything else may happen there.                              *)
(***************************************************************************)
EXTENDS Integers, Sequences

CONSTANTS
  MaxBorn,        \* bound on the rows ever written
  PatientBorn,    \* the same among patient operators
  MaxLoose,       \* bound on the bubbles of reasoning and parser errors
  PatientLoose,   \* the same among patient operators
  MaxCalls,       \* bound on the markers of one answer
  Interjections,  \* bound on the submissions during one marker
  MarkerKinds     \* what the model emits, a subset of {"call", "plain", "html"}

ASSUME ConstantsAssumption ==
  /\ {MaxBorn, PatientBorn, MaxLoose, PatientLoose} \subseteq Nat
  /\ MaxCalls \in Nat /\ Interjections \in Nat
  /\ MarkerKinds \subseteq {"call", "plain", "html"}

VARIABLES
  patient,  \* operators edit only what is at rest, the agent does not compact, and the
            \* process lives; never changes
  rows,     \* messages ORDER BY idx
  events,   \* events ORDER BY idx
  born,     \* history: rows written so far, the identity of the last one
  at,       \* what the turn awaits
  plan,     \* what is left of the model's answer
  current,  \* the row the turn is about to show or to answer
  aborted,  \* the turn's AbortSignal
  posting,  \* submissions whose bubble is being rendered
  cutIn     \* history: submissions during the current marker

vars == <<patient, rows, events, born, at, plan, current, aborted, posting, cutIn>>

\* "call" is §eval, §write and §bash; "plain" is §read, §grep and §edit; "warning" is
\* the parser's feedback and "note" what compact() leaves behind.
Kinds == {"operator", "prose", "html", "call", "plain", "result", "warning", "note"}

\* of: the marker a result answers; input: role user and excluded_from_cursor = 0.
Rows == [idx : Nat, kind : Kinds, id : Nat, of : Nat, input : BOOLEAN]

NoRow == [idx |-> 0, kind |-> "note", id |-> 0, of |-> 0, input |-> FALSE]

\* anchor: payload.messageIdx, -1 when there is none; shows: history, the row it renders.
Events == [anchor : Nat \cup {-1}, shows : Nat]

Unanchored == [anchor |-> -1, shows |-> 0]

BubbleOf(row) == [anchor |-> row.idx, shows |-> row.id]

\* markerKind()
IsInvocation(row) == row.kind \in {"call", "html"}
IsResult(row) == row.kind \in {"result", "warning"}

\* What is followed by a result row.
NeedsResult(row) == row.kind \in {"call", "plain"}

\* MAX(idx) + 1
NextIdx == IF rows = <<>> THEN 0 ELSE rows[Len(rows)].idx + 1

\* The row appendMessage() inserts.
NewRow(kind, of) ==
  [idx |-> NextIdx, kind |-> kind, id |-> born + 1, of |-> of, input |-> kind = "operator"]

AppendRow(row) ==
  /\ rows' = Append(rows, row)
  /\ born' = born + 1

AtRest == at = "idle" /\ posting = {}

\* Room for n rows more, or for one more bubble without a row, below the bounds.
Room(n) == born + n <= IF patient THEN PatientBorn ELSE MaxBorn
RoomForLoose ==
  Len(SelectSeq(events, LAMBDA e : e = Unanchored)) < IF patient THEN PatientLoose ELSE MaxLoose

\* The parse of an answer: reasoning, then either prose alone or prose, markers and
\* parser errors, after which the model is asked again.
Optional(item) == {<<>>, <<item>>}
Calls == UNION {[1 .. n -> MarkerKinds] : n \in 0 .. MaxCalls}
Actions == {c \o w : c \in Calls, w \in Optional("warning")} \ {<<>>}
Answers ==
  {t \o p : t \in Optional("thought"), p \in Optional("prose")} \cup
  {t \o p \o a \o <<"again">> : t \in Optional("thought"), p \in Optional("prose"), a \in Actions}

Init ==
  /\ patient \in BOOLEAN
  /\ rows = <<>> /\ events = <<>> /\ born = 0
  /\ at = "idle" /\ plan = <<>> /\ current = NoRow /\ aborted = FALSE
  /\ posting = {} /\ cutIn = 0

-----------------------------------------------------------------------------
\* The turn.

\* runOne() or a direct caller starts run().
TurnStarts ==
  /\ at = "idle"
  /\ at' = "model"
  /\ UNCHANGED <<rows, events, born, plan, current, aborted, posting, cutIn>>

\* Bound: an answer there is no room for is not given.
Fits(answer) ==
  LET Only(kinds) == SelectSeq(answer, LAMBDA item : item \in kinds)
  IN  Room(Len(Only(Kinds))) /\ (Only({"thought", "warning"}) # <<>> => RoomForLoose)

ModelAnswers(answer) ==
  /\ at = "model" /\ ~aborted /\ Fits(answer)
  /\ at' = "plan"
  /\ plan' = answer
  /\ UNCHANGED <<rows, events, born, current, aborted, posting, cutIn>>

\* throwIfAborted(), the provider's refusal of an aborted signal, or its failure.
TurnThrows ==
  /\ at = "model" \/ (at = "plan" /\ aborted)
  /\ at' = "idle"
  /\ plan' = <<>>
  /\ aborted' = FALSE
  /\ UNCHANGED <<rows, events, born, current, posting, cutIn>>

\* The plan is done: ask the model again, or close the turn.
PlanEnds ==
  /\ at = "plan" /\ plan \in {<<>>, <<"again">>}
  /\ ~aborted \/ plan = <<>>
  /\ at' = IF plan = <<>> THEN "idle" ELSE "model"
  /\ plan' = <<>>
  /\ aborted' = (aborted /\ plan # <<>>)
  /\ UNCHANGED <<rows, events, born, current, posting, cutIn>>

ItemIs(kinds) == at = "plan" /\ ~aborted /\ plan # <<>> /\ Head(plan) \in kinds

\* appendThinkingEvent
AppendThought ==
  /\ ItemIs({"thought"})
  /\ RoomForLoose
  /\ events' = Append(events, Unanchored)
  /\ plan' = Tail(plan)
  /\ UNCHANGED <<rows, born, at, current, aborted, posting, cutIn>>

\* Prose and §html: the row first, its bubble when it has been rendered.
AppendShown ==
  /\ ItemIs({"prose", "html"}) /\ Room(1)
  /\ current' = NewRow(Head(plan), 0)
  /\ AppendRow(current')
  /\ at' = "bubble"
  /\ UNCHANGED <<events, plan, aborted, posting, cutIn>>

\* executeMarker appends the invocation and starts the action.
AppendCall ==
  /\ ItemIs({"call", "plain"}) /\ Room(2)
  /\ current' = NewRow(Head(plan), 0)
  /\ AppendRow(current')
  /\ at' = "action"
  /\ UNCHANGED <<events, plan, aborted, posting, cutIn>>

\* The action is over, aborted or not, and its event is being rendered.
ActionEnds ==
  /\ at = "action"
  /\ at' = "bubble"
  /\ UNCHANGED <<rows, events, born, plan, current, aborted, posting, cutIn>>

\* The bubble of the current row is appended; a marker then awaits its own return.
BubbleEnds ==
  /\ at = "bubble"
  /\ events' = Append(events, BubbleOf(current))
  /\ at' = IF NeedsResult(current) THEN "result" ELSE "plan"
  /\ plan' = IF NeedsResult(current) THEN plan ELSE Tail(plan)
  /\ current' = IF NeedsResult(current) THEN current ELSE NoRow
  /\ UNCHANGED <<rows, born, aborted, posting, cutIn>>

\* The synthetic user row that answers the marker.
AppendResult ==
  /\ at = "result" /\ Room(1)
  /\ AppendRow(NewRow("result", current.id))
  /\ at' = "plan"
  /\ plan' = Tail(plan)
  /\ current' = NoRow
  /\ cutIn' = 0
  /\ UNCHANGED <<events, aborted, posting>>

\* Parser errors: the last of the error bubbles, then one synthetic user row.
WarnOperator ==
  /\ ItemIs({"warning"}) /\ Room(1)
  /\ RoomForLoose
  /\ events' = Append(events, Unanchored)
  /\ at' = "warned"
  /\ UNCHANGED <<rows, born, plan, current, aborted, posting, cutIn>>

WarnModel ==
  /\ at = "warned" /\ Room(1)
  /\ AppendRow(NewRow("warning", 0))
  /\ at' = "plan"
  /\ plan' = Tail(plan)
  /\ UNCHANGED <<events, current, aborted, posting, cutIn>>

\* stop(), or shutdown
Abort ==
  /\ at # "idle" /\ ~aborted
  /\ aborted' = TRUE
  /\ UNCHANGED <<rows, events, born, at, plan, current, posting, cutIn>>

-----------------------------------------------------------------------------
\* The operator.

InMarker == at \in {"action", "result"} \/ (at = "bubble" /\ NeedsResult(current))

\* appendUserMessage(), up to the rendering of the bubble.
Submit ==
  /\ posting = {}
  /\ Room(IF InMarker \/ at = "warned" THEN 2 ELSE 1)
  /\ InMarker => cutIn < Interjections
  /\ LET row == NewRow("operator", 0)
     IN  AppendRow(row) /\ posting' = {row}
  /\ cutIn' = IF InMarker THEN cutIn + 1 ELSE cutIn
  /\ UNCHANGED <<events, at, plan, current, aborted>>

BubblePosted ==
  \E row \in posting :
    /\ posting' = posting \ {row}
    /\ events' = Append(events, BubbleOf(row))
    /\ UNCHANGED <<rows, born, at, plan, current, aborted, cutIn>>

\* getMessages() and replaceMessages(): the rows are renumbered, and getMessages() does
\* not return excluded_from_cursor.
Rewritten(seq) ==
  [i \in 1 .. Len(seq) |->
     [seq[i] EXCEPT !.idx = i - 1,
                    !.input = seq[i].kind \in {"operator", "result", "warning", "note"}]]

\* The events but those anchored at idx.
EventsWithout(idx) ==
  LET Kept[n \in 0 .. Len(events)] ==
        IF n = 0 THEN <<>>
        ELSE IF events[n].anchor = idx THEN Kept[n - 1] ELSE Append(Kept[n - 1], events[n])
  IN  Kept[Len(events)]

\* Mutant of DeleteOne: rewrite the transcript without the row.
DeleteOneRewriting(p) ==
  /\ ~IsInvocation(rows[p]) /\ ~IsResult(rows[p])
  /\ rows' = Rewritten(SubSeq(rows, 1, p - 1) \o SubSeq(rows, p + 1, Len(rows)))
  /\ events' = EventsWithout(rows[p].idx)

\* deleteMessageAt: one row and its bubbles, but no half of a pair.
DeleteOne(p) ==
  /\ ~IsInvocation(rows[p]) /\ ~IsResult(rows[p])
  /\ rows' = SubSeq(rows, 1, p - 1) \o SubSeq(rows, p + 1, Len(rows))
  /\ events' = EventsWithout(rows[p].idx)

\* Mutant of Boundary: trust the position the operator clicked on.
BoundaryHere(p) == p

\* Where a cut at position p starts: walk back while p is a result or follows an
\* invocation.
Boundary(p) ==
  LET InPair(q) == q > 1 /\ (IsResult(rows[q]) \/ IsInvocation(rows[q - 1]))
  IN  CHOOSE q \in 1 .. p : ~InPair(q) /\ \A r \in q + 1 .. p : InPair(r)

\* The events before the first one that is anchored at idx or later.
EventsBefore(idx) ==
  LET Cut == {i \in 1 .. Len(events) : events[i].anchor >= idx}
  IN  SubSeq(events, 1, IF Cut = {} THEN Len(events)
                        ELSE (CHOOSE i \in Cut : \A j \in Cut : i <= j) - 1)

\* Mutant of TruncateFrom: leave the bubbles to the page reload.
TruncateRowsOnly(p) ==
  /\ rows' = SubSeq(rows, 1, Boundary(p) - 1)
  /\ UNCHANGED events

\* truncateMessagesFrom
TruncateFrom(p) ==
  /\ rows' = SubSeq(rows, 1, Boundary(p) - 1)
  /\ events' = EventsBefore(rows[Boundary(p)].idx)

\* POST /agent/:id/messages/delete, at any moment, as the page allows.
Edit ==
  /\ patient => AtRest
  /\ \E p \in 1 .. Len(rows) : DeleteOne(p) \/ TruncateFrom(p)
  /\ UNCHANGED <<born, at, plan, current, aborted, posting, cutIn>>

-----------------------------------------------------------------------------
\* compact(), called from an §eval.

\* compact({ message }): one note instead of everything from p on.
CompactFrom(p) ==
  LET note == [NoRow EXCEPT !.id = born + 1]
  IN  /\ Room(2)
      /\ rows' = Rewritten(Append(SubSeq(rows, 1, Boundary(p) - 1), note))
      /\ born' = born + 1

\* compact({ summary }): shorten the most recent result.
CompactLast ==
  /\ \E p \in 1 .. Len(rows) :
       /\ IsResult(rows[p]) /\ \A q \in p + 1 .. Len(rows) : ~IsResult(rows[q])
       /\ rows' = Rewritten([rows EXCEPT ![p].kind = "note"])
  /\ UNCHANGED born

Compact ==
  /\ ~patient
  /\ at = "action" /\ current.kind = "call"
  /\ CompactLast \/ \E p \in 1 .. Len(rows) : CompactFrom(p)
  /\ UNCHANGED <<events, at, plan, current, aborted, posting, cutIn>>

\* The process dies: the turn and the submission are gone, the rows are not.
Crash ==
  /\ ~patient /\ ~AtRest
  /\ at' = "idle" /\ plan' = <<>> /\ current' = NoRow /\ aborted' = FALSE
  /\ posting' = {} /\ cutIn' = 0
  /\ UNCHANGED <<rows, events, born>>

-----------------------------------------------------------------------------
TurnStep ==
  \/ TurnStarts \/ TurnThrows \/ PlanEnds
  \/ \E answer \in Answers : ModelAnswers(answer)
  \/ AppendThought \/ AppendShown \/ AppendCall \/ ActionEnds \/ BubbleEnds \/ AppendResult
  \/ WarnOperator \/ WarnModel

OperatorStep == Submit \/ BubblePosted \/ Abort

Next == (TurnStep \/ OperatorStep \/ Edit \/ Compact \/ Crash) /\ UNCHANGED patient

Spec == Init /\ [][Next]_vars

-----------------------------------------------------------------------------
\* Every variable stays in its range, and rows are ordered by idx.
TypeOK ==
  /\ rows \in Seq(Rows) /\ events \in Seq(Events)
  /\ \A i, j \in 1 .. Len(rows) : i < j => rows[i].idx < rows[j].idx
  /\ patient \in BOOLEAN
  /\ born \in Nat /\ Room(0)
  /\ at \in {"idle", "model", "plan", "bubble", "action", "result", "warned"}
  /\ plan \in Seq({"thought", "prose", "warning", "again"} \cup MarkerKinds)
  /\ current \in Rows /\ aborted \in BOOLEAN
  /\ posting \subseteq Rows
  /\ cutIn \in 0 .. Interjections

Answered(i) == \E j \in i + 1 .. Len(rows) : rows[j].of = rows[i].id
AnswersOne(j) == \E i \in 1 .. j - 1 : NeedsResult(rows[i]) /\ rows[j].of = rows[i].id

\* memory-bank/engineering/agent-protocol.md: "Action messages and results remain
\* structurally paired during compaction, deletion, and truncation."  Whenever the model
\* is asked, and between turns, each marker has one result and each result its marker,
\* even if nobody edits a turn in progress.
PairsWhole ==
  patient /\ at \in {"idle", "model"} =>
    \A i \in 1 .. Len(rows) :
      /\ NeedsResult(rows[i]) => Answered(i)
      /\ rows[i].of # 0 => AnswersOne(i)
      /\ \A j \in 1 .. Len(rows) : rows[i].of # 0 /\ rows[j].of = rows[i].of => i = j

HasCall(x) == \E i \in 1 .. Len(rows) : NeedsResult(rows[i]) /\ rows[i].id = x
HasResult(x) == \E j \in 1 .. Len(rows) : rows[j].of = x

\* The turn is past marker x, and only its call or only its result is there.
Halved(x) == x # current.id /\ HasCall(x) # HasResult(x)

\* What the boundary of a cut can tell to be a pair: a result that directly follows its
\* call, or, if the call is an invocation to markerKind(), one row later.
Joined(i, j) == IsResult(rows[j]) /\ j - i <= IF IsInvocation(rows[i]) THEN 2 ELSE 1

\* The ways a pair is parted.  A row of §read, §grep or §edit is deleted alone.
DeletesPlainCall(x) ==
  Edit /\ \E p \in 1 .. Len(rows) : rows[p].kind = "plain" /\ rows[p].id = x /\ DeleteOne(p)

\* A cut, or the deletion of a note, cannot tell that the call and the result, with
\* submissions between them or with a result that compact() has shortened, are a pair.
CutsLoosePair(x) ==
  /\ Edit \/ Compact
  /\ \E i, j \in 1 .. Len(rows) : rows[i].id = x /\ rows[j].of = x /\ ~Joined(i, j)

\* The call of the running action was deleted, or dropped by its own compact().
AnswersNoCall(x) == AppendResult /\ x = current.id /\ ~HasCall(x)

DiesInMarker(x) == Crash /\ x = current.id

\* Nothing else parts a call from its result, or ever leaves one of the two alone: no edit,
\* between turns or in one, no compaction, no abort and no answer of the model.
NothingElseParts ==
  [][ \A x \in 1 .. born :
        Halved(x)' /\ ~Halved(x) =>
          \/ DeletesPlainCall(x) \/ CutsLoosePair(x) \/ AnswersNoCall(x) \/ DiesInMarker(x) ]_vars

\* session/deleteMessageAt.ts: "surviving rows keep their idx and flags".  Only compaction
\* renumbers.
SurvivorsUnchanged ==
  [][ ~Compact =>
        \A i \in 1 .. Len(rows) : \A j \in 1 .. Len(rows') :
          rows[i].id = rows'[j].id => rows[i] = rows'[j] ]_vars

\* Nothing but operator input and the note of a compaction comes between a marker and its
\* result, so that a provider sees action and answer as one exchange.
OnlyOperatorsBetween ==
  \A i, j \in 1 .. Len(rows) :
    i < j /\ rows[j].of = rows[i].id =>
      \A k \in i + 1 .. j - 1 : rows[k].kind \in {"operator", "note"}

\* A bubble's messageIdx names the row the bubble shows, so that its delete button
\* deletes what the operator reads, provided nobody edits while a bubble is rendered.
BubblesMatchRows ==
  \A e \in 1 .. Len(events) :
    patient /\ events[e].anchor # -1 =>
      \E i \in 1 .. Len(rows) : rows[i].idx = events[e].anchor /\ rows[i].id = events[e].shows

\* docs/architecture.md, excluded_from_cursor: "without this flag, every tool result would
\* look like fresh user input and trigger a re-run, producing phantom turns".
OnlyOperatorsAreInput == \A i \in 1 .. Len(rows) : rows[i].input => rows[i].kind = "operator"

=============================================================================
