------------------------------ MODULE Composer ------------------------------
(***************************************************************************)
(* The text box of the full-screen adapter (cli/createTuiView and the part *)
(* of cli/runTui that submits its text and clears it).  While submit()     *)
(* awaits, the operator goes on typing; what was submitted leaves the box  *)
(* when the message is stored, and what was typed meanwhile stays.  The    *)
(* box holds plain characters: which of them were submitted is known to    *)
(* this specification (cells) and not to the program, which compares two   *)
(* texts.                                                                  *)
(***************************************************************************)
EXTENDS Integers, Sequences, SequencesExt, FiniteSetsExt

CONSTANTS
  Keys,      \* the characters that are typed
  Blank,     \* the one among them that trim() removes
  MaxText    \* bound: characters in the box

ASSUME ComposerAssumption == Blank \in Keys /\ MaxText \in Nat

VARIABLES
  cells,     \* the box: characters, and whether each was typed since the submission
  before,    \* submittedComposerText
  turn,      \* startTurn: "none", "submitting" or "running"
  shown      \* whether the first frame is drawn, and the adapter still open

composerVars == <<cells, before, turn, shown>>

Cell(k, late) == [key |-> k, late |-> late]
Text(c)       == [i \in DOMAIN c |-> c[i].key]
PlainText     == Text(cells)
Written(text) == [i \in DOMAIN text |-> Cell(text[i], FALSE)]

ComposerInit == cells = <<>> /\ before = <<>> /\ turn = "none" /\ shown = "drawing"

-----------------------------------------------------------------------------
\* A key of the textarea: a character typed or erased anywhere.  While nothing
\* is being submitted, nothing is late.
Types ==
  /\ shown # "closed" /\ Len(cells) < MaxText
  /\ \E i \in 1..(Len(cells) + 1), k \in Keys :
       cells' = InsertAt(cells, i, Cell(k, turn = "submitting"))
  /\ UNCHANGED <<before, turn, shown>>
Erases ==
  /\ shown # "closed"
  /\ \E i \in DOMAIN cells : cells' = RemoveAt(cells, i)
  /\ UNCHANGED <<before, turn, shown>>

\* startTurn, up to the await of submit().
StartTurn ==
  /\ turn = "none" /\ turn' = "submitting"
  /\ before' = PlainText
  /\ UNCHANGED cells

\* Ctrl+Enter; ignored with a blank box, and by onSubmit during a turn.
CtrlEnter ==
  /\ shown # "closed"
  /\ \E i \in DOMAIN cells : cells[i].key # Blank
  /\ StartTurn /\ UNCHANGED shown

\* The first frame, after which the prompt of the command line is submitted.
FirstFrame ==
  /\ shown = "drawing" /\ shown' = "open"
  /\ \/ StartTurn
     \/ UNCHANGED <<cells, before, turn>>

\* Mutant of CommonSuffix: what the prefix took is compared again.
CommonSuffixOverlapping(a, b, prefix) ==
  Max({n \in 0..Min({Len(a), Len(b)}) :
         \A i \in 0..(n - 1) : a[Len(a) - i] = b[Len(b) - i]})

CommonPrefix(a, b) ==
  Max({n \in 0..Min({Len(a), Len(b)}) : \A i \in 1..n : a[i] = b[i]})
CommonSuffix(a, b, prefix) ==
  Max({n \in 0..(Min({Len(a), Len(b)}) - prefix) :
         \A i \in 0..(n - 1) : a[Len(a) - i] = b[Len(b) - i]})

\* The text between the common prefix and the common suffix.
PostSubmitEditText(old, new) ==
  LET prefix == CommonPrefix(old, new)
  IN  SubSeq(new, prefix + 1, Len(new) - CommonSuffix(old, new, prefix))

\* clearSubmittedComposer.
ClearedComposer ==
  IF PlainText = before THEN <<>> ELSE PostSubmitEditText(before, PlainText)

\* submit() resolves: the message is stored.
Accepted ==
  /\ turn = "submitting" /\ turn' = "running"
  /\ cells' = IF shown = "closed" THEN cells ELSE Written(ClearedComposer)
  /\ before' = <<>>
  /\ UNCHANGED shown

\* It throws: the text stays, and the failure closes the adapter.
SubmitFails ==
  /\ turn = "submitting" /\ turn' = "none" /\ shown' = "closed"
  /\ before' = <<>>
  /\ UNCHANGED cells

TurnEnds == turn = "running" /\ turn' = "none" /\ UNCHANGED <<cells, before, shown>>

\* Ctrl+C when no turn is active, Ctrl+D in an empty box, a signal, a failure of
\* the renderer.
Closes ==
  /\ shown # "closed" /\ shown' = "closed"
  /\ UNCHANGED <<cells, before, turn>>

ComposerNext ==
  \/ Types \/ Erases \/ CtrlEnter \/ FirstFrame
  \/ Accepted \/ SubmitFails \/ TurnEnds \/ Closes

ComposerTypeOK ==
  /\ cells \in BoundedSeq([key : Keys, late : BOOLEAN], MaxText)
  /\ before \in BoundedSeq(Keys, MaxText)
  /\ turn \in {"none", "submitting", "running"}
  /\ shown \in {"drawing", "open", "closed"}

-----------------------------------------------------------------------------
\* While submit() awaited, the operator typed in one place, from one character to another,
\* of a text that is otherwise the submitted one.
TypedBetween(from, to) ==
  /\ from <= to + 1 /\ {i \in DOMAIN cells : cells[i].late} = from .. to
  /\ before = SubSeq(PlainText, 1, from - 1) \o SubSeq(PlainText, to + 1, Len(cells))
Rotated(text, r) == SubSeq(text, r + 1, Len(text)) \o SubSeq(text, 1, r)

\* runTui: "retaining text introduced while submit() was waiting for durable
\* acceptance".  Whatever was typed in one place of the submitted text, the box
\* then holds just that, in its order but for where it begins; and it begins where it did
\* unless the text goes on behind it with the character it begins with, which is where
\* comparing two texts cannot tell the old from the new.
DraftSurvives ==
  [][Accepted /\ shown # "closed" =>
       \A from \in 1 .. Len(cells) + 1, to \in 0 .. Len(cells) : TypedBetween(from, to) =>
         LET draft == SubSeq(PlainText, from, to) IN
         /\ \E r \in 0 .. Len(draft) : Text(cells') = Rotated(draft, r)
         /\ (draft = <<>> \/ to = Len(cells) \/ PlainText[to + 1] # draft[1])
              => Text(cells') = draft]_composerVars
=============================================================================
