------------------------------- MODULE Markers -------------------------------
(***************************************************************************)
(* The markers of a reply (parseMarkers) and of the rows that stand for a   *)
(* call and its result (serializeMarkerCall, formatMarkerResult), at the    *)
(* granularity of lines: a text is a sequence of lines, and what a line is  *)
(* to the parser is all there is to it.                                     *)
(***************************************************************************)
EXTENDS Integers, SequencesExt

\* A line is a marker where it starts a call; a lone or a ragged `§' (one followed
\* by spaces); a stray one: in the middle of a line, of an unknown kind, of a write
\* without a path; an escaped line; a blank one; a word; or a key with its value.
Mark(kind, arg) == [is |-> "mark", kind |-> kind, arg |-> arg]
Close       == [is |-> "close"]
Ragged      == [is |-> "ragged"]
Stray       == [is |-> "stray"]
Escaped(l)  == [is |-> "escaped", line |-> l]
Blank       == [is |-> "blank"]
Word(w)     == [is |-> "word", word |-> w]
Pair(k, v)  == [is |-> "pair", key |-> k, value |-> v]
Header(what, kind, arg, failed) ==
  [is |-> what, kind |-> kind, arg |-> arg, failed |-> failed]

Unescape(text) ==
  [i \in DOMAIN text |-> IF text[i].is = "escaped" THEN text[i].line ELSE text[i]]

\* The elements at some positions, in order: SelectSeq as a function that is unfolded
\* in proofs.
Chosen(seq, at) ==
  LET Upto[n \in 0 .. Len(seq)] ==
        IF n = 0 THEN <<>>
        ELSE IF n \in at THEN Append(Upto[n - 1], seq[n]) ELSE Upto[n - 1]
  IN Upto[Len(seq)]

Filled(text) == Chosen(text, {i \in DOMAIN text : text[i] # Blank})
RightTrim(text) == SubSeq(text, 1, SelectLastInSeq(text, LAMBDA l : l # Blank))
Trim(text) ==
  LET t == RightTrim(text)
  IN IF t = <<>> THEN t ELSE SubSeq(t, SelectInSeq(t, LAMBDA l : l # Blank), Len(t))

-----------------------------------------------------------------------------
\* Only a marker on a line of its own, at its first column, is a hit.
Hits(text) == Chosen([i \in DOMAIN text |-> i], {i \in DOMAIN text : text[i].is = "mark"})

Prose(text) ==
  IF Hits(text) = <<>> THEN text ELSE RightTrim(SubSeq(text, 1, Hits(text)[1] - 1))

\* Every unescaped `§' of the prose is a warning.
Errors(text) ==
  LET prose == Prose(text)
  IN Chosen(prose, {i \in DOMAIN prose : prose[i].is \in {"close", "ragged", "stray"}})

\* Mutant of Raw: a body goes on to the end of the text.
RawToEnd(text, n) == SubSeq(text, Hits(text)[n] + 1, Len(text))

\* Up to the next hit; at the end of the text one line break goes.
Raw(text, n) ==
  LET hit == Hits(text)
      rest == SubSeq(text, hit[n] + 1, IF n < Len(hit) THEN hit[n + 1] - 1 ELSE Len(text))
  IN IF n = Len(hit) /\ rest # <<>> /\ Last(rest) = Blank THEN Front(rest) ELSE rest

\* Mutant of Closed: the last lone `§' closes.
ClosedByLast(raw) ==
  LET c == SelectLastInSeq(raw, LAMBDA l : l = Close)
  IN IF c = 0 THEN raw ELSE SubSeq(raw, 1, c - 1)

\* The first lone `§' closes; what comes after it is dropped.
Closed(raw) ==
  LET c == SelectInSeq(raw, LAMBDA l : l = Close)
  IN IF c = 0 THEN raw ELSE SubSeq(raw, 1, c - 1)

\* A ragged one closes if nothing but blanks follows.
Content(raw) ==
  LET c == Closed(raw)
      t == RightTrim(c)
  IN IF Len(t) > 1 /\ Last(t) = Ragged THEN Front(t) ELSE c

\* A body of blanks is no call.
Format(kind, arg) ==
  CASE kind = "edit" -> "hashline"
    [] kind \in {"read", "grep"} -> IF arg = "hashline" THEN arg ELSE "plain"
    [] OTHER -> arg

CallAt(text, n) ==
  LET m == text[Hits(text)[n]]
      body == Unescape(Content(Raw(text, n)))
  IN [kind |-> m.kind, arg |-> Format(m.kind, m.arg),
      body |-> IF m.kind = "read" THEN Trim(body) ELSE body]

Calls(text) ==
  LET calls == [n \in DOMAIN Hits(text) |-> CallAt(text, n)]
  IN Chosen(calls, {n \in DOMAIN calls : Filled(calls[n].body) # <<>>})

-----------------------------------------------------------------------------
\* What a call is stored as, and its result.
WireArg(call) == IF call.kind \in {"read", "grep"} /\ call.arg = "plain" THEN "" ELSE call.arg
Serialize(call) == <<Mark(call.kind, WireArg(call))>> \o call.body
ResultOf(call, failed, output) ==
  <<Header("result", call.kind, WireArg(call), failed)>> \o output
ErrorText(errors) == [i \in DOMAIN errors |-> Header("error", "marker", "unescaped", TRUE)]

-----------------------------------------------------------------------------
\* The body of a read: one line without a known key is a path, anything else must be
\* a block of known keys, each once, with a path and numbers (an empty one is 0).
KnownKeys == {"path", "startLine", "endLine", "maxLines"}
NaN == -9
Unset == -1
Bad == [ok |-> FALSE]
Keyed(l) == l.is = "pair" /\ l.key \in KnownKeys

ReadRequest(body) ==
  LET lines == Filled(body)
      Of(key) == Chosen(lines, {i \in DOMAIN lines : Keyed(lines[i]) /\ lines[i].key = key})
      Given(key, default) == IF Of(key) = <<>> THEN default ELSE Of(key)[1].value
  IN IF Len(lines) = 1 /\ ~Keyed(lines[1])
       THEN [ok |-> TRUE, startLine |-> 1, endLine |-> Unset, maxLines |-> Unset]
     ELSE IF \/ \E i \in DOMAIN lines : ~Keyed(lines[i])
             \/ \E key \in KnownKeys : Len(Of(key)) > 1
             \/ Of("path") = <<>>
             \/ \E key \in KnownKeys \ {"path"} : Given(key, 0) = NaN
       THEN Bad
     ELSE [ok |-> TRUE, startLine |-> Given("startLine", 1),
           endLine |-> Given("endLine", Unset), maxLines |-> Given("maxLines", Unset)]

\* The lines of the file that are shown: at least the first one asked for.
Window(request, lines) ==
  LET Larger(a, b) == IF a > b THEN a ELSE b
      Smaller(a, b) == IF a < b THEN a ELSE b
      first == Larger(1, request.startLine)
      end == Larger(first, IF request.endLine = Unset THEN Len(lines) ELSE request.endLine)
      last == IF request.maxLines = Unset THEN end
              ELSE Smaller(end, first + Larger(0, request.maxLines - 1))
  IN SubSeq(lines, first, Smaller(last, Len(lines)))
=============================================================================
