----------------------------- MODULE OneOffCalls -----------------------------
(***************************************************************************)
(* One question to a model outside any conversation (llmCall), and the      *)
(* summary of a file that is made of it (readAndSummarize).  A file that is  *)
(* too long is cut and the cut is told; a streamed answer is put together    *)
(* from its deltas and from the provider's last word.                       *)
(***************************************************************************)
EXTENDS Integers, Sequences, SequencesExt

CONSTANTS
  Sizes,      \* lengths of the file
  Limits,     \* maxChars: it may be 0 or less
  Spoken,     \* what a delta may say
  MaxSignals  \* bound: events of a stream

ASSUME OneOffAssumption ==
  Sizes \subseteq Nat /\ Limits \subseteq Int /\ MaxSignals \in Nat

VARIABLES
  endpoint,  \* [api, key]: the protocol, and what the credential is good for
  limit,     \* maxChars
  size,      \* of the file, -1 while there is none
  step,      \* "looking", "reading", "asking", "listening", "answered", "failed"
  asked,     \* what the question holds: characters of the file, and the notice of a cut
  sent,      \* the events of the answer so far
  heard,     \* the deltas so far
  answer     \* [text, finish]

oneOffVars == <<endpoint, limit, size, step, asked, sent, heard, answer>>

Sources == Sizes \cup {-1}  \* -1: there is no file

OneOffInit ==
  /\ endpoint \in [api : {"responses", "chat", "messages"}, key : {"good", "unreadable", "none"}]
  /\ limit \in Limits /\ size \in Sources
  /\ step = "looking" /\ asked = [shown |-> 0, cut |-> FALSE]
  /\ sent = <<>> /\ heard = <<>> /\ answer = [text |-> <<>>, finish |-> "none"]

-----------------------------------------------------------------------------
\* exists(), then read(): the file may go or grow in between.
FileChanges(n) ==
  /\ step \in {"looking", "reading"} /\ size' = n
  /\ UNCHANGED <<endpoint, limit, step, asked, sent, heard, answer>>

Throws == step' = "failed" /\ UNCHANGED <<endpoint, limit, size, asked, sent, heard, answer>>

Exists ==
  /\ step = "looking"
  /\ IF size = -1 THEN Throws
     ELSE step' = "reading" /\ UNCHANGED <<endpoint, limit, size, asked, sent, heard, answer>>

\* slice(0, n): a negative n counts from the end.
Slice(length, n) ==
  IF n >= 0 THEN IF length < n THEN length ELSE n
  ELSE IF length + n < 0 THEN 0 ELSE length + n

Question(length, n) ==
  LET shown == IF length > n THEN Slice(length, n) ELSE length
  IN [shown |-> shown, cut |-> length > shown]

Reads ==
  /\ step = "reading"
  /\ IF size = -1 THEN Throws
     ELSE /\ step' = "asking" /\ asked' = Question(size, limit)
          /\ UNCHANGED <<endpoint, limit, size, sent, heard, answer>>

\* A streamed response needs a credential that names an account; a chat is sent with any
\* or none, in the chat form whatever the endpoint speaks.
CanPost == endpoint.api = "responses" => endpoint.key = "good"
Posts ==
  /\ step = "asking"
  /\ IF CanPost THEN step' = "listening" /\ UNCHANGED <<endpoint, limit, size, asked, sent, heard, answer>>
     ELSE Throws

\* Not ok, or the connection fails; an endpoint of another protocol always refuses.
Refused == step = "listening" /\ sent = <<>> /\ Throws

Settled(text, finish) == step' = "answered" /\ answer' = [text |-> text, finish |-> finish]

\* One JSON document: the first choice, or nothing.
ChatAnswers(text) ==
  /\ step = "listening" /\ endpoint.api = "chat"
  /\ sent' = <<[type |-> "delta", text |-> text]>> /\ Settled(<<text>>, "stop")
  /\ UNCHANGED <<endpoint, limit, size, asked, heard>>

Listening == step = "listening" /\ endpoint.api = "responses" /\ Len(sent) < MaxSignals

Hears(text) ==
  /\ Listening
  /\ sent' = Append(sent, [type |-> "delta", text |-> text]) /\ heard' = Append(heard, text)
  /\ UNCHANGED <<endpoint, limit, size, step, asked, answer>>

\* An error event, one of another type, or one that is no JSON.
Noise ==
  /\ Listening /\ sent' = Append(sent, [type |-> "noise", text |-> "none"])
  /\ UNCHANGED <<endpoint, limit, size, step, asked, heard, answer>>

Finish(word) ==
  CASE word = "completed" -> "stop" [] word = "incomplete" -> "length" [] OTHER -> word

\* Mutant of Final: the provider's last word is the answer.
FinalAlone(output, deltas) == output

\* An empty output stands for what the deltas said.
Final(output, deltas) == IF output = <<>> THEN deltas ELSE output

SaidSoFar ==
  LET Said[i \in 0 .. Len(sent)] ==
        IF i = 0 THEN <<>>
        ELSE IF sent[i].type = "delta" THEN Append(Said[i - 1], sent[i].text) ELSE Said[i - 1]
  IN Said[Len(sent)]

\* The last word repeats the whole output, or none of it.
LastWord(word, whole) ==
  /\ Listening /\ sent' = Append(sent, [type |-> word, text |-> "none"])
  /\ Settled(Final(IF whole THEN SaidSoFar ELSE <<>>, heard), Finish(word))
  /\ UNCHANGED <<endpoint, limit, size, asked, heard>>

\* The stream ends without it: what there is, is the answer.
Closes ==
  /\ step = "listening" /\ endpoint.api = "responses"
  /\ Settled(heard, "none")
  /\ UNCHANGED <<endpoint, limit, size, asked, sent, heard>>

OneOffNext ==
  \/ \E n \in Sources : FileChanges(n)
  \/ Exists \/ Reads \/ Posts \/ Refused \/ Noise \/ Closes
  \/ \E text \in Spoken : ChatAnswers(text) \/ Hears(text)
  \/ \E word \in {"completed", "incomplete", "failed"}, whole \in BOOLEAN : LastWord(word, whole)

-----------------------------------------------------------------------------
\* The answer is all that was said, whether the last word repeats it, leaves it out or
\* never comes; it is called finished only by the provider, and it is about the whole
\* file unless the model has been told of the cut.
AnswerIsWhatWasSaid ==
  step = "answered" =>
    /\ answer.text = SaidSoFar
    /\ answer.finish = "stop" /\ endpoint.api = "responses" => Last(sent).type = "completed"
    /\ asked.shown = size \/ asked.cut
=============================================================================
