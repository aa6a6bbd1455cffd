----------------------------- MODULE ModelCalls ------------------------------
(***************************************************************************)
(* llm.stream: one model call of a run.  The Codex backend is asked again  *)
(* before the stream begins (streamCodex), the others once (streamOpenAI,  *)
(* streamAnthropic); every request carries the abort signal of the run.    *)
(***************************************************************************)
EXTENDS Integers

CONSTANT MaxRetries   \* MAX_RETRIES, 3 in the program

ASSUME RetryAssumption == MaxRetries \in Nat

VARIABLE call   \* where the call is, its attempt, and the last response seen

NoCall == [at |-> "none", codex |-> FALSE, attempt |-> 0, res |-> "none"]

\* Classes of answers: 429, 408 and 5xx are "busy"; any other status is
\* "refused", and "wordy" when its text speaks of an overload.
Answers == {"ok", "busy", "wordy", "refused"}

CallTypeOK ==
  call \in [at : {"none", "asking", "posted", "reading", "sleeping", "streaming",
                  "answered", "failed"},
            codex : BOOLEAN, attempt : 0..MaxRetries, res : Answers \cup {"none"}]

CallInit == call = NoCall

Moves(at) == [call EXCEPT !.at = at]
-----------------------------------------------------------------------------
\* The dispatch by endpoint; the credentials are in hand, or the call fails.
CallBegins ==
  /\ call.at = "none"
  /\ \E codex \in BOOLEAN : call' = [NoCall EXCEPT !.at = "asking", !.codex = codex]
NoCredentials == call.at = "asking" /\ call.attempt = 0 /\ call' = Moves("failed")

\* The top of the loop looks at the signal; the other streams leave it to fetch.
Post(aborted) ==
  /\ call.at = "asking"
  /\ call' = Moves(IF aborted /\ call.codex THEN "failed" ELSE "posted")

Sleeps  == call' = Moves("sleeping")
Fails   == call' = Moves("failed")
AttemptsLeft == call.codex /\ call.attempt < MaxRetries

\* The response, of which an error's text is read first.
Responds(answer) ==
  /\ call.at = "posted"
  /\ call' = [call EXCEPT !.res = answer,
                          !.at = IF answer = "ok" THEN "streaming" ELSE "reading"]
\* isRetryable of the status and the text.
Refused ==
  /\ call.at = "reading"
  /\ IF AttemptsLeft /\ call.res \in {"busy", "wordy"} THEN Sleeps ELSE Fails

\* fetch or text() throws: the network, or the signal.  The response looked at
\* is the last one there was, which may be that of an earlier attempt; a "wordy"
\* one counts only by the text, and the text is now that of the exception.
Throws ==
  /\ call.at \in {"posted", "reading"}
  /\ \E speaksOfIt \in BOOLEAN :
       IF AttemptsLeft /\ (call.res \in {"none", "busy"} \/ speaksOfIt) THEN Sleeps ELSE Fails

\* The backoff of 1, 2 and 4 seconds does not look at the signal.
SleepEnds ==
  /\ call.at = "sleeping"
  /\ call' = [call EXCEPT !.at = "asking", !.attempt = @ + 1]

\* The stream ends, with its end event or without: the text is the answer.
StreamEnds == call.at = "streaming" /\ call' = Moves("answered")
\* An error event, a broken connection, or the signal.
StreamBreaks == call.at = "streaming" /\ Fails

CallStep(aborted) ==
  \/ Post(aborted) \/ NoCredentials \/ Refused \/ Throws \/ SleepEnds
  \/ StreamEnds \/ StreamBreaks
  \/ \E answer \in Answers : Responds(answer)
=============================================================================
