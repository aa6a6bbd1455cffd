---------------------------- MODULE ModelChoice ----------------------------
(***************************************************************************)
(* Which model answers.  hcode takes -m, then MODEL, then the saved row,    *)
(* and otherwise detects one among those the providers list, saves it and   *)
(* forgets it when a turn fails.  The server's page for a new agent         *)
(* preselects the default.  One process at a time works on the database.    *)
(***************************************************************************)
EXTENDS Settings

CONSTANTS
  Provider,   \* the provider of each model, by its prefix
  Local,      \* the provider of a model without a prefix, LM Studio
  Paid,       \* a provider that is paid by key
  Listing,    \* what each provider lists
  Tried       \* the providers in the order detection prefers them

Models == DOMAIN Provider

ASSUME ChoiceAssumption == "model" \in Declared /\ Kind["model"] = "enum"

VARIABLES
  mode,      \* "off", "serve" or "terminal"
  stage,     \* of a terminal: "detecting", "prompt", "turn" or "off"
  model,     \* the model of its agent, or of the last one made on the page
  mark,      \* __hcodeDetectedDefaultModel
  failed,    \* the last turn ended with an error event
  page,      \* the model the page for a new agent has selected, or None
  guess      \* history: what this process detected and saved, if nobody saved since

choiceVars == <<mode, stage, model, mark, failed, page, guess>>
vars == <<settingsVars, choiceVars>>

-----------------------------------------------------------------------------
\* resolveEndpoint(): the server a model is called at, and the key it is sent.
Truthy(s) == s \notin {None, Null, ""}

ServerOf(m) ==
  IF Provider[m] # Local THEN Provider[m]
  ELSE IF Truthy(GetString("server")) THEN GetString("server") ELSE Default["server"]

KeyOf(m) == IF Provider[m] = Paid /\ Truthy(GetString("apiKey")) THEN GetString("apiKey") ELSE Null

\* listModels(): what LM Studio and the subscriptions say, if they answer, and the
\* fixed list of the others.  LM Studio is asked where the environment says.
AskedServer == IF env["server"] # None THEN env["server"] ELSE Default["server"]
Listed(p, up) == IF p = Paid \/ p \in up THEN Listing[p] ELSE <<>>
Offered(up) == FlattenSeq([i \in DOMAIN Tried |-> Listed(Tried[i], up)])

\* hasCredential(): the question for the providers that are paid by key.
Credential(p) == p = Paid => Truthy(GetString("apiKey"))

\* LM Studio's models are listed without the prefix that detection adds.
Named(p, m) == IF p = Local THEN "lmstudio:" \o m ELSE m

Candidates(up) ==
  FlattenSeq([i \in DOMAIN Tried |->
    LET p == Tried[i] IN
    IF Credential(p) THEN [j \in DOMAIN Listed(p, up) |-> Named(p, Listed(p, up)[j])] ELSE <<>>])

-----------------------------------------------------------------------------
\* modelDefault().
ModelDefault ==
  IF GetString("model") # None THEN GetString("model")
  ELSE IF env["model"] # None THEN env["model"] ELSE Default["model"]

\* GET /agent/new: a select shows its first option if the default is none of them.
NewAgentPage(up) ==
  /\ mode = "serve"
  /\ page' = IF ModelDefault \in Range(Offered(up)) THEN ModelDefault ELSE Offered(up)[1]
  /\ UNCHANGED <<settingsVars, mode, stage, model, mark, failed, guess>>

\* POST /agent/new with what the page shows.
CreateAgent ==
  /\ mode = "serve" /\ page # None
  /\ model' = page /\ page' = None
  /\ UNCHANGED <<settingsVars, mode, stage, mark, failed, guess>>

\* The pages of a server.
Pages ==
  /\ mode = "serve"
  /\ \/ \E t \in Tabs : OpenForm(t) \/ SaveForm(t)
     \/ \E t \in Tabs, k \in Declared : ResetRow(t, k) \/ \E raw \in Texts[k] : Type(t, k, raw)
     \/ \E k \in Secrets \cap focus : \E v \in Texts[k] \ {None} : SaveEnv(k, v) \/ SaveEnvFails(k, v)
  /\ UNCHANGED choiceVars

Serve(sh) ==
  /\ mode = "off" /\ Started(sh)
  /\ mode' = "serve"
  /\ UNCHANGED <<stage, model, mark, failed, page, guess>>

-----------------------------------------------------------------------------
\* hcode: -m, MODEL, the saved row, or detection.
Launch(sh, explicit) ==
  /\ mode = "off" /\ Started(sh)
  /\ model' = IF explicit # None THEN explicit
              ELSE IF Truthy(env'["model"]) THEN env'["model"] ELSE table["model"]
  /\ stage' = IF model' = None THEN "detecting" ELSE "prompt"
  /\ mode' = "terminal" /\ failed' = FALSE
  /\ UNCHANGED <<mark, page, guess>>

Off == /\ mode' = "off" /\ stage' = "off" /\ mark' = None /\ failed' = FALSE
       /\ model' = None /\ page' = None /\ guess' = None

\* The first candidate is saved at once; without any, hcode gives up.
Detect(up) ==
  /\ stage = "detecting"
  /\ IF Candidates(up) = <<>> THEN Off /\ UNCHANGED settingsVars
     ELSE LET m == Candidates(up)[1] IN
          /\ SetRow("model", m)
          /\ model' = m /\ mark' = m /\ guess' = m /\ stage' = "prompt"
          /\ UNCHANGED <<focus, shell, file, env, kept, form, mode, failed, page>>

BeginsTurn ==
  /\ stage = "prompt" /\ stage' = "turn"
  /\ UNCHANGED <<settingsVars, mode, model, mark, failed, page, guess>>

\* The agent stores another default in its turn.
AgentSaves(m) ==
  /\ stage = "turn" /\ SetRow("model", m) /\ guess' = None
  /\ UNCHANGED <<focus, shell, file, env, kept, form, mode, stage, model, mark, failed, page>>

\* Mutant of Forgets: only the first turn is watched.
ForgetsFirst(err) ==
  IF err /\ mark = model THEN RemoveRow("model") /\ mark' = None
  ELSE UNCHANGED table /\ mark' = None

\* The adapter after a turn: an error event of the turn speaks against a model that
\* was detected.
Forgets(err) ==
  IF err /\ mark = model THEN RemoveRow("model") /\ mark' = None ELSE UNCHANGED <<table, mark>>

TurnEnds(err) ==
  /\ stage = "turn" /\ stage' = "prompt" /\ failed' = err
  /\ Forgets(err)
  /\ UNCHANGED <<focus, shell, file, env, kept, form, mode, model, page, guess>>

\* The process ends, in the middle of a turn or not: nothing is looked at any more.
Exit == mode # "off" /\ Off /\ UNCHANGED settingsVars

ChoiceInit ==
  /\ SettingsInit
  /\ mode = "off" /\ stage = "off" /\ failed = FALSE
  /\ model = None /\ mark = None /\ page = None /\ guess = None

Session ==
  \/ \E sh \in Shells : Serve(sh) \/ \E m \in Models \cup {None} : Launch(sh, m)
  \/ \E up \in SUBSET {Tried[i] : i \in DOMAIN Tried} : Detect(up) \/ NewAgentPage(up)
  \/ \E m \in Models : AgentSaves(m)
  \/ \E err \in BOOLEAN : TurnEnds(err)
  \/ BeginsTurn \/ CreateAgent \/ Exit

ChoiceNext == Pages \/ Session

-----------------------------------------------------------------------------
\* What detection saves can be called: its key is there, and a local model is asked
\* for where it was listed, unless a row overrides the address, which the list does
\* not look at.
DetectedIsCallable ==
  [][\A up \in SUBSET {Tried[i] : i \in DOMAIN Tried} : Detect(up) /\ model' # None =>
       LET p == Provider[model'] IN
       /\ p = Paid => KeyOf(model') # Null
       /\ p = Local /\ table["server"] = None => ServerOf(model') = AskedServer]_vars

\* A model hcode guessed and saved is not the default any more when the prompt is back
\* after a turn that failed.
FailureIsForgotten == stage = "prompt" /\ failed /\ guess # None => table["model"] # guess
=============================================================================
