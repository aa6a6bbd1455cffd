------------------------------ MODULE MCPages ------------------------------
(* The browser's pages for TLC: the settings and the choice of a model, the logins  *)
(* that the same page starts, or the open pages and their sidebar.  They share no   *)
(* state: a behaviour is about one of them.                                         *)
EXTENDS ModelChoice, Browsers, Accounts, TLC

VARIABLE subject

MCKind == [model |-> "enum", server |-> "string", apiKey |-> "secret",
           debounce |-> "number", flag |-> "boolean"]
MCDefault == [model |-> "m0", server |-> "s0", apiKey |-> Null, debounce |-> "1", flag |-> "false"]
MCBound == {"model", "server", "apiKey", "flag"}
MCOptions == <<"m0", "openai:m">>
MCTexts == [model |-> {"openai:m"}, server |-> {"s1"}, apiKey |-> {"", "k$"},
            debounce |-> {"", "2"}, flag |-> {"true", None}]
\* Bun's parser takes a $ in double quotes for the start of a variable's name.
MCReread(v) == IF v = "k$" THEN "k" ELSE v
MCProvider == "m0" :> "lmstudio" @@ "lmstudio:q" :> "lmstudio"
                @@ "openai:m" :> "openai" @@ "codex:m" :> "codex"
MCListing == [lmstudio |-> <<"q">>, codex |-> <<"codex:m">>, openai |-> <<"openai:m">>]
MCTried == <<"codex", "lmstudio", "openai">>

NoEnv == [k \in MCBound |-> None]
MCShells == {NoEnv, [NoEnv EXCEPT !["model"] = "codex:m", !["server"] = "s1", !["flag"] = "1"]}
Exported == <<[Line("apiKey", "k") EXCEPT !.plain = FALSE]>>
MCFiles == {Exported,
            <<Line("apiKey", "k"), Line("server", "s1"), Line("apiKey", "k2")>>}
MCFocus == {{"model", "flag"}, {"apiKey"}, {"server"}, {"debounce"}}

allVars == <<vars, subject, browserVars, accountVars>>

Init ==
  /\ subject \in {"settings", "browsers", "accounts"}
  /\ ChoiceInit /\ BrowsersInit /\ AccountsInit
  /\ subject # "settings" => focus = {"server"} /\ shell = NoEnv /\ file = Exported
  /\ subject # "accounts" => provider = "kimi"

\* Bounds: while a form of the settings is open nobody creates an agent, and where the key
\* is edited, which no form shows, one tab has a form open.
OneThing ==
  LET open == {t \in Tabs : form'[t] # None} IN
  /\ open # {} => page' = None /\ model' = None
  /\ focus = {"apiKey"} => Cardinality(open) =< 1

Next ==
  \/ subject = "settings" /\ ChoiceNext /\ OneThing /\ UNCHANGED <<subject, browserVars, accountVars>>
  \/ subject = "browsers" /\ BrowsersNext /\ UNCHANGED <<subject, vars, accountVars>>
  \/ subject = "accounts" /\ AccountsNext /\ UNCHANGED <<subject, vars, browserVars>>

Spec == Init /\ [][Next]_allVars

\* No action of a page or a login is possible in a behaviour that is about something else.
FairSpec == Spec /\ BrowsersFairness /\ AccountsFairness
=============================================================================
