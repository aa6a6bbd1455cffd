------------------------------ MODULE Accounts ------------------------------
(***************************************************************************)
(* A subscription account as the settings page and the model requests use  *)
(* it: the credential file shared by the device login, the token refresh   *)
(* and the provider's CLI, for either provider that has a login.           *)
(***************************************************************************)
EXTENDS KimiLogin, CodexLogin

VARIABLE provider   \* which account is exercised

accountVars == <<provider, refreshVars, loginVars, codexLoginVars>>

TypeOK ==
  /\ provider \in {"kimi", "codex"}
  /\ RefreshTypeOK /\ KimiTypeOK /\ CodexTypeOK

AccountsInit ==
  /\ provider \in {"kimi", "codex"}
  /\ RefreshInit /\ KimiInit /\ CodexInit

AccountsNext ==
  /\ UNCHANGED provider
  /\ \/ provider = "kimi" /\ KimiNext /\ UNCHANGED codexLoginVars
     \/ provider = "codex" /\ CodexNext /\ UNCHANGED loginVars

AccountsSpec == AccountsInit /\ [][AccountsNext]_accountVars

\* Timers fire, the clock runs, and every poll is answered or fails.
AccountsFairness ==
  \A l \in Logins :
    /\ WF_accountVars(provider = "kimi" /\ LoopStep(l) /\ UNCHANGED <<provider, codexLoginVars>>)
    /\ WF_accountVars(provider = "kimi" /\ ClockPasses(l) /\ UNCHANGED <<provider, codexLoginVars>>)

\* Whoever the page waits for exists: see PendingIsPolled, PendingHasChild.
PendingIsServed == PendingIsPolled /\ PendingHasChild

\* Every poll loop ends, also one whose login was replaced or logged out:
\* each is bounded by the deadline of the entry it looks at.
PollingEnds == \A l \in Logins : Live(l) ~> ~Live(l)

\* Credentials appear only while a login is under way: after a logout no
\* poll or refresh that was in flight brings them back.
LogoutSticks ==
  [][pair.grant = 0 /\ pair'.grant # 0 => kimi.code # 0 \/ codex.status # "none"]_accountVars
=============================================================================
