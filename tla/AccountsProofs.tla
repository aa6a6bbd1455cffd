--------------------------- MODULE AccountsProofs ----------------------------
(***************************************************************************)
(* Theorems about Accounts, for every set of callers and any number of     *)
(* logins and rotations.  A login deposits the tokens of a grant once      *)
(* (Once); so the history of each grant is linear (Linear), and the file   *)
(* is never behind it without somebody bringing the newest token.          *)
(***************************************************************************)
EXTENDS Accounts, TLAPS

\* A poll loop that was answered with tokens and has not stored them.
Holds(l) == loop[l].at = "answered" /\ loop[l].answer = "tokens"

\* No grant is handed out twice: its device code is redeemed by one poll, its
\* child exits.
KimiOnce ==
  /\ \A l \in Logins : loop[l].at \in {"polling", "answered"} => loop[l].code \in Logins
  /\ \A l \in Logins : Holds(l) => /\ device[loop[l].code] = "redeemed"
                                   /\ loop[l].code \notin given
  /\ \A k, l \in Logins : Holds(k) /\ Holds(l) /\ loop[k].code = loop[l].code => k = l
  /\ \A g \in given : device[g] = "redeemed"

CodexOnce == \A g \in given : child[g] \in {"exit0", "gone"}

Once == /\ provider = "kimi" => KimiOnce
        /\ provider = "codex" => CodexOnce

Asking(c) == asking[c].at # "idle"

\* A grant nobody was given is in no file and no request; an answered caller
\* holds the newest token of its grant and is the only one who does.
Linear ==
  /\ \A g \in Grants \ given : latest[g] = 0 /\ pair.grant # g
  /\ \A c \in Callers : Asking(c) => /\ asking[c].grant \in given
                                     /\ asking[c].serial <= latest[asking[c].grant]
  /\ pair.grant # 0 => pair.serial <= latest[pair.grant]
  /\ \A c \in Callers : asking[c].at = "answered" =>
       /\ Redeemable(asking[c])
       /\ pair.grant = asking[c].grant => pair.serial < latest[pair.grant]
       /\ \A d \in Callers \ {c} :
            Asking(d) /\ asking[d].grant = asking[c].grant => asking[d].serial < asking[c].serial

\* The entries of the settings page.
Entries ==
  /\ provider = "codex" => kimi = NoLogin
  /\ kimi.code = 0 => kimi = NoLogin

Inv == TypeOK /\ Once /\ Linear /\ FileIsRedeemable /\ Entries /\ PendingIsServed

-----------------------------------------------------------------------------
(***************************************************************************)
(* Typing.                                                                 *)
(***************************************************************************)

\* What a step of either provider does to the credentials and their requests.
CredentialStep ==
  \/ RefreshNext
  \/ \E g \in Grants \ given : Deposit(g) /\ UNCHANGED <<latest, asking, lost>>
  \/ Wipe /\ UNCHANGED <<latest, given, asking, lost>>
  \/ UNCHANGED refreshVars

LEMMA CredentialsTyped ==
  ASSUME RefreshTypeOK, Linear, CredentialStep
  PROVE  RefreshTypeOK'
<1> USE LoginBound, RefreshBound DEF RefreshTypeOK, Grants
<1>1. CASE RefreshNext
  <2>1. ASSUME NEW c \in Callers, Reads(c) PROVE RefreshTypeOK'
    BY <2>1 DEF Reads, Expiring
  <2>2. ASSUME NEW c \in Callers, Rotates(c) PROVE RefreshTypeOK'
    BY <2>2 DEF Rotates
  <2>3. ASSUME NEW c \in Callers, Refuse(c) PROVE RefreshTypeOK'
    BY <2>3 DEF Refuse, AtRest
  <2>6. ASSUME NEW c \in Callers, Lose(c) PROVE RefreshTypeOK'
    <3>1. asking[c].grant \in Grants
      BY <2>6 DEF Lose, Linear, Asking
    <3>2. lost' \subseteq Grants
      BY <2>6, <3>1 DEF Lose
    <3>3. asking' \in [Callers -> [at : {"idle", "sent", "answered"},
                                   grant : 0..MaxLogins, serial : Nat]]
      BY <2>6 DEF Lose, AtRest
    <3> QED BY <2>6, <3>2, <3>3 DEF Lose
  <2>4. ASSUME NEW c \in Callers, Save(c) PROVE RefreshTypeOK'
    BY <2>4 DEF Save, SavedPair, PairOf, AtRest
  <2>5. CASE Expire
    BY <2>5 DEF Expire
  <2>7. CASE CliRefresh
    <3>1. pair.grant \in Grants /\ pair.serial + 1 \in Nat /\ latest[pair.grant] + 1 \in Nat
      BY <2>7 DEF CliRefresh, Expiring
    <3> QED BY <2>7, <3>1 DEF CliRefresh, PairOf, Expiring
  <2> QED BY <1>1, <2>1, <2>2, <2>3, <2>4, <2>5, <2>6, <2>7 DEF RefreshNext
<1>2. ASSUME NEW g \in Grants \ given, Deposit(g) /\ UNCHANGED <<latest, asking, lost>>
      PROVE  RefreshTypeOK'
  BY <1>2 DEF Deposit, PairOf
<1>3. CASE Wipe /\ UNCHANGED <<latest, given, asking, lost>>
  BY <1>3 DEF Wipe, Absent
<1>4. CASE UNCHANGED refreshVars
  BY <1>4 DEF refreshVars
<1> QED BY <1>1, <1>2, <1>3, <1>4 DEF CredentialStep

\* Every step is one of these for the credentials: no login deposits a grant
\* that was deposited before.
LEMMA KimiCredentials ==
  ASSUME TypeOK, KimiOnce, KimiNext
  PROVE  CredentialStep
<1>1. CASE RefreshNext
  BY <1>1 DEF CredentialStep
<1>2. CASE Logout
  BY <1>2 DEF Logout, CredentialStep
<1>3. ASSUME NEW l \in Logins, Receive(l) PROVE CredentialStep
  <2>1. CASE Tokens(l)
    <3>1. Holds(l) /\ loop[l].code \in Grants \ given
      BY <1>3, <2>1 DEF Receive, Tokens, Holds, KimiOnce, Logins
    <3> QED BY <2>1, <3>1 DEF Tokens, CredentialStep
  <2>2. CASE KeepPolling(l) \/ GiveUp(l)
    BY <2>2 DEF KeepPolling, GiveUp, CredentialStep
  <2> QED BY <1>3, <2>1, <2>2 DEF Receive
<1>4. ASSUME NEW l \in Logins, StartLogin(l) \/ Poll(l) \/ ServerReply(l) \/ PollFails(l)
                               \/ Approve(l) \/ CodeExpires(l) \/ ClockPasses(l)
      PROVE  CredentialStep
  BY <1>4 DEF StartLogin, Poll, ServerReply, PollFails, Approve, CodeExpires,
              ClockPasses, CredentialStep
<1> QED BY <1>1, <1>2, <1>3, <1>4 DEF KimiNext, LoopStep

LEMMA CodexCredentials ==
  ASSUME TypeOK, CodexOnce, CodexNext
  PROVE  CredentialStep
<1>1. CASE RefreshNext
  BY <1>1 DEF CredentialStep
<1>2. CASE LogoutCodex
  BY <1>2 DEF LogoutCodex, CredentialStep
<1>3. ASSUME NEW l \in Children, ChildLogsIn(l) PROVE CredentialStep
  BY <1>3 DEF ChildLogsIn, CodexOnce, Children, CredentialStep
<1>4. ASSUME NEW l \in Children, StartCodex(l) \/ Prompt(l) \/ ExitEvent(l) \/ ErrorEvent(l)
                                 \/ Timeout(l) \/ ChildFails(l)
      PROVE  CredentialStep
  BY <1>4 DEF StartCodex, Prompt, ExitEvent, ErrorEvent, Timeout, ChildFails, CredentialStep
<1> QED BY <1>1, <1>2, <1>3, <1>4 DEF CodexNext

LEMMA Credentials ==
  ASSUME TypeOK, Once, AccountsNext
  PROVE  CredentialStep
BY KimiCredentials, CodexCredentials DEF AccountsNext, Once

LEMMA ReplyTyped ==
  ASSUME NEW S, NEW C, NEW A, "answered" \in S,
         NEW x \in [at : S, code : C, answer : A], NEW a \in A
  PROVE  [x EXCEPT !.at = "answered", !.answer = a] \in [at : S, code : C, answer : A]
OBVIOUS

LEMMA KimiTyped ==
  ASSUME KimiTypeOK, KimiNext
  PROVE  KimiTypeOK'
<1> USE LoginBound DEF KimiTypeOK, Logins, Grants
<1>1. CASE RefreshNext /\ UNCHANGED loginVars
  BY <1>1 DEF loginVars
<1>2. CASE Logout
  BY <1>2 DEF Logout, EntryDeleted, NoLogin
<1>3. ASSUME NEW l \in Logins, StartLogin(l) PROVE KimiTypeOK'
  <2>1. kimi' = [code |-> l, status |-> "pending"] /\ l \in 0..MaxLogins
    BY <1>3 DEF StartLogin
  <2>2. Sleeping \in [at : {"none", "sleeping", "polling", "answered", "ended"},
                        code : 0..MaxLogins,
                        answer : {"none", "tokens", "pending", "expired", "denied"}]
    BY <2>1 DEF Sleeping
  <2> QED BY <1>3, <2>1, <2>2 DEF StartLogin
<1>4. ASSUME NEW l \in Logins, Poll(l) PROVE KimiTypeOK'
  BY <1>4 DEF Poll, EndLoop, Ended
<1>5. ASSUME NEW l \in Logins, ServerReply(l) PROVE KimiTypeOK'
  <2> DEFINE Loops == [at : {"none", "sleeping", "polling", "answered", "ended"},
                       code : 0..MaxLogins,
                       answer : {"none", "tokens", "pending", "expired", "denied"}]
  <2>1. ASSUME NEW a \in {"tokens", "pending", "expired", "denied"},
               loop' = [loop EXCEPT ![l].at = "answered", ![l].answer = a]
        PROVE  loop' \in [Logins -> Loops]
    <3> DEFINE told == [loop[l] EXCEPT !.at = "answered", !.answer = a]
    <3>1. loop[l] \in Loops
      BY <1>5
    <3>3. told \in Loops
      BY <3>1, <2>1, ReplyTyped
    <3>4. loop' = [loop EXCEPT ![l] = told]
      BY <2>1
    <3> QED BY <3>3, <3>4
  <2>2. device' \in [Logins -> {"unissued", "waiting", "approved", "redeemed", "expired"}]
    BY <1>5 DEF ServerReply
  <2>3. loop' \in [Logins -> Loops]
    BY <1>5, <2>1 DEF ServerReply
  <2> QED BY <1>5, <2>2, <2>3 DEF ServerReply
<1>6. ASSUME NEW l \in Logins, PollFails(l) PROVE KimiTypeOK'
  BY <1>6 DEF PollFails, EndLoop, Ended, CaughtBy, Marked, NoLogin
<1>7. ASSUME NEW l \in Logins, Receive(l) PROVE KimiTypeOK'
  <2>1. CASE Tokens(l)
    BY <1>7, <2>1 DEF Receive, Tokens, EndLoop, Ended, Marked, NoLogin
  <2>2. CASE KeepPolling(l)
    <3>1. loop' = [loop EXCEPT ![l] = Sleeping] \/ loop' = [loop EXCEPT ![l] = Ended]
      BY <2>2 DEF KeepPolling, EndLoop
    <3>2. kimi' = kimi \/ kimi' = Marked("expired")
      BY <2>2 DEF KeepPolling
    <3>3. UNCHANGED <<device, late>>
      BY <1>7 DEF Receive
    <3>4. kimi' \in [code : 0..MaxLogins,
                     status : {"none", "pending", "logged_in", "expired", "failed"}]
      BY <3>2 DEF Marked, NoLogin
    <3>5. loop' \in [Logins -> [at : {"none", "sleeping", "polling", "answered", "ended"},
                                code : 0..MaxLogins,
                                answer : {"none", "tokens", "pending", "expired", "denied"}]]
      <4>1. \A n \in {"sleeping", "ended"} : [at |-> n, code |-> 0, answer |-> "none"]
              \in [at : {"none", "sleeping", "polling", "answered", "ended"},
                   code : 0..MaxLogins,
                   answer : {"none", "tokens", "pending", "expired", "denied"}]
        OBVIOUS
      <4> QED BY <3>1, <4>1 DEF Ended, Sleeping
    <3> QED BY <3>3, <3>4, <3>5
  <2>3. CASE GiveUp(l)
    BY <1>7, <2>3 DEF Receive, GiveUp, EndLoop, Ended, Marked, NoLogin
  <2> QED BY <1>7, <2>1, <2>2, <2>3 DEF Receive
<1>8. ASSUME NEW l \in Logins, Approve(l) \/ CodeExpires(l) \/ ClockPasses(l) PROVE KimiTypeOK'
  BY <1>8 DEF Approve, CodeExpires, ClockPasses
<1> QED BY <1>1, <1>2, <1>3, <1>4, <1>5, <1>6, <1>7, <1>8 DEF KimiNext, LoopStep

LEMMA CodexTyped ==
  ASSUME CodexTypeOK, CodexNext
  PROVE  CodexTypeOK'
<1> USE LoginBound DEF CodexTypeOK, Children, Grants
<1>1. CASE RefreshNext /\ UNCHANGED codexLoginVars
  BY <1>1 DEF codexLoginVars
<1>2. CASE LogoutCodex
  BY <1>2 DEF LogoutCodex, NoEntry, Killed
<1>3. ASSUME NEW l \in Children, StartCodex(l) PROVE CodexTypeOK'
  BY <1>3 DEF StartCodex, NewEntry, Killed
<1>4. ASSUME NEW l \in Children, Prompt(l) PROVE CodexTypeOK'
  BY <1>4 DEF Prompt, Throw
<1>5. ASSUME NEW l \in Children, ExitEvent(l) PROVE CodexTypeOK'
  BY <1>5 DEF ExitEvent, Throw, ExitStatus
<1>6. ASSUME NEW l \in Children, ErrorEvent(l) PROVE CodexTypeOK'
  <2>1. codex' \in [proc : 0..MaxLogins, shown : BOOLEAN,
                    status : {"none", "pending", "logged_in", "failed"}]
    <3>1. [codex EXCEPT !.status = "failed"]
            \in [proc : 0..MaxLogins, shown : BOOLEAN,
                 status : {"none", "pending", "logged_in", "failed"}]
      OBVIOUS
    <3>2. Rejected \in [proc : 0..MaxLogins, shown : BOOLEAN,
                        status : {"none", "pending", "logged_in", "failed"}]
      BY DEF Rejected
    <3> QED BY <1>6, <3>1, <3>2 DEF ErrorEvent, Throw
  <2>2. request' \in [Children -> {"none", "waiting", "answered"}] /\ crashed' \in BOOLEAN
    BY <1>6 DEF ErrorEvent, Throw
  <2> QED BY <1>6, <2>1, <2>2 DEF ErrorEvent
<1>7. ASSUME NEW l \in Children, Timeout(l) PROVE CodexTypeOK'
  <2>1. codex' \in [proc : 0..MaxLogins, shown : BOOLEAN,
                    status : {"none", "pending", "logged_in", "failed"}]
    <3>1. Rejected \in [proc : 0..MaxLogins, shown : BOOLEAN,
                        status : {"none", "pending", "logged_in", "failed"}]
      BY DEF Rejected
    <3> QED BY <1>7, <3>1 DEF Timeout, Throw
  <2>2. request' \in [Children -> {"none", "waiting", "answered"}] /\ crashed' \in BOOLEAN
    BY <1>7 DEF Timeout, Throw
  <2> QED BY <1>7, <2>1, <2>2 DEF Timeout
<1>8. ASSUME NEW l \in Children, ChildLogsIn(l) \/ ChildFails(l) PROVE CodexTypeOK'
  BY <1>8 DEF ChildLogsIn, ChildFails
<1> QED BY <1>1, <1>2, <1>3, <1>4, <1>5, <1>6, <1>7, <1>8 DEF CodexNext

LEMMA Typed ==
  ASSUME TypeOK, Once, Linear, [AccountsNext]_accountVars
  PROVE  TypeOK'
<1>1. CASE AccountsNext
  <2>1. RefreshTypeOK'
    BY <1>1, Credentials, CredentialsTyped DEF TypeOK
  <2>2. KimiTypeOK'
    BY <1>1, KimiTyped DEF TypeOK, AccountsNext, loginVars, KimiTypeOK
  <2>3. CodexTypeOK'
    BY <1>1, CodexTyped DEF TypeOK, AccountsNext, codexLoginVars, CodexTypeOK
  <2> QED BY <1>1, <2>1, <2>2, <2>3 DEF TypeOK, AccountsNext
<1>2. CASE UNCHANGED accountVars
  BY <1>2 DEF accountVars, refreshVars, loginVars, codexLoginVars, TypeOK, RefreshTypeOK,
              KimiTypeOK, CodexTypeOK
<1> QED BY <1>1, <1>2

-----------------------------------------------------------------------------
(***************************************************************************)
(* The history of a grant.                                                 *)
(***************************************************************************)

LEMMA AskLinear ==
  ASSUME RefreshTypeOK, Linear, FileIsRedeemable, NEW c \in Callers, Reads(c)
  PROVE  Linear' /\ FileIsRedeemable'
<1>1. Linear'
  BY DEF RefreshTypeOK, Linear, Reads, Asking, Redeemable, Grants, Expiring
<1>2. FileIsRedeemable'
  BY DEF RefreshTypeOK, FileIsRedeemable, Reads, Redeemable, Expiring
<1> QED BY <1>1, <1>2

LEMMA AnswerLinear ==
  ASSUME RefreshTypeOK, Linear, FileIsRedeemable, NEW c \in Callers, Rotates(c)
  PROVE  Linear' /\ FileIsRedeemable'
<1> DEFINE g == asking[c].grant
<1>1. g \in Grants /\ g \in given /\ asking[c].serial = latest[g] /\ latest[g] \in Nat
  BY DEF RefreshTypeOK, Linear, Rotates, Asking, Redeemable
<1>2. /\ latest' = [latest EXCEPT ![g] = latest[g] + 1]
      /\ asking' = [asking EXCEPT ![c] = [at |-> "answered", grant |-> g, serial |-> latest[g] + 1]]
      /\ UNCHANGED <<pair, given, lost>>
  BY <1>1 DEF Rotates, RefreshTypeOK
<1>3. \A d \in Callers : asking[d].at = "answered" => asking[d].grant # g
  BY <1>1 DEF Linear, Rotates, Asking, Redeemable
<1>4. \A d \in Callers : Asking(d) => asking[d].grant \in Grants /\ asking[d].serial \in Nat
  BY DEF RefreshTypeOK, Linear
<1>5. Linear'
  BY <1>1, <1>2, <1>3, <1>4 DEF RefreshTypeOK, Linear, Asking, Redeemable, Grants
<1>6. FileIsRedeemable'
  <2>1. asking'[c].at = "answered" /\ asking'[c].grant = g /\ asking'[c].serial = latest'[g]
    BY <1>1, <1>2 DEF RefreshTypeOK
  <2>2. CASE pair.grant = g
    BY <1>2, <2>1, <2>2 DEF FileIsRedeemable, Redeemable
  <2>3. CASE pair.grant # g
    <3>1. \A d \in Callers : asking[d].at = "answered" => asking'[d] = asking[d]
      BY <1>2 DEF Rotates, RefreshTypeOK
    <3>2. pair.grant # 0 => latest'[pair.grant] = latest[pair.grant]
      BY <1>2, <2>3 DEF RefreshTypeOK, Grants
    <3> QED BY <1>2, <3>1, <3>2 DEF FileIsRedeemable, Redeemable
  <2> QED BY <2>2, <2>3
<1> QED BY <1>5, <1>6

\* A caller that gives up, before or after the answer.
LEMMA DropLinear ==
  ASSUME RefreshTypeOK, Linear, FileIsRedeemable, NEW c \in Callers, Refuse(c) \/ Lose(c)
  PROVE  Linear' /\ FileIsRedeemable'
<1>1. /\ asking' = [asking EXCEPT ![c] = AtRest]
      /\ UNCHANGED <<pair, latest, given>>
  BY DEF Refuse, Lose
<1>2. ~(Asking(c)') /\ \A d \in Callers \ {c} : asking'[d] = asking[d]
  BY <1>1 DEF RefreshTypeOK, Asking, AtRest
<1>3. Linear'
  BY <1>1, <1>2 DEF RefreshTypeOK, Linear, Asking, Redeemable
<1>4. FileIsRedeemable'
  <2>1. SUFFICES ASSUME pair.grant # 0, pair.grant \notin lost', ~Redeemable(pair)
                 PROVE  \E d \in Callers : /\ asking'[d].at = "answered"
                                           /\ asking'[d].grant = pair.grant
                                           /\ asking'[d].serial = latest[asking'[d].grant]
    BY <1>1 DEF FileIsRedeemable, Redeemable
  <2>2. pair.grant \notin lost
    BY <2>1 DEF Refuse, Lose
  <2>3. PICK d \in Callers : /\ asking[d].at = "answered" /\ asking[d].grant = pair.grant
                             /\ Redeemable(asking[d])
    BY <2>1, <2>2 DEF FileIsRedeemable
  <2>4. d # c
    BY <2>1, <2>3 DEF Refuse, Lose
  <2> QED BY <1>2, <2>3, <2>4 DEF Redeemable
<1> QED BY <1>3, <1>4

LEMMA SaveLinear ==
  ASSUME RefreshTypeOK, Linear, FileIsRedeemable, NEW c \in Callers, Save(c)
  PROVE  Linear' /\ FileIsRedeemable'
<1> DEFINE g == asking[c].grant
<1>1. /\ g \in Grants /\ g \in given /\ asking[c].serial = latest[g] /\ latest[g] \in Nat
      /\ \A d \in Callers \ {c} : asking[d].at = "answered" => asking[d].grant # g
  BY DEF RefreshTypeOK, Linear, Save, Asking, Redeemable
<1>2. /\ pair' = [grant |-> g, serial |-> latest[g], fresh |-> TRUE]
      /\ asking' = [asking EXCEPT ![c] = AtRest]
      /\ UNCHANGED <<latest, given, lost>>
  BY <1>1 DEF Save, SavedPair, PairOf
<1>3. ~(Asking(c)') /\ \A d \in Callers \ {c} : asking'[d] = asking[d]
  BY <1>2 DEF RefreshTypeOK, Asking, AtRest
<1>4. Linear'
  BY <1>1, <1>2, <1>3 DEF RefreshTypeOK, Linear, Asking, Redeemable
<1>5. FileIsRedeemable'
  BY <1>1, <1>2 DEF FileIsRedeemable, Redeemable
<1> QED BY <1>4, <1>5

LEMMA CliLinear ==
  ASSUME RefreshTypeOK, Linear, FileIsRedeemable, CliRefresh
  PROVE  Linear' /\ FileIsRedeemable'
<1> DEFINE g == pair.grant
<1>1. g \in Grants /\ g \in given /\ pair.serial = latest[g] /\ latest[g] \in Nat
  BY DEF RefreshTypeOK, Linear, CliRefresh, Redeemable, Grants, Expiring
<1>2. /\ latest' = [latest EXCEPT ![g] = latest[g] + 1]
      /\ pair' = [grant |-> g, serial |-> latest[g] + 1, fresh |-> TRUE]
      /\ UNCHANGED <<given, asking, lost>>
  BY <1>1 DEF CliRefresh, PairOf, Expiring
<1>3. \A d \in Callers : asking[d].at = "answered" => asking[d].grant # g
  BY <1>1 DEF RefreshTypeOK, Linear
<1>4. \A d \in Callers : Asking(d) => asking[d].grant \in Grants /\ asking[d].serial \in Nat
  BY DEF RefreshTypeOK, Linear
<1>5. Linear'
  BY <1>1, <1>2, <1>3, <1>4 DEF RefreshTypeOK, Linear, Asking, Redeemable, Grants
<1>6. FileIsRedeemable'
  BY <1>1, <1>2 DEF FileIsRedeemable, Redeemable, RefreshTypeOK
<1> QED BY <1>5, <1>6

LEMMA DepositLinear ==
  ASSUME RefreshTypeOK, Linear, FileIsRedeemable, NEW g \in Grants \ given,
         Deposit(g), UNCHANGED <<latest, asking, lost>>
  PROVE  Linear' /\ FileIsRedeemable'
<1>1. latest[g] = 0 /\ \A c \in Callers : Asking(c) => asking[c].grant # g
  BY DEF Linear
<1>2. pair' = [grant |-> g, serial |-> 0, fresh |-> TRUE] /\ given' = given \cup {g}
  BY DEF Deposit, PairOf
<1>3. Linear'
  BY <1>1, <1>2 DEF RefreshTypeOK, Linear, Asking, Redeemable
<1>4. FileIsRedeemable'
  BY <1>1, <1>2 DEF FileIsRedeemable, Redeemable
<1> QED BY <1>3, <1>4

LEMMA HistoryKept ==
  ASSUME RefreshTypeOK, Linear, FileIsRedeemable, CredentialStep
  PROVE  Linear' /\ FileIsRedeemable'
<1>1. CASE RefreshNext
  <2>1. CASE Expire
    <3>1. /\ pair'.grant = pair.grant /\ pair'.serial = pair.serial
          /\ UNCHANGED <<latest, given, asking, lost>>
      BY <2>1 DEF Expire, RefreshTypeOK
    <3> QED BY <3>1 DEF Linear, FileIsRedeemable, Asking, Redeemable
  <2> QED BY <1>1, <2>1, AskLinear, AnswerLinear, DropLinear, SaveLinear, CliLinear
          DEF RefreshNext
<1>2. CASE \E g \in Grants \ given : Deposit(g) /\ UNCHANGED <<latest, asking, lost>>
  BY <1>2, DepositLinear
<1>3. CASE Wipe /\ UNCHANGED <<latest, given, asking, lost>>
  <2>1. pair'.grant = 0 /\ 0 \notin Grants
    BY <1>3, LoginBound DEF Wipe, Absent, Grants
  <2>2. \A c \in Callers : Asking(c) => asking[c].grant # 0
    BY <2>1 DEF Linear, RefreshTypeOK
  <2> QED BY <1>3, <2>1, <2>2 DEF Linear, FileIsRedeemable, Asking, Redeemable
<1>4. CASE UNCHANGED refreshVars
  BY <1>4 DEF refreshVars, Linear, FileIsRedeemable, Asking, Redeemable
<1> QED BY <1>1, <1>2, <1>3, <1>4 DEF CredentialStep

-----------------------------------------------------------------------------
(***************************************************************************)
(* Grants are given once.                                                  *)
(***************************************************************************)

LEMMA KimiGivesOnce ==
  ASSUME TypeOK, KimiOnce, KimiNext
  PROVE  KimiOnce'
<1> USE DEF Logins
<1>1. CASE RefreshNext /\ UNCHANGED loginVars
  <2>1. UNCHANGED given
    BY <1>1 DEF RefreshNext, Reads, Rotates, Refuse, Lose, Save, Expire, CliRefresh, Expiring
  <2> QED BY <1>1, <2>1 DEF loginVars, KimiOnce, Holds
<1>2. CASE Logout
  BY <1>2 DEF Logout, KimiOnce, Holds
<1>3. ASSUME NEW l \in Logins, StartLogin(l) PROVE KimiOnce'
  <2>1. /\ \A k \in Logins : k # l => loop'[k] = loop[k]
        /\ loop'[l].at = "sleeping"
        /\ given' = given
        /\ \A g \in Grants : device[g] = "redeemed" => device'[g] = "redeemed"
    BY <1>3 DEF StartLogin, Sleeping, TypeOK, KimiTypeOK, refreshVars
  <2> QED BY <2>1 DEF KimiOnce, Holds, TypeOK, RefreshTypeOK
<1>4. ASSUME NEW l \in Logins, Poll(l) PROVE KimiOnce'
  <2>1. /\ \A k \in Logins : k # l => loop'[k] = loop[k]
        /\ loop'[l].at \in {"polling", "ended"}
        /\ loop'[l].at = "polling" => loop'[l].code \in Grants
    BY <1>4, LoginBound DEF Poll, EndLoop, Ended, TypeOK, KimiTypeOK, Grants
  <2> QED BY <1>4, <2>1 DEF Poll, refreshVars, KimiOnce, Holds
<1>5. ASSUME NEW l \in Logins, ServerReply(l) PROVE KimiOnce'
  <2> DEFINE code == loop[l].code
  <2>1. /\ code \in Logins
        /\ \A k \in Logins : k # l => loop'[k] = loop[k]
        /\ loop'[l].at = "answered" /\ loop'[l].code = code
        /\ UNCHANGED given
    BY <1>5 DEF ServerReply, KimiOnce, TypeOK, KimiTypeOK, refreshVars
  <2>2. CASE loop'[l].answer = "tokens"
    <3>1. device[code] = "approved" /\ device' = [device EXCEPT ![code] = "redeemed"]
      BY <1>5, <2>1, <2>2 DEF ServerReply, TypeOK, KimiTypeOK
    <3>2. code \notin given /\ \A k \in Logins : Holds(k) => loop[k].code # code
      BY <3>1 DEF KimiOnce
    <3>3. \A g \in Logins : device[g] = "redeemed" => device'[g] = "redeemed"
      BY <3>1 DEF TypeOK, KimiTypeOK
    <3>4. device'[code] = "redeemed"
      BY <2>1, <3>1 DEF TypeOK, KimiTypeOK
    <3>5. \A k \in Logins : k # l => (Holds(k)' <=> Holds(k))
      BY <2>1 DEF Holds
    <3> QED BY <2>1, <3>2, <3>3, <3>4, <3>5 DEF KimiOnce, Holds, TypeOK, RefreshTypeOK
  <2>3. CASE loop'[l].answer # "tokens"
    <3>1. UNCHANGED device
      BY <1>5, <2>3 DEF ServerReply, TypeOK, KimiTypeOK
    <3>2. ~Holds(l)' /\ \A k \in Logins : k # l => (Holds(k)' <=> Holds(k))
      BY <2>1, <2>3 DEF Holds
    <3> QED BY <2>1, <3>1, <3>2 DEF KimiOnce
  <2> QED BY <2>2, <2>3
<1>6. ASSUME NEW l \in Logins, PollFails(l) PROVE KimiOnce'
  BY <1>6 DEF PollFails, EndLoop, Ended, refreshVars, KimiOnce, Holds, TypeOK, KimiTypeOK
<1>7. ASSUME NEW l \in Logins, Receive(l) PROVE KimiOnce'
  <2>1. /\ \A k \in Logins : k # l => loop'[k] = loop[k]
        /\ loop'[l].at \in {"sleeping", "ended"}
        /\ UNCHANGED device
    BY <1>7 DEF Receive, Tokens, KeepPolling, GiveUp, EndLoop, Ended, Sleeping, TypeOK, KimiTypeOK
  <2>2. CASE Tokens(l)
    <3>1. Holds(l) /\ given' = given \cup {loop[l].code}
      BY <1>7, <2>2 DEF Receive, Tokens, Deposit, Holds
    <3> QED BY <2>1, <3>1 DEF KimiOnce, Holds
  <2>3. CASE KeepPolling(l) \/ GiveUp(l)
    <3>1. UNCHANGED given
      BY <2>3 DEF KeepPolling, GiveUp, refreshVars
    <3> QED BY <2>1, <3>1 DEF KimiOnce, Holds
  <2> QED BY <1>7, <2>2, <2>3 DEF Receive
<1>8. ASSUME NEW l \in Logins, Approve(l) \/ CodeExpires(l) \/ ClockPasses(l) PROVE KimiOnce'
  <2>1. /\ UNCHANGED <<loop, given>>
        /\ \A g \in Logins : device[g] = "redeemed" => device'[g] = "redeemed"
    BY <1>8 DEF Approve, CodeExpires, ClockPasses, refreshVars, TypeOK, KimiTypeOK
  <2> QED BY <2>1 DEF KimiOnce, Holds, TypeOK, RefreshTypeOK
<1> QED BY <1>1, <1>2, <1>3, <1>4, <1>5, <1>6, <1>7, <1>8 DEF KimiNext, LoopStep

LEMMA CodexGivesOnce ==
  ASSUME TypeOK, CodexOnce, CodexNext
  PROVE  CodexOnce'
<1> USE DEF Children
<1>1. CASE RefreshNext /\ UNCHANGED codexLoginVars
  <2>1. UNCHANGED given
    BY <1>1 DEF RefreshNext, Reads, Rotates, Refuse, Lose, Save, Expire, CliRefresh, Expiring
  <2> QED BY <1>1, <2>1 DEF codexLoginVars, CodexOnce
<1>2. CASE LogoutCodex
  BY <1>2 DEF LogoutCodex, Killed, CodexOnce, TypeOK, CodexTypeOK, RefreshTypeOK
<1>3. ASSUME NEW l \in Children, StartCodex(l) PROVE CodexOnce'
  BY <1>3 DEF StartCodex, Killed, refreshVars, CodexOnce, TypeOK, CodexTypeOK, RefreshTypeOK
<1>4. ASSUME NEW l \in Children, ExitEvent(l) \/ ErrorEvent(l) PROVE CodexOnce'
  BY <1>4 DEF ExitEvent, ErrorEvent, refreshVars, CodexOnce, TypeOK, CodexTypeOK, RefreshTypeOK
<1>5. ASSUME NEW l \in Children, Prompt(l) \/ Timeout(l) PROVE CodexOnce'
  BY <1>5 DEF Prompt, Timeout, refreshVars, CodexOnce
<1>6. ASSUME NEW l \in Children, ChildLogsIn(l) PROVE CodexOnce'
  BY <1>6 DEF ChildLogsIn, Deposit, CodexOnce, TypeOK, CodexTypeOK, RefreshTypeOK
<1>7. ASSUME NEW l \in Children, ChildFails(l) PROVE CodexOnce'
  BY <1>7 DEF ChildFails, refreshVars, CodexOnce, TypeOK, CodexTypeOK, RefreshTypeOK
<1> QED BY <1>1, <1>2, <1>3, <1>4, <1>5, <1>6, <1>7 DEF CodexNext

-----------------------------------------------------------------------------
(***************************************************************************)
(* The entries of the settings page.                                       *)
(***************************************************************************)

LEMMA KimiEntries ==
  ASSUME TypeOK, Once, Linear, Entries, PendingIsPolled, provider = "kimi", KimiNext
  PROVE  (kimi.code = 0 => kimi = NoLogin)' /\ PendingIsPolled'
<1> USE DEF Logins
<1>1. CASE RefreshNext /\ UNCHANGED loginVars
  <2>1. pair.grant # 0 => pair'.grant # 0
    <3>1. ASSUME NEW c \in Callers, Save(c) PROVE pair'.grant # 0
      BY <3>1, LoginBound DEF Save, SavedPair, PairOf, Linear, Asking, TypeOK, RefreshTypeOK, Grants
    <3>2. ASSUME NEW c \in Callers, Reads(c) \/ Rotates(c) \/ Refuse(c) \/ Lose(c)
          PROVE  pair' = pair
      BY <3>2 DEF Reads, Rotates, Refuse, Lose, Expiring
    <3>3. CASE Expire
      BY <3>3 DEF Expire, TypeOK, RefreshTypeOK
    <3>4. CASE CliRefresh
      BY <3>4 DEF CliRefresh, PairOf, Expiring
    <3> QED BY <1>1, <3>1, <3>2, <3>3, <3>4 DEF RefreshNext
  <2> QED BY <1>1, <2>1 DEF loginVars, Entries, PendingIsPolled, Live
<1>2. CASE Logout
  BY <1>2 DEF Logout, EntryDeleted, NoLogin, PendingIsPolled
<1>3. ASSUME NEW l \in Logins, StartLogin(l)
      PROVE  (kimi.code = 0 => kimi = NoLogin)' /\ PendingIsPolled'
  <2>1. kimi'.code = l /\ kimi'.status = "pending" /\ l # 0
    BY <1>3, LoginBound DEF StartLogin, Grants
  <2>2. loop'[l].at = "sleeping"
    BY <1>3 DEF StartLogin, Sleeping, TypeOK, KimiTypeOK
  <2> QED BY <2>1, <2>2 DEF PendingIsPolled, Live
<1>4. ASSUME NEW l \in Logins, Poll(l)
      PROVE  (kimi.code = 0 => kimi = NoLogin)' /\ PendingIsPolled'
  <2>1. kimi.code # 0 => loop'[l].at = "polling" /\ \A k \in Logins : k # l => loop'[k] = loop[k]
    BY <1>4 DEF Poll, EndLoop, TypeOK, KimiTypeOK
  <2>2. kimi.code = 0 => kimi.status # "pending"
    BY DEF Entries, NoLogin
  <2> QED BY <1>4, <2>1, <2>2 DEF Poll, refreshVars, Entries, PendingIsPolled, Live
<1>5. ASSUME NEW l \in Logins, ServerReply(l)
      PROVE  (kimi.code = 0 => kimi = NoLogin)' /\ PendingIsPolled'
  <2>1. loop'[l].at = "answered" /\ \A k \in Logins : k # l => loop'[k] = loop[k]
    BY <1>5 DEF ServerReply, TypeOK, KimiTypeOK
  <2> QED BY <1>5, <2>1 DEF ServerReply, refreshVars, Entries, PendingIsPolled, Live
<1>6. ASSUME NEW status \in {"logged_in", "expired", "failed"}, kimi' = Marked(status)
      PROVE  /\ (kimi.code = 0 => kimi = NoLogin)' /\ PendingIsPolled'
             /\ kimi'.status = "logged_in" => status = "logged_in"
  BY <1>6 DEF Marked, NoLogin, PendingIsPolled, TypeOK, KimiTypeOK
<1>7. ASSUME NEW l \in Logins, PollFails(l)
      PROVE  (kimi.code = 0 => kimi = NoLogin)' /\ PendingIsPolled'
  BY <1>6, <1>7 DEF PollFails, CaughtBy
<1>8. ASSUME NEW l \in Logins, Receive(l)
      PROVE  (kimi.code = 0 => kimi = NoLogin)' /\ PendingIsPolled'
  <2>1. CASE Tokens(l)
    <3>1. loop[l].code \in Grants /\ kimi' = Marked("logged_in")
      BY <1>8, <2>1 DEF Receive, Tokens, Once, KimiOnce
    <3>2. pair'.grant # 0
      BY <2>1, <3>1, LoginBound DEF Tokens, Deposit, PairOf, Grants
    <3> QED BY <1>6, <3>1, <3>2
  <2>2. CASE KeepPolling(l)
    <3>1. CASE kimi' = Marked("expired")
      BY <1>6, <3>1
    <3>2. CASE kimi.status = "pending" /\ loop' = [loop EXCEPT ![l] = Sleeping] /\ kimi' = kimi
      <4>1. loop'[l].at = "sleeping"
        BY <3>2 DEF Sleeping, TypeOK, KimiTypeOK
      <4> QED BY <3>2, <4>1 DEF Entries, PendingIsPolled, Live
    <3>3. CASE kimi.status # "pending" /\ kimi' = kimi
      BY <2>2, <3>3 DEF KeepPolling, refreshVars, Entries, PendingIsPolled
    <3> QED BY <2>2, <3>1, <3>2, <3>3 DEF KeepPolling
  <2>3. CASE GiveUp(l)
    BY <1>6, <2>3 DEF GiveUp
  <2> QED BY <1>8, <2>1, <2>2, <2>3 DEF Receive
<1>9. ASSUME NEW l \in Logins, Approve(l) \/ CodeExpires(l) \/ ClockPasses(l)
      PROVE  (kimi.code = 0 => kimi = NoLogin)' /\ PendingIsPolled'
  BY <1>9 DEF Approve, CodeExpires, ClockPasses, refreshVars, Entries,
              PendingIsPolled, Live
<1> QED BY <1>1, <1>2, <1>3, <1>4, <1>5, <1>7, <1>8, <1>9 DEF KimiNext, LoopStep

LEMMA CodexServed ==
  ASSUME CodexTypeOK, PendingHasChild, CodexNext
  PROVE  PendingHasChild'
<1> USE LoginBound DEF Children, Grants
<1>1. CASE RefreshNext /\ UNCHANGED codexLoginVars
  BY <1>1 DEF codexLoginVars, PendingHasChild
<1>2. CASE LogoutCodex
  BY <1>2 DEF LogoutCodex, NoEntry, PendingHasChild
<1>3. ASSUME NEW l \in Children, StartCodex(l) PROVE PendingHasChild'
  <2>1. codex'.proc = l /\ l # 0 /\ child'[l] \in {"running", "nospawn"}
    BY <1>3 DEF StartCodex, NewEntry, Killed, CodexTypeOK
  <2> QED BY <2>1 DEF PendingHasChild
<1>4. ASSUME NEW l \in Children, Prompt(l) PROVE PendingHasChild'
  <2>1. codex'.proc = codex.proc /\ codex'.status = codex.status /\ UNCHANGED child
    BY <1>4 DEF Prompt, Throw, CodexTypeOK
  <2> QED BY <2>1 DEF PendingHasChild
<1>5. ASSUME NEW l \in Children, ExitEvent(l) PROVE PendingHasChild'
  <2>1. codex'.status # "pending"
    BY <1>5 DEF ExitEvent, Throw, HasEntry, ExitStatus, CodexTypeOK
  <2> QED BY <2>1 DEF PendingHasChild
<1>6. ASSUME NEW l \in Children, ErrorEvent(l) PROVE PendingHasChild'
  <2>1. codex'.status # "pending"
    BY <1>6 DEF ErrorEvent, Throw, HasEntry, Rejected, CodexTypeOK
  <2> QED BY <2>1 DEF PendingHasChild
<1>7. ASSUME NEW l \in Children, Timeout(l) PROVE PendingHasChild'
  BY <1>7 DEF Timeout, Throw, Rejected, PendingHasChild
<1>8. ASSUME NEW l \in Children, ChildLogsIn(l) \/ ChildFails(l) PROVE PendingHasChild'
  BY <1>8 DEF ChildLogsIn, ChildFails, PendingHasChild, CodexTypeOK
<1> QED BY <1>1, <1>2, <1>3, <1>4, <1>5, <1>6, <1>7, <1>8 DEF CodexNext

-----------------------------------------------------------------------------
(***************************************************************************)
(* The theorems.                                                           *)
(***************************************************************************)

LEMMA InvInit == AccountsInit => Inv
<1> SUFFICES ASSUME AccountsInit PROVE Inv
  OBVIOUS
<1> USE LoginBound, RefreshBound DEF AccountsInit, RefreshInit, KimiInit, CodexInit
<1>1. TypeOK
  <2>1. RefreshTypeOK
    BY DEF RefreshTypeOK, Absent, AtRest, Grants
  <2>2. KimiTypeOK
    BY DEF KimiTypeOK, NoLogin, NoLoop, Logins, Grants
  <2>3. CodexTypeOK
    <3>1. codex \in [proc : 0..MaxLogins, shown : BOOLEAN,
                     status : {"none", "pending", "logged_in", "failed"}]
      BY DEF NoEntry
    <3>2. crashed \in BOOLEAN
      OBVIOUS
    <3>3. /\ child \in [Children -> {"none", "nospawn", "running", "killed",
                                     "exit0", "exit1", "gone"}]
          /\ timer \in [Children -> {"none", "armed", "fired"}]
          /\ request \in [Children -> {"none", "waiting", "answered"}]
      OBVIOUS
    <3> QED BY <3>1, <3>2, <3>3 DEF CodexTypeOK
  <2> QED BY <2>1, <2>2, <2>3 DEF TypeOK
<1>2. Once
  BY DEF Once, KimiOnce, CodexOnce, Holds, NoLoop
<1>3. Linear /\ FileIsRedeemable
  BY DEF Linear, FileIsRedeemable, Asking, AtRest, Absent, Grants
<1>4. Entries /\ PendingIsServed
  BY DEF Entries, NoLogin, NoEntry, PendingIsServed, PendingIsPolled,
         PendingHasChild
<1> QED BY <1>1, <1>2, <1>3, <1>4 DEF Inv

LEMMA InvStep == Inv /\ [AccountsNext]_accountVars => Inv'
<1> SUFFICES ASSUME Inv, [AccountsNext]_accountVars PROVE Inv'
  OBVIOUS
<1>1. TypeOK'
  BY Typed DEF Inv
<1>2. CASE AccountsNext
  <2>1. Linear' /\ FileIsRedeemable'
    BY <1>2, Credentials, HistoryKept DEF Inv, TypeOK
  <2>2. CASE provider = "kimi"
    <3>1. KimiNext /\ UNCHANGED <<provider, codexLoginVars>>
      BY <1>2, <2>2 DEF AccountsNext
    <3>2. Once'
      BY <2>2, <3>1, KimiGivesOnce DEF Inv, Once
    <3>3. (kimi.code = 0 => kimi = NoLogin)' /\ PendingIsPolled'
      BY <2>2, <3>1, KimiEntries DEF Inv, PendingIsServed
    <3>4. PendingHasChild'
      BY <3>1 DEF Inv, PendingIsServed, PendingHasChild, codexLoginVars
    <3> QED BY <1>1, <2>1, <2>2, <3>1, <3>2, <3>3, <3>4 DEF Inv, Entries, PendingIsServed
  <2>3. CASE provider = "codex"
    <3>1. CodexNext /\ UNCHANGED <<provider, loginVars>>
      BY <1>2, <2>3 DEF AccountsNext
    <3>2. Once'
      BY <2>3, <3>1, CodexGivesOnce DEF Inv, Once
    <3>3. PendingHasChild'
      BY <3>1, CodexServed DEF Inv, TypeOK, PendingIsServed
    <3>4. kimi' = NoLogin
      BY <2>3, <3>1 DEF Inv, Entries, loginVars
    <3>5. Entries' /\ PendingIsPolled'
      BY <3>4 DEF Entries, PendingIsPolled, NoLogin
    <3> QED BY <1>1, <2>1, <3>2, <3>3, <3>5 DEF Inv, PendingIsServed
  <2> QED BY <2>2, <2>3 DEF Inv, TypeOK
<1>3. CASE UNCHANGED accountVars
  BY <1>1, <1>3 DEF accountVars, refreshVars, loginVars, codexLoginVars, Inv, Once, KimiOnce, CodexOnce,
     Holds, Linear, Asking, Redeemable, FileIsRedeemable, Entries,
     PendingIsServed, PendingIsPolled, PendingHasChild, Live
<1> QED BY <1>2, <1>3

LEMMA Invariance == AccountsSpec => []Inv
<1> QED BY InvInit, InvStep, PTL DEF AccountsSpec

\* The account is well typed: whatever overlaps, an entry, a loop, a child and
\* a request are in one of the states the settings page and the handlers know.
THEOREM TypeCorrect == AccountsSpec => []TypeOK
<1>1. Inv => TypeOK
  BY DEF Inv
<1> QED BY <1>1, Invariance, PTL

\* Concurrent refreshes, the provider's CLI, logouts and overlapping logins
\* leave a file whose refresh token the server accepts, or somebody is about
\* to write the one it does, or the answer that carried it was lost.
THEOREM NoSpentToken == AccountsSpec => []FileIsRedeemable
<1>1. Inv => FileIsRedeemable
  BY DEF Inv
<1> QED BY <1>1, Invariance, PTL

\* The page is never told to wait for a login that nobody works on, although
\* replaced loops and children write into the entry of their successor.
THEOREM WaitingIsServed == AccountsSpec => []PendingIsServed
<1>1. Inv => PendingIsServed
  BY DEF Inv
<1> QED BY <1>1, Invariance, PTL
=============================================================================
