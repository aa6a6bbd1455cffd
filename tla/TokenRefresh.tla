---------------------------- MODULE TokenRefresh ----------------------------
(***************************************************************************)
(* The credential file of a subscription account (~/.codex/auth.json,      *)
(* ~/.kimi/credentials/kimi-code.json or the Claude keychain item) and     *)
(* those who refresh it: requests of this process (llm/refreshCodex,       *)
(* refreshKimiCode, refreshClaudeCode run the same protocol) and the       *)
(* provider's own CLI.  A refresh token is a pair (grant, serial): the     *)
(* OAuth server hands out the next serial for the current one and refuses  *)
(* every older one.                                                        *)
(***************************************************************************)
EXTENDS Integers

CONSTANTS
  Callers,      \* concurrent requests that need an access token
  MaxLogins,    \* bound: grants are numbered 1..MaxLogins, 0 is "no file"
  MaxRefreshes  \* bound: how often the server rotates one grant's token

ASSUME LoginBound   == MaxLogins \in Nat
ASSUME RefreshBound == MaxRefreshes \in Nat

VARIABLES
  pair,    \* the pair in the file, its grant 0 when there is no file
  latest,  \* the server: the serial it accepts for each grant
  given,   \* the grants whose first tokens a login wrote
  asking,  \* per caller: where it stands in its refresh
  lost     \* grants whose newest token was answered and never stored

refreshVars == <<pair, latest, given, asking, lost>>

Grants  == 1..MaxLogins
Absent  == [grant |-> 0, serial |-> 0, fresh |-> FALSE]
PairOf(g, n) == [grant |-> g, serial |-> n, fresh |-> TRUE]
AtRest  == [at |-> "idle", grant |-> 0, serial |-> 0]

RefreshTypeOK ==
  /\ pair \in [grant : 0..MaxLogins, serial : Nat, fresh : BOOLEAN]
  /\ latest \in [Grants -> Nat]
  /\ given \subseteq Grants
  /\ asking \in [Callers -> [at : {"idle", "sent", "answered"},
                             grant : 0..MaxLogins, serial : Nat]]
  /\ lost \subseteq Grants

RefreshInit ==
  /\ pair = Absent
  /\ latest = [g \in Grants |-> 0]
  /\ given = {}
  /\ asking = [c \in Callers |-> AtRest]
  /\ lost = {}

-----------------------------------------------------------------------------
\* A login stores the first tokens of its grant over whatever is there.
Deposit(g) ==
  /\ pair' = PairOf(g, 0)
  /\ given' = given \cup {g}

Wipe == pair' = Absent

-----------------------------------------------------------------------------
(* The requests of this process. *)

\* There is a pair, and its access token is within 60 s of its expiry.
Expiring == pair.grant # 0 /\ ~pair.fresh

\* Reads the file; an expiring pair is sent to the server.  Without a file, and
\* with a fresh pair, the caller returns at once.
Reads(c) ==
  /\ asking[c].at = "idle" /\ Expiring
  /\ asking' = [asking EXCEPT ![c] = [at |-> "sent", grant |-> pair.grant,
                                      serial |-> pair.serial]]
  /\ UNCHANGED <<pair, latest, given, lost>>

Redeemable(t) == t.serial = latest[t.grant]

\* The server accepts the token and rotates it.
Rotates(c) ==
  /\ asking[c].at = "sent" /\ Redeemable(asking[c])
  /\ latest[asking[c].grant] < MaxRefreshes
  /\ latest' = [latest EXCEPT ![asking[c].grant] = @ + 1]
  /\ asking' = [asking EXCEPT ![c].at = "answered", ![c].serial = @ + 1]
  /\ UNCHANGED <<pair, given, lost>>

\* An error status, or no answer at all: the caller returns null or throws.
Refuse(c) ==
  /\ asking[c].at = "sent"
  /\ asking' = [asking EXCEPT ![c] = AtRest]
  /\ UNCHANGED <<pair, latest, given, lost>>

\* The answer never arrives, or the write fails: the rotated token is gone.
Lose(c) ==
  /\ asking[c].at = "answered"
  /\ asking' = [asking EXCEPT ![c] = AtRest]
  /\ lost' = lost \cup {asking[c].grant}
  /\ UNCHANGED <<pair, latest, given>>

\* Mutant of SavedPair: the refresh token that was read is kept.
SavedPairKeepsRefresh(t) == PairOf(t.grant, t.serial - 1)

\* The pair written back: what was read, with the answer's tokens.
SavedPair(t) == PairOf(t.grant, t.serial)

\* The answer arrives and is written over whatever the file holds by now.
Save(c) ==
  /\ asking[c].at = "answered"
  /\ pair' = SavedPair(asking[c])
  /\ asking' = [asking EXCEPT ![c] = AtRest]
  /\ UNCHANGED <<latest, given, lost>>

-----------------------------------------------------------------------------
(* The world outside. *)

\* The access token comes within 60 s of its expiry.
Expire ==
  /\ pair.fresh
  /\ pair' = [pair EXCEPT !.fresh = FALSE]
  /\ UNCHANGED <<latest, given, asking, lost>>

\* The provider's CLI refreshes the pair it shares with this process.
CliRefresh ==
  /\ Expiring
  /\ Redeemable(pair) /\ latest[pair.grant] < MaxRefreshes
  /\ latest' = [latest EXCEPT ![pair.grant] = @ + 1]
  /\ pair' = PairOf(pair.grant, pair.serial + 1)
  /\ UNCHANGED <<given, asking, lost>>

RefreshNext ==
  \/ \E c \in Callers : Reads(c) \/ Rotates(c) \/ Refuse(c) \/ Lose(c) \/ Save(c)
  \/ Expire
  \/ CliRefresh

-----------------------------------------------------------------------------
\* The refresh token in the file is the one the server accepts, or the newest
\* one is on its way to the file, or its answer was lost: two requests that
\* read the same expiring pair, the CLI, a logout and a new login in between
\* never leave the file with a token that someone else has already spent.
FileIsRedeemable ==
  pair.grant # 0 /\ pair.grant \notin lost =>
    \/ Redeemable(pair)
    \/ \E c \in Callers : /\ asking[c].at = "answered"
                          /\ asking[c].grant = pair.grant
                          /\ Redeemable(asking[c])
=============================================================================
