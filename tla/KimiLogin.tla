----------------------------- MODULE KimiLogin ------------------------------
(***************************************************************************)
(* The device login of the Kimi subscription: startKimiLogin asks for a    *)
(* device code, publishes it in ctx.state.settings.kimi and starts a poll  *)
(* loop; logoutKimi unlinks the credentials and deletes that entry.  A     *)
(* loop holds no login of its own: every look at s() is a look at the      *)
(* entry of the moment.                                                    *)
(***************************************************************************)
EXTENDS TokenRefresh

VARIABLES
  kimi,    \* ctx.state.settings.kimi: the code 0 when there is no entry
  loop,    \* the poll loop of each login
  device,  \* the server: what became of each device code
  late     \* the codes whose expires_in has passed on the local clock

loginVars == <<kimi, loop, device, late>>
Logins   == Grants
NoLogin  == [code |-> 0, status |-> "none"]
NoLoop   == [at |-> "none", code |-> 0, answer |-> "none"]
Ended    == [at |-> "ended", code |-> 0, answer |-> "none"]
Sleeping == [at |-> "sleeping", code |-> 0, answer |-> "none"]
Live(l)  == loop[l].at \in {"sleeping", "polling", "answered"}

KimiTypeOK ==
  /\ kimi \in [code : 0..MaxLogins,
               status : {"none", "pending", "logged_in", "expired", "failed"}]
  /\ loop \in [Logins -> [at : {"none", "sleeping", "polling", "answered", "ended"},
                          code : 0..MaxLogins,
                          answer : {"none", "tokens", "pending", "expired", "denied"}]]
  /\ device \in [Logins -> {"unissued", "waiting", "approved", "redeemed", "expired"}]
  /\ late \subseteq Logins

KimiInit ==
  /\ kimi = NoLogin
  /\ loop = [l \in Logins |-> NoLoop]
  /\ device = [l \in Logins |-> "unissued"]
  /\ late = {}

-----------------------------------------------------------------------------
\* POST /settings/kimi/login, once the server has issued a device code: the
\* new entry replaces the old one, whose loop goes on.
StartLogin(l) ==
  /\ device[l] = "unissued" /\ \A k \in 1..(l - 1) : device[k] # "unissued"
  /\ device' = [device EXCEPT ![l] = "waiting"]
  /\ kimi' = [code |-> l, status |-> "pending"]
  /\ loop' = [loop EXCEPT ![l] = Sleeping]
  /\ UNCHANGED <<refreshVars, late>>

EntryDeleted == NoLogin

\* POST /settings/kimi/logout.
Logout ==
  /\ Wipe
  /\ kimi' = EntryDeleted
  /\ UNCHANGED <<latest, given, asking, lost, loop, device, late>>

\* What `s().status = x` leaves; without an entry the access throws instead,
\* and the catch of startKimiLogin finds nothing to write to either.
Marked(status) == IF kimi.code = 0 THEN NoLogin ELSE [kimi EXCEPT !.status = status]

EndLoop(l) == loop' = [loop EXCEPT ![l] = Ended]

\* The sleep ends: the request carries the current entry's device code.
Poll(l) ==
  /\ loop[l].at = "sleeping"
  /\ \/ /\ kimi.code # 0
        /\ loop' = [loop EXCEPT ![l] = [at |-> "polling", code |-> kimi.code,
                                        answer |-> "none"]]
     \/ kimi.code = 0 /\ EndLoop(l)
  /\ UNCHANGED <<refreshVars, kimi, device, late>>

\* The server's answer to a poll: tokens for an approved code, once.
ServerReply(l) ==
  /\ loop[l].at = "polling"
  /\ LET code == loop[l].code
         Reply(a) == loop' = [loop EXCEPT ![l].at = "answered", ![l].answer = a]
     IN \/ /\ device[code] = "approved"
           /\ Reply("tokens")
           /\ device' = [device EXCEPT ![code] = "redeemed"]
        \/ /\ device[code] = "waiting" /\ Reply("pending")
           /\ UNCHANGED device
        \/ /\ device[code] \in {"redeemed", "expired"}
           /\ Reply("expired") \/ Reply("denied")
           /\ UNCHANGED device
  /\ UNCHANGED <<refreshVars, kimi, late>>

\* Mutant of CaughtBy: the failure is not published.
StatusKept(status) == kimi

\* The catch of startKimiLogin: the loop threw, whatever the entry is now.
CaughtBy(status) == Marked(status)

\* The request fails, or the credentials cannot be written.
PollFails(l) ==
  /\ loop[l].at \in {"polling", "answered"}
  /\ kimi' = CaughtBy("failed")
  /\ EndLoop(l)
  /\ UNCHANGED <<refreshVars, device, late>>

Tokens(l) ==
  /\ loop[l].answer = "tokens"
  /\ Deposit(loop[l].code)
  /\ kimi' = Marked("logged_in")
  /\ EndLoop(l)
  /\ UNCHANGED <<latest, asking, lost>>

\* Mutant of TimeLeft: the deadline is not looked at.
TimeLeftAlways == TRUE

TimeLeft == kimi.code \notin late

\* authorization_pending or slow_down, and the head of the loop again.
KeepPolling(l) ==
  /\ loop[l].answer = "pending"
  /\ \/ /\ kimi.status = "pending" /\ TimeLeft
        /\ loop' = [loop EXCEPT ![l] = Sleeping]
        /\ UNCHANGED kimi
     \/ /\ kimi.status = "pending" /\ ~TimeLeft
        /\ kimi' = Marked("expired")
        /\ EndLoop(l)
     \/ kimi.status # "pending" /\ EndLoop(l) /\ UNCHANGED kimi
  /\ UNCHANGED refreshVars

GiveUp(l) ==
  /\ \/ loop[l].answer = "expired" /\ kimi' = Marked("expired")
     \/ loop[l].answer = "denied" /\ kimi' = Marked("failed")
  /\ EndLoop(l)
  /\ UNCHANGED refreshVars

Receive(l) ==
  /\ loop[l].at = "answered"
  /\ Tokens(l) \/ KeepPolling(l) \/ GiveUp(l)
  /\ UNCHANGED <<device, late>>

-----------------------------------------------------------------------------
\* The user confirms the code in the browser.
Approve(l) ==
  /\ device[l] = "waiting"
  /\ device' = [device EXCEPT ![l] = "approved"]
  /\ UNCHANGED <<refreshVars, kimi, loop, late>>

\* The server forgets a code.
CodeExpires(l) ==
  /\ device[l] \in {"waiting", "approved"}
  /\ device' = [device EXCEPT ![l] = "expired"]
  /\ UNCHANGED <<refreshVars, kimi, loop, late>>

\* expires_in seconds have passed since the code was issued.
ClockPasses(l) ==
  /\ device[l] # "unissued" /\ l \notin late
  /\ late' = late \cup {l}
  /\ UNCHANGED <<refreshVars, kimi, loop, device>>

LoopStep(l) == Poll(l) \/ ServerReply(l) \/ PollFails(l) \/ Receive(l)

KimiNext ==
  \/ RefreshNext /\ UNCHANGED loginVars
  \/ Logout
  \/ \E l \in Logins : \/ StartLogin(l) \/ LoopStep(l)
                       \/ Approve(l) \/ CodeExpires(l) \/ ClockPasses(l)

-----------------------------------------------------------------------------
\* An entry that says "pending" is polled by some loop, although loops end
\* on the answers to other logins and throw when the entry is deleted under
\* them: the settings page never waits for a login nobody works on.
PendingIsPolled == kimi.status = "pending" => \E l \in Logins : Live(l)
=============================================================================
