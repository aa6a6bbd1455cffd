----------------------------- MODULE CodexLogin -----------------------------
(***************************************************************************)
(* The device login of the Codex subscription: startCodexLogin spawns      *)
(* `codex login --device-auth` and publishes the code it prints in         *)
(* ctx.state.settings.codex; the child writes ~/.codex/auth.json itself.   *)
(* The handlers of a child and the 15 s timer look at the entry of the     *)
(* moment, and dereference it: without an entry they throw where nobody    *)
(* catches, which ends the process.                                        *)
(***************************************************************************)
EXTENDS TokenRefresh

VARIABLES
  codex,    \* ctx.state.settings.codex: its child, status, and whether a
            \* code and URL are shown; status "none" when there is no entry
  child,    \* per login: the codex process
  timer,    \* per login: its 15 s timer
  request,  \* per login: the POST that waits for the prompt
  crashed   \* an exception nobody caught

codexLoginVars == <<codex, child, timer, request, crashed>>
Children  == Grants
NoEntry   == [proc |-> 0, status |-> "none", shown |-> FALSE]
\* What the route's catch writes when startCodexLogin rejects.
Rejected  == [proc |-> 0, status |-> "failed", shown |-> FALSE]
NewEntry(l) == [proc |-> l, status |-> "pending", shown |-> FALSE]
HasEntry  == codex.status # "none"

CodexTypeOK ==
  /\ codex \in [proc : 0..MaxLogins, shown : BOOLEAN,
                status : {"none", "pending", "logged_in", "failed"}]
  /\ child \in [Children -> {"none", "nospawn", "running", "killed",
                             "exit0", "exit1", "gone"}]
  /\ timer \in [Children -> {"none", "armed", "fired"}]
  /\ request \in [Children -> {"none", "waiting", "answered"}]
  /\ crashed \in BOOLEAN

CodexInit ==
  /\ codex = NoEntry
  /\ child = [l \in Children |-> "none"]
  /\ timer = [l \in Children |-> "none"]
  /\ request = [l \in Children |-> "none"]
  /\ crashed = FALSE

-----------------------------------------------------------------------------
\* proc.kill(): a child that runs is going to exit on a signal.
Killed(children, p) ==
  IF p # 0 /\ children[p] = "running" THEN [children EXCEPT ![p] = "killed"]
                                      ELSE children

\* POST /settings/codex/login: a pending child is killed, a new one spawned.
StartCodex(l) ==
  /\ child[l] = "none" /\ \A k \in 1..(l - 1) : child[k] # "none"
  /\ LET rest == IF codex.status = "pending" THEN Killed(child, codex.proc) ELSE child
     IN \E spawned \in {"running", "nospawn"} :
          child' = [rest EXCEPT ![l] = spawned]
  /\ codex' = NewEntry(l)
  /\ timer' = [timer EXCEPT ![l] = "armed"]
  /\ request' = [request EXCEPT ![l] = "waiting"]
  /\ UNCHANGED <<refreshVars, crashed>>

\* POST /settings/codex/logout.
LogoutCodex ==
  /\ Wipe
  /\ child' = Killed(child, codex.proc)
  /\ codex' = NoEntry
  /\ UNCHANGED <<latest, given, asking, lost, timer, request, crashed>>

\* A handler that finds no entry throws.
Throw == ~HasEntry /\ crashed' = TRUE /\ UNCHANGED codex

\* onData with the prompt in the buffer.  With a code already shown it
\* returns, whoever's code that is, and does not answer the request.
Prompt(l) ==
  /\ child[l] \in {"running", "killed"}
  /\ \/ Throw /\ UNCHANGED request
     \/ /\ HasEntry /\ ~codex.shown
        /\ codex' = [codex EXCEPT !.shown = TRUE]
        /\ request' = [request EXCEPT ![l] = "answered"]
        /\ UNCHANGED crashed
  /\ UNCHANGED <<refreshVars, child, timer>>

\* The status the exit handler gives a pending entry.
ExitStatus(code) == IF code = "exit0" THEN "logged_in" ELSE "failed"

ExitEvent(l) ==
  /\ child[l] \in {"exit0", "exit1"}
  /\ \/ Throw
     \/ /\ HasEntry
        /\ codex' = IF codex.status = "pending"
                    THEN [codex EXCEPT !.status = ExitStatus(child[l])] ELSE codex
        /\ UNCHANGED crashed
  /\ child' = [child EXCEPT ![l] = "gone"]
  /\ UNCHANGED <<refreshVars, timer, request>>

\* The command could not be started: the promise rejects, the route's catch
\* replaces the entry, unless the request was answered before.
ErrorEvent(l) ==
  /\ child[l] = "nospawn"
  /\ \/ Throw /\ UNCHANGED request
     \/ /\ HasEntry
        /\ codex' = IF request[l] = "waiting" THEN Rejected
                                              ELSE [codex EXCEPT !.status = "failed"]
        /\ request' = [request EXCEPT ![l] = "answered"]
        /\ UNCHANGED crashed
  /\ child' = [child EXCEPT ![l] = "gone"]
  /\ UNCHANGED <<refreshVars, timer>>

\* The 15 s timer, which nothing cancels: no prompt yet rejects the promise.
Timeout(l) ==
  /\ timer[l] = "armed"
  /\ \/ Throw /\ UNCHANGED request
     \/ /\ HasEntry /\ ~codex.shown /\ request[l] = "waiting"
        /\ codex' = Rejected
        /\ request' = [request EXCEPT ![l] = "answered"]
        /\ UNCHANGED crashed
     \/ /\ HasEntry /\ (codex.shown \/ request[l] # "waiting")
        /\ UNCHANGED <<codex, request, crashed>>
  /\ timer' = [timer EXCEPT ![l] = "fired"]
  /\ UNCHANGED <<refreshVars, child>>

-----------------------------------------------------------------------------
\* The child: the user completes the browser flow and it writes the tokens.
ChildLogsIn(l) ==
  /\ child[l] = "running"
  /\ Deposit(l)
  /\ child' = [child EXCEPT ![l] = "exit0"]
  /\ UNCHANGED <<latest, asking, lost, codex, timer, request, crashed>>

\* It gives up, or dies of the signal.
ChildFails(l) ==
  /\ child[l] \in {"running", "killed"}
  /\ child' = [child EXCEPT ![l] = "exit1"]
  /\ UNCHANGED <<refreshVars, codex, timer, request, crashed>>

CodexNext ==
  /\ ~crashed
  /\ \/ RefreshNext /\ UNCHANGED codexLoginVars
     \/ LogoutCodex
     \/ \E l \in Children : \/ StartCodex(l) \/ Prompt(l) \/ ExitEvent(l)
                            \/ ErrorEvent(l) \/ Timeout(l)
                            \/ ChildLogsIn(l) \/ ChildFails(l)

-----------------------------------------------------------------------------
\* An entry that says "pending" has a child whose exit will change it,
\* although replaced and logged-out children write into the same entry.
PendingHasChild ==
  codex.status = "pending" => codex.proc # 0 /\ child[codex.proc] \notin {"none", "gone"}

\* Starting, replacing and ending logins in any order never ends the process.
ServerSurvives == ~crashed
=============================================================================
