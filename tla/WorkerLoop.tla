----------------------------- MODULE WorkerLoop -----------------------------
(***************************************************************************)
(* How the worker loop sleeps and wakes.  The loop drains every claimable  *)
(* agent, decides how long to wait and parks; wakeWorker() sets a flag and *)
(* resolves the parked promise; a timer is the fallback.  AgentRuns has    *)
(* what a run does to its agent's row; here a run begins, and ends.        *)
(*                                                                         *)
(* Promise continuations run in the order in which they became ready, so   *)
(* the microtask queue is part of the state: Driver stands for the loop's  *)
(* continuation, an agent for the removal of its settled promise from      *)
(* `inflight`.  Everything else may run between two of its jobs.           *)
(*                                                                         *)
(* Time is relative and counted in ticks of 50 ms, the least the loop      *)
(* waits: due[a] is what is left until next_run_at, 0 once it has passed.  *)
(***************************************************************************)
EXTENDS Integers, Sequences

CONSTANTS
  Agents,     \* agent ids
  Driver,     \* the loop's continuation in the microtask queue
  Never,      \* next_run_at IS NULL
  Inherited,  \* agents whose row was left 'running' by an earlier process
  Delays,     \* the delays callers of submit() ask for
  Retry,      \* the 5 s after which a run with late messages is repeated
  MaxIdle     \* MAX_IDLE_MS

ASSUME ConstantsAssumption ==
  /\ Driver \notin Agents
  /\ Never \notin Int
  /\ Inherited \subseteq Agents
  /\ Delays \subseteq Nat
  /\ Retry \in Nat \ {0}
  /\ MaxIdle \in Nat \ {0}

VARIABLES
  runState,  \* agents.run_state; "stale" is 'running' without a run of this process
  due,       \* ticks until agents.next_run_at
  live,      \* agents with a run that has not come to its finally block
  jobs,      \* the microtask queue
  parked,    \* the loop is suspended in waitForWork
  timer,     \* ticks until its timeout
  pending,   \* workerWakePending
  running,   \* workerLoopRunning
  late       \* history: ticks an agent has been claimable

vars == <<runState, due, live, jobs, parked, timer, pending, running, late>>

\* Agents whose run is over but whose promise is still in the set.
Settled == {a \in Agents : \E i \in 1 .. Len(jobs) : jobs[i] = a}

Inflight == live \cup Settled

\* What claimOne selects, one after the other, until nothing is left.
Claimable == {a \in Agents : runState[a] = "idle" /\ due[a] = 0}

Scheduled == {a \in Agents : runState[a] = "idle" /\ due[a] # Never}

AtLeast(m, n) == IF m >= n THEN m ELSE n
AtMost(m, n) == IF m <= n THEN m ELSE n

\* MAX(COALESCE(next_run_at, 0), sendAt)
PushedOut(d, delay) == IF d = Never THEN delay ELSE AtLeast(d, delay)

Init ==
  /\ runState = [a \in Agents |-> IF a \in Inherited THEN "stale" ELSE "idle"]
  /\ due \in [Agents -> {0, Never}]
  /\ live = {}
  /\ jobs = <<Driver>>
  /\ parked = FALSE
  /\ timer = 0
  /\ pending = FALSE
  /\ running = TRUE
  /\ late = [a \in Agents |-> 0]

-----------------------------------------------------------------------------
\* Resolving the promise of a parked loop makes its continuation ready.
Resolved == IF parked THEN Append(jobs, Driver) ELSE jobs

\* Mutant of Wake: resolve the waiters and leave no trace.
WakeWaitersOnly(queue) ==
  /\ jobs' = queue
  /\ parked' = FALSE
  /\ UNCHANGED <<pending, timer>>

\* wakeWorker(): raise the flag, then resolve the parked promise; `queue` is what is
\* ready once the caller has gone on.
Wake(queue) ==
  /\ pending' = TRUE
  /\ jobs' = queue
  /\ parked' = FALSE
  /\ UNCHANGED timer

\* waitForWork(t): give way to the other jobs when the flag is up, otherwise park.
WaitForWork(t) ==
  \/ /\ pending
     /\ pending' = FALSE
     /\ jobs' = Append(Tail(jobs), Driver)
     /\ UNCHANGED <<parked, timer>>
  \/ /\ ~pending
     /\ parked' = TRUE
     /\ timer' = t
     /\ jobs' = Tail(jobs)
     /\ UNCHANGED pending

\* Milliseconds to the soonest next_run_at of an idle agent, between 50 and MAX_IDLE_MS.
SoonestWait ==
  IF Scheduled = {} THEN MaxIdle
  ELSE AtLeast(1, AtMost(MaxIdle,
         CHOOSE t \in {due[a] : a \in Scheduled} : \A a \in Scheduled : t <= due[a]))

\* How long the loop waits after a drain that left `Claimable` empty.
LoopWait == IF Inflight \cup Claimable = {} THEN SoonestWait ELSE MaxIdle

\* One iteration: drain every claimable agent, then wait.  After a drain that found
\* work the loop goes round again at once and finds none.
Iterate ==
  /\ jobs # <<>> /\ Head(jobs) = Driver
  /\ running
  /\ runState' = [a \in Agents |-> IF a \in Claimable THEN "running" ELSE runState[a]]
  /\ live' = live \cup Claimable
  /\ late' = [a \in Agents |-> IF a \in Claimable THEN 0 ELSE late[a]]
  /\ WaitForWork(LoopWait)
  /\ UNCHANGED <<due, running>>

\* The loop notices that it has been stopped and only awaits what is in flight.
LeaveLoop ==
  /\ jobs # <<>> /\ Head(jobs) = Driver
  /\ ~running
  /\ jobs' = Tail(jobs)
  /\ UNCHANGED <<runState, due, live, parked, timer, pending, running, late>>

\* runOne(...).finally(() => inflight.delete(p))
Forget ==
  /\ jobs # <<>> /\ Head(jobs) \in Agents
  /\ jobs' = Tail(jobs)
  /\ UNCHANGED <<runState, due, live, parked, timer, pending, running, late>>

\* Mutant of TimeOut: the timeout resolves nobody.
TimeOutResolvesNobody ==
  /\ parked /\ timer = 0
  /\ UNCHANGED vars

\* The timeout of waitForWork.
TimeOut ==
  /\ parked /\ timer = 0
  /\ parked' = FALSE
  /\ jobs' = Append(jobs, Driver)
  /\ UNCHANGED <<runState, due, live, timer, pending, running, late>>

\* Fifty milliseconds pass.  Jobs and timers that are ready do not let time pass.
Tick ==
  /\ jobs = <<>>
  /\ parked => timer > 0
  /\ timer' = IF parked THEN timer - 1 ELSE timer
  /\ due' = [a \in Agents |-> IF due[a] = Never THEN Never ELSE AtLeast(0, due[a] - 1)]
  /\ late' = [a \in Agents |-> IF running /\ a \in Claimable THEN late[a] + 1 ELSE 0]
  /\ UNCHANGED <<runState, live, jobs, parked, pending, running>>

-----------------------------------------------------------------------------
\* submit() schedules the agent and wakes the worker.
Submit(a, delay) ==
  /\ due' = [due EXCEPT ![a] = PushedOut(@, delay)]
  /\ Wake(Resolved)
  /\ UNCHANGED <<runState, live, running, late>>

\* The finally block of runOne: settle the row, wake the worker, let the promise settle.
\* The schedule is dropped, moved to now + 5 s, or kept by an abort during shutdown.
RunEnds(a) ==
  /\ a \in live /\ a \notin Settled
  /\ runState' = [runState EXCEPT ![a] = "idle"]
  /\ \/ due' = [due EXCEPT ![a] = Never]
     \/ due[a] # Never /\ due' = [due EXCEPT ![a] = Retry]
     \/ due[a] # Never /\ ~running /\ UNCHANGED due
  /\ live' = live \ {a}
  /\ Wake(Append(Resolved, a))
  /\ UNCHANGED <<running, late>>

\* stop(): a run of this process keeps its claim until it ends, a stale claim is given
\* back; nobody is woken.
Stop(a, clearQueue) ==
  /\ runState' = [runState EXCEPT ![a] = IF a \in live THEN @ ELSE "idle"]
  /\ due' = IF clearQueue THEN [due EXCEPT ![a] = Never] ELSE due
  /\ UNCHANGED <<live, jobs, parked, timer, pending, running, late>>

\* shutdown(): clear workerLoopRunning and wake the loop.
StopLoop ==
  /\ running
  /\ running' = FALSE
  /\ Wake(Resolved)
  /\ UNCHANGED <<runState, due, live, late>>

-----------------------------------------------------------------------------
LoopStep == Iterate \/ LeaveLoop \/ Forget \/ TimeOut

Next ==
  \/ LoopStep
  \/ Tick
  \/ StopLoop
  \/ \E a \in Agents, delay \in Delays : Submit(a, delay)
  \/ \E a \in Agents : RunEnds(a)
  \/ \E a \in Agents, clearQueue \in BOOLEAN : Stop(a, clearQueue)

Spec == Init /\ [][Next]_vars

\* Ready jobs run, timers fire and time passes; runs need not end.
FairSpec == Spec /\ WF_vars(LoopStep) /\ WF_vars(Tick)

-----------------------------------------------------------------------------
\* Every variable stays in its range.
TypeOK ==
  /\ runState \in [Agents -> {"idle", "running", "stale"}]
  /\ due \in [Agents -> Nat \cup {Never}]
  /\ live \subseteq Agents
  /\ jobs \in Seq(Agents \cup {Driver})
  /\ parked \in BOOLEAN /\ pending \in BOOLEAN /\ running \in BOOLEAN
  /\ timer \in 0 .. MaxIdle
  /\ late \in [Agents -> Nat]

\* No wake-up is lost: when the loop sleeps and no run is in flight, it does not sleep
\* past the next_run_at of an idle agent.  The flag of wakeWorker() is what makes it
\* true of a run that wakes the loop before its own promise has left `inflight`.  Only
\* a claim inherited from an earlier process may be given back without a wake-up.
SleepsNoLongerThanDue ==
  parked /\ Inflight = {} =>
    \A a \in Scheduled \ Inherited : timer <= AtLeast(1, due[a])

\* Whatever happens to a wake-up, the safety poll bounds how long an agent waits to be
\* claimed once it is due.
WaitIsBounded == \A a \in Agents : late[a] <= MaxIdle

\* Shutdown does not wait for the timeout of a sleeping loop.
StopIsNoticed == ~running => ~parked

\* A due agent is claimed, unless it is pushed out again, unscheduled, or the loop is
\* stopped, whatever other runs do.
DueIsClaimed ==
  \A a \in Agents : (running /\ a \in Claimable) ~> (~running \/ a \notin Claimable)

=============================================================================
