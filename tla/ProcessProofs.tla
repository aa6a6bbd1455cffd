---------------------------- MODULE ProcessProofs ----------------------------
(***************************************************************************)
(* Theorems about what a process does for all of its agents: the worker's   *)
(* loop, migrations, the start, the catalog of files, and delegated tasks.  *)
(* They share no state; each has a specification of its own here.           *)
(***************************************************************************)
EXTENDS WorkerLoop, Delegation, Migrations, Startup, Catalog, Composer, SequenceTheorems,
  WellFoundedInduction, TLAPS

-----------------------------------------------------------------------------
\* The worker's loop.  What its theorems rest on is the shape of the microtask queue: while
\* the flag of wakeWorker() is down, the loop's continuation is the last job, so when the
\* loop parks every settled promise has left the set of runs in flight.

\* A nonempty set of naturals has a least element.
LEMMA LeastOfNaturals ==
  ASSUME NEW T, T \subseteq Nat, T # {}
  PROVE  \E x \in T : \A y \in T : x <= y
<1> DEFINE Less == {ss \in Nat \X Nat : ss[1] < ss[2]}
<1>1. IsWellFoundedOn(Less, Nat)
  BY NatLessThanWellFounded DEF OpToRel
<1>2. PICK x \in T : \A y \in T : ~(<<y, x>> \in Less)
  <2> HIDE DEF Less
  <2> QED BY <1>1, WFMin
<1>3. ASSUME NEW y \in T PROVE x <= y
  <2>1. ~(<<y, x>> \in Less) /\ x \in Nat /\ y \in Nat
    BY <1>2
  <2>2. ~(y < x)
    BY <2>1
  <2> QED BY <2>1, <2>2
<1> QED BY <1>3

\* The loop waits between one tick and MAX_IDLE_MS, and no longer than any schedule.
LEMMA SoonestWaitBounds ==
  ASSUME TypeOK
  PROVE  /\ SoonestWait \in 1 .. MaxIdle
         /\ \A a \in Scheduled : SoonestWait <= AtLeast(1, due[a])
<1>1. CASE Scheduled = {}
  BY <1>1, ConstantsAssumption DEF SoonestWait
<1>2. CASE Scheduled # {}
  <2> DEFINE T == {due[a] : a \in Scheduled}
             t == CHOOSE t \in T : \A a \in Scheduled : t <= due[a]
  <2>1. T \subseteq Nat /\ T # {}
    BY <1>2 DEF TypeOK, Scheduled
  <2>2. \E x \in T : \A a \in Scheduled : x <= due[a]
    <3>1. PICK x \in T : \A y \in T : x <= y
      <4> HIDE DEF T
      <4> QED BY <2>1, LeastOfNaturals
    <3> QED BY <3>1
  <2>3. t \in T /\ \A a \in Scheduled : t <= due[a]
    BY <2>2
  <2>4. SoonestWait = AtLeast(1, AtMost(MaxIdle, t))
    BY <1>2 DEF SoonestWait
  <2>5. \A a \in Scheduled : due[a] \in Nat
    BY <2>1
  <2> HIDE DEF t
  <2>6. t \in Nat
    BY <2>1, <2>3
  <2> QED BY <2>3, <2>4, <2>5, <2>6, ConstantsAssumption DEF AtLeast, AtMost
<1> QED BY <1>1, <1>2

\* The same of the wait that follows a drain.
LEMMA LoopWaitBounds == TypeOK => LoopWait \in 1 .. MaxIdle
BY SoonestWaitBounds, ConstantsAssumption DEF LoopWait

LEMMA InitTyped == Init => TypeOK
<1> SUFFICES ASSUME Init PROVE TypeOK
  OBVIOUS
<1>1. <<Driver>> \in Seq(Agents \cup {Driver})
  OBVIOUS
<1>2. due \in [Agents -> Nat \cup {Never}]
  BY DEF Init
<1>3. 0 \in 0 .. MaxIdle
  BY ConstantsAssumption
<1> QED BY <1>1, <1>2, <1>3 DEF Init, TypeOK

LEMMA ResolvedTyped == TypeOK => Resolved \in Seq(Agents \cup {Driver})
BY DEF Resolved, TypeOK

LEMMA HeadTyped ==
  ASSUME TypeOK, jobs # <<>>
  PROVE  Tail(jobs) \in Seq(Agents \cup {Driver}) /\ Head(jobs) \in Agents \cup {Driver}
BY HeadTailProperties DEF TypeOK

LEMMA NextTyped == TypeOK /\ [Next]_vars => TypeOK'
<1> SUFFICES ASSUME TypeOK, [Next]_vars PROVE TypeOK'
  OBVIOUS
<1> USE ConstantsAssumption
<1>1. CASE Iterate
  <2>1. LoopWait \in 0 .. MaxIdle
    BY LoopWaitBounds
  <2>2. Tail(jobs) \in Seq(Agents \cup {Driver})
    BY <1>1, HeadTyped DEF Iterate
  <2>3. Append(Tail(jobs), Driver) \in Seq(Agents \cup {Driver})
    BY <2>2, AppendProperties
  <2>4. WaitForWork(LoopWait)
    BY <1>1 DEF Iterate
  <2>5. jobs' \in Seq(Agents \cup {Driver}) /\ parked' \in BOOLEAN /\ pending' \in BOOLEAN
        /\ timer' \in 0 .. MaxIdle
    BY <2>1, <2>2, <2>3, <2>4, Zenon DEF WaitForWork, TypeOK
  <2> QED BY <1>1, <2>5 DEF Iterate, TypeOK, Claimable
<1>2. CASE LeaveLoop \/ Forget
  <2>1. jobs' \in Seq(Agents \cup {Driver})
    BY <1>2, HeadTyped DEF LeaveLoop, Forget
  <2>2. UNCHANGED <<runState, due, live, parked, timer, pending, running, late>>
    BY <1>2 DEF LeaveLoop, Forget
  <2> QED BY <2>1, <2>2 DEF TypeOK
<1>3. CASE TimeOut
  <2>1. jobs' \in Seq(Agents \cup {Driver}) /\ parked' \in BOOLEAN
    BY <1>3, AppendProperties DEF TimeOut, TypeOK
  <2>2. UNCHANGED <<runState, due, live, timer, pending, running, late>>
    BY <1>3 DEF TimeOut
  <2> QED BY <2>1, <2>2 DEF TypeOK
<1>4. CASE Tick
  <2>1. timer' \in 0 .. MaxIdle
    BY <1>4 DEF Tick, TypeOK
  <2> QED BY <1>4, <2>1 DEF Tick, TypeOK, AtLeast
<1>5. CASE StopLoop
  BY <1>5, ResolvedTyped DEF StopLoop, Wake, TypeOK
<1>6. ASSUME NEW a \in Agents, NEW delay \in Delays, Submit(a, delay) PROVE TypeOK'
  <2>1. PushedOut(due[a], delay) \in Nat
    BY DEF PushedOut, AtLeast, TypeOK
  <2> QED BY <1>6, <2>1, ResolvedTyped DEF Submit, Wake, TypeOK
<1>7. ASSUME NEW a \in Agents, RunEnds(a) PROVE TypeOK'
  <2>1. due' \in [Agents -> Nat \cup {Never}]
    BY <1>7 DEF RunEnds, TypeOK
  <2>2. Append(Resolved, a) \in Seq(Agents \cup {Driver})
    BY ResolvedTyped, AppendProperties
  <2>3. /\ jobs' \in Seq(Agents \cup {Driver})
        /\ parked' \in BOOLEAN /\ pending' \in BOOLEAN /\ timer' \in 0 .. MaxIdle
    BY <1>7, <2>2 DEF RunEnds, Wake, TypeOK
  <2> QED BY <1>7, <2>1, <2>3 DEF RunEnds, TypeOK
<1>8. ASSUME NEW a \in Agents, NEW clearQueue \in BOOLEAN, Stop(a, clearQueue) PROVE TypeOK'
  BY <1>8 DEF Stop, TypeOK
<1>9. CASE UNCHANGED vars
  BY <1>9 DEF vars, TypeOK
<1> QED BY <1>1, <1>2, <1>3, <1>4, <1>5, <1>6, <1>7, <1>8, <1>9 DEF Next, LoopStep

\* Every variable of the loop stays in its range (TypeOK): the timer in particular never
\* exceeds MAX_IDLE_MS.
THEOREM LoopTypeCorrect == Spec => []TypeOK
<1> QED BY InitTyped, NextTyped, PTL DEF Spec

-----------------------------------------------------------------------------
\* The queue.  The loop's continuation is in it at most once and not while the loop is
\* parked; while the flag is down nothing comes after it.
DriverOnce ==
  \A i, j \in 1 .. Len(jobs) : jobs[i] = Driver /\ jobs[j] = Driver => i = j

ParkedIsQuiet == parked => jobs = <<>>

FlagGuardsTail ==
  ~pending => \A i \in 1 .. Len(jobs) : jobs[i] = Driver => i = Len(jobs)

Queue == DriverOnce /\ ParkedIsQuiet /\ FlagGuardsTail

\* The loop at the head of the queue with the flag down is alone in it.
LEMMA ParksAlone ==
  ASSUME TypeOK, Queue, jobs # <<>>, Head(jobs) = Driver, ~pending
  PROVE  Tail(jobs) = <<>>
<1>1. 1 \in 1 .. Len(jobs) /\ jobs[1] = Driver
  BY DEF TypeOK
<1>2. Len(jobs) = 1
  BY <1>1 DEF Queue, FlagGuardsTail
<1>3. Tail(jobs) \in Seq(Agents \cup {Driver}) /\ Len(Tail(jobs)) = 0
  BY <1>2, HeadTailProperties DEF TypeOK
<1> QED BY <1>3, EmptySeq

LEMMA QueueKept == TypeOK /\ Queue /\ [Next]_vars => Queue'
<1> SUFFICES ASSUME TypeOK, Queue, [Next]_vars PROVE Queue'
  OBVIOUS
<1> DEFINE J == Agents \cup {Driver}
<1>1. jobs \in Seq(J) /\ Len(jobs) \in Nat
  BY DEF TypeOK
<1>2. ASSUME jobs # <<>>
      PROVE  /\ Tail(jobs) \in Seq(J) /\ Len(Tail(jobs)) = Len(jobs) - 1
             /\ \A i \in 1 .. Len(Tail(jobs)) : i + 1 \in 1 .. Len(jobs) /\ Tail(jobs)[i] = jobs[i + 1]
             /\ 1 \in 1 .. Len(jobs) /\ Head(jobs) = jobs[1]
  BY <1>1, <1>2, HeadTailProperties
<1>3. ASSUME jobs # <<>>, Head(jobs) = Driver
      PROVE  \A i \in 1 .. Len(Tail(jobs)) : Tail(jobs)[i] # Driver
  BY <1>1, <1>2, <1>3 DEF Queue, DriverOnce
<1>4. ASSUME jobs # <<>>, jobs' = Tail(jobs) PROVE DriverOnce'
  BY <1>1, <1>2, <1>4 DEF Queue, DriverOnce
<1>5. ASSUME jobs # <<>>, jobs' = Tail(jobs), UNCHANGED pending PROVE FlagGuardsTail'
  BY <1>1, <1>2, <1>5 DEF Queue, FlagGuardsTail
<1>6. CASE Iterate
  <2>1. jobs # <<>> /\ Head(jobs) = Driver /\ WaitForWork(LoopWait)
    BY <1>6 DEF Iterate
  <2>2. CASE pending /\ pending' = FALSE /\ jobs' = Append(Tail(jobs), Driver) /\ UNCHANGED parked
    <3>1. ~parked
      BY <2>1 DEF Queue, ParkedIsQuiet
    <3>2. /\ Len(jobs') = Len(Tail(jobs)) + 1
          /\ \A i \in 1 .. Len(Tail(jobs)) : jobs'[i] = Tail(jobs)[i]
      BY <2>1, <2>2, <1>2, AppendProperties
    <3>3. \A i \in 1 .. Len(jobs') : jobs'[i] = Driver => i = Len(jobs')
      BY <3>2, <2>1, <1>1, <1>2, <1>3
    <3> QED BY <3>1, <3>3, <2>2 DEF Queue, DriverOnce, ParkedIsQuiet, FlagGuardsTail
  <2>3. CASE ~pending /\ jobs' = Tail(jobs) /\ UNCHANGED pending
    <3>1. jobs' = <<>>
      BY <2>1, <2>3, ParksAlone
    <3> QED BY <3>1 DEF Queue, DriverOnce, ParkedIsQuiet, FlagGuardsTail
  <2> QED BY <2>1, <2>2, <2>3, Zenon DEF WaitForWork
<1>7. CASE LeaveLoop \/ Forget
  <2>1. jobs # <<>> /\ jobs' = Tail(jobs) /\ UNCHANGED <<pending, parked>>
    BY <1>7 DEF LeaveLoop, Forget
  <2> QED BY <2>1, <1>4, <1>5 DEF Queue, ParkedIsQuiet
<1>8. ASSUME parked
      PROVE  Append(jobs, Driver) = <<Driver>>
  BY <1>8 DEF Queue, ParkedIsQuiet
<1>9. CASE TimeOut
  <2>1. jobs' = <<Driver>> /\ ~parked'
    BY <1>8, <1>9 DEF TimeOut
  <2> QED BY <2>1 DEF Queue, DriverOnce, ParkedIsQuiet, FlagGuardsTail
<1>10. Resolved \in Seq(J) /\ \A i, j \in 1 .. Len(Resolved) :
         Resolved[i] = Driver /\ Resolved[j] = Driver => i = j
  <2>1. CASE parked
    <3>1. Resolved = <<Driver>>
      BY <1>8, <2>1 DEF Resolved
    <3>2. <<Driver>> \in Seq(J)
      OBVIOUS
    <3>3. \A i, j \in 1 .. Len(<<Driver>>) : i = j
      OBVIOUS
    <3> QED BY <3>1, <3>2, <3>3
  <2>2. CASE ~parked
    BY <1>1, <2>2 DEF Resolved, Queue, DriverOnce
  <2> QED BY <2>1, <2>2
<1>11. ASSUME Wake(Resolved) PROVE Queue'
  BY <1>10, <1>11 DEF Wake, Queue, DriverOnce, ParkedIsQuiet, FlagGuardsTail
<1>12. ASSUME NEW a \in Agents, Wake(Append(Resolved, a)) PROVE Queue'
  <2> DEFINE q == Append(Resolved, a)
  <2>1. /\ Len(q) = Len(Resolved) + 1 /\ q[Len(Resolved) + 1] = a
        /\ \A i \in 1 .. Len(Resolved) : q[i] = Resolved[i]
        /\ Len(Resolved) \in Nat
    BY <1>10, AppendProperties
  <2>2. a # Driver
    BY ConstantsAssumption
  <2>3. \A i, j \in 1 .. Len(q) : q[i] = Driver /\ q[j] = Driver => i = j
    <3> HIDE DEF q
    <3>1. \A i \in 1 .. Len(q) : i \in 1 .. Len(Resolved) \/ i = Len(Resolved) + 1
      BY <2>1
    <3> QED BY <1>10, <2>1, <2>2, <3>1
  <2> QED BY <2>3, <1>12 DEF Wake, Queue, DriverOnce, ParkedIsQuiet, FlagGuardsTail
<1>13. CASE UNCHANGED <<jobs, parked, pending>>
  BY <1>13 DEF Queue, DriverOnce, ParkedIsQuiet, FlagGuardsTail
<1>14. CASE Tick \/ UNCHANGED vars
  BY <1>13, <1>14 DEF Tick, vars
<1>15. CASE StopLoop
  BY <1>11, <1>15 DEF StopLoop
<1>16. ASSUME NEW a \in Agents, NEW delay \in Delays, Submit(a, delay) PROVE Queue'
  BY <1>11, <1>16 DEF Submit
<1>17. ASSUME NEW a \in Agents, RunEnds(a) PROVE Queue'
  BY <1>12, <1>17 DEF RunEnds
<1>18. ASSUME NEW a \in Agents, NEW clearQueue \in BOOLEAN, Stop(a, clearQueue) PROVE Queue'
  BY <1>13, <1>18 DEF Stop
<1> QED
  BY <1>6, <1>7, <1>9, <1>14, <1>15, <1>16, <1>17, <1>18 DEF Next, LoopStep

LEMMA InitQueue == Init => Queue
BY DEF Init, Queue, DriverOnce, ParkedIsQuiet, FlagGuardsTail

-----------------------------------------------------------------------------
\* Once shutdown() has cleared workerLoopRunning the loop is not asleep: the wake-up
\* frees it, and a cleared loop does not park again.
THEOREM ShutdownNoticed == Spec => []StopIsNoticed
<1>1. Init => StopIsNoticed
  BY DEF Init, StopIsNoticed
<1>2. StopIsNoticed /\ [Next]_vars => StopIsNoticed'
  <2> SUFFICES ASSUME StopIsNoticed, [Next]_vars PROVE StopIsNoticed'
    OBVIOUS
  <2>1. CASE Iterate
    BY <2>1 DEF Iterate, StopIsNoticed
  <2>2. CASE LeaveLoop \/ Forget \/ Tick \/ UNCHANGED vars
    BY <2>2, Zenon DEF LeaveLoop, Forget, Tick, vars, StopIsNoticed
  <2>3. CASE TimeOut \/ StopLoop
    BY <2>3, Zenon DEF TimeOut, StopLoop, Wake, StopIsNoticed
  <2>4. ASSUME NEW a \in Agents, NEW delay \in Delays, Submit(a, delay) PROVE StopIsNoticed'
    BY <2>4, Zenon DEF Submit, Wake, StopIsNoticed
  <2>5. ASSUME NEW a \in Agents, RunEnds(a) PROVE StopIsNoticed'
    BY <2>5, Zenon DEF RunEnds, Wake, StopIsNoticed
  <2>6. ASSUME NEW a \in Agents, NEW clearQueue \in BOOLEAN, Stop(a, clearQueue)
        PROVE  StopIsNoticed'
    BY <2>6, Zenon DEF Stop, StopIsNoticed
  <2> QED BY <2>1, <2>2, <2>3, <2>4, <2>5, <2>6 DEF Next, LoopStep
<1> QED BY <1>1, <1>2, PTL DEF Spec

-----------------------------------------------------------------------------
\* A row marked 'running' that no earlier process left behind has a run.
RunningIsLive == \A a \in Agents \ Inherited : runState[a] # "idle" => a \in live

\* What SleepsNoLongerThanDue rests on.
Sleep == TypeOK /\ Queue /\ RunningIsLive /\ SleepsNoLongerThanDue

\* A change that leaves the loop awake cannot make it oversleep.
LEMMA AwakeSleepsWell == ~parked' => SleepsNoLongerThanDue'
BY Zenon DEF SleepsNoLongerThanDue

LEMMA RunningIsLiveKept == TypeOK /\ RunningIsLive /\ [Next]_vars => RunningIsLive'
<1> SUFFICES ASSUME TypeOK, RunningIsLive, [Next]_vars PROVE RunningIsLive'
  OBVIOUS
<1>1. CASE Iterate
  BY <1>1 DEF Iterate, RunningIsLive, Claimable
<1>2. CASE LeaveLoop \/ Forget \/ TimeOut \/ Tick \/ StopLoop \/ UNCHANGED vars
  BY <1>2 DEF LeaveLoop, Forget, TimeOut, Tick, StopLoop, vars, RunningIsLive
<1>3. ASSUME NEW a \in Agents, NEW delay \in Delays, Submit(a, delay) PROVE RunningIsLive'
  BY <1>3 DEF Submit, RunningIsLive
<1>4. ASSUME NEW a \in Agents, RunEnds(a) PROVE RunningIsLive'
  BY <1>4 DEF RunEnds, RunningIsLive, TypeOK
<1>5. ASSUME NEW a \in Agents, NEW clearQueue \in BOOLEAN, Stop(a, clearQueue)
      PROVE  RunningIsLive'
  BY <1>5 DEF Stop, RunningIsLive, TypeOK
<1> QED BY <1>1, <1>2, <1>3, <1>4, <1>5 DEF Next, LoopStep

\* No wake-up is lost: unless a run is in flight the loop never sleeps past the
\* next_run_at of an idle agent whose claim this process made itself
\* (SleepsNoLongerThanDue).
THEOREM NoOversleep == Spec => []SleepsNoLongerThanDue
<1>1. Init => Sleep
  BY InitTyped, InitQueue DEF Init, Sleep, RunningIsLive, SleepsNoLongerThanDue
<1>2. Sleep /\ [Next]_vars => Sleep'
  <2> SUFFICES ASSUME Sleep, [Next]_vars PROVE SleepsNoLongerThanDue'
    BY NextTyped, QueueKept, RunningIsLiveKept DEF Sleep
  <2>1. TypeOK /\ TypeOK'
    BY NextTyped DEF Sleep
  <2>2. CASE Iterate
    <3>1. SUFFICES ASSUME parked', Inflight' = {} PROVE SleepsNoLongerThanDue'
      BY DEF SleepsNoLongerThanDue
    <3>2. jobs # <<>> /\ Head(jobs) = Driver /\ WaitForWork(LoopWait)
      BY <2>2 DEF Iterate
    <3>3. ~pending /\ timer' = LoopWait /\ jobs' = Tail(jobs)
      BY <3>1, <3>2, Zenon DEF WaitForWork, Sleep, Queue, ParkedIsQuiet
    <3>4. Tail(jobs) = <<>>
      BY <3>2, <3>3, ParksAlone DEF Sleep
    <3>5. \A i \in 1 .. Len(jobs) : jobs[i] = Driver
      <4>1. jobs \in Seq(Agents \cup {Driver}) /\ Len(jobs) \in Nat /\ Head(jobs) = jobs[1]
        BY <2>1, <3>2, HeadTailProperties DEF TypeOK
      <4>2. Len(Tail(jobs)) = Len(jobs) - 1 /\ Len(Tail(jobs)) = 0
        BY <3>2, <3>4, <4>1, HeadTailProperties
      <4>3. Len(jobs) = 1
        BY <4>1, <4>2
      <4>4. jobs[1] = Driver
        BY <3>2, <4>1, Zenon
      <4> QED BY <4>3, <4>4
    <3>6. Inflight \cup Claimable = {}
      BY <2>2, <3>1, <3>5, ConstantsAssumption DEF Inflight, Settled, Iterate
    <3>7. runState' = runState /\ due' = due
      BY <2>1, <2>2, <3>6 DEF Iterate, TypeOK
    <3>8. Scheduled' = Scheduled
      BY <3>7 DEF Scheduled
    <3>9. timer' = SoonestWait
      BY <3>3, <3>6 DEF LoopWait
    <3> QED BY <2>1, <3>7, <3>8, <3>9, SoonestWaitBounds DEF SleepsNoLongerThanDue
  <2>3. CASE LeaveLoop \/ Forget
    <3>1. jobs # <<>> /\ UNCHANGED parked
      BY <2>3 DEF LeaveLoop, Forget
    <3>2. ~parked'
      BY <3>1 DEF Sleep, Queue, ParkedIsQuiet
    <3> QED BY <3>2, AwakeSleepsWell
  <2>4. CASE TimeOut
    BY <2>4, AwakeSleepsWell, Zenon DEF TimeOut
  <2>5. CASE Tick
    <3>1. SUFFICES ASSUME parked', Inflight' = {}, NEW a \in Scheduled' \ Inherited
                   PROVE  timer' <= AtLeast(1, due'[a])
      BY DEF SleepsNoLongerThanDue
    <3>2. parked /\ Inflight = {} /\ timer > 0 /\ timer' = timer - 1
      BY <2>5, <3>1 DEF Tick, Inflight, Settled
    <3>3. a \in Scheduled /\ due'[a] = AtLeast(0, due[a] - 1)
      BY <2>1, <2>5, <3>1, ConstantsAssumption DEF Tick, Scheduled, TypeOK
    <3>4. timer <= AtLeast(1, due[a])
      BY <3>2, <3>3 DEF Sleep, SleepsNoLongerThanDue
    <3>5. due[a] \in Nat /\ timer \in Nat
      BY <2>1, <3>3, ConstantsAssumption DEF TypeOK, Scheduled
    <3> QED BY <3>2, <3>3, <3>4, <3>5 DEF AtLeast
  <2>6. CASE StopLoop
    BY <2>6, AwakeSleepsWell, Zenon DEF StopLoop, Wake
  <2>7. ASSUME NEW a \in Agents, NEW delay \in Delays, Submit(a, delay)
        PROVE  SleepsNoLongerThanDue'
    BY <2>7, AwakeSleepsWell, Zenon DEF Submit, Wake
  <2>8. ASSUME NEW a \in Agents, RunEnds(a) PROVE SleepsNoLongerThanDue'
    BY <2>8, AwakeSleepsWell, Zenon DEF RunEnds, Wake
  <2>9. ASSUME NEW a \in Agents, NEW clearQueue \in BOOLEAN, Stop(a, clearQueue)
        PROVE  SleepsNoLongerThanDue'
    <3>1. SUFFICES ASSUME parked', Inflight' = {}, NEW b \in Scheduled' \ Inherited
                   PROVE  timer' <= AtLeast(1, due'[b])
      BY DEF SleepsNoLongerThanDue
    <3>2. parked /\ Inflight = {} /\ timer' = timer
      BY <2>9, <3>1 DEF Stop, Inflight, Settled
    <3>3. runState[b] = "idle"
      BY <3>1, <3>2 DEF Sleep, RunningIsLive, Inflight, Scheduled
    <3>4. due'[b] = due[b] /\ b \in Scheduled
      BY <2>1, <2>9, <3>1, <3>3 DEF Stop, Scheduled, TypeOK
    <3> QED BY <3>2, <3>4 DEF Sleep, SleepsNoLongerThanDue
  <2>10. CASE UNCHANGED vars
    BY <2>10 DEF vars, Sleep, SleepsNoLongerThanDue, Inflight, Settled, Scheduled
  <2> QED BY <2>2, <2>3, <2>4, <2>5, <2>6, <2>7, <2>8, <2>9, <2>10 DEF Next, LoopStep
<1>3. Sleep => SleepsNoLongerThanDue
  BY DEF Sleep
<1> QED BY <1>1, <1>2, <1>3, PTL DEF Spec

-----------------------------------------------------------------------------
\* What WaitIsBounded rests on: an agent that waits for a sleeping loop waits no longer
\* than the rest of the loop's sleep, and a loop that is not asleep has its continuation
\* in the queue.
WaitFits == \A a \in Agents : late[a] <= MaxIdle
SleepFits == parked => \A a \in Claimable : late[a] + timer <= MaxIdle
BusyIsNotLate ==
  /\ \A a \in Agents : runState[a] = "stale" => late[a] = 0
  /\ \A a \in Agents : runState[a] = "running" => a \in live
AwakeIsReady == running /\ ~parked => \E i \in 1 .. Len(jobs) : jobs[i] = Driver

LEMMA AwakeIsReadyKept ==
  ASSUME TypeOK, AwakeIsReady, [Next]_vars
  PROVE  AwakeIsReady'
<1> DEFINE J == Agents \cup {Driver}
<1>1. ASSUME NEW q \in Seq(J), NEW e \in J
      PROVE  /\ Append(q, e)[Len(Append(q, e))] = e
             /\ Len(Append(q, e)) \in 1 .. Len(Append(q, e))
             /\ \A i \in 1 .. Len(q) : i \in 1 .. Len(Append(q, e)) /\ Append(q, e)[i] = q[i]
  BY AppendProperties
<1>2. Driver \in J /\ jobs \in Seq(J)
  BY DEF TypeOK
<1>3. running /\ ~parked => \E i \in 1 .. Len(jobs) : jobs[i] = Driver
  BY DEF AwakeIsReady
<1>4. running => \E i \in 1 .. Len(Resolved) : Resolved[i] = Driver
  <2>1. CASE parked
    <3>1. Resolved = Append(jobs, Driver)
      BY <2>1 DEF Resolved
    <3> QED BY <1>1, <1>2, <3>1
  <2>2. CASE ~parked
    BY <1>3, <2>2 DEF Resolved
  <2> QED BY <2>1, <2>2
<1>5. CASE Iterate
  <2>1. Tail(jobs) \in Seq(J)
    BY <1>5, HeadTyped DEF Iterate
  <2>2. parked' \/ jobs' = Append(Tail(jobs), Driver)
    BY <1>5, Zenon DEF Iterate, WaitForWork
  <2>3. ASSUME jobs' = Append(Tail(jobs), Driver)
        PROVE  \E i \in 1 .. Len(jobs') : jobs'[i] = Driver
    BY <1>1, <1>2, <2>1, <2>3
  <2> QED BY <2>2, <2>3, Zenon DEF AwakeIsReady
<1>6. CASE LeaveLoop
  BY <1>6, Zenon DEF LeaveLoop, AwakeIsReady
<1>7. CASE Forget
  <2>1. SUFFICES ASSUME running, ~parked PROVE \E i \in 1 .. Len(jobs') : jobs'[i] = Driver
    BY <1>7, Zenon DEF Forget, AwakeIsReady
  <2>2. PICK i \in 1 .. Len(jobs) : jobs[i] = Driver
    BY <1>3, <2>1
  <2>3. i # 1
    BY <1>7, <1>2, <2>2, HeadTailProperties, ConstantsAssumption DEF Forget
  <2>4. i - 1 \in 1 .. Len(Tail(jobs)) /\ Tail(jobs)[i - 1] = jobs[i]
    BY <1>7, <1>2, <2>2, <2>3, HeadTailProperties DEF Forget
  <2> QED BY <1>7, <2>2, <2>4 DEF Forget
<1>8. CASE TimeOut
  <2>1. \E i \in 1 .. Len(jobs') : jobs'[i] = Driver
    BY <1>1, <1>2, <1>8 DEF TimeOut
  <2> QED BY <2>1, Zenon DEF AwakeIsReady
<1>9. CASE StopLoop
  BY <1>9, Zenon DEF StopLoop, AwakeIsReady
<1>10. ASSUME UNCHANGED <<running, parked, jobs>> PROVE AwakeIsReady'
  BY <1>10 DEF AwakeIsReady
<1>11. CASE Tick \/ UNCHANGED vars
  BY <1>10, <1>11 DEF Tick, vars
<1>12. ASSUME NEW a \in Agents, NEW delay \in Delays, Submit(a, delay) PROVE AwakeIsReady'
  BY <1>4, <1>12 DEF Submit, Wake, AwakeIsReady
<1>13. ASSUME NEW a \in Agents, RunEnds(a) PROVE AwakeIsReady'
  <2>1. jobs' = Append(Resolved, a) /\ running' = running
    BY <1>13 DEF RunEnds, Wake
  <2> QED BY <1>1, <1>4, <2>1, ResolvedTyped DEF AwakeIsReady
<1>14. ASSUME NEW a \in Agents, NEW clearQueue \in BOOLEAN, Stop(a, clearQueue)
       PROVE  AwakeIsReady'
  BY <1>10, <1>14 DEF Stop
<1> QED
  BY <1>5, <1>6, <1>7, <1>8, <1>9, <1>11, <1>12, <1>13, <1>14 DEF Next, LoopStep

LEMMA BusyIsNotLateKept ==
  ASSUME TypeOK, BusyIsNotLate, [Next]_vars
  PROVE  BusyIsNotLate'
<1>1. CASE Iterate
  BY <1>1 DEF Iterate, BusyIsNotLate, Claimable
<1>2. CASE LeaveLoop \/ Forget \/ TimeOut \/ StopLoop \/ UNCHANGED vars
  BY <1>2 DEF LeaveLoop, Forget, TimeOut, StopLoop, vars, BusyIsNotLate
<1>3. CASE Tick
  BY <1>3 DEF Tick, Claimable, BusyIsNotLate
<1>4. ASSUME NEW a \in Agents, NEW delay \in Delays, Submit(a, delay) PROVE BusyIsNotLate'
  BY <1>4 DEF Submit, BusyIsNotLate
<1>5. ASSUME NEW a \in Agents, RunEnds(a) PROVE BusyIsNotLate'
  BY <1>5 DEF RunEnds, BusyIsNotLate, TypeOK
<1>6. ASSUME NEW a \in Agents, NEW clearQueue \in BOOLEAN, Stop(a, clearQueue)
      PROVE  BusyIsNotLate'
  BY <1>6 DEF Stop, BusyIsNotLate, TypeOK
<1> QED BY <1>1, <1>2, <1>3, <1>4, <1>5, <1>6 DEF Next, LoopStep

\* Whatever callers, runs and stop requests do, the safety poll claims an agent within
\* MAX_IDLE_MS of its becoming due.
THEOREM PollBoundsWait == Spec => []WaitIsBounded
<1> DEFINE IInv == TypeOK /\ Queue /\ AwakeIsReady /\ BusyIsNotLate /\ WaitFits /\ SleepFits
<1>1. Init => IInv
  <2> SUFFICES ASSUME Init PROVE IInv
    OBVIOUS
  <2>1. AwakeIsReady
    BY DEF Init, AwakeIsReady
  <2>2. BusyIsNotLate /\ WaitFits /\ SleepFits
    BY ConstantsAssumption DEF Init, BusyIsNotLate, WaitFits, SleepFits
  <2> QED BY InitTyped, InitQueue, <2>1, <2>2
<1>2. IInv /\ [Next]_vars => IInv'
  <2> SUFFICES ASSUME IInv, [Next]_vars PROVE WaitFits' /\ SleepFits'
    BY NextTyped, QueueKept, AwakeIsReadyKept, BusyIsNotLateKept
  <2>1. TypeOK /\ TypeOK' /\ Queue /\ AwakeIsReady /\ BusyIsNotLate /\ WaitFits /\ SleepFits
    BY NextTyped
  <2> HIDE DEF IInv
  <2>2. ASSUME late' = late, ~parked' PROVE WaitFits' /\ SleepFits'
    BY <2>1, <2>2, Zenon DEF WaitFits, SleepFits
  <2>3. CASE Iterate
    <3>1. WaitFits'
      BY <2>1, <2>3, ConstantsAssumption DEF Iterate, WaitFits
    <3>2. Claimable' = {}
      BY <2>1, <2>3 DEF Iterate, Claimable, TypeOK
    <3> QED BY <3>1, <3>2 DEF SleepFits
  <2>4. CASE LeaveLoop \/ Forget \/ UNCHANGED vars
    BY <2>1, <2>4 DEF LeaveLoop, Forget, vars, WaitFits, SleepFits, Claimable
  <2>5. CASE TimeOut \/ StopLoop
    BY <2>2, <2>5, Zenon DEF TimeOut, StopLoop, Wake
  <2>6. CASE Tick
    <3>1. ASSUME NEW a \in Agents, running, a \in Claimable
          PROVE  parked /\ timer' = timer - 1 /\ late'[a] = late[a] + 1 /\ late[a] + timer <= MaxIdle
                 /\ timer > 0
      <4>1. parked
        BY <2>1, <2>6, <3>1 DEF Tick, AwakeIsReady
      <4> QED BY <2>1, <2>6, <3>1, <4>1 DEF Tick, SleepFits
    <3>2. ASSUME NEW a \in Agents, ~(running /\ a \in Claimable)
          PROVE  late'[a] = 0
      BY <2>6, <3>2 DEF Tick
    <3>3. WaitFits'
      <4> SUFFICES ASSUME NEW a \in Agents PROVE late'[a] <= MaxIdle
        BY DEF WaitFits
      <4>1. late[a] \in Nat /\ timer \in Nat /\ timer' \in 0 .. MaxIdle /\ MaxIdle \in Nat
        BY <2>1, ConstantsAssumption DEF TypeOK
      <4>2. CASE running /\ a \in Claimable
        BY <3>1, <4>1, <4>2
      <4>3. CASE ~(running /\ a \in Claimable)
        BY <3>2, <4>1, <4>3
      <4> QED BY <4>2, <4>3
    <3>4. SleepFits'
      <4> SUFFICES ASSUME NEW a \in Agents PROVE late'[a] + timer' <= MaxIdle
        BY DEF SleepFits, Claimable
      <4>1. late[a] \in Nat /\ timer \in Nat /\ timer' \in 0 .. MaxIdle /\ MaxIdle \in Nat
        BY <2>1, ConstantsAssumption DEF TypeOK
      <4>2. CASE running /\ a \in Claimable
        BY <3>1, <4>1, <4>2
      <4>3. CASE ~(running /\ a \in Claimable)
        BY <3>2, <4>1, <4>3
      <4> QED BY <4>2, <4>3
    <3> QED BY <3>3, <3>4
  <2>7. ASSUME NEW a \in Agents, NEW delay \in Delays, Submit(a, delay)
        PROVE  WaitFits' /\ SleepFits'
    BY <2>2, <2>7, Zenon DEF Submit, Wake
  <2>8. ASSUME NEW a \in Agents, RunEnds(a) PROVE WaitFits' /\ SleepFits'
    BY <2>2, <2>8, Zenon DEF RunEnds, Wake
  <2>9. ASSUME NEW a \in Agents, NEW clearQueue \in BOOLEAN, Stop(a, clearQueue)
        PROVE  WaitFits' /\ SleepFits'
    <3>1. WaitFits'
      BY <2>1, <2>9 DEF Stop, WaitFits
    <3>2. SUFFICES ASSUME parked', NEW b \in Claimable' PROVE late'[b] + timer' <= MaxIdle
      BY <3>1 DEF SleepFits
    <3>3. parked /\ late' = late /\ timer' = timer /\ b \in Agents
      BY <2>9, <3>2 DEF Stop, Claimable
    <3>4. CASE runState[b] = "idle"
      <4>1. b \in Claimable
        BY <2>1, <2>9, <3>2, <3>4, ConstantsAssumption DEF Stop, Claimable, TypeOK
      <4> QED BY <2>1, <3>3, <4>1 DEF SleepFits
    <3>5. CASE runState[b] = "stale"
      BY <2>1, <3>3, <3>5, ConstantsAssumption DEF BusyIsNotLate, TypeOK
    <3>6. CASE runState[b] = "running"
      BY <2>1, <2>9, <3>2, <3>3, <3>6 DEF BusyIsNotLate, Stop, Claimable, TypeOK
    <3> QED BY <2>1, <3>3, <3>4, <3>5, <3>6 DEF TypeOK
  <2> QED BY <2>3, <2>4, <2>5, <2>6, <2>7, <2>8, <2>9 DEF Next, LoopStep
<1>3. IInv => WaitIsBounded
  BY DEF WaitFits, WaitIsBounded
<1> QED BY <1>1, <1>2, <1>3, PTL DEF Spec

-----------------------------------------------------------------------------
\* Migrations.

MigrationsSpec == MigrationsInit /\ [][MigrationsNext]_migrationVars

\* A start goes through files there are, and applies what is not recorded, so each name
\* that is appended to the schema is new to it.
MigrationsInv == MigrationsTypeOK /\ EachOnce

LEMMA MigrationsKept == MigrationsInv /\ [MigrationsNext]_migrationVars => MigrationsInv'
<1> SUFFICES ASSUME MigrationsInv, [MigrationsNext]_migrationVars PROVE MigrationsInv'
  OBVIOUS
<1> USE DEF MigrationsInv
<1>1. ASSUME NEW root \in MigrationRoots, NEW name \in Names, Adds(root, name) PROVE MigrationsInv'
  BY <1>1 DEF Adds, MigrationsTypeOK, EachOnce
<1>2. ASSUME NEW p \in Starters, Starts(p) PROVE MigrationsInv'
  BY <1>2 DEF Starts, MigrationsTypeOK, EachOnce
<1>3. ASSUME NEW p \in Starters, Fails(p) PROVE MigrationsInv'
  BY <1>3 DEF Fails, MigrationsTypeOK, EachOnce
<1>4. ASSUME NEW p \in Starters, Applies(p) PROVE MigrationsInv'
  <2>1. PICK f \in todo[p] :
          IF f[2] \in recorded THEN Fails(p)
          ELSE /\ recorded' = Recorded(f[2], p) /\ schema' = Append(schema, f[2])
               /\ todo' = [todo EXCEPT ![p] = @ \ {f}]
               /\ UNCHANGED <<source, stage, added>>
    BY <1>4 DEF Applies
  <2>2. CASE f[2] \in recorded
    BY <2>1, <2>2, <1>3
  <2>3. CASE f[2] \notin recorded
    <3>1. f[2] \in Names
      BY DEF MigrationsTypeOK
    <3>2. PICK n : n = f[2]
      OBVIOUS
    <3>3. n \in Names /\ n \notin recorded /\ recorded' = recorded \cup {n} /\ schema' = Append(schema, n)
      BY <2>1, <2>3, <3>1, <3>2 DEF Recorded
    <3>4. MigrationsTypeOK'
      <4>1. schema' \in Seq(Names)
        BY <3>3 DEF MigrationsTypeOK
      <4>2. todo' \in [Starters -> SUBSET (MigrationRoots \X Names)]
        BY <2>1, <2>3 DEF MigrationsTypeOK
      <4> QED BY <2>1, <2>3, <3>3, <4>1, <4>2 DEF MigrationsTypeOK
    <3>5. EachOnce'
      <4>1. /\ DOMAIN schema' = DOMAIN schema \cup {Len(schema) + 1} /\ schema'[Len(schema) + 1] = n
            /\ \A i \in DOMAIN schema : schema'[i] = schema[i] /\ schema[i] \in recorded
        BY <3>3 DEF MigrationsTypeOK, EachOnce
      <4>2. \A i, j \in DOMAIN schema' : schema'[i] = schema'[j] => i = j
        BY <3>3, <4>1 DEF EachOnce
      <4>3. recorded' = {schema'[i] : i \in DOMAIN schema'}
        BY <3>3, <4>1 DEF EachOnce
      <4> QED BY <4>2, <4>3 DEF EachOnce
    <3> QED BY <3>4, <3>5
  <2> QED BY <2>2, <2>3
<1>5. ASSUME NEW p \in Starters, Rejected(p) PROVE MigrationsInv'
  BY <1>3, <1>5 DEF Rejected
<1>6. ASSUME NEW p \in Starters, Migrated(p) PROVE MigrationsInv'
  BY <1>6 DEF Migrated, MigrationsTypeOK, EachOnce
<1>7. ASSUME NEW p \in Starters, Ends(p) PROVE MigrationsInv'
  BY <1>7 DEF Ends, MigrationsTypeOK, EachOnce
<1>8. CASE UNCHANGED migrationVars
  BY <1>8 DEF migrationVars, MigrationsTypeOK, EachOnce
<1> QED BY <1>1, <1>2, <1>4, <1>5, <1>6, <1>7, <1>8 DEF MigrationsNext

\* The first release's schema is empty; each migration is applied once and recorded,
\* however many processes start at once and wherever one of them dies.  (migrate.)
THEOREM MigratedOnce == MigrationsSpec => []EachOnce
<1>1. MigrationsInit => MigrationsInv
  <2> SUFFICES ASSUME MigrationsInit PROVE MigrationsInv
    OBVIOUS
  <2>1. schema = <<>> /\ <<>> \in Seq(Names) /\ DOMAIN schema = {} /\ recorded = {}
    BY DEF MigrationsInit
  <2> QED BY <2>1, MigrationsAssumption
     DEF MigrationsInit, MigrationsInv, MigrationsTypeOK, EachOnce, MigrationRoots
<1>2. MigrationsInv => EachOnce
  BY DEF MigrationsInv
<1> QED BY <1>1, <1>2, MigrationsKept, PTL DEF MigrationsSpec

-----------------------------------------------------------------------------
\* Delegated tasks.

DelegationSpec == DelegationInit /\ [][DelegationNext]_delegationVars

\* What an agent was told is said when it is made, before anything can report on it.  The
\* contract of an awaited task is the one its delegation wrote, and only the agent itself
\* reports on it; a fork's copy may name another agent, but nothing awaits a fork.
OwnContract(c) ==
  awaiting[c] # None /\ contract[c].status = "finished" => contract[c].result = Result(c)
IsContract(saved) == \E p, m, s, r : saved = [parent |-> p, mode |-> m, status |-> s, result |-> r]
DelegationShape ==
  /\ made \in Nat /\ DOMAIN contract = Ids /\ DOMAIN told = Ids /\ DOMAIN awaiting = Ids
  /\ DOMAIN outcome = Ids
  /\ \A c \in Ids : contract[c] = None \/ IsContract(contract[c])
  /\ \A c \in Ids : c > made => awaiting[c] = None /\ outcome[c] = None
DelegationInv == DelegationShape /\ (\A c \in Ids : OwnContract(c)) /\ OwnResult

LEMMA DelegateKept ==
  ASSUME DelegationInv, NEW p \in Ids, NEW r \in working[p], NEW order \in Orders,
         NEW forkContext \in BOOLEAN, NEW mode \in {"await", "async"},
         Delegate(p, r, order, forkContext, mode)
  PROVE  DelegationInv'
<1>1. PICK c : c = made + 1
  OBVIOUS
<1>2. c \in Ids /\ made' = c /\ made \in Nat /\ awaiting[c] = None /\ outcome[c] = None
  BY <1>1 DEF Delegate, DelegationInv, DelegationShape, Ids
<1>3. PICK saved : saved = [parent |-> p, mode |-> mode, status |-> "running", result |-> None]
  OBVIOUS
<1>4. /\ contract' = [contract EXCEPT ![c] = saved]
      /\ told' = [told EXCEPT ![c] = BuildDelegatedTaskPrompt(order)]
  BY <1>1, <1>3 DEF Delegate, UpdateScratchpad, Contract
<1>5. \/ /\ awaiting' = [awaiting EXCEPT ![c] = <<p, r>>] /\ outcome' = [outcome EXCEPT ![c] = Open]
      \/ awaiting' = awaiting /\ outcome' = outcome
  BY <1>1 DEF Delegate
<1>6. \A d \in Ids \ {c} : /\ contract'[d] = contract[d] /\ told'[d] = told[d]
                          /\ awaiting'[d] = awaiting[d] /\ outcome'[d] = outcome[d]
  BY <1>4, <1>5 DEF DelegationInv, DelegationShape
<1>7. contract'[c] = saved /\ (outcome'[c] = Open \/ outcome'[c] = None)
  BY <1>2, <1>4, <1>5 DEF DelegationInv, DelegationShape
<1>8. DelegationShape'
  <2>1. /\ DOMAIN contract' = Ids /\ DOMAIN told' = Ids /\ DOMAIN awaiting' = Ids
        /\ DOMAIN outcome' = Ids
    BY <1>4, <1>5 DEF DelegationInv, DelegationShape
  <2>2. \A d \in Ids : contract'[d] = None \/ IsContract(contract'[d])
    <3>1. IsContract(saved)
      BY <1>3 DEF IsContract
    <3> QED BY <3>1, <1>6, <1>7 DEF DelegationInv, DelegationShape
  <2>3. \A d \in Ids : d > made' => awaiting'[d] = None /\ outcome'[d] = None
    BY <1>1, <1>2, <1>6 DEF DelegationInv, DelegationShape, Ids
  <2> QED BY <1>2, <2>1, <2>2, <2>3 DEF DelegationShape, Ids
<1>9. ASSUME NEW d \in Ids PROVE OwnContract(d)'
  <2>1. CASE d = c
    BY <2>1, <1>2, <1>3, <1>7 DEF OwnContract, DelegationInv, DelegationShape
  <2>2. CASE d # c
    BY <2>2, <1>6 DEF OwnContract, DelegationInv, Result
  <2> QED BY <2>1, <2>2
<1>10. OwnResult'
  BY <1>6, <1>7 DEF OwnResult, DelegationInv, Open
<1> QED BY <1>8, <1>9, <1>10 DEF DelegationInv

LEMMA DelegationKept == DelegationInv /\ [DelegationNext]_delegationVars => DelegationInv'
<1> SUFFICES ASSUME DelegationInv, [DelegationNext]_delegationVars PROVE DelegationInv'
  OBVIOUS
<1> USE DEF DelegationInv
<1>1. ASSUME NEW p \in Ids, Fork(p) PROVE DelegationInv'
  <2>1. PICK c : c = made + 1
    OBVIOUS
  <2>2. /\ c \in Ids /\ made' = c /\ made \in Nat /\ awaiting[c] = None /\ outcome[c] = None
        /\ contract' = [contract EXCEPT ![c] = contract[p]]
        /\ UNCHANGED <<told, awaiting, outcome>>
    BY <1>1, <2>1 DEF Fork, DelegationShape, Ids
  <2>3. DelegationShape'
    <3>1. \A d \in Ids : contract'[d] = contract[d] \/ contract'[d] = contract[p]
      BY <2>2 DEF DelegationShape
    <3>2. \A d \in Ids : d > c => awaiting[d] = None /\ outcome[d] = None
      BY <2>1 DEF DelegationShape, Ids
    <3> QED BY <2>2, <3>1, <3>2 DEF DelegationShape, Ids
  <2>4. \A d \in Ids : OwnContract(d)'
    BY <2>2 DEF OwnContract, Result, DelegationShape
  <2>5. OwnResult'
    BY <2>2 DEF OwnResult
  <2> QED BY <2>3, <2>4, <2>5
<1>2. ASSUME NEW a \in Ids, WorkerRuns(a) PROVE DelegationInv'
  BY <1>2 DEF WorkerRuns, DelegationShape, OwnContract, OwnResult, Result
<1>3. ASSUME NEW a \in Ids, NEW r \in working[a], FinishTask(a, r) PROVE DelegationInv'
  <2>1. PICK p, m, s, rr : contract[a] = [parent |-> p, mode |-> m, status |-> s, result |-> rr]
    BY <1>3 DEF FinishTask, DelegationShape, IsContract
  <2>2. PICK saved : saved = [parent |-> p, mode |-> m, status |-> "finished", result |-> Result(a)]
    OBVIOUS
  <2>3. contract' = [contract EXCEPT ![a] = saved] /\ UNCHANGED <<made, told, awaiting, outcome>>
    <3> DEFINE once == [parent |-> p, mode |-> m, status |-> "finished", result |-> rr]
    <3>a. [contract[a] EXCEPT !.status = "finished"] = once
      BY <2>1
    <3>b. [once EXCEPT !.result = Result(a)] = saved
      <4> HIDE DEF Result
      <4> QED BY <2>2
    <3>1. [contract[a] EXCEPT !.status = "finished", !.result = Result(a)] = saved
      BY <3>a, <3>b
    <3> QED BY <1>3, <3>1 DEF FinishTask, UpdateScratchpad
  <2>4. DelegationShape'
    <3>1. IsContract(saved)
      BY <2>2 DEF IsContract
    <3>2. \A c \in Ids : contract'[c] = contract[c] \/ contract'[c] = saved
      BY <2>3 DEF DelegationShape
    <3> QED BY <2>3, <3>1, <3>2 DEF DelegationShape
  <2>5. ASSUME NEW c \in Ids PROVE OwnContract(c)'
    <3>1. Result(c)' = Result(c)
      BY <2>3 DEF Result
    <3>2. CASE c = a
      <4>1. contract'[c] = saved /\ saved.result = Result(c)
        BY <2>2, <2>3, <3>2 DEF DelegationShape
      <4> QED BY <3>1, <4>1 DEF OwnContract
    <3>3. CASE c # a
      BY <2>3, <3>1, <3>3 DEF OwnContract, DelegationShape
    <3> QED BY <3>2, <3>3
  <2>6. OwnResult'
    BY <2>3 DEF OwnResult
  <2> QED BY <2>4, <2>5, <2>6

<1>4. ASSUME Dies PROVE DelegationInv'
  <2>1. DelegationShape'
    <3>1. \A c \in Ids : c > made => awaiting'[c] = None /\ outcome'[c] = None
      BY <1>4, NoneIsNoOutcome DEF Dies, DelegationShape
    <3> QED BY <1>4, <3>1 DEF Dies, DelegationShape
  <2>2. \A c \in Ids : OwnContract(c)'
    BY <1>4 DEF Dies, OwnContract, DelegationShape
  <2>3. OwnResult'
    <3>1. \A c \in Ids : outcome'[c] = Lost \/ outcome'[c] = outcome[c]
      BY <1>4 DEF Dies
    <3> QED BY <1>4, <3>1 DEF Dies, OwnResult, Lost
  <2> QED BY <2>1, <2>2, <2>3
<1>5. ASSUME NEW a \in Ids, NEW failed \in BOOLEAN, TaskEnds(a, failed) PROVE DelegationInv'
  <2>1. /\ awaiting[a] # None /\ UNCHANGED <<made, contract, told>>
        /\ outcome' = [outcome EXCEPT ![a] = Answer(a, failed)]
        /\ awaiting' = [awaiting EXCEPT ![a] = IF outcome'[a] = Open THEN @ ELSE None]
    BY <1>5 DEF TaskEnds
  <2>2. \A c \in Ids : awaiting'[c] = awaiting[c] \/ awaiting'[c] = None
    BY <2>1 DEF DelegationShape
  <2>3. outcome'[a] = Result(a) \/ outcome'[a] = Failed
    BY <2>1 DEF Answer, OwnContract, DelegationShape
  <2>4. \A c \in Ids \ {a} : outcome'[c] = outcome[c]
    BY <2>1 DEF DelegationShape
  <2>5. DelegationShape'
    <3>1. a <= made
      BY <2>1 DEF DelegationShape, Ids
    <3>2. \A c \in Ids : c > made => awaiting'[c] = None /\ outcome'[c] = None
      BY <2>2, <2>4, <3>1 DEF DelegationShape, Ids
    <3> QED BY <2>1, <3>2 DEF DelegationShape
  <2>6. \A c \in Ids : OwnContract(c)'
    BY <2>1, <2>2 DEF OwnContract, Result
  <2>7. OwnResult'
    BY <2>1, <2>3, <2>4 DEF OwnResult, Result, Failed
  <2> QED BY <2>5, <2>6, <2>7
<1>6. ASSUME NEW a \in Ids, NEW failed \in BOOLEAN, AsyncTaskEnds(a, failed) PROVE DelegationInv'
  <2>1. CASE failed
    BY <2>1, <1>4, <1>6 DEF AsyncTaskEnds
  <2>2. CASE ~failed
    BY <2>2, <1>6 DEF AsyncTaskEnds, DelegationShape, OwnContract, OwnResult, Result
  <2> QED BY <2>1, <2>2
<1>7. ASSUME NEW a \in Ids, OwnRunEnds(a) PROVE DelegationInv'
  BY <1>7 DEF OwnRunEnds, DelegationShape, OwnContract, OwnResult, Result
<1>8. CASE UNCHANGED delegationVars
  BY <1>8 DEF delegationVars, DelegationShape, OwnContract, OwnResult, Result
<1> HIDE DEF DelegationInv
<1>9. ASSUME NEW a \in Ids, AnyRunEnds(a) PROVE DelegationInv'
  BY <1>9, <1>5, <1>6, <1>7 DEF AnyRunEnds
<1> QED BY <1>1, <1>2, <1>3, <1>4, <1>8, <1>9, DelegateKept DEF DelegationNext

\* Whatever a parent gets for a task it awaited was reported by the child it made for it,
\* on the task it gave: never by a fork of that child, nor a contract that the child's
\* copied scratchpad held.  (delegateTask, finishTask.)
THEOREM ParentGetsItsAnswer == DelegationSpec => []OwnResult
<1>1. DelegationInit => DelegationInv
  <2> SUFFICES ASSUME DelegationInit PROVE DelegationInv
    OBVIOUS
  <2>1. DelegationShape
    BY DEF DelegationInit, DelegationShape
  <2> QED BY <2>1 DEF DelegationInit, DelegationInv, OwnContract, OwnResult
<1>2. DelegationInv => OwnResult
  BY DEF DelegationInv
<1> QED BY <1>1, <1>2, DelegationKept, PTL DEF DelegationSpec

-----------------------------------------------------------------------------
\* The start.

StartupSpec == StartupInit /\ [][StartupNext]_startupVars

\* The outermost directory whose rules apply.
From == IF repo = 0 THEN Depth ELSE repo

StartupTyped ==
  /\ agents \in [Dirs -> {"none", "readable", "unreadable"}] /\ repo \in 0 .. Depth
  /\ paths \in Seq(Dirs) /\ rules \in Seq(Dirs)

\* The search has found the rules of the directories behind it, outermost first.
Searched ==
  phase \in {"looking", "reading", "ready"} =>
    /\ ahead \in From .. Depth + 1
    /\ \A i \in DOMAIN paths : paths[i] \in From .. ahead - 1
    /\ \A i, j \in DOMAIN paths : i < j => paths[i] < paths[j]
    /\ \A d \in From .. ahead - 1 : d \notin changes =>
         ((\E i \in DOMAIN paths : paths[i] = d) <=> agents[d] # "none")

\* What was read is what was found, as far as the reading has come.
BodiesRead ==
  /\ phase \in {"args", "resolving", "loading", "opening", "discovering"} => paths = <<>>
  /\ phase \in {"args", "resolving", "loading", "opening", "discovering", "looking"} => rules = <<>>
  /\ phase \in {"reading", "ready"} => ahead = Depth + 1
  /\ Len(rules) <= Len(paths) /\ \A i \in DOMAIN rules : rules[i] = paths[i]
  /\ phase = "ready" => Len(rules) = Len(paths)

StartupInv == StartupTyped /\ Searched /\ BodiesRead

LEMMA FromIsADirectory == StartupTyped => From \in 1 .. Depth
BY StartupAssumption DEF StartupTyped, From

LEMMA StartupKept == StartupInv /\ [StartupNext]_startupVars => StartupInv'
<1> SUFFICES ASSUME StartupInv, [StartupNext]_startupVars PROVE StartupInv'
  OBVIOUS
<1>a. From \in 1 .. Depth /\ Depth \in Nat
  BY FromIsADirectory, StartupAssumption DEF StartupInv
<1>1. ASSUME NEW from, NEW to, At(from, to),
             \/ to \notin {"looking", "reading", "ready"}
             \/ from = "looking" /\ to = "reading" /\ ahead \notin Dirs
             \/ from = "reading" /\ to = "ready" /\ Len(rules) = Len(paths),
             to \in {"args", "resolving", "loading", "opening", "discovering"} =>
               from \in {"args", "resolving", "loading", "opening"}
      PROVE  StartupInv'
  <2>1. /\ phase = from /\ phase' = to
        /\ UNCHANGED <<agents, repo, changes, ahead, paths, rules>>
    BY <1>1 DEF At, Goes
  <2>2. StartupTyped'
    BY <2>1 DEF StartupInv, StartupTyped
  <2>3. Searched'
    BY <1>1, <2>1 DEF StartupInv, Searched, From
  <2>4. BodiesRead'
    BY <1>1, <1>a, <2>1 DEF StartupInv, BodiesRead, Searched, Dirs
  <2> QED BY <2>2, <2>3, <2>4 DEF StartupInv
<1>2. CASE Understands
  BY <1>1, <1>2 DEF Understands
<1>3. CASE ResolveWorkspace
  BY <1>1, <1>3 DEF ResolveWorkspace
<1>4. CASE Loads
  <2>1. phase = "loading" /\ phase' = "opening" /\ UNCHANGED <<agents, repo, changes, ahead, paths, rules>>
    BY <1>4 DEF Loads, Goes
  <2> QED BY <2>1 DEF StartupInv, StartupTyped, Searched, BodiesRead
<1>5. CASE LoadFails
  BY <1>1, <1>5 DEF LoadFails
<1>6. CASE Opens
  <2>1. /\ phase = "opening" /\ phase' \in {"serving", "discovering"}
        /\ UNCHANGED <<agents, repo, changes, ahead, paths, rules>>
    BY <1>6 DEF Opens
  <2> QED BY <2>1 DEF StartupInv, StartupTyped, Searched, BodiesRead
<1>7. CASE Discovers
  <2>1. /\ phase = "discovering" /\ phase' = IF GitRoot = 0 THEN "exit 1" ELSE "looking"
        /\ ahead' = GitRoot /\ UNCHANGED <<agents, repo, changes, paths, rules>>
    BY <1>7 DEF Discovers, Goes
  <2>2. GitRoot = 0 \/ GitRoot = From
    BY DEF GitRoot, From
  <2>3. paths = <<>> /\ rules = <<>>
    BY <2>1 DEF StartupInv, BodiesRead
  <2>4. StartupTyped'
    BY <2>1 DEF StartupInv, StartupTyped
  <2>5. Searched'
    <3>1. CASE GitRoot = 0
      BY <2>1, <3>1 DEF Searched
    <3>2. CASE GitRoot # 0
      <4>1. ahead' = From /\ From' = From /\ paths' = <<>> /\ ahead' \in From .. Depth + 1
        BY <1>a, <2>1, <2>2, <2>3, <3>2 DEF From
      <4>2. \A d : d \notin From' .. ahead' - 1
        BY <1>a, <4>1
      <4> QED BY <4>1, <4>2 DEF Searched
    <3> QED BY <3>1, <3>2
  <2>6. BodiesRead'
    <3>1. phase' \notin {"reading", "ready"}
      BY <2>1
    <3>2. Len(rules') <= Len(paths') /\ \A i \in DOMAIN rules' : rules'[i] = paths'[i]
      BY <2>1 DEF StartupInv, BodiesRead
    <3> QED BY <2>1, <2>3, <3>1, <3>2 DEF BodiesRead
  <2> QED BY <2>4, <2>5, <2>6 DEF StartupInv
<1>8. CASE Looks
  <2>1. PICK d : d = ahead
    OBVIOUS
  <2>2. /\ phase = "looking" /\ phase' = "looking" /\ d \in Dirs /\ ahead' = d + 1
        /\ paths' = IF agents[d] = "none" THEN paths ELSE Append(paths, d)
        /\ UNCHANGED <<agents, repo, changes, rules>> /\ rules = <<>>
    BY <1>8, <2>1 DEF Looks, Goes, StartupInv, BodiesRead
  <2>3. d \in From .. Depth /\ From' = From
    BY <1>a, <2>1, <2>2 DEF StartupInv, Searched, Dirs, From
  <2>4. StartupTyped'
    BY <2>2 DEF StartupInv, StartupTyped
  <2>5. Searched'
    <3>1. /\ \A i \in DOMAIN paths : paths[i] \in From .. d - 1
          /\ \A i, j \in DOMAIN paths : i < j => paths[i] < paths[j]
          /\ \A e \in From .. d - 1 : e \notin changes =>
               ((\E i \in DOMAIN paths : paths[i] = e) <=> agents[e] # "none")
      BY <2>1, <2>2 DEF StartupInv, Searched
    <3>2. CASE agents[d] = "none"
      <4>1. \A i \in DOMAIN paths : paths[i] \in From .. d
        BY <1>a, <2>3, <3>1
      <4>2. ASSUME NEW e \in From .. d, e \notin changes
            PROVE  (\E i \in DOMAIN paths : paths[i] = e) <=> agents[e] # "none"
        <5>1. CASE e = d
          BY <1>a, <2>3, <3>1, <3>2, <5>1
        <5>2. CASE e # d
          BY <1>a, <2>3, <3>1, <4>2, <5>2
        <5> QED BY <5>1, <5>2
      <4>3. ahead' - 1 = d /\ ahead' \in From .. Depth + 1 /\ paths' = paths
        BY <1>a, <2>2, <2>3, <3>2
      <4> QED BY <2>2, <2>3, <3>1, <4>1, <4>2, <4>3 DEF Searched
    <3>3. CASE agents[d] # "none"
      <4>1. /\ DOMAIN paths' = DOMAIN paths \cup {Len(paths) + 1} /\ paths'[Len(paths) + 1] = d
            /\ \A i \in DOMAIN paths : paths'[i] = paths[i] /\ i < Len(paths) + 1 /\ i \in Nat
            /\ Len(paths) \in Nat
        BY <2>2, <3>3 DEF StartupInv, StartupTyped
      <4>2. \A i \in DOMAIN paths' : paths'[i] \in From .. d
        BY <1>a, <2>3, <3>1, <4>1
      <4>3. ASSUME NEW i \in DOMAIN paths', NEW j \in DOMAIN paths', i < j PROVE paths'[i] < paths'[j]
        <5>1. i \in DOMAIN paths
          BY <4>1, <4>3
        <5>2. CASE j \in DOMAIN paths
          BY <3>1, <4>1, <4>3, <5>1, <5>2
        <5>3. CASE j = Len(paths) + 1
          BY <1>a, <2>3, <3>1, <4>1, <5>1, <5>3
        <5> QED BY <4>1, <5>2, <5>3
      <4>4. ASSUME NEW e \in From .. d, e \notin changes
            PROVE  (\E i \in DOMAIN paths' : paths'[i] = e) <=> agents[e] # "none"
        <5>1. CASE e = d
          BY <3>3, <4>1, <5>1
        <5>2. CASE e # d
          <6>1. (\E i \in DOMAIN paths' : paths'[i] = e) <=> (\E i \in DOMAIN paths : paths[i] = e)
            BY <4>1, <5>2
          <6> QED BY <1>a, <2>3, <3>1, <4>4, <5>2, <6>1
        <5> QED BY <5>1, <5>2
      <4>5. ahead' - 1 = d /\ ahead' \in From .. Depth + 1
        BY <1>a, <2>2, <2>3
      <4> QED BY <2>2, <2>3, <4>2, <4>3, <4>4, <4>5 DEF Searched
    <3> QED BY <3>2, <3>3
  <2>6. BodiesRead'
    BY <2>2, <2>4 DEF BodiesRead, StartupTyped
  <2> QED BY <2>4, <2>5, <2>6 DEF StartupInv
<1>9. CASE HasLooked
  BY <1>1, <1>9 DEF HasLooked
<1>10. CASE Reads
  <2>1. PICK d : d = paths[Len(rules) + 1]
    OBVIOUS
  <2>2. /\ phase = "reading" /\ Len(rules) < Len(paths)
        /\ \/ rules' = Append(rules, d) /\ phase' = "reading"
           \/ rules' = rules /\ phase' = "exit 1"
        /\ UNCHANGED <<agents, repo, changes, ahead, paths>>
    BY <1>10, <2>1 DEF Reads, Goes
  <2>3. Len(rules) \in Nat /\ Len(paths) \in Nat /\ Len(rules) + 1 \in DOMAIN paths /\ d \in Dirs
    <3>1. paths \in Seq(Dirs) /\ rules \in Seq(Dirs)
      BY DEF StartupInv, StartupTyped
    <3>2. Len(rules) \in Nat /\ Len(paths) \in Nat /\ DOMAIN paths = 1 .. Len(paths)
      BY <3>1
    <3>3. Len(rules) + 1 \in DOMAIN paths
      <4>1. Len(rules) < Len(paths)
        BY <2>2
      <4> QED BY <4>1, <3>2
    <3>4. \A i \in DOMAIN paths : paths[i] \in Dirs
      BY <3>1
    <3> QED BY <2>1, <3>2, <3>3, <3>4
  <2>4. CASE rules' = Append(rules, d) /\ phase' = "reading"
    <3>1. StartupTyped'
      BY <2>2, <2>3, <2>4 DEF StartupInv, StartupTyped
    <3>2. Searched'
      BY <2>2, <2>4 DEF StartupInv, Searched, From
    <3>3. BodiesRead'
      <4>1. /\ Len(rules') = Len(rules) + 1 /\ DOMAIN rules' = DOMAIN rules \cup {Len(rules) + 1}
            /\ rules'[Len(rules) + 1] = d /\ \A i \in DOMAIN rules : rules'[i] = rules[i]
        BY <2>3, <2>4 DEF StartupInv, StartupTyped
      <4>2. \A i \in DOMAIN rules' : rules'[i] = paths'[i]
        BY <2>1, <2>2, <4>1 DEF StartupInv, BodiesRead
      <4> QED BY <2>2, <2>3, <2>4, <4>1, <4>2 DEF StartupInv, BodiesRead
    <3> QED BY <3>1, <3>2, <3>3 DEF StartupInv
  <2>5. CASE rules' = rules /\ phase' = "exit 1"
    BY <2>2, <2>5 DEF StartupInv, StartupTyped, Searched, BodiesRead
  <2> QED BY <2>2, <2>4, <2>5
<1>11. CASE HasRead
  BY <1>1, <1>11 DEF HasRead
<1>12. CASE OverlayAppears
  <2>1. UNCHANGED <<agents, repo, changes, phase, ahead, paths, rules>>
    BY <1>12 DEF OverlayAppears
  <2> QED BY <2>1 DEF StartupInv, StartupTyped, Searched, BodiesRead, From
<1>13. ASSUME NEW d \in Dirs, NEW to \in {"none", "readable", "unreadable"}, FileChanges(d, to)
       PROVE  StartupInv'
  <2>1. /\ agents' = [agents EXCEPT ![d] = to] /\ changes' = changes \cup {d}
        /\ UNCHANGED <<repo, phase, ahead, paths, rules>>
    BY <1>13 DEF FileChanges
  <2>2. StartupTyped'
    BY <2>1 DEF StartupInv, StartupTyped
  <2>3. Searched'
    <3>1. \A e \in Dirs : e \notin changes' => e \notin changes /\ agents'[e] = agents[e]
      BY <2>1 DEF StartupInv, StartupTyped
    <3>2. \A e : phase \in {"looking", "reading", "ready"} /\ e \in From .. ahead - 1 => e \in Dirs
      BY <1>a DEF StartupInv, Searched, Dirs
    <3> QED BY <2>1, <3>1, <3>2 DEF StartupInv, Searched, From
  <2>4. BodiesRead'
    BY <2>1 DEF StartupInv, BodiesRead
  <2> QED BY <2>2, <2>3, <2>4 DEF StartupInv
<1>14. CASE UNCHANGED startupVars
  BY <1>14 DEF startupVars, StartupInv, StartupTyped, Searched, BodiesRead, From
<1> QED
  BY <1>2, <1>3, <1>4, <1>5, <1>6, <1>7, <1>8, <1>9, <1>10, <1>11, <1>12, <1>13, <1>14 DEF StartupNext

LEMMA ReadyHasItsRules == StartupInv => RulesReachTheAgent
<1> SUFFICES ASSUME StartupInv, phase = "ready"
             PROVE  /\ \A d \in Dirs \ changes :
                         (\E i \in DOMAIN rules : rules[i] = d) <=> (d >= From /\ agents[d] # "none")
                    /\ \A i, j \in DOMAIN rules : i < j => rules[i] < rules[j]
  BY DEF RulesReachTheAgent, From
<1>1. From \in 1 .. Depth /\ Depth \in Nat /\ ahead = Depth + 1
  BY FromIsADirectory, StartupAssumption DEF StartupInv, BodiesRead
<1>2. DOMAIN rules = DOMAIN paths /\ \A i \in DOMAIN rules : rules[i] = paths[i]
  BY DEF StartupInv, BodiesRead, StartupTyped
<1>3. ASSUME NEW d \in Dirs \ changes
      PROVE  (\E i \in DOMAIN rules : rules[i] = d) <=> (d >= From /\ agents[d] # "none")
  <2>1. d \in Nat /\ (d \in From .. ahead - 1 <=> d >= From)
    BY <1>1 DEF Dirs
  <2>2. \A i \in DOMAIN paths : paths[i] \in From .. ahead - 1
    BY DEF StartupInv, Searched
  <2>3. d \in From .. ahead - 1 => ((\E i \in DOMAIN paths : paths[i] = d) <=> agents[d] # "none")
    BY DEF StartupInv, Searched
  <2> QED BY <1>2, <2>1, <2>2, <2>3
<1>4. \A i, j \in DOMAIN rules : i < j => rules[i] < rules[j]
  BY <1>2 DEF StartupInv, Searched
<1> QED BY <1>3, <1>4

\* An agent of the terminal has the rules of the directories from the repository's root
\* down to the workspace, outermost first, and no others, for every depth of the workspace
\* and every answer of git; a file that changes meanwhile aside.  (workspace/instructions.)
THEOREM RulesAreComplete == StartupSpec => []RulesReachTheAgent
<1>1. StartupInit => StartupInv
  <2> SUFFICES ASSUME StartupInit PROVE StartupInv
    OBVIOUS
  <2>1. /\ phase = "args" /\ paths = <<>> /\ rules = <<>> /\ Len(rules) = 0 /\ Len(paths) = 0
        /\ DOMAIN rules = {} /\ <<>> \in Seq(Dirs)
    BY DEF StartupInit
  <2>2. StartupTyped
    BY <2>1 DEF StartupInit, StartupTyped
  <2> QED BY <2>1, <2>2 DEF StartupInv, Searched, BodiesRead
<1> QED BY <1>1, ReadyHasItsRules, StartupKept, PTL DEF StartupSpec

\* From the moment the prompt names the runtime's roots, every root a reload looks in is
\* among them, also an overlay made later.  (runtimePathInstructions.)
THEOREM RootsStayTold == StartupSpec => []RootsAreTold
<1> DEFINE Told == phase \in {"opening", "discovering", "looking", "reading", "ready", "serving"} =>
                     named = {"src", ".hyper"}
<1>1. StartupInit => Told
  BY DEF StartupInit
<1>2. Told /\ [StartupNext]_startupVars => Told'
  <2> SUFFICES ASSUME Told, [StartupNext]_startupVars PROVE Told'
    OBVIOUS
  <2>1. CASE Understands
    BY <2>1 DEF Understands, At, Goes
  <2>2. CASE ResolveWorkspace
    BY <2>2 DEF ResolveWorkspace, At, Goes
  <2>3. CASE Loads
    BY <2>3 DEF Loads, RuntimePathInstructions, Roots
  <2>4. CASE LoadFails
    BY <2>4 DEF LoadFails, At, Goes
  <2>5. CASE Opens
    BY <2>5 DEF Opens
  <2>6. CASE Discovers
    BY <2>6 DEF Discovers, Goes
  <2>7. CASE Looks
    BY <2>7 DEF Looks, Goes
  <2>8. CASE HasLooked
    BY <2>8 DEF HasLooked, At, Goes
  <2>9. CASE Reads
    BY <2>9 DEF Reads, Goes
  <2>10. CASE HasRead
    BY <2>10 DEF HasRead, At, Goes
  <2>11. CASE OverlayAppears
    BY <2>11 DEF OverlayAppears
  <2>12. ASSUME NEW d \in Dirs, NEW to \in {"none", "readable", "unreadable"}, FileChanges(d, to)
         PROVE  Told'
    BY <2>12 DEF FileChanges
  <2>13. CASE UNCHANGED startupVars
    BY <2>13 DEF startupVars
  <2> QED BY <2>1, <2>2, <2>3, <2>4, <2>5, <2>6, <2>7, <2>8, <2>9, <2>10, <2>11, <2>12, <2>13
          DEF StartupNext
<1>3. Told => RootsAreTold
  BY DEF RootsAreTold, Roots
<1> QED BY <1>1, <1>2, <1>3, PTL DEF StartupSpec

-----------------------------------------------------------------------------
\* The catalog of files.

CatalogSpec == CatalogInit /\ [][CatalogNext]_catalogVars

\* A scan makes one name of a file, and a reload finds the file under that name.
LEMMA ScannedIsFound == ASSUME NEW f \in Of("fn") PROVE Name(f) \in FoundAs(f) /\ f \in Tree
<1>1. f \in Tree /\ Classify(f).kind = "fn" /\ f.prefix \in {"", "$"}
  BY CatalogAssumption DEF Of
<1>2. \A dir, parts : Route(dir, parts).kind # "fn"
  BY DEF Route, Skip
<1>3. f.suffix = ".ts" /\ Classify(f) = [kind |-> "fn", name |-> f.dir \o f.parts]
  <2>1. PICK name : name = [kind |-> "fn", name |-> f.dir \o f.parts]
    OBVIOUS
  <2>2. PICK way : way = Route(f.dir, f.parts)
    OBVIOUS
  <2>3. PICK script : script = [kind |-> "route", path |-> Append(f.dir, Last(f.parts)), method |-> "GET"]
    OBVIOUS
  <2>4. PICK setting : setting = [kind |-> "setting", name |-> <<f.dir[1]>> \o f.parts]
    OBVIOUS
  <2>5. PICK skip : skip = Skip
    OBVIOUS
  <2>6. way.kind # "fn" /\ script.kind # "fn" /\ setting.kind # "fn" /\ skip.kind # "fn"
    BY <1>2, <2>2, <2>3, <2>4, <2>5 DEF Skip
  <2>7. Classify(f) # skip /\ Classify(f) # script /\ Classify(f) # way /\ Classify(f) # setting
    BY <1>1, <2>6
  <2>8. CASE f.suffix # ".ts"
    <3>1. Classify(f) = skip \/ Classify(f) = script
      BY <2>3, <2>5, <2>8 DEF Classify
    <3> QED BY <2>7, <3>1
  <2>9. CASE f.suffix = ".ts"
    <3> DEFINE scratch == \E i \in DOMAIN f.dir : f.dir[i] \in Scratch
               own == f.prefix = "$" /\ f.parts \in {<<"main">>, <<"test">>}
    <3>1. f.prefix \notin {"$script", "$type", "$setting", "$route"}
      BY <1>1
    <3>2. Classify(f) = IF scratch THEN skip ELSE IF own THEN skip ELSE name
      BY <2>1, <2>5, <2>9, <3>1 DEF Classify
    <3>3. Classify(f) = skip \/ Classify(f) = name
      BY <3>2
    <3> QED BY <2>1, <2>7, <2>9, <3>3
  <2> QED BY <2>8, <2>9
<1>4. Name(f) = f.dir \o f.parts
  <2>1. PICK n : n = f.dir \o f.parts
    OBVIOUS
  <2>2. Classify(f) = [kind |-> "fn", name |-> n]
    BY <1>3, <2>1
  <2>3. Classify(f).name = n
    BY <2>2
  <2> QED BY <2>1, <2>3 DEF Name
<1> QED BY <1>1, <1>3, <1>4 DEF FoundAs, WithoutSign

\* A reload that finds files for a name finds one before all others.
LEMMA FirstIsFirst ==
  ASSUME disk \subseteq Tree, NEW n, Found(n) # {}
  PROVE  First(n) \in Found(n) /\ \A g \in Found(n) : Before(n, First(n), g)
<1> DEFINE InOverlay == {f \in Found(n) : f.root = ".hyper"}
           Candidates == IF InOverlay # {} THEN InOverlay ELSE Found(n)
           Own == {f \in Candidates : n = ItsOwn(f)}
<1>1. \A f \in Found(n) : f \in Tree /\ n \in FoundAs(f) /\ f.root \in {"src", ".hyper"}
  BY CatalogAssumption DEF Found
<1>2. PICK f \in Candidates : Own = {} \/ f \in Own
  OBVIOUS
<1>3. f \in Found(n)
  OBVIOUS
<1>4. ASSUME NEW g \in Found(n) PROVE Before(n, f, g)
  <2>1. CASE g.root # f.root
    BY <1>1, <1>2, <1>3, <2>1 DEF Before
  <2>2. CASE g.root = f.root
    <3>1. g \in Candidates
      BY <1>2, <2>2
    <3>2. CASE n = ItsOwn(f)
      BY <2>2, <3>2 DEF Before
    <3>3. CASE n # ItsOwn(f)
      <4>1. n # ItsOwn(g)
        <5>1. \A h \in Candidates : n = ItsOwn(h) => h \in Own
          OBVIOUS
        <5>2. f \notin Own
          BY <3>3
        <5> HIDE DEF Own, Candidates
        <5> QED BY <1>2, <3>1, <5>1, <5>2
      <4>2. n \in FoundAs(f) \cap FoundAs(g) /\ f \in Tree /\ g \in Tree
        BY <1>1, <1>3
      <4>3. n \in LoadNames
        BY <4>2 DEF LoadNames
      <4>4. f = g
        BY <2>2, <3>3, <4>1, <4>2, <4>3, CatalogAssumption
      <4> QED BY <2>2, <4>4 DEF Before
    <3> QED BY <3>2, <3>3
  <2> QED BY <2>1, <2>2
<1>5. \E x \in Found(n) : \A g \in Found(n) : Before(n, x, g)
  BY <1>3, <1>4
<1> QED BY <1>5 DEF First

\* The file it finds is the one a start would choose, if a scan makes this name of it.
LEMMA LoadableIsChosen ==
  ASSUME disk \subseteq Tree, NEW n, Loadable(n)
  PROVE  First(n) \in Chosen(n) \/ First(n) \notin Scans(n)
<1>1. First(n) \in Found(n) /\ First(n).ok /\ \A g \in Found(n) : Before(n, First(n), g)
  BY FirstIsFirst DEF Loadable
<1>2. \A g \in Found(n) : g.root \in {"src", ".hyper"} /\ g \in disk
  BY CatalogAssumption DEF Found
<1>3. First(n).root = ".hyper" \/ \A g \in Found(n) : g.root = "src"
  BY <1>1, <1>2 DEF Before
<1>4. \A g \in FnFiles(n) : g \in Found(n)
  BY ScannedIsFound DEF FnFiles, Found
<1>5. First(n) \in Scans(n) => First(n) \in FnFiles(n)
  BY <1>1, <1>2 DEF Scans, FnFiles
<1> HIDE DEF First
<1> QED BY <1>1, <1>3, <1>4, <1>5 DEF Chosen

CatalogShape ==
  /\ disk \subseteq Tree /\ functions = [n \in LoadNames |-> functions[n]]
  /\ DOMAIN functions = LoadNames

LEMMA CatalogShapeKept == CatalogShape /\ [CatalogNext]_catalogVars => CatalogShape'
<1> SUFFICES ASSUME CatalogShape, [CatalogNext]_catalogVars PROVE CatalogShape'
  OBVIOUS
<1>1. ASSUME NEW f \in Tree, LoadFn(f) PROVE CatalogShape'
  BY <1>1 DEF LoadFn, CatalogShape
<1>2. ASSUME NEW f \in Tree, LoadRoute(f) PROVE CatalogShape'
  BY <1>2 DEF LoadRoute, CatalogShape
<1>3. ASSUME NEW f \in Tree, Changes(f) PROVE CatalogShape'
  BY <1>3 DEF Changes, CatalogShape
<1>4. CASE Loaded
  BY <1>4 DEF Loaded, CatalogShape
<1>5. ASSUME NEW n \in Wanted, LoadFile(n) PROVE CatalogShape'
  BY <1>5 DEF LoadFile, CatalogShape
<1>6. ASSUME NEW dir, NEW done, NEW set, LoadModule(dir, done, set) PROVE CatalogShape'
  BY <1>6 DEF LoadModule, CatalogShape
<1>7. CASE UNCHANGED catalogVars
  BY <1>7 DEF catalogVars, CatalogShape
<1> QED BY <1>1, <1>2, <1>3, <1>4, <1>5, <1>6, <1>7 DEF CatalogNext

\* What a reload leaves under a name, the next start would choose for it too, whatever files
\* an agent has written, removed or broken: the overlay's if it has a usable one; unless the
\* file is none of which a scan makes that name, as repl.load does not ask what a file is.
\* (repl.load and loadFns go through the roots in opposite orders.)
THEOREM ReloadsLikeRestart == CatalogSpec => ReloadIsRestart
<1> DEFINE Agrees(n) == functions'[n] \in Chosen(n) \/ functions'[n] \notin Scans(n)
<1>1. CatalogInit => CatalogShape
  BY CatalogAssumption DEF CatalogInit, CatalogShape
<1>2. ASSUME CatalogShape, [CatalogNext]_catalogVars
      PROVE  [loading = "serving" =>
               \A n \in LoadNames : functions'[n] # functions[n] =>
                 functions'[n] \in Chosen(n) \/ functions'[n] \notin Scans(n)]_catalogVars
  <2> SUFFICES ASSUME loading = "serving", NEW n \in LoadNames, functions'[n] # functions[n]
               PROVE  Agrees(n)
    OBVIOUS
  <2>1. disk \subseteq Tree
    BY <1>2 DEF CatalogShape
  <2>2. ASSUME NEW k \in Wanted, LoadFile(k) PROVE Agrees(n)
    <3>1. Loadable(k) /\ functions' = [functions EXCEPT ![k] = First(k)]
      BY <2>2 DEF LoadFile
    <3>2. k = n /\ functions'[n] = First(n)
      BY <1>2, <3>1 DEF CatalogShape
    <3> QED BY <2>1, <3>1, <3>2, LoadableIsChosen
  <2>3. ASSUME NEW dir, NEW done, NEW set, LoadModule(dir, done, set) PROVE Agrees(n)
    <3>1. n \in done /\ functions'[n] = First(n)
      BY <2>3 DEF LoadModule
    <3>2. Loadable(n)
      BY <2>3, <3>1 DEF LoadModule
    <3> QED BY <2>1, <3>1, <3>2, LoadableIsChosen
  <2>4. \A f \in Tree : ~LoadFn(f) /\ ~LoadRoute(f)
    BY DEF LoadFn, LoadRoute
  <2>5. ~Loaded /\ \A f \in Tree : ~Changes(f)
    BY DEF Loaded, Changes
  <2>6. ~UNCHANGED catalogVars
    BY DEF catalogVars
  <2> QED BY <1>2, <2>2, <2>3, <2>4, <2>5, <2>6 DEF CatalogNext
<1> QED BY <1>1, <1>2, CatalogShapeKept, PTL DEF CatalogSpec, ReloadIsRestart

\* The files of a path and a method that loadRoutes has come to, and the one it keeps.
Seen(path, m) == {f \in booted \ left : Handler(f) /\ Path(f) = path /\ Method(f) = m}
Kept(files, h) ==
  IF files = {} THEN h = Absent
  ELSE h \in files /\ (h.root = ".hyper" \/ \A g \in files : g.root = "src")

Rows == [path : {Path(f) : f \in Of("route")}, methods : [Methods -> Tree \cup {Absent}]]
TableInv ==
  /\ routes \in Seq(Rows)
  /\ \A i, j \in DOMAIN routes : routes[i].path = routes[j].path => i = j
  /\ \A i \in DOMAIN routes : \A m \in Methods : Kept(Seen(routes[i].path, m), routes[i].methods[m])
  /\ \A f \in booted \ left : Handler(f) => \E i \in DOMAIN routes : routes[i].path = Path(f)

\* The scan has left src before it comes to the overlay.
ScanInv ==
  /\ loading \in {"functions", "routes", "serving"}
  /\ loading = "functions" => disk = OnDisk /\ routes = <<>> /\ booted = {}
  /\ loading = "routes" =>
       /\ booted = OnDisk /\ left \subseteq booted
       /\ (\E f \in booted \ left : f.root = ".hyper") => \A g \in left : g.root = ".hyper"
  /\ loading = "serving" => booted = OnDisk /\ left = {}
RoutesInv == ScanInv /\ TableInv

LEMMA RouteHasMethod == \A f \in Of("route") : Method(f) \in Methods
<1> SUFFICES ASSUME NEW f \in Of("route") PROVE Method(f) \in Methods
  OBVIOUS
<1>1. Classify(f).kind = "route"
  BY DEF Of
<1>2. ASSUME NEW dir, NEW parts, Route(dir, parts).kind = "route"
      PROVE  Route(dir, parts).method \in Methods
  BY <1>2 DEF Route, Skip
<1>3. "GET" \in Methods
  BY DEF Methods
<1> HIDE DEF Methods
<1> QED BY <1>1, <1>2, <1>3 DEF Method, Classify, Skip

\* One file is entered in one row, the row of its path, which may be new.
LEMMA AddRouteAddsOne ==
  ASSUME TableInv, NEW f \in Tree, f \in Of("route")
  PROVE  LET new == AddRoute(Path(f), Method(f), f) IN
         /\ new \in Seq(Rows) /\ DOMAIN routes \subseteq DOMAIN new
         /\ \A i, j \in DOMAIN new : new[i].path = new[j].path => i = j
         /\ \A i \in DOMAIN new : new[i].path # Path(f) => i \in DOMAIN routes /\ new[i] = routes[i]
         /\ \A i \in DOMAIN routes : new[i].path = routes[i].path
         /\ \E i \in DOMAIN new : new[i].path = Path(f)
         /\ \A i \in DOMAIN new : new[i].path = Path(f) =>
              /\ new[i].methods[Method(f)] = f
              /\ \A m \in Methods \ {Method(f)} :
                   \/ i \in DOMAIN routes /\ new[i].methods[m] = routes[i].methods[m]
                   \/ (\A j \in DOMAIN routes : routes[j].path # Path(f)) /\ new[i].methods[m] = Absent
<1>1. PICK p, m : p = Path(f) /\ m = Method(f)
  OBVIOUS
<1>2. p \in {Path(g) : g \in Of("route")} /\ m \in Methods
  BY <1>1, RouteHasMethod
<1> DEFINE new == AddRoute(p, m, f)
<1>3. CASE Bucket(p) = {}
  <2> DEFINE row == [path |-> p, methods |-> [k \in Methods |-> IF k = m THEN f ELSE Absent]]
  <2>1. row \in Rows /\ row.path = p /\ row.methods[m] = f
        /\ \A k \in Methods \ {m} : row.methods[k] = Absent
    BY <1>2 DEF Rows
  <2>2. new = Append(routes, row)
    BY <1>3 DEF AddRoute
  <2> HIDE DEF row, new
  <2>3. /\ new \in Seq(Rows) /\ DOMAIN new = DOMAIN routes \cup {Len(routes) + 1}
        /\ new[Len(routes) + 1] = row /\ Len(routes) + 1 \notin DOMAIN routes
        /\ \A i \in DOMAIN routes : new[i] = routes[i]
    BY <2>1, <2>2 DEF TableInv
  <2>4. \A i \in DOMAIN routes : routes[i].path # p
    BY <1>3 DEF Bucket
  <2>5. \A i, j \in DOMAIN new : new[i].path = new[j].path => i = j
    BY <2>1, <2>3, <2>4 DEF TableInv
  <2> QED BY <1>1, <2>1, <2>3, <2>4, <2>5 DEF new
<1>4. CASE Bucket(p) # {}
  <2>1. new = [i \in DOMAIN routes |->
                 IF i \in Bucket(p) THEN [routes[i] EXCEPT !.methods[m] = f] ELSE routes[i]]
    BY <1>4 DEF AddRoute
  <2>2. PICK k \in DOMAIN routes : routes[k].path = p
    BY <1>4 DEF Bucket
  <2>3. \A i \in DOMAIN routes : i \in Bucket(p) <=> i = k
    BY <2>2 DEF Bucket, TableInv
  <2>4. \A i \in DOMAIN routes : routes[i] \in Rows
    BY DEF TableInv
  <2>5. PICK r \in Rows : r = routes[k]
    BY <2>4
  <2>6. PICK s : s = [r EXCEPT !.methods[m] = f]
    OBVIOUS
  <2>7. s \in Rows /\ s.path = p /\ s.methods[m] = f /\ \A x \in Methods \ {m} : s.methods[x] = r.methods[x]
    <3>1. PICK pp, mm : r = [path |-> pp, methods |-> mm] /\ mm \in [Methods -> Tree \cup {Absent}]
                        /\ pp \in {Path(g) : g \in Of("route")}
      BY DEF Rows
    <3>2. s = [path |-> pp, methods |-> [mm EXCEPT ![m] = f]]
      BY <2>6, <3>1
    <3>3. [mm EXCEPT ![m] = f] \in [Methods -> Tree \cup {Absent}]
      BY <1>2, <3>1
    <3>4. s \in Rows
      BY <3>1, <3>2, <3>3 DEF Rows
    <3>5. pp = p
      BY <2>2, <2>5, <3>1
    <3> QED BY <1>2, <3>1, <3>2, <3>4, <3>5
  <2> HIDE DEF new
  <2>8. DOMAIN new = DOMAIN routes /\ new[k] = s /\ \A i \in DOMAIN routes : i # k => new[i] = routes[i]
    BY <2>1, <2>2, <2>3, <2>5, <2>6
  <2>9. new \in Seq(Rows)
    <3>1. DOMAIN routes = 1 .. Len(routes) /\ Len(routes) \in Nat
      BY DEF TableInv
    <3>2. \A i \in 1 .. Len(routes) : new[i] \in Rows
      BY <2>4, <2>7, <2>8, <3>1
    <3>3. new = [i \in 1 .. Len(routes) |-> new[i]]
      BY <2>1, <3>1
    <3> QED BY <3>1, <3>2, <3>3, IsASeq
  <2>10. \A i \in DOMAIN routes : new[i].path = routes[i].path
    BY <2>2, <2>7, <2>8
  <2>11. \A i, j \in DOMAIN new : new[i].path = new[j].path => i = j
    BY <2>8, <2>10 DEF TableInv
  <2>12. \A i \in DOMAIN new : new[i].path = p <=> i = k
    BY <2>2, <2>8, <2>10 DEF TableInv
  <2> QED BY <1>1, <2>2, <2>5, <2>7, <2>8, <2>9, <2>10, <2>11, <2>12 DEF new
<1> QED BY <1>3, <1>4

LEMMA LoadRouteKept ==
  ASSUME RoutesInv, NEW f \in Tree, LoadRoute(f)
  PROVE  RoutesInv'
<1>1. /\ loading = "routes" /\ f \in left /\ left' = left \ {f} /\ UNCHANGED <<disk, loading, booted>>
      /\ f.root = ".hyper" => \A g \in left : g.root = ".hyper"
      /\ routes' = IF Handler(f) THEN AddRoute(Path(f), Method(f), f) ELSE routes
  BY DEF LoadRoute, Scanned
<1>2. ScanInv'
  BY <1>1, CatalogAssumption DEF RoutesInv, ScanInv
<1>3. TableInv /\ booted \subseteq Tree
  BY <1>1, CatalogAssumption DEF RoutesInv, ScanInv
<1>4. booted' \ left' \subseteq (booted \ left) \cup {f} /\ booted \ left \subseteq booted' \ left'
  BY <1>1
<1>5. CASE ~Handler(f)
  <2>1. \A path, m : Seen(path, m)' = Seen(path, m)
    BY <1>1, <1>5 DEF Seen
  <2>2. \A g \in booted' \ left' : Handler(g) => g \in booted \ left
    BY <1>4, <1>5
  <2> QED BY <1>1, <1>2, <1>3, <1>5, <2>1, <2>2 DEF RoutesInv, TableInv
<1>6. CASE Handler(f)
  <2>1. PICK p, m : p = Path(f) /\ m = Method(f)
    OBVIOUS
  <2>2. f \in Of("route") /\ m \in Methods
    BY <1>6, <2>1, RouteHasMethod DEF Handler
  <2>3. PICK new : new = AddRoute(Path(f), Method(f), f)
    OBVIOUS
  <2>4. /\ new \in Seq(Rows) /\ DOMAIN routes \subseteq DOMAIN new
        /\ \A i, j \in DOMAIN new : new[i].path = new[j].path => i = j
        /\ \A i \in DOMAIN new : new[i].path # p => i \in DOMAIN routes /\ new[i] = routes[i]
        /\ \A i \in DOMAIN routes : new[i].path = routes[i].path
        /\ \E i \in DOMAIN new : new[i].path = p
        /\ \A i \in DOMAIN new : new[i].path = p =>
             /\ new[i].methods[m] = f
             /\ \A k \in Methods \ {m} :
                  \/ i \in DOMAIN routes /\ new[i].methods[k] = routes[i].methods[k]
                  \/ (\A j \in DOMAIN routes : routes[j].path # p) /\ new[i].methods[k] = Absent
    BY <1>3, <2>1, <2>2, <2>3, AddRouteAddsOne
  <2>5. routes' = new
    BY <1>1, <1>6, <2>3
  <2>6. /\ \A path, k : path # p \/ k # m => Seen(path, k)' = Seen(path, k)
        /\ f \in Seen(p, m)' /\ Seen(p, m)' \subseteq Seen(p, m) \cup {f}
    <3>1. f \in booted' \ left'
      BY <1>1 DEF RoutesInv, ScanInv
    <3> QED BY <1>4, <1>6, <2>1, <3>1 DEF Seen
  <2>7. Kept(Seen(p, m)', f)
    <3>1. CASE f.root = ".hyper"
      BY <2>6, <3>1 DEF Kept
    <3>2. CASE f.root # ".hyper"
      <4>1. f.root = "src" /\ \A g \in Tree : g.root = "src" \/ g.root = ".hyper"
        BY <3>2, CatalogAssumption
      <4>2. \A g \in booted \ left : g.root # ".hyper"
        BY <1>1, <3>2 DEF RoutesInv, ScanInv
      <4>3. \A g \in Seen(p, m)' : g.root = "src"
        BY <1>3, <2>6, <4>1, <4>2 DEF Seen
      <4> QED BY <2>6, <4>3 DEF Kept
    <3> QED BY <3>1, <3>2
  <2>8. ASSUME NEW i \in DOMAIN new, NEW k \in Methods
        PROVE  Kept(Seen(new[i].path, k)', new[i].methods[k])
    <3>1. CASE new[i].path # p
      BY <1>3, <2>4, <2>6, <3>1 DEF TableInv
    <3>2. CASE new[i].path = p /\ k = m
      BY <2>4, <2>7, <3>2
    <3>3. CASE new[i].path = p /\ k # m
      <4>1. Seen(p, k)' = Seen(p, k)
        BY <2>6, <3>3
      <4>2. CASE i \in DOMAIN routes /\ new[i].methods[k] = routes[i].methods[k]
        BY <1>3, <2>4, <3>3, <4>1, <4>2 DEF TableInv
      <4>3. CASE (\A j \in DOMAIN routes : routes[j].path # p) /\ new[i].methods[k] = Absent
        <5>1. Seen(p, k) = {}
          BY <1>3, <4>3 DEF TableInv, Seen
        <5> QED BY <3>3, <4>1, <4>3, <5>1 DEF Kept
      <4> QED BY <2>4, <3>3, <4>2, <4>3
    <3> QED BY <3>1, <3>2, <3>3
  <2>9. ASSUME NEW g \in booted' \ left', Handler(g) PROVE \E i \in DOMAIN new : new[i].path = Path(g)
    <3>1. CASE g = f
      BY <2>1, <2>4, <3>1
    <3>2. CASE g # f
      <4>1. PICK i \in DOMAIN routes : routes[i].path = Path(g)
        BY <1>3, <1>4, <2>9, <3>2 DEF TableInv
      <4> QED BY <2>4, <4>1
    <3> QED BY <3>1, <3>2
  <2>10. TableInv'
    BY <2>4, <2>5, <2>8, <2>9 DEF TableInv
  <2> QED BY <1>2, <2>10 DEF RoutesInv
<1> QED BY <1>5, <1>6

LEMMA RoutesKept == RoutesInv /\ [CatalogNext]_catalogVars => RoutesInv'
<1> SUFFICES ASSUME RoutesInv, [CatalogNext]_catalogVars PROVE RoutesInv'
  OBVIOUS
<1>1. ASSUME NEW f \in Tree, LoadFn(f) PROVE RoutesInv'
  <2>1. loading = "functions" /\ UNCHANGED <<disk, loading, routes, booted>>
    BY <1>1 DEF LoadFn
  <2>2. ScanInv'
    BY <2>1 DEF RoutesInv, ScanInv
  <2>3. booted = {} /\ \A path, m : Seen(path, m)' = Seen(path, m)
    BY <2>1 DEF RoutesInv, ScanInv, Seen
  <2> QED BY <2>1, <2>2, <2>3 DEF RoutesInv, TableInv
<1>2. ASSUME NEW f \in Tree, LoadRoute(f) PROVE RoutesInv'
  BY <1>2, LoadRouteKept
<1>3. ASSUME NEW f \in Tree, Changes(f) PROVE RoutesInv'
  <2>1. loading = "serving" /\ UNCHANGED <<loading, left, routes, booted>>
    BY <1>3 DEF Changes
  <2>2. \A path, m : Seen(path, m)' = Seen(path, m)
    BY <2>1 DEF Seen
  <2> QED BY <2>1, <2>2 DEF RoutesInv, ScanInv, TableInv
<1>4. CASE Loaded
  <2>1. CASE loading = "functions"
    <3>1. loading' = "routes" /\ left' = OnDisk /\ booted' = OnDisk /\ routes' = <<>> /\ booted = {}
      BY <1>4, <2>1 DEF Loaded, RoutesInv, ScanInv
    <3>2. booted' \ left' = {} /\ DOMAIN routes' = {} /\ routes' \in Seq(Rows)
      BY <3>1
    <3>3. ScanInv'
      BY <3>1, <3>2 DEF ScanInv
    <3>4. TableInv'
      BY <3>2 DEF TableInv
    <3> QED BY <3>3, <3>4 DEF RoutesInv
  <2>2. CASE loading # "functions"
    <3>1. loading = "routes" /\ loading' = "serving" /\ left = {} /\ UNCHANGED <<left, booted, routes>>
      BY <1>4, <2>2 DEF Loaded, RoutesInv, ScanInv
    <3>2. \A path, m : Seen(path, m)' = Seen(path, m)
      BY <3>1 DEF Seen
    <3> QED BY <3>1, <3>2 DEF RoutesInv, ScanInv, TableInv
  <2> QED BY <2>1, <2>2
<1>5. ASSUME UNCHANGED <<loading, left, routes, booted, disk>> PROVE RoutesInv'
  <2>1. \A path, m : Seen(path, m)' = Seen(path, m)
    BY <1>5 DEF Seen
  <2> QED BY <1>5, <2>1 DEF RoutesInv, ScanInv, TableInv
<1>6. ASSUME NEW n \in Wanted, LoadFile(n) PROVE RoutesInv'
  BY <1>5, <1>6 DEF LoadFile
<1>7. ASSUME NEW dir, NEW done, NEW set, LoadModule(dir, done, set) PROVE RoutesInv'
  BY <1>5, <1>7 DEF LoadModule
<1>8. CASE UNCHANGED catalogVars
  BY <1>5, <1>8 DEF catalogVars
<1> QED BY <1>1, <1>2, <1>3, <1>4, <1>6, <1>7, <1>8 DEF CatalogNext

\* The rows that fit a request are those of the files that fit it.
LEMMA ServingRows ==
  ASSUME RoutesInv, loading = "serving", NEW q \in Asked
  PROVE  /\ q.method \in Methods /\ booted = OnDisk
         /\ \A i \in DOMAIN routes : Serving(q, i) /\ Fits(routes[i].path, q.path) =>
              LET h == routes[i].methods[q.method] IN
              /\ h \in Handlers(OnDisk, q) /\ Path(h) = routes[i].path
              /\ h.root = ".hyper" \/ \A g \in Handlers(OnDisk, q) : Path(g) = Path(h) => g.root = "src"
         /\ \A f \in Handlers(OnDisk, q) : \E i \in DOMAIN routes :
              Serving(q, i) /\ routes[i].path = Path(f)
<1>1. q.method \in Methods /\ booted = OnDisk /\ left = {}
  BY CatalogAssumption DEF RoutesInv, ScanInv
<1>2. PICK m : m = q.method
  OBVIOUS
<1>3. \A path : Seen(path, m) = {f \in OnDisk : Handler(f) /\ Path(f) = path /\ Method(f) = m}
  BY <1>1 DEF Seen
<1>4. ASSUME NEW i \in DOMAIN routes, Serving(q, i), Fits(routes[i].path, q.path),
             NEW h, h = routes[i].methods[q.method]
      PROVE  /\ h \in Handlers(OnDisk, q) /\ Path(h) = routes[i].path
             /\ h.root = ".hyper" \/ \A g \in Handlers(OnDisk, q) : Path(g) = Path(h) => g.root = "src"
  <2>1. Kept(Seen(routes[i].path, m), h) /\ h # Absent
    BY <1>1, <1>2, <1>4 DEF RoutesInv, TableInv, Serving
  <2>2. h \in Seen(routes[i].path, m)
        /\ (h.root = ".hyper" \/ \A g \in Seen(routes[i].path, m) : g.root = "src")
    BY <2>1 DEF Kept
  <2>3. h \in Handlers(OnDisk, q) /\ Path(h) = routes[i].path
    BY <1>2, <1>3, <1>4, <2>2 DEF Handlers
  <2>4. \A g \in Handlers(OnDisk, q) : Path(g) = Path(h) => g \in Seen(routes[i].path, m)
    BY <1>2, <1>3, <2>3 DEF Handlers
  <2> QED BY <2>2, <2>3, <2>4
<1>5. ASSUME NEW f \in Handlers(OnDisk, q) PROVE \E i \in DOMAIN routes : Serving(q, i) /\ routes[i].path = Path(f)
  <2>1. f \in OnDisk /\ Handler(f) /\ Method(f) = m
    BY <1>2 DEF Handlers
  <2>2. PICK i \in DOMAIN routes : routes[i].path = Path(f)
    BY <1>1, <2>1 DEF RoutesInv, TableInv
  <2>3. f \in Seen(routes[i].path, m)
    BY <1>3, <2>1, <2>2
  <2>4. Kept(Seen(routes[i].path, m), routes[i].methods[m])
    BY <1>1, <1>2 DEF RoutesInv, TableInv
  <2>5. routes[i].methods[m] \in Tree
    BY <1>3, <2>3, <2>4, CatalogAssumption DEF Kept
  <2>6. Serving(q, i)
    BY <1>2, <2>5, CatalogAssumption DEF Serving
  <2> QED BY <2>2, <2>6
<1> QED BY <1>1, <1>4, <1>5

LEMMA TableServesAlike == ASSUME Unambiguous, RoutesInv PROVE ServedAlike
<1> SUFFICES ASSUME loading = "serving", NEW q \in Asked
             PROVE  IF Meant(q) = {} THEN Match(q) = Absent ELSE Meant(q) = {Match(q)}
  BY DEF ServedAlike
<1> DEFINE Table == DOMAIN routes
           exact == {i \in Table : Serving(q, i) /\ routes[i].path = q.path}
           fit == {i \in Table : Serving(q, i) /\ Fits(routes[i].path, q.path)}
           among == IF exact # {} THEN exact ELSE fit
           literal == {f \in Handlers(OnDisk, q) : Path(f) = q.path}
           best == IF literal # {} THEN literal ELSE Handlers(OnDisk, q)
           chosen == {f \in best : f.root = ".hyper" \/ \A g \in best : Path(g) = Path(f) => g.root = "src"}
           row(i) == routes[i].methods[q.method]
<1>1. Meant(q) = chosen
  <2>1. booted = OnDisk
    BY ServingRows
  <2> QED BY <2>1 DEF Meant
<1>2. Match(q) = IF among = {} THEN Absent ELSE row(CHOOSE i \in among : \A j \in among : i <= j)
  BY DEF Match
<1>3. \A f \in Handlers(OnDisk, q) : Fits(Path(f), q.path)
  BY DEF Handlers
<1>4. \A f, g \in Handlers(OnDisk, q) :
        /\ Path(f) = Path(g) \/ \E h \in Handlers(OnDisk, q) : Path(h) = q.path
        /\ Path(f) = Path(g) /\ f.root = g.root => f = g
  BY DEF Unambiguous
<1>5. \A f \in Handlers(OnDisk, q) : f.root \in {"src", ".hyper"}
  BY CatalogAssumption DEF Handlers
<1>6. ASSUME NEW i \in fit
      PROVE  /\ row(i) \in Handlers(OnDisk, q) /\ Path(row(i)) = routes[i].path
             /\ row(i).root = ".hyper" \/ \A g \in Handlers(OnDisk, q) : Path(g) = Path(row(i)) => g.root = "src"
  BY <1>6, ServingRows
<1>7. exact \subseteq fit
  BY DEF Fits
<1>8. \A f \in Handlers(OnDisk, q) : \E i \in fit : routes[i].path = Path(f)
  BY <1>3, ServingRows
<1>9. exact # {} <=> literal # {}
  BY <1>6, <1>7, <1>8
<1>10. CASE Handlers(OnDisk, q) = {}
  <2>1. fit = {}
    BY <1>6, <1>10
  <2>2. among = {} /\ chosen = {}
    BY <1>7, <1>10, <2>1
  <2> QED BY <1>1, <1>2, <2>2
<1>11. CASE Handlers(OnDisk, q) # {}
  <2> HIDE DEF row
  <2>1. among # {} /\ among \subseteq fit
    BY <1>7, <1>8, <1>11
  <2>2. \A i, j \in fit : routes[i].path = routes[j].path => i = j
    BY DEF RoutesInv, TableInv
  <2>3. ASSUME NEW i \in among, NEW f \in best PROVE Path(f) = routes[i].path
    <3>1. CASE exact # {}
      BY <1>9, <2>3, <3>1
    <3>2. CASE exact = {}
      <4>1. literal = {} /\ f \in Handlers(OnDisk, q) /\ i \in fit
        BY <1>9, <2>1, <3>2
      <4>2. row(i) \in Handlers(OnDisk, q) /\ Path(row(i)) = routes[i].path
        BY <1>6, <4>1
      <4>3. ~ \E h \in Handlers(OnDisk, q) : Path(h) = q.path
        BY <4>1
      <4>4. Path(f) = Path(row(i))
        BY <1>4, <4>1, <4>2, <4>3
      <4> QED BY <4>2, <4>4
    <3> QED BY <3>1, <3>2
  <2>4. \A i \in among : row(i) \in best
    <3> SUFFICES ASSUME NEW i \in among PROVE row(i) \in best
      OBVIOUS
    <3>1. row(i) \in Handlers(OnDisk, q) /\ Path(row(i)) = routes[i].path
      BY <1>6, <2>1
    <3>2. CASE exact # {}
      BY <3>1, <3>2
    <3>3. CASE exact = {}
      BY <1>9, <3>1, <3>3
    <3> QED BY <3>2, <3>3
  <2>a. best \subseteq Handlers(OnDisk, q)
    OBVIOUS
  <2> HIDE DEF exact, literal
  <2>5. PICK i : among = {i}
    <3>1. \A i, j \in among : i = j
      BY <2>1, <2>2, <2>3, <2>4
    <3> QED BY <2>1, <3>1
  <2>6. i \in among /\ i \in fit /\ i \in Nat
    <3>1. i \in among /\ i \in fit
      BY <2>1, <2>5
    <3>2. DOMAIN routes \subseteq Nat
      BY DEF RoutesInv, TableInv
    <3> QED BY <3>1, <3>2
  <2> HIDE DEF among
  <2>7. Match(q) = row(i)
    <3>1. (CHOOSE x \in among : \A j \in among : x <= j) = i
      BY <2>5, <2>6
    <3> QED BY <1>2, <2>5, <3>1
  <2>8. \A g \in best : g \in Handlers(OnDisk, q) /\ Path(g) = Path(row(i))
    BY <2>3, <2>4, <2>6, <2>a
  <2>9. row(i) \in best
    BY <2>4, <2>6
  <2>10. row(i).root = ".hyper" \/ \A g \in best : g.root = "src"
    BY <1>6, <2>6, <2>8
  <2> HIDE DEF best, fit
  <2>11. row(i) \in chosen
    BY <2>9, <2>10
  <2>12. ASSUME NEW g \in chosen PROVE g = row(i)
    <3>1. g \in best /\ (g.root = ".hyper" \/ \A h \in best : h.root = "src")
      BY <2>8, <2>12
    <3>2. g.root = row(i).root
      BY <1>5, <2>8, <2>9, <2>10, <3>1
    <3> QED BY <1>4, <2>8, <2>9, <3>1, <3>2
  <2> QED BY <1>1, <2>7, <2>11, <2>12
<1> QED BY <1>10, <1>11

\* A request is served by the file that was written for it, whatever order the file system
\* lists the files in: the one whose very path it is before a pattern, the overlay's before
\* the base's.  That needs the files to say which it is: with two patterns for one request,
\* or two files of one root for one path and method, the order decides.  (loadRoutes, match.)
THEOREM ServedByItsFile == ASSUME Unambiguous PROVE CatalogSpec => []ServedAlike
<1>1. CatalogInit => RoutesInv
  <2> SUFFICES ASSUME CatalogInit PROVE RoutesInv
    OBVIOUS
  <2>1. routes = <<>> /\ booted = {} /\ DOMAIN routes = {} /\ routes \in Seq(Rows)
    BY DEF CatalogInit
  <2> QED BY <2>1 DEF CatalogInit, RoutesInv, ScanInv, TableInv
<1>2. RoutesInv => ServedAlike
  BY TableServesAlike
<1> QED BY <1>1, <1>2, RoutesKept, PTL DEF CatalogSpec

(***************************************************************************)
(* The text box.  Old and new text have what stands before the draft and   *)
(* what stands behind it in common, and together that is all of the old    *)
(* one: whatever the common prefix takes of the text behind the draft is   *)
(* missing to the common suffix, and what is between them is the draft,    *)
(* moved to the right over characters that are its own.                    *)
(***************************************************************************)

\* A set that holds 0, and each number up to n whose predecessor it holds, holds them all.
LEMMA Upwards ==
  ASSUME NEW n \in Nat, NEW S, 0 \in S,
         \A i \in 1 .. n : i - 1 \in S => i \in S
  PROVE  0 .. n \subseteq S
<1> DEFINE Left == {i \in 0 .. n : i \notin S}
<1>1. SUFFICES ASSUME Left # {} PROVE FALSE
  OBVIOUS
<1>2. PICK i \in Left : \A j \in Left : i <= j
  <2>1. Left \subseteq Nat
    OBVIOUS
  <2> HIDE DEF Left
  <2> QED BY <1>1, <2>1, LeastOfNaturals
<1>3. i \in 1 .. n /\ i \notin S
  OBVIOUS
<1>4. ~(i <= i - 1) /\ i - 1 \in 0 .. n
  BY <1>3
<1>5. i - 1 \in S
  BY <1>2, <1>4
<1> QED BY <1>3, <1>5

\* A bounded set of natural numbers that is not empty has a greatest element.
LEMMA GreatestUpTo ==
  ASSUME NEW n \in Nat, NEW T, T \subseteq 0 .. n, T # {}
  PROVE  Max(T) \in T /\ \A y \in T : y <= Max(T)
<1> DEFINE Rest == {n - y : y \in T}
<1>1. Rest \subseteq Nat /\ Rest # {}
  <2>1. PICK y \in T : TRUE
    OBVIOUS
  <2>2. n - y \in Rest
    BY <2>1
  <2>3. ASSUME NEW z \in T PROVE n - z \in Nat
    BY <2>3
  <2> QED BY <2>2, <2>3
<1>2. PICK d \in Rest : \A e \in Rest : d <= e
  <2> HIDE DEF Rest
  <2> QED BY <1>1, LeastOfNaturals
<1>3. PICK x \in T : d = n - x
  BY <1>2
<1>4. \A y \in T : x >= y
  <2> SUFFICES ASSUME NEW y \in T PROVE x >= y
    OBVIOUS
  <2>1. n - y \in Rest
    OBVIOUS
  <2>2. n - x <= n - y
    BY <1>2, <1>3, <2>1
  <2> QED BY <2>2
<1>5. Max(T) \in T /\ \A y \in T : Max(T) >= y
  BY <1>4 DEF Max
<1> QED BY <1>5

LEMMA SmallerOfTwo ==
  ASSUME NEW a \in Nat, NEW b \in Nat, a <= b
  PROVE  Min({a, b}) = a
<1>1. Min({a, b}) \in {a, b} /\ \A y \in {a, b} : Min({a, b}) <= y
  BY DEF Min
<1> QED BY <1>1

\* Two texts of which the first is not longer begin alike, and behind that they end alike.
LEMMA PrefixIsCommon ==
  ASSUME NEW S, NEW a \in Seq(S), NEW b \in Seq(S), Len(a) <= Len(b)
  PROVE  /\ CommonPrefix(a, b) \in 0 .. Len(a)
         /\ \A i \in 1 .. CommonPrefix(a, b) : a[i] = b[i]
         /\ \A n \in 0 .. Len(a) : (\A i \in 1 .. n : a[i] = b[i]) => n <= CommonPrefix(a, b)
<1> DEFINE T == {n \in 0 .. Len(a) : \A i \in 1 .. n : a[i] = b[i]}
<1>1. CommonPrefix(a, b) = Max(T)
  <2>1. Min({Len(a), Len(b)}) = Len(a)
    BY SmallerOfTwo
  <2> QED BY <2>1 DEF CommonPrefix
<1>2. T \subseteq 0 .. Len(a) /\ 0 \in T /\ Len(a) \in Nat
  OBVIOUS
<1>3. Max(T) \in T /\ \A y \in T : y <= Max(T)
  <2> HIDE DEF T
  <2> QED BY <1>2, GreatestUpTo
<1> QED BY <1>1, <1>3

LEMMA SuffixIsCommon ==
  ASSUME NEW S, NEW a \in Seq(S), NEW b \in Seq(S), Len(a) <= Len(b), NEW prefix \in 0 .. Len(a)
  PROVE  /\ CommonSuffix(a, b, prefix) \in 0 .. Len(a) - prefix
         /\ \A n \in 0 .. Len(a) - prefix :
              (\A i \in 0 .. n - 1 : a[Len(a) - i] = b[Len(b) - i]) => n <= CommonSuffix(a, b, prefix)
<1> DEFINE T == {n \in 0 .. Len(a) - prefix : \A i \in 0 .. n - 1 : a[Len(a) - i] = b[Len(b) - i]}
<1>1. CommonSuffix(a, b, prefix) = Max(T)
  <2>1. Min({Len(a), Len(b)}) = Len(a)
    BY SmallerOfTwo
  <2> QED BY <2>1 DEF CommonSuffix
<1>2. T \subseteq 0 .. Len(a) - prefix /\ 0 \in T /\ Len(a) - prefix \in Nat
  OBVIOUS
<1>3. Max(T) \in T /\ \A y \in T : y <= Max(T)
  <2> HIDE DEF T
  <2> QED BY <1>2, GreatestUpTo
<1> QED BY <1>1, <1>3

\* The new text is the old one with m characters put in behind the first p.
PutIn(old, new, p, m) ==
  /\ Len(new) = Len(old) + m /\ p <= Len(old)
  /\ \A i \in 1 .. p : new[i] = old[i]
  /\ \A i \in p + 1 .. Len(old) : new[i + m] = old[i]

LEMMA EditIsAsLong ==
  ASSUME NEW S, NEW old \in Seq(S), NEW new \in Seq(S), NEW p \in Nat, NEW m \in Nat,
         PutIn(old, new, p, m)
  PROVE  /\ p <= CommonPrefix(old, new)
         /\ PostSubmitEditText(old, new) =
              SubSeq(new, CommonPrefix(old, new) + 1, CommonPrefix(old, new) + m)
<1>1. /\ Len(new) = Len(old) + m /\ p \in 0 .. Len(old) /\ Len(old) <= Len(new)
      /\ Len(old) \in Nat /\ Len(new) \in Nat
  BY DEF PutIn
<1>2. PICK P : P = CommonPrefix(old, new)
  OBVIOUS
<1>3. P \in 0 .. Len(old) /\ p <= P
  <2>1. \A i \in 1 .. p : old[i] = new[i]
    BY DEF PutIn
  <2> QED BY <1>1, <1>2, <2>1, PrefixIsCommon
<1>4. PICK Q : Q = CommonSuffix(old, new, P)
  OBVIOUS
<1>5. Q \in 0 .. Len(old) - P /\ Len(old) - P <= Q
  <2>1. ASSUME NEW i \in 0 .. Len(old) - P - 1 PROVE old[Len(old) - i] = new[Len(new) - i]
    <3>1. Len(old) - i \in p + 1 .. Len(old)
      BY <1>1, <1>3
    <3>2. new[(Len(old) - i) + m] = old[Len(old) - i]
      BY <3>1 DEF PutIn
    <3>3. (Len(old) - i) + m = Len(new) - i
      BY <1>1
    <3> QED BY <3>2, <3>3
  <2>2. Len(old) - P \in 0 .. Len(old) - P
    BY <1>1, <1>3
  <2> QED BY <1>1, <1>3, <1>4, <2>1, <2>2, SuffixIsCommon
<1>6. Q = Len(old) - P /\ Len(new) - Q = P + m
  BY <1>1, <1>3, <1>5
<1> QED BY <1>2, <1>3, <1>4, <1>6 DEF PostSubmitEditText

\* A window of m characters that moves to the right over such as reappear m further on
\* shows the same ones, begun at another.
Turned(new, p, m, s, r) ==
  \A i \in 1 .. m : new[p + s + i] = IF i + r <= m THEN new[p + i + r] ELSE new[p + i + r - m]

LEMMA WindowTurns ==
  ASSUME NEW new, NEW p \in Nat, NEW m \in Nat \ {0}, NEW d \in Nat,
         \A i \in p + 1 .. p + d : new[i] = new[i + m]
  PROVE  \E r \in 0 .. m - 1 : Turned(new, p, m, d, r)
<1> DEFINE Good == {s \in 0 .. d : \E r \in 0 .. m - 1 : Turned(new, p, m, s, r)}
<1>1. 0 \in Good
  <2>1. Turned(new, p, m, 0, 0)
    BY DEF Turned
  <2> QED BY <2>1
<1>2. ASSUME NEW s \in 1 .. d, s - 1 \in Good PROVE s \in Good
  <2>1. PICK r \in 0 .. m - 1 : Turned(new, p, m, s - 1, r)
    BY <1>2
  <2>2. \A i \in 1 .. m : new[p + (s - 1) + i] = IF i + r <= m THEN new[p + i + r] ELSE new[p + i + r - m]
    BY <2>1 DEF Turned
  <2>3. new[p + s + m] = new[p + (s - 1) + 1]
    <3>1. p + s \in p + 1 .. p + d /\ p + (s - 1) + 1 = p + s
      OBVIOUS
    <3> QED BY <3>1
  <2>4. new[p + s + m] = new[p + 1 + r]
    <3>1. 1 \in 1 .. m /\ 1 + r <= m
      OBVIOUS
    <3> QED BY <2>2, <2>3, <3>1
  <2>5. ASSUME NEW i \in 1 .. m, i # m
        PROVE  new[p + s + i] = IF i + 1 + r <= m THEN new[p + (i + 1) + r] ELSE new[p + (i + 1) + r - m]
    <3>1. i + 1 \in 1 .. m /\ p + (s - 1) + (i + 1) = p + s + i
      BY <2>5
    <3> QED BY <2>2, <3>1
  <2>6. CASE r + 1 <= m - 1
    <3>1. ASSUME NEW i \in 1 .. m
          PROVE  new[p + s + i] = IF i + (r + 1) <= m THEN new[p + i + (r + 1)] ELSE new[p + i + (r + 1) - m]
      <4>1. CASE i = m
        <5>1. ~(i + (r + 1) <= m) /\ p + i + (r + 1) - m = p + 1 + r
          BY <4>1
        <5> QED BY <2>4, <4>1, <5>1
      <4>2. CASE i # m
        <5>1. /\ i + (r + 1) = i + 1 + r /\ p + i + (r + 1) = p + (i + 1) + r
              /\ p + i + (r + 1) - m = p + (i + 1) + r - m
          OBVIOUS
        <5>2. new[p + s + i] = IF i + 1 + r <= m THEN new[p + (i + 1) + r] ELSE new[p + (i + 1) + r - m]
          BY <2>5, <4>2
        <5> QED BY <5>1, <5>2
      <4> QED BY <4>1, <4>2
    <3>2. Turned(new, p, m, s, r + 1) /\ r + 1 \in 0 .. m - 1
      BY <2>6, <3>1 DEF Turned
    <3> QED BY <3>2
  <2>7. CASE r = m - 1
    <3>1. ASSUME NEW i \in 1 .. m
          PROVE  new[p + s + i] = IF i + 0 <= m THEN new[p + i + 0] ELSE new[p + i + 0 - m]
      <4>1. CASE i = m
        <5>1. p + 1 + r = p + i + 0
          BY <2>7, <4>1
        <5> QED BY <2>4, <4>1, <5>1
      <4>2. CASE i # m
        <5>1. ~(i + 1 + r <= m) /\ p + (i + 1) + r - m = p + i + 0 /\ i + 0 <= m
          BY <2>7
        <5>2. new[p + s + i] = IF i + 1 + r <= m THEN new[p + (i + 1) + r] ELSE new[p + (i + 1) + r - m]
          BY <2>5, <4>2
        <5> QED BY <5>1, <5>2
      <4> QED BY <4>1, <4>2
    <3>2. Turned(new, p, m, s, 0) /\ 0 \in 0 .. m - 1
      BY <3>1 DEF Turned
    <3> QED BY <3>2
  <2> QED BY <2>6, <2>7
<1>3. 0 .. d \subseteq Good
  <2> HIDE DEF Good
  <2> QED BY <1>1, <1>2, Upwards
<1>4. d \in Good
  <2> HIDE DEF Good
  <2> QED BY <1>3
<1> QED BY <1>4

\* What stands in d places behind p stands there again m places further on.
Reappear(new, p, m, d) == \A i \in p + 1 .. p + d : new[i] = new[i + m]

LEMMA DraftIsRotated ==
  ASSUME NEW S, NEW new \in Seq(S), NEW p \in Nat, NEW m \in Nat, NEW d \in Nat,
         p + d + m <= Len(new), Reappear(new, p, m, d)
  PROVE  \E r \in 0 .. m :
           SubSeq(new, p + d + 1, p + d + m) = Rotated(SubSeq(new, p + 1, p + m), r)
<1>1. \A i \in 1 .. Len(new) : new[i] \in S
  OBVIOUS
<1>2. PICK draft : draft = SubSeq(new, p + 1, p + m)
  OBVIOUS
<1>3. draft \in Seq(S) /\ Len(draft) = m /\ \A i \in 1 .. m : draft[i] = new[p + i]
  <2>1. \A i \in p + 1 .. p + m : new[i] \in S
    BY <1>1
  <2> QED BY <1>2, <2>1, SubSeqProperties
<1>4. PICK moved : moved = SubSeq(new, p + d + 1, p + d + m)
  OBVIOUS
<1>5. moved \in Seq(S) /\ Len(moved) = m /\ \A i \in 1 .. m : moved[i] = new[p + d + i]
  <2>1. PICK q : q = p + d
    OBVIOUS
  <2>2. q \in Nat /\ \A i \in q + 1 .. q + m : new[i] \in S
    BY <1>1, <2>1
  <2>3. moved = SubSeq(new, q + 1, q + m)
    BY <1>4, <2>1
  <2>4. moved \in Seq(S) /\ Len(moved) = m /\ \A i \in 1 .. m : moved[i] = new[q + i]
    BY <2>2, <2>3, SubSeqProperties
  <2> QED BY <2>1, <2>4
<1>6. PICK r \in 0 .. m : m = 0 \/ Turned(new, p, m, d, r)
  <2>1. CASE m = 0
    BY <2>1
  <2>2. CASE m # 0
    <3>1. \A i \in p + 1 .. p + d : new[i] = new[i + m]
      BY DEF Reappear
    <3>2. PICK r \in 0 .. m - 1 : Turned(new, p, m, d, r)
      BY <2>2, <3>1, WindowTurns
    <3> QED BY <3>2
  <2> QED BY <2>1, <2>2
<1>7. PICK t : t = SubSeq(draft, r + 1, m)
  OBVIOUS
<1>8. t \in Seq(S) /\ Len(t) = m - r /\ \A i \in 1 .. m - r : t[i] = draft[r + i]
  <2>1. \A i \in r + 1 .. m : draft[i] \in S
    BY <1>3
  <2> QED BY <1>7, <2>1, SubSeqProperties
<1>9. PICK u : u = SubSeq(draft, 1, r)
  OBVIOUS
<1>10. u \in Seq(S) /\ Len(u) = r /\ \A i \in 1 .. r : u[i] = draft[i]
  <2>1. \A i \in 1 .. r : draft[i] \in S
    BY <1>3
  <2> QED BY <1>9, <2>1, SubSeqProperties
<1>11. PICK w : w = t \o u
  OBVIOUS
<1>12. w \in Seq(S) /\ Len(w) = m
       /\ \A i \in 1 .. m : w[i] = IF i <= m - r THEN t[i] ELSE u[i - (m - r)]
  <2>1. t \in Seq(S) /\ u \in Seq(S)
    BY <1>8, <1>10
  <2>2. /\ w \in Seq(S) /\ Len(w) = Len(t) + Len(u)
        /\ \A i \in 1 .. Len(t) + Len(u) : w[i] = IF i <= Len(t) THEN t[i] ELSE u[i - Len(t)]
    BY <2>1, <1>11, ConcatProperties
  <2>3. Len(t) = m - r /\ Len(t) + Len(u) = m
    BY <1>8, <1>10
  <2> QED BY <2>2, <2>3
<1>13. w = Rotated(draft, r)
  BY <1>3, <1>7, <1>9, <1>11 DEF Rotated
<1>14. ASSUME NEW i \in 1 .. m PROVE moved[i] = w[i]
  <2>1. moved[i] = new[p + d + i]
    BY <1>5
  <2>2. moved[i] = IF i + r <= m THEN new[p + i + r] ELSE new[p + i + r - m]
    <3>1. Turned(new, p, m, d, r)
      BY <1>6
    <3> QED BY <3>1, <2>1 DEF Turned
  <2>3. CASE i <= m - r
    <3>1. i \in 1 .. m - r /\ r + i \in 1 .. m /\ i + r <= m /\ p + (r + i) = p + i + r
      BY <2>3
    <3>2. w[i] = t[i]
      BY <1>12, <2>3
    <3>3. t[i] = draft[r + i]
      BY <1>8, <3>1
    <3>4. draft[r + i] = new[p + (r + i)]
      BY <1>3, <3>1
    <3> QED BY <2>2, <3>1, <3>2, <3>3, <3>4
  <2>4. CASE ~(i <= m - r)
    <3>1. i - (m - r) \in 1 .. r /\ i - (m - r) \in 1 .. m /\ ~(i + r <= m)
      BY <2>4
    <3>2. p + (i - (m - r)) = p + i + r - m
      OBVIOUS
    <3>3. w[i] = draft[i - (m - r)]
      BY <1>10, <1>12, <2>4, <3>1
    <3> QED BY <1>3, <2>2, <3>1, <3>2, <3>3
  <2> QED BY <2>3, <2>4
<1>15. moved = w
  BY <1>5, <1>12, <1>14, SeqEqual
<1> QED BY <1>2, <1>4, <1>13, <1>15

\* What was typed in one place is what clearSubmittedComposer() keeps, wherever in the text
\* it was, if need be begun at another character.
LEMMA ClearingKeepsDraft ==
  ASSUME NEW S, NEW old \in Seq(S), NEW new \in Seq(S), NEW p \in Nat, NEW m \in Nat,
         PutIn(old, new, p, m)
  PROVE  /\ \E r \in 0 .. m : PostSubmitEditText(old, new) = Rotated(SubSeq(new, p + 1, p + m), r)
         /\ (p = Len(old) \/ new[p + m + 1] # new[p + 1])
              => PostSubmitEditText(old, new) = SubSeq(new, p + 1, p + m)
         /\ PostSubmitEditText(old, new) \in Seq(S)
<1>1. PICK P : P = CommonPrefix(old, new)
  OBVIOUS
<1>2. /\ Len(new) = Len(old) + m /\ p <= Len(old) /\ Len(old) \in Nat /\ Len(new) \in Nat
      /\ Len(old) <= Len(new)
  BY DEF PutIn
<1>3. P \in 0 .. Len(old) /\ \A i \in 1 .. P : old[i] = new[i]
  BY <1>1, <1>2, PrefixIsCommon
<1>4. p <= P /\ PostSubmitEditText(old, new) = SubSeq(new, P + 1, P + m)
  BY <1>1, EditIsAsLong
<1>5. PICK d : d = P - p
  OBVIOUS
<1>6. d \in Nat /\ P = p + d /\ p + d + m <= Len(new)
  BY <1>2, <1>3, <1>4, <1>5
<1>7. \A i \in p + 1 .. p + d : new[i] = new[i + m]
  <2> SUFFICES ASSUME NEW i \in p + 1 .. p + d PROVE new[i] = new[i + m]
    OBVIOUS
  <2>1. i \in 1 .. P /\ i \in p + 1 .. Len(old)
    BY <1>3, <1>6
  <2> QED BY <1>3, <2>1 DEF PutIn
<1>8. \E r \in 0 .. m :
        SubSeq(new, p + d + 1, p + d + m) = Rotated(SubSeq(new, p + 1, p + m), r)
  <2>1. Reappear(new, p, m, d)
    BY <1>7 DEF Reappear
  <2>2. d \in Nat /\ p + d + m <= Len(new)
    BY <1>6
  <2> QED BY <2>1, <2>2, DraftIsRotated
<1>9. ASSUME p = Len(old) \/ new[p + m + 1] # new[p + 1] PROVE P = p
  <2> SUFFICES ASSUME P # p PROVE FALSE
    OBVIOUS
  <2>1. P \in Nat /\ p < P /\ P <= Len(old)
    BY <1>2, <1>3, <1>4
  <2>2. p + 1 \in p + 1 .. p + d /\ p # Len(old)
    BY <1>2, <1>6, <2>1
  <2>3. new[p + 1] = new[(p + 1) + m]
    BY <1>7, <2>2
  <2>4. (p + 1) + m = p + m + 1
    OBVIOUS
  <2> QED BY <1>9, <2>2, <2>3, <2>4
<1>10. SubSeq(new, P + 1, P + m) \in Seq(S)
  <2>1. \A i \in P + 1 .. P + m : new[i] \in S
    BY <1>6
  <2> QED BY <1>3, <2>1, SubSeqProperties
<1> QED BY <1>4, <1>6, <1>8, <1>9, <1>10

Characters == [key : Keys, late : BOOLEAN]
ComposerInv == cells \in Seq(Characters) /\ before \in Seq(Keys)

LEMMA PlainIsText ==
  ASSUME NEW c \in Seq(Characters)
  PROVE  /\ Text(c) \in Seq(Keys) /\ Len(Text(c)) = Len(c)
         /\ \A i \in 1 .. Len(c) : Text(c)[i] = c[i].key
<1>1. Text(c) = [i \in 1 .. Len(c) |-> c[i].key]
  BY DEF Text
<1>2. ASSUME NEW i \in 1 .. Len(c) PROVE c[i].key \in Keys
  <2>1. c[i] \in Characters
    OBVIOUS
  <2> QED BY <2>1 DEF Characters
<1> QED BY <1>1, <1>2

LEMMA WrittenIsRead ==
  ASSUME NEW t \in Seq(Keys)
  PROVE  Text(Written(t)) = t /\ Written(t) \in Seq(Characters)
<1>1. PICK c : c = Written(t)
  OBVIOUS
<1>2. c = [i \in 1 .. Len(t) |-> Cell(t[i], FALSE)]
  BY <1>1 DEF Written
<1>3. ASSUME NEW i \in 1 .. Len(t) PROVE Cell(t[i], FALSE) \in Characters
  <2>1. t[i] \in Keys
    OBVIOUS
  <2> QED BY <2>1 DEF Cell, Characters
<1>4. c \in Seq(Characters)
  <2>1. \A i \in 1 .. Len(t) : Cell(t[i], FALSE) \in Characters
    BY <1>3
  <2>2. c \in [1 .. Len(t) -> Characters]
    BY <1>2, <2>1
  <2>3. Len(t) \in Nat
    OBVIOUS
  <2> QED BY <2>2, <2>3
<1>5. Len(c) = Len(t)
  BY <1>2
<1>6. ASSUME NEW i \in 1 .. Len(t) PROVE c[i].key = t[i]
  BY <1>2 DEF Cell
<1>7. /\ Text(c) \in Seq(Keys) /\ Len(Text(c)) = Len(c)
      /\ \A i \in 1 .. Len(c) : Text(c)[i] = c[i].key
  BY <1>4, PlainIsText
<1>8. Text(c) = t
  BY <1>5, <1>6, <1>7, SeqEqual
<1> QED BY <1>1, <1>4, <1>8

\* What is between common prefix and common suffix is text of the box.
LEMMA EditIsText ==
  ASSUME NEW S, NEW a \in Seq(S), NEW b \in Seq(S)
  PROVE  PostSubmitEditText(a, b) \in Seq(S)
<1>1. PICK least : least = Min({Len(a), Len(b)})
  OBVIOUS
<1>2. least \in Nat /\ least <= Len(b)
  <2>1. CASE Len(a) <= Len(b)
    <3>1. least = Len(a)
      BY <1>1, <2>1, SmallerOfTwo
    <3> QED BY <2>1, <3>1
  <2>2. CASE Len(b) <= Len(a)
    <3>1. {Len(a), Len(b)} = {Len(b), Len(a)}
      OBVIOUS
    <3>2. Min({Len(b), Len(a)}) = Len(b)
      BY <2>2, SmallerOfTwo
    <3>3. least = Len(b)
      BY <1>1, <3>1, <3>2
    <3> QED BY <3>3
  <2> QED BY <2>1, <2>2
<1>3. CommonPrefix(a, b) \in 0 .. least
  <2> DEFINE T == {n \in 0 .. least : \A i \in 1 .. n : a[i] = b[i]}
  <2>1. T \subseteq 0 .. least /\ 0 \in T
    BY <1>2
  <2>2. CommonPrefix(a, b) = Max(T)
    BY <1>1 DEF CommonPrefix
  <2>3. Max(T) \in T
    <3> HIDE DEF T
    <3> QED BY <1>2, <2>1, GreatestUpTo
  <2> QED BY <2>1, <2>2, <2>3
<1>4. PICK prefix \in 0 .. least : prefix = CommonPrefix(a, b)
  BY <1>3
<1>5. CommonSuffix(a, b, prefix) \in 0 .. least - prefix
  <2> DEFINE T == {n \in 0 .. least - prefix : \A i \in 0 .. n - 1 : a[Len(a) - i] = b[Len(b) - i]}
  <2>1. T \subseteq 0 .. least - prefix /\ 0 \in T /\ least - prefix \in Nat
    BY <1>2
  <2>2. CommonSuffix(a, b, prefix) = Max(T)
    BY <1>1 DEF CommonSuffix
  <2>3. Max(T) \in T
    <3> HIDE DEF T
    <3> QED BY <2>1, GreatestUpTo
  <2> QED BY <2>1, <2>2, <2>3
<1>6. PICK last : last = Len(b) - CommonSuffix(a, b, prefix)
  OBVIOUS
<1>7. last \in Nat /\ prefix <= last /\ last <= Len(b)
  BY <1>2, <1>5, <1>6
<1>8. \A i \in prefix + 1 .. last : b[i] \in S
  BY <1>7
<1>9. SubSeq(b, prefix + 1, last) \in Seq(S)
  BY <1>7, <1>8, SubSeqProperties
<1> QED BY <1>4, <1>6, <1>9 DEF PostSubmitEditText

LEMMA ComposerTyped == ComposerInv /\ [ComposerNext]_composerVars => ComposerInv'
<1> SUFFICES ASSUME ComposerInv, [ComposerNext]_composerVars PROVE ComposerInv'
  OBVIOUS
<1>1. cells \in Seq(Characters) /\ before \in Seq(Keys)
  BY DEF ComposerInv
<1>2. PlainText \in Seq(Keys)
  BY <1>1, PlainIsText DEF PlainText
<1>3. ASSUME NEW n \in Nat, n <= Len(cells) PROVE SubSeq(cells, 1, n) \in Seq(Characters)
  <2>1. \A i \in 1 .. n : cells[i] \in Characters
    BY <1>1, <1>3
  <2> QED BY <2>1, SubSeqProperties
<1>4. ASSUME NEW n \in Nat \ {0} PROVE SubSeq(cells, n, Len(cells)) \in Seq(Characters)
  <2>1. \A i \in n .. Len(cells) : cells[i] \in Characters
    BY <1>1
  <2>2. n \in Int /\ Len(cells) \in Int
    BY <1>1
  <2> QED BY <2>1, <2>2, SubSeqProperties
<1>5. CASE Types
  <2>1. PICK i \in 1 .. Len(cells) + 1, k \in Keys :
             cells' = InsertAt(cells, i, Cell(k, turn = "submitting"))
    BY <1>5 DEF Types
  <2>2. PICK e : e = Cell(k, turn = "submitting")
    OBVIOUS
  <2>3. e \in Characters
    <3>1. (turn = "submitting") \in BOOLEAN
      OBVIOUS
    <3> QED BY <2>2, <3>1 DEF Cell, Characters
  <2>4. i \in Nat \ {0} /\ i - 1 \in Nat /\ i - 1 <= Len(cells)
    BY <1>1
  <2>5. PICK head : head = SubSeq(cells, 1, i - 1)
    OBVIOUS
  <2>6. PICK tail : tail = SubSeq(cells, i, Len(cells))
    OBVIOUS
  <2>7. head \in Seq(Characters) /\ tail \in Seq(Characters)
    BY <1>3, <1>4, <2>4, <2>5, <2>6
  <2>8. <<e>> \in Seq(Characters)
    BY <2>3
  <2>9. head \o <<e>> \o tail \in Seq(Characters)
    BY <2>7, <2>8, ConcatProperties
  <2>10. cells' = head \o <<e>> \o tail
    BY <2>1, <2>2, <2>5, <2>6 DEF InsertAt
  <2>11. before' = before
    BY <1>5 DEF Types
  <2> QED BY <1>1, <2>9, <2>10, <2>11 DEF ComposerInv
<1>6. CASE Erases
  <2>1. PICK i \in DOMAIN cells : cells' = RemoveAt(cells, i)
    BY <1>6 DEF Erases
  <2>2. i - 1 \in Nat /\ i - 1 <= Len(cells) /\ i + 1 \in Nat \ {0}
    BY <1>1
  <2>3. PICK head : head = SubSeq(cells, 1, i - 1)
    OBVIOUS
  <2>4. PICK tail : tail = SubSeq(cells, i + 1, Len(cells))
    OBVIOUS
  <2>5. head \in Seq(Characters) /\ tail \in Seq(Characters)
    BY <1>3, <1>4, <2>2, <2>3, <2>4
  <2>6. head \o tail \in Seq(Characters)
    BY <2>5, ConcatProperties
  <2>7. cells' = head \o tail
    BY <2>1, <2>3, <2>4 DEF RemoveAt
  <2>8. before' = before
    BY <1>6 DEF Erases
  <2> QED BY <1>1, <2>6, <2>7, <2>8 DEF ComposerInv
<1>7. CASE CtrlEnter
  BY <1>1, <1>2, <1>7 DEF CtrlEnter, StartTurn, ComposerInv
<1>8. CASE FirstFrame
  BY <1>1, <1>2, <1>8 DEF FirstFrame, StartTurn, ComposerInv
<1>9. CASE Accepted
  <2>1. PICK text : text = ClearedComposer
    OBVIOUS
  <2>2. text \in Seq(Keys)
    <3>1. PostSubmitEditText(before, PlainText) \in Seq(Keys)
      BY <1>1, <1>2, EditIsText
    <3> QED BY <2>1, <3>1 DEF ClearedComposer
  <2>3. Written(text) \in Seq(Characters)
    BY <2>2, WrittenIsRead
  <2>4. cells' = (IF shown = "closed" THEN cells ELSE Written(text)) /\ before' = <<>>
    BY <1>9, <2>1 DEF Accepted
  <2> QED BY <1>1, <2>3, <2>4 DEF ComposerInv
<1>10. CASE SubmitFails
  BY <1>1, <1>10 DEF SubmitFails, ComposerInv
<1>11. CASE TurnEnds
  BY <1>1, <1>11 DEF TurnEnds, ComposerInv
<1>12. CASE Closes
  BY <1>1, <1>12 DEF Closes, ComposerInv
<1>13. CASE UNCHANGED composerVars
  BY <1>1, <1>13 DEF composerVars, ComposerInv
<1> QED
  BY <1>5, <1>6, <1>7, <1>8, <1>9, <1>10, <1>11, <1>12, <1>13 DEF ComposerNext

\* What was typed in one place is put into the submitted text behind the characters before it.
LEMMA TypedIsPutIn ==
  ASSUME ComposerInv, NEW from \in 1 .. Len(cells) + 1, NEW to \in 0 .. Len(cells),
         TypedBetween(from, to), NEW p, p = from - 1, NEW m, m = to - from + 1
  PROVE  /\ p \in Nat /\ m \in Nat
         /\ PutIn(before, PlainText, p, m)
         /\ Len(before) = p + (Len(cells) - to)
<1>1. cells \in Seq(Characters) /\ before \in Seq(Keys)
  BY DEF ComposerInv
<1>2. PICK plain : plain = PlainText
  OBVIOUS
<1>3. PICK n : n = Len(cells)
  OBVIOUS
<1>4. plain \in Seq(Keys) /\ Len(plain) = n /\ n \in Nat
  BY <1>1, <1>2, <1>3, PlainIsText DEF PlainText
<1>5. \A i \in 1 .. n : plain[i] \in Keys
  BY <1>4
<1>6. from <= to + 1
  BY DEF TypedBetween
<1>7. from \in Int /\ to \in Int /\ n \in Int /\ from >= 1 /\ to >= 0 /\ to <= n
  BY <1>3, <1>4
<1>8. p \in Nat /\ m \in Nat /\ p <= n /\ p + m = to /\ to \in Nat
  BY <1>6, <1>7
<1>9. PICK head : head = SubSeq(plain, 1, p)
  OBVIOUS
<1>10. head \in Seq(Keys) /\ Len(head) = p /\ \A i \in 1 .. p : head[i] = plain[i]
  <2>1. \A i \in 1 .. p : plain[i] \in Keys
    BY <1>4, <1>5, <1>8
  <2> QED BY <1>8, <1>9, <2>1, SubSeqProperties
<1>11. PICK tail : tail = SubSeq(plain, to + 1, n)
  OBVIOUS
<1>12. tail \in Seq(Keys) /\ Len(tail) = n - to /\ \A i \in 1 .. n - to : tail[i] = plain[to + i]
  <2>1. \A i \in to + 1 .. n : plain[i] \in Keys
    BY <1>4, <1>5, <1>8
  <2>2. to + 1 \in Int /\ n \in Int
    BY <1>4, <1>8
  <2>3. /\ tail \in Seq(Keys) /\ Len(tail) = (IF to + 1 <= n THEN n - (to + 1) + 1 ELSE 0)
        /\ \A i \in 1 .. n - (to + 1) + 1 : tail[i] = plain[(to + 1) + i - 1]
    BY <1>11, <2>1, <2>2, SubSeqProperties
  <2>4. Len(tail) = n - to
    BY <1>4, <1>7, <1>8, <2>3
  <2>5. ASSUME NEW i \in 1 .. n - to PROVE tail[i] = plain[to + i]
    <3>1. i \in 1 .. n - (to + 1) + 1 /\ (to + 1) + i - 1 = to + i
      BY <1>4, <1>8
    <3>2. tail[i] = plain[(to + 1) + i - 1]
      BY <2>3, <3>1
    <3> QED BY <3>1, <3>2
  <2> QED BY <2>3, <2>4, <2>5
<1>13. PICK old : old = before
  OBVIOUS
<1>14. old = head \o tail
  <2>1. from - 1 = p
    OBVIOUS
  <2> QED BY <1>2, <1>3, <1>9, <1>11, <1>13, <2>1 DEF TypedBetween
<1>15. /\ Len(old) = p + (n - to)
       /\ \A i \in 1 .. p + (n - to) : old[i] = IF i <= p THEN head[i] ELSE tail[i - p]
  <2>1. head \in Seq(Keys) /\ tail \in Seq(Keys)
    BY <1>10, <1>12
  <2>2. /\ Len(old) = Len(head) + Len(tail)
        /\ \A i \in 1 .. Len(head) + Len(tail) : old[i] = IF i <= Len(head) THEN head[i] ELSE tail[i - Len(head)]
    BY <1>14, <2>1, ConcatProperties
  <2>3. Len(head) = p /\ Len(tail) = n - to
    BY <1>10, <1>12
  <2> QED BY <2>2, <2>3
<1>16. Len(plain) = Len(old) + m /\ p <= Len(old)
  <2>1. Len(plain) = n /\ Len(old) = p + (n - to)
    BY <1>4, <1>15
  <2>2. n = (p + (n - to)) + m /\ p <= p + (n - to)
    BY <1>7, <1>8
  <2> QED BY <2>1, <2>2
<1>17. ASSUME NEW i \in 1 .. p PROVE plain[i] = old[i]
  <2>1. i \in 1 .. p + (n - to) /\ i <= p
    BY <1>4, <1>7, <1>8
  <2> QED BY <1>10, <1>15, <2>1
<1>18. ASSUME NEW i \in p + 1 .. Len(old) PROVE plain[i + m] = old[i]
  <2>1. i \in 1 .. p + (n - to) /\ ~(i <= p) /\ i - p \in 1 .. n - to
    BY <1>4, <1>7, <1>8, <1>15
  <2>2. old[i] = tail[i - p]
    BY <1>15, <2>1
  <2>3. tail[i - p] = plain[to + (i - p)]
    BY <1>12, <2>1
  <2>4. to + (i - p) = i + m
    BY <1>8, <2>1
  <2> QED BY <2>2, <2>3, <2>4
<1>19. PutIn(old, plain, p, m)
  BY <1>16, <1>17, <1>18 DEF PutIn
<1> QED BY <1>2, <1>3, <1>8, <1>13, <1>15, <1>19

LEMMA DraftStays ==
  ASSUME ComposerInv, Accepted, shown # "closed",
         NEW from \in 1 .. Len(cells) + 1, NEW to \in 0 .. Len(cells), TypedBetween(from, to)
  PROVE  LET draft == SubSeq(PlainText, from, to) IN
         /\ \E r \in 0 .. Len(draft) : Text(cells') = Rotated(draft, r)
         /\ (draft = <<>> \/ to = Len(cells) \/ PlainText[to + 1] # draft[1])
              => Text(cells') = draft
<1>1. cells \in Seq(Characters) /\ before \in Seq(Keys)
  BY DEF ComposerInv
<1>2. PICK new : new = PlainText
  OBVIOUS
<1>3. new \in Seq(Keys) /\ Len(new) = Len(cells)
  BY <1>1, <1>2, PlainIsText DEF PlainText
<1>4. PICK p : p = from - 1
  OBVIOUS
<1>5. PICK m : m = to - from + 1
  OBVIOUS
<1>6. /\ p \in Nat /\ m \in Nat /\ PutIn(before, new, p, m)
      /\ Len(before) = p + (Len(cells) - to)
  BY <1>2, <1>4, <1>5, TypedIsPutIn
<1>7. PICK draft : draft = SubSeq(new, from, to)
  OBVIOUS
<1>8. from = p + 1 /\ to = p + m
  BY <1>4, <1>5
<1>9. Len(new) = Len(before) + m /\ Len(before) \in Nat
  BY <1>1, <1>6 DEF PutIn
<1>10. /\ draft = SubSeq(new, p + 1, p + m) /\ Len(draft) = m
       /\ (m # 0 => draft[1] = new[p + 1])
  <2>1. draft = SubSeq(new, p + 1, p + m)
    BY <1>7, <1>8
  <2>2. p + m <= Len(new)
    BY <1>3, <1>8
  <2>3. \A i \in p + 1 .. p + m : new[i] \in Keys
    BY <1>3, <1>6, <2>2
  <2>4. PICK s : s = p + 1
    OBVIOUS
  <2>5. PICK e : e = p + m
    OBVIOUS
  <2>6. s \in Int /\ e \in Int
    BY <1>6, <2>4, <2>5
  <2>7. /\ Len(draft) = (IF s <= e THEN e - s + 1 ELSE 0)
        /\ \A i \in 1 .. e - s + 1 : draft[i] = new[s + i - 1]
    <3>1. draft = SubSeq(new, s, e) /\ \A i \in s .. e : new[i] \in Keys
      BY <2>1, <2>3, <2>4, <2>5
    <3>2. /\ Len(SubSeq(new, s, e)) = (IF s <= e THEN e - s + 1 ELSE 0)
          /\ \A i \in 1 .. e - s + 1 : SubSeq(new, s, e)[i] = new[s + i - 1]
      BY <2>6, <3>1, SubSeqProperties
    <3> QED BY <3>1, <3>2
  <2>8. Len(draft) = m
    BY <1>6, <2>4, <2>5, <2>7
  <2>9. ASSUME m # 0 PROVE draft[1] = new[p + 1]
    <3>1. 1 \in 1 .. e - s + 1 /\ s + 1 - 1 = p + 1
      BY <1>6, <2>4, <2>5, <2>9
    <3> QED BY <2>7, <3>1
  <2> QED BY <2>1, <2>8, <2>9
<1>11. PICK text : text = ClearedComposer
  OBVIOUS
<1>12. /\ text \in Seq(Keys)
       /\ \E r \in 0 .. m : text = Rotated(draft, r)
       /\ (m = 0 \/ to = Len(cells) \/ new[to + 1] # draft[1]) => text = draft
  <2>1. CASE new = before
    <3>1. m = 0
      BY <1>6, <1>9, <2>1
    <3>2. text = <<>>
      BY <1>2, <1>11, <2>1 DEF ClearedComposer
    <3>3. draft = <<>>
      <4>1. draft \in Seq(Keys)
        <5>1. \A i \in p + 1 .. p + m : new[i] \in Keys
          BY <1>6, <3>1
        <5>2. p + 1 \in Int /\ p + m \in Int
          BY <1>6
        <5> QED BY <1>10, <5>1, <5>2, SubSeqProperties
      <4> QED BY <1>10, <3>1, <4>1
    <3>4. Rotated(draft, 0) = <<>>
      BY <3>3 DEF Rotated
    <3>5. 0 \in 0 .. m
      BY <1>6
    <3>6. text \in Seq(Keys)
      BY <3>2
    <3> QED BY <3>2, <3>3, <3>4, <3>5, <3>6
  <2>2. CASE new # before
    <3>1. text = PostSubmitEditText(before, new)
      BY <1>2, <1>11, <2>2 DEF ClearedComposer
    <3>2. m # 0
      <4> SUFFICES ASSUME m = 0 PROVE new = before
        BY <2>2
      <4>1. Len(new) = Len(before)
        BY <1>9
      <4>2. ASSUME NEW i \in 1 .. Len(before) PROVE new[i] = before[i]
        <5>1. CASE i <= p
          <6>1. i \in 1 .. p
            BY <1>6, <5>1
          <6> QED BY <1>6, <6>1 DEF PutIn
        <5>2. CASE ~(i <= p)
          <6>1. i \in p + 1 .. Len(before) /\ i + m = i
            BY <1>6, <1>9, <5>2
          <6>2. new[i + m] = before[i]
            BY <1>6, <6>1 DEF PutIn
          <6> QED BY <6>1, <6>2
        <5> QED BY <5>1, <5>2
      <4> QED BY <1>1, <1>3, <4>1, <4>2, SeqEqual
    <3>3. /\ \E r \in 0 .. m : text = Rotated(draft, r)
          /\ (p = Len(before) \/ new[p + m + 1] # new[p + 1]) => text = draft
          /\ text \in Seq(Keys)
      <4>1. before \in Seq(Keys) /\ new \in Seq(Keys)
        BY <1>1, <1>3
      <4>2. p \in Nat /\ m \in Nat /\ PutIn(before, new, p, m)
        BY <1>6
      <4>3. /\ \E r \in 0 .. m :
                 PostSubmitEditText(before, new) = Rotated(SubSeq(new, p + 1, p + m), r)
            /\ (p = Len(before) \/ new[p + m + 1] # new[p + 1])
                 => PostSubmitEditText(before, new) = SubSeq(new, p + 1, p + m)
            /\ PostSubmitEditText(before, new) \in Seq(Keys)
        BY <4>1, <4>2, ClearingKeepsDraft
      <4>4. draft = SubSeq(new, p + 1, p + m)
        BY <1>10
      <4> QED BY <3>1, <4>3, <4>4
    <3>4. ASSUME to = Len(cells) PROVE p = Len(before)
      BY <1>6, <3>4
    <3>5. ASSUME new[to + 1] # draft[1] PROVE new[p + m + 1] # new[p + 1]
      BY <1>8, <1>10, <3>2, <3>5
    <3> QED BY <3>2, <3>3, <3>4, <3>5
  <2> QED BY <2>1, <2>2
<1>13. Text(cells') = text
  <2>1. cells' = Written(text)
    BY <1>11 DEF Accepted
  <2>2. Text(Written(text)) = text
    BY <1>12, WrittenIsRead
  <2> QED BY <2>1, <2>2
<1>14. draft = <<>> => m = 0
  BY <1>10
<1>15. /\ \E r \in 0 .. Len(draft) : Text(cells') = Rotated(draft, r)
       /\ (draft = <<>> \/ to = Len(cells) \/ new[to + 1] # draft[1]) => Text(cells') = draft
  BY <1>10, <1>12, <1>13, <1>14
<1> QED BY <1>2, <1>7, <1>15

\* What the operator types in one place of the submitted text while submit() waits stays in
\* the box: the characters and their order, but for where they begin, which is kept too
\* unless the text goes on behind them with the character they begin with.
THEOREM DraftIsKept ==
  ComposerInit /\ [][ComposerNext]_composerVars => DraftSurvives
<1> DEFINE DraftHolds == Accepted /\ shown # "closed" =>
             \A from \in 1 .. Len(cells) + 1, to \in 0 .. Len(cells) : TypedBetween(from, to) =>
               LET draft == SubSeq(PlainText, from, to) IN
               /\ \E r \in 0 .. Len(draft) : Text(cells') = Rotated(draft, r)
               /\ (draft = <<>> \/ to = Len(cells) \/ PlainText[to + 1] # draft[1])
                    => Text(cells') = draft
<1>1. ComposerInit => ComposerInv
  BY DEF ComposerInit, ComposerInv
<1>2. ComposerInv => DraftHolds
  BY DraftStays
<1>3. ComposerInv /\ [ComposerNext]_composerVars => [DraftHolds]_composerVars
  <2> HIDE DEF DraftHolds
  <2> QED BY <1>2
<1> QED BY <1>1, <1>3, ComposerTyped, PTL DEF DraftSurvives

=============================================================================
