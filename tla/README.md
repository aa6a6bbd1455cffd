# Verification of hyper-code2

hyper-code2 is a local coding agent: one Bun process that keeps agents (chat
transcripts) in SQLite, runs a worker that feeds due agents to a language model,
executes the markers the model emits (`§eval`, `§edit`, `§bash`, `§html`, ...),
and serves browser pages, a line terminal and a full-screen terminal. This
directory holds TLA+ models of its core logic, the TLC runs that check them, and
TLAPS proofs about them. Paths are relative to the repository root; those without
a leading directory are under `src/`.

The process is a single JavaScript thread. An action of a model is therefore a
stretch of code between two awaits; everything else in the system may happen at
the await, and the interleavings of those stretches are what the models explore.
Where nothing waits (the marker language, the patch language, the catalog of
files) the models are operators on data, checked over all bounded inputs.

## 1. Inventory

| component | state | operations | interacts with | what is hard |
|---|---|---|---|---|
| **Run lifecycle** `agent/workerLoop.ts`, `submit.ts`, `stop.ts`, routes of `agent/` | `agents` row: `run_state`, `next_run_at`, `last_processed_msg_idx`; `ctx.state.agent[id]` with `abortController`, `isStreaming` | submit, claim, run, finally, stop, archive, delete, reset | sessions, runtime, pages, terminal | input during a run; stop, shutdown or a crash in any await; cached objects dropped under a live run |
| **Worker loop** `workerLoop.ts:35-50,178-218`, `wakeWorker.ts` | wake flag, waiters, in-flight set, park timer | drain, decide, park, wake, time out | submit, stop, runtime | a wake-up lost between deciding to sleep and sleeping |
| **Agent turn** `agent/run.ts`, `executeMarker.ts` | transcript, abort signal | model call, prose, markers, results, errors | llm, sessions, files | a pair of marker and result cut by an abort or an edit |
| **Sessions** `session/` | `messages`, `events` | append, delete one, truncate, replace, compact, fork, archive, delete, load | everything | indexes reused after a truncation; reads of a parent that goes on |
| **Event feed** `session/appendEvent.ts`, event routes, `events/` | offsets of pages, SSE streams | append, notify, poll, swap | browser, terminal | lost messages and requests, edits below an offset |
| **Runtime and process** `runtime/start.entry.ts`, `script/hcode.ts`, `$main.ts` | shutdown promise, gates, tracked promises, handlers | boot, choice of adapter, graceful and forced shutdown | everything | a signal at any moment of the boot, a grace that expires |
| **Terminal, TUI** `cli/` | phases, controllers, offsets, preview, text box | submit, Ctrl+C once and twice, EOF, exit | submit, stop, live events | a stop inside a submission; a preview beside stored events; a draft typed while submit() awaits |
| **Delegation** `delegateTask.ts`, `finishTask.ts` | child agents, scratchpad contract, waiters | delegate, finish, fork | runs, sessions | runs beside each other, nesting, failures of either side |
| **Marker language** `parseMarkers.ts`, `serializeMarkerCall.ts`, `executeMarker.ts`, `markerKind.ts` | none | parse an answer, print a call and a result | turn, requests | escapes, blank lines, closes, cut streams |
| **Requests and streams** `llm/` | attempt, response, stream | build a request, convert it for three protocols, retry, stream | turn | consecutive roles, empty messages, retries racing aborts |
| **Token refresh, logins** `llm/refresh*.ts`, `settings/*Login.ts` | credential files, login state, pollers, the codex process | refresh, start, poll, prompt, exit, logout | providers, CLI | two logins, two refreshes, a logout under either |
| **Settings, choice of model** `settings/`, `llm/selectDefaultModel.ts` | rows, `process.env`, `.env`, forms; default model | get, set, reset, saveEnv, detect, recover | llm, pages | precedence, untouched fields, restarts |
| **Browser pages** `events/client.js`, `ui/` | streams, requests of `ui.eval`, sidebars | emit, ask, answer, refresh, poll | operator | a sidebar that stays stale |
| **Hot reload, self description** `repl/load.ts`, `self/describe.ts` | registry, receipts, files | load, replace, describe | agents editing their own code | a file that changes while it is hashed and imported |
| **Files, commands** `files/`, `agent/executeBash.ts` | files, process groups | read, patch, write, spawn, kill | agents | edits against stale lines, a timer that kills a reused group |
| **Catalog, routing** `project/`, `loadFns.ts`, `http/` | `ctx.fns`, `ctx.routes`, settings registry | classify, load, reload, match | everything | overlays, parameters, order of a scan |
| **Start** `cli/parseArgs`, `workspace/`, `db/migrate.ts` | arguments, roots, rules, schema | parse, resolve, discover, migrate | database, git | files that change meanwhile, two starts at once |

For each component the properties that make it correct:

* *Run lifecycle.* One run per agent; a claim lasts as long as its run; input is
  acknowledged only by a successful run that started with it, and is otherwise retried,
  returned or waits, but for the two ways it is left behind; a cleared queue stays cleared.
* *Worker loop.* No wake-up is lost; a due agent is claimed without waiting for
  something unrelated.
* *Turn and sessions.* What parts a marker from its result is known and no more, bubbles
  name their rows, an edit leaves the survivors alone. A fork reads its parent up to the
  boundary, whatever happens later; an id names one agent for ever.
* *Feed and terminals.* A reader shows every event once and in order; the prompt comes
  back only beside an idle agent; a draft survives the submission before it; an exit
  ends the process.
* *Delegation.* A parent that waits goes on.
* *Language and requests.* A provider accepts every request; the request says what the
  transcript says; what is stored of a call is what was executed; a call that was
  executed stays in the conversation.
* *Logins, settings.* The stored token is the one the server accepts; a page that
  waits is worked for; saving a form stores what it says; a saved key outlives the process;
  a model chosen by detection that fails is forgotten.
* *Reload, files, commands.* What is said to run is what runs; a patch leaves the rest
  of the file; a kill reaches its own command; an abort ends a run.
* *Catalog, start.* A route is found whatever the order of the files; a reload leaves
  what a restart would; a migration takes effect once; rules found at the start reach
  the agent.

## 2. Modules

| module | models | role |
|---|---|---|
| `AgentRuns` | run lifecycle, stop, shutdown, crash and restart | detailed specification |
| `OperatorInbox` | what the scheduler promises about operator input | abstract specification `AgentRuns` implements |
| `WorkerLoop` | how the loop drains, sleeps and is woken | specification |
| `Transcript` | one agent's rows and bubbles under turns, submissions, edits, compaction, death | specification |
| `Forks` | agents, what they inherit, the objects that cache it | detailed specification |
| `CopiedTranscripts` | what a fork promises | abstract specification `Forks` implements |
| `Delegation` | contracts, children, reports, waiting parents | specification |
| `Markers`, `Exchanges` | the marker language; rows to requests of three protocols, and an agent's conversation that uses both | operators, and a specification above them |
| `OneOffCalls` | `llmCall` and `readAndSummarize` | specification |
| `ModelCalls`, `Commands`, `Sources`, `SelfDescription`, `HashlineEdit` | a model call with retries; `§bash` and its kill timers; hot reload; the description of what runs; the patch language | components |
| `Workspace` | an agent's run that uses those five, and others who share the sources | composition |
| `TokenRefresh`, `KimiLogin`, `CodexLogin`, `Accounts` | a credential file; two device logins above it; either of them | components and composition |
| `LiveTurns`, `Terminal`, `Tui`, `EventFeed`, `Runtime`, `Hcode` | one agent as adapters see it; the adapters; the pages; the runtime; the process | components and composition |
| `Composer` | the text box of the full-screen adapter | specification |
| `Settings`, `ModelChoice`, `Browsers` | rows, `.env` and forms; which model an agent gets; open pages | specifications |
| `Migrations`, `Startup`, `Catalog` | schema; arguments to rules; files to functions and routes | specifications |
| `MCAgentRuns`, `MCWorkspace`, `MCPages`, `MCReading`, `MCProcess` | | TLC instances |
| `AgentRunsProofs`, `ForksProofs`, `AccountsProofs`, `WorkspaceProofs`, `TranscriptProofs`, `HcodeProofs` | | theorems on the module of that name and its parts |
| `ProcessProofs` | | theorems on `WorkerLoop`, `Migrations`, `Delegation`, `Startup`, `Catalog`, `Composer` |
| `ModelCallProofs` | | theorems on `Settings`, `ModelChoice`, `OneOffCalls`, `Exchanges` |

The modules meet at shared actions. A run of `AgentRuns` is a promise that inserts
rows and ends; `WorkerLoop` has the same runs as members of its in-flight set;
`Transcript` and `Exchanges` are the inside of one such run, the first for the places
of its rows and the second for what they say; `Workspace` is what its markers do;
`LiveTurns` is what an adapter sees of it, the scheduling left to `AgentRuns`.

### AgentRuns

| model | code |
|---|---|
| `rowState`, `runState`, `nextRun`, `cursor` | the `agents` row: `archived_at` or no row, `run_state`, `next_run_at`, `last_processed_msg_idx` |
| `msgs[a]` | rows of `messages`: `idx`, and `op` for `role = 'user' AND excluded_from_cursor = 0` |
| `cached`, `ctl`, `streaming` | `ctx.state.agent[id]`, its `abortController`, its `isStreaming` |
| `run[r]` | one promise of `runOne()` or of a direct `agent.run()`: agent, frontier, who aborted it, how it ended, whether its object was dropped |
| `sub[s]` | one `submit()` suspended in the rendering of the user event |
| `phase` | `shutdown()`: before it, `closing`, `aborted`, `swept`, `down` |
| fate of a message, `cleared` | history only: no guard reads them. A fate is none (no input), open (no run has started with it), taken, acked, or returned by a run that started with it; input of a failed run or a dead process that nobody took stays open |

`SubmitBegin`/`SubmitEnd` are `submit()` before and after its await; `Claim` is
`claimOne` plus `runOne` and `run` up to the model call; `RunAppend`, `RunClose`,
`RunSettle` are the rows a run inserts and the ways it ends; `RunFinally` is the
finally block of `runOne` in the order of its statements; `Stop`, `Archive`,
`DeleteAgent`, `DeleteMessage`, `ResetAgent` are the HTTP handlers (`Stop` also the
first Ctrl+C of the terminal, with `CancelTerminal`); `DirectRun`/`DirectFinally` are
`ui.sendToAgent`; `Shutdown*` follow `shutdown()`; `Crash` and `Restart` are process
death and `startRuntime`. `next_run_at` is NULL, in the future or due, and its passing
is an action. The next-state relations build on each other so that a run says what it
assumes: `WorkerNext`, `CrashNext` (process death), `DurableNext` (edits of the
transcript), `BypassNext` (direct runs, `DELETE /agent/:id`), `ServingNext`.

### WorkerLoop

`runState` and `due` are the columns, the latter in ticks of 50 ms, the least the loop
waits; `live` the runs before their finally block; `jobs` the microtask queue, part of
the state because the order of two continuations decides whether the loop sees its
in-flight set empty; `parked`, `timer`, `pending` the promise of `waitForWork`, its
timeout and the wake flag; `late` is history. `Iterate` is one round of the loop;
`LeaveLoop` its end; `Forget` the removal of a settled promise; `Submit`, `RunEnds`,
`Stop`, `StopLoop` what others do, with `wakeWorker()` where the code calls it and not
where it does not (`Stop`). Rows claimed by an earlier process are `Inherited`.

### Transcript, Forks

`rows` and `events` of `Transcript` are the tables in idx order, `at`, `plan`,
`current`, `aborted` what the turn awaits and what is left of the answer, `posting`
the submissions whose bubble is being rendered. An answer is any sequence of prose,
markers and errors (what texts give which is `Markers`). `patient`, chosen in `Init`,
says which operators there are: those who edit only what is at rest, beside an agent that
does not compact, or those who edit at any moment while the agent compacts and the process
may die. Either may submit during a marker. `NothingElseParts` and `SurvivorsUnchanged`
are about both, `BubblesMatchRows` and `PairsWhole` about the former.

`Forks` has `idCounter` (`kv`), `status`, `parent`, `offset`, `rows[a]` (own rows, named
by the agent they were written for and a number), `cached` and `context` (the
objects). `Full` is `getFullMessages()` as a recursive function over ids. Guards of
`WriteStep` and `KeepStep` are assumptions about operators and not code: edits of a
parent stay beyond what its forks inherited, only roots compact, agents that were
forked are not deleted. Without them a fork's promise does not hold;
`memory-bank/domain/rules.md:31-35` concedes the first.

### The process an operator starts

`LiveTurns` has the row (`idle`, `due`, `running`), the live run, the log of durable events
and a pending submission; each of its steps names the live event it publishes. `Terminal`
reads lines and the log from an offset; `Tui` also takes live events into a preview
(`OnEvent` runs inside the step that publishes, as the callback does); `EventFeed` is the
table with its idx and the pages that follow an offset over lost messages, lost requests and
edits: the first tail, which the page is rendered with, fires once, when it is loaded, and
only the tails that answers bring have the tick and the interval
(`agent/$route_$id_GET.ts:62`, `$route_$id_events.html_GET.ts:34`); `Runtime` is boot,
signals, gates, the end of the server, the grace and the forced end. `Hcode` chooses an
adapter as `script/hcode` does (command, TTY, `SupportsKittyKeyboard`) or as `$main.ts`
does, and runs it beside the agent.

`Composer` is the text box of the TUI: what is typed before the first frame, while
`submit()` awaits and after, and `PostSubmitEditText`, which decides by comparing two
texts what of the box was submitted. The program sees characters only; the mark
`late` of a character is the specification's.

### What a run does

`Exchanges` is the conversation: messages of the operator at any moment, a request made
for one of three protocols, an answer that streams in line by line until it ends, breaks or is
stopped, its prose, calls and warnings (`Markers`), their execution and the rows they
leave. `rows` is the table, `cache` `agent.messages`, which a request of a root agent is
built from, and `rendering` the messages whose `submit()` has stored its row and not yet
brought `cache` up to date. A text is a sequence of lines; a line is what the parser can
tell about it.
`OneOffCalls` asks one question outside any conversation.

`Workspace` composes what the calls touch: `HashlineEdit` (patches against the lines
last seen), `Commands` (process groups, the kill timer and its escalation), `Sources`
(files of one procedure in `src` and in the overlay, loads that look, read, hash and
import), `SelfDescription` (scan, snapshot, hash, reconcile, second attempt) and
`ModelCalls` (dispatch, retries, backoff, abort). Others may save, load and ask.

### Accounts, settings, pages

A refresh token is a pair (grant, serial); the server hands out the next serial for
the current one. `TokenRefresh` is the protocol that the three `refresh*.ts` run
beside the provider's CLI; `KimiLogin` adds codes, poll loops and the page, `CodexLogin`
the child process, its prompt, exit, failure and 15 s timer.

`Settings` has rows, the environment, `.env`, the declared form with several tabs, and
the page of API keys, over restarts. `saveEnv()` changes the environment and then the file,
which may fail (`SaveEnvFails`), and `Reread` is what the next process makes of a value
as `escape()` wrote it; `kept` is history. `ModelChoice` adds the flag, the
lists of providers, detection, its memory on the agent and in the row, and its
recovery; `Browsers` has streams, `ui.eval` requests with answers, navigation, and the
two ways a sidebar is refreshed; `gone` are the pages of agents that have been archived or
deleted since, whose address answers 404.

### Start

`Migrations`: two starters over one database. `Startup`: command line, workspace, roots
as the prompt names them, `AGENTS.md` files from the Git root down while they change.
`Catalog`: classification of file names, the scan of both roots, tables of functions,
settings and routes, reloads of any name a file has (a reload knows the names `x` and `$x`
of a directory, a start the classes of `scan.ts`), and matching of requests. `Delegation`:
contracts in the scratchpad, the child's run, the worker's run beside it, reports,
waiters, failures, the end of the process.

## 3. Runs

| run | question | result |
|---|---|---|
| `worker` | Does the cursor cover only input that a successful run started with, is input left without a schedule only behind a failed run and by a death inside `submit()`, do the columns implement `OperatorInbox`? | holds |
| `durable` | One run per agent, a cleared queue that stays cleared, claims left only by crashes, under crashes and edits? | holds |
| `serving` | Is input that waits eventually taken, if runs end, unless its agent is archived or the run it arrived during fails? | holds |
| `edits` | Is a call parted from its result in the four ways known and in no other, by edits, compactions, aborts and crashes at any moment; does each bubble name the row it shows, do survivors of an edit keep idx and flags? | holds |
| `pairs` | Do pairs "remain structurally paired during compaction, deletion, and truncation" (`memory-bank/engineering/agent-protocol.md:50-51`), among operators who edit between turns? | violated |
| `forks` | Is a lazily read fork as good as a copy, is no id given twice? | holds |
| `hcode` | Does the prompt come back only beside an idle agent with everything shown, is an event shown once, does it arrive at every page whose first fetch was answered, does an exit end the process? | holds |
| `workspace` | Does a kill reach only its command, is a description true, does a patch keep the rest, does an abort end the run? | holds |
| `insert` | Does `+ ANCHOR` insert after its anchor (`agent/SYSTEM_PROMPT.txt:154`)? | violated |
| `pages` | Do saved keys outlive a restart, does a saved form store what it says, is a failed detection forgotten, does the sidebar of a page that is still there follow; is the stored token the one the server accepts, is a waiting page worked for, does every poll loop end? | holds |
| `reading` | Is every request accepted, does it say what the rows say but for messages still being rendered, is a stored call the executed one, is a one-off answer what was said, do executed calls stay? | holds |
| `process` | Lost wake-ups, migrations once, rules that reach the agent, routes and reloads, waiting parents, the operator's draft | holds |

Two findings are kept as runs. `insert`: `files/editHashline.ts:35` files an insertion
after line n under index n and pushes it behind line n + 1. `pairs`: `agent/markerKind.ts`
does not know `§read`, `§grep` and `§edit`, and the deletion of such a call leaves its
result; `NothingElseParts` of `edits` says what does hold. Every property of the
other runs is also checked to fail for a mutant of the code, written in the module
before the definition it replaces.

`reading`, `pages` and `process` put several specifications into one instance: they
share no state, `subject` is chosen in `Init`, and a behaviour is about one of them.

### Bounds, and why they are enough

* `AgentRuns`: one agent, since agents share only the process phase and the pool of
  runs. Two runs are what `OneRunPerAgent` needs to fail; two submissions race each
  other and a run. `MaxIdx` 2 lets a message arrive before, during and after a run
  and, with the deletion of the tail, lets an idx be handed out twice. `serving` has
  one run and two submissions.
* `WorkerLoop`: two agents, one left claimed by an earlier process; delays of nothing
  and of more than the safety poll; a retry delay below the poll. The loop compares
  times only with each other and with its limits.
* `Transcript`: `PatientBorn` = 5 rows for patient operators hold a marker, two
  interjections, its result and one row more. `MaxBorn` = 4 for the others holds a pair with
  an interjection that a truncation cuts through, a pair whose result the `compact()` of a
  second call shortens, and a call that its own `compact()` drops. A compaction that cuts
  through a finished pair needs five rows and is left to the proof. `PatientLoose` = 1 and
  `MaxLoose` = 0 bound bubbles of reasoning and warnings, which have no row. One marker per
  answer (`MaxCalls`), of each kind (`call`, `plain`, `html`), two `Interjections`: with one
  behind a call, a truncation still finds the pair. `pairs` needs a call, its result and one
  deletion.
* `Forks`: three agents make a fork of a fork and two forks of one parent; two rows
  per agent put an edit before, at and after a boundary.
* `Accounts`, in `pages`: two logins and two callers, each pair that can race; one rotation per
  grant, after which a token is spent.
* `Hcode`: one page, as pages share only the table; three events, two turns (a second
  turn meets what the first left), one call per run and one stored event per call.
  Rendering may await anywhere. Left out of `Tui`: edits of the transcript during a
  turn and the reset of its offset after one (`runTui.entry.ts:56-60`).
* `Workspace`: a source of two lines, patches of two operations whose ranges run forward,
  two writes, one retry (three in the program: attempts differ only in their number),
  another loader. A line hash of two characters is taken to be the line. `Escaping`
  (a command that leaves its process group) is off and `Wrapped` (a procedure that
  `startRuntime` wraps) is FALSE: section 5.
* `Settings`, `ModelChoice`: one field edited per submission, two tabs, a group of
  settings per behaviour (`Focus`) so that each type and each kind of binding occurs; no
  agent is created while a form is open, and where the key of `/settings` is edited, which
  no form shows, one form is open at a time. `Reread` is any function; the instance has a
  key with `$`, which comes back without it. A write that fails leaves the file as it was
  or a number of its lines. The browser's own range check is assumed. `Browsers`: two
  windows, one request, one change of the list, two moves, two refreshes on their way.
* `Exchanges`: answers of up to four lines over eleven kinds of lines, in up to two
  calls: marker, body, close, and what follows, in every order; two messages of the
  operator, the second one beside an answer of at most two lines. A cut in the middle of
  a line, CRLF, and escapes in backticks are below the granularity; a whitespace-only
  line is a blank one. `Stops` stands for abort, failure and crash.
* `OneOffCalls`: files of 0, 2 and 3 characters against limits of -1 and 2; three stream events.
* `Delegation`: three agents nest and fork; two reports let one come twice. Code that
  calls `delegateTask` without awaiting it is left out.
* `Migrations`: two starts, three names, two added files. `Startup`: depth 3, one change of
  a file; one thing wrong at a time, and with that one `AGENTS.md`. `Catalog`: ten files and
  three more that come and go, one of them under `tmp_`, two moves, reloads of functions, of
  a scratch file, of a `$start` and of a route.
* `Composer`: four characters over a letter and a blank. Equal letters are the hard
  case, because the code can tell nothing else apart.

### Fairness

`ServingFairness`: the clock, `Claim` (the loop polls at least every 30 s,
`workerLoop.ts:17,205-213`), `SubmitEnd` (in-process rendering), `RunFinally`. Nothing is
assumed of a run: `InputIsTaken` has "runs end" as its premise. `WorkerLoop`: the event
loop and the clock. `Accounts`: poll loops run and the clock passes. `Hcode`:
steps of the adapters (a promise is resolved, a wait ends by its event or its timeout),
the end of an aborted run, shutdown, the page's 10 s poll, and strong fairness of its
request, which fails at times but not for ever. `Workspace`: requests settle once
aborted, backoffs pass, signals are delivered, files are read. `Browsers`: pages handle
what they are sent, their code ends, the server answers, timers fire. `Delegation`:
a run that waits for nothing ends, since models stop calling or calls fail. Operators
are not fair. `Transcript`, `Forks`, `Settings`, `ModelChoice`, `Exchanges`, `OneOffCalls`,
`Migrations`, `Startup`, `Catalog`, `Composer` state safety only.

CHECK_DEADLOCK is off where the system may rest: an agent with nothing scheduled
(`serving`), a process that ended (`hcode`), logins that are over or a server that died,
and bounded moves that are used up (`pages`, `reading`, `process`).

## 4. Proofs

| theorem | statement | inductive invariant |
|---|---|---|
| `AgentRunsProofs!TypeCorrect` | `DurableSpec => []TypeOK` | `TypeInv`: types, and a run or submission in flight names an agent |
| `SerialisedPerAgent` | `DurableSpec => []OneRunPerAgent` | `TypeInv /\ Held` |
| `ClaimOutlivesItsRun` | `DurableSpec => []RunHoldsRow` | `TypeInv /\ Held` |
| `ClearedQueueStaysCleared` | `DurableSpec => []ClearedStaysCleared` | `ClearedInv` |
| `ClaimsEndWithRuns` | `DurableSpec => OnlyCrashesLeaveClaims` | `ReturnInv`, per agent |
| `ClaimsAreReturned` | `BypassSpec => []RunningRowHasRun` | `ReturnInv` |
| `CursorIsHonest` | `CrashSpec => []CursorCoversOnlyAcked` | `CursorInv` |
| `NothingIsLeftBehind` | `CrashSpec => OnlyFailuresStrand` | `StrandInv` with `TypeInv`, `Held`, `CursorInv` |
| `SchedulerKeepsInbox` | `CrashSpec => KeepsInbox`, a refinement | `AnchorInv` with the above |
| `ProcessProofs!LoopTypeCorrect` | `Spec => []TypeOK` | itself |
| `ShutdownNoticed` | `Spec => []StopIsNoticed` | `Queue` |
| `NoOversleep` | `Spec => []SleepsNoLongerThanDue` | `SleepFits` |
| `PollBoundsWait` | `Spec => []WaitIsBounded` | `WaitFits`, `SleepFits`, `BusyIsNotLate`, `AwakeIsReady` |
| `MigratedOnce` | `MigrationsSpec => []EachOnce` | `MigrationsInv` |
| `ParentGetsItsAnswer` | `DelegationSpec => []OwnResult` | `DelegationInv` |
| `RulesAreComplete` | `StartupSpec => []RulesReachTheAgent` | `StartupInv`: `Searched`, `BodiesRead` |
| `RootsStayTold` | `StartupSpec => []RootsAreTold` | itself, per phase |
| `ReloadsLikeRestart` | `CatalogSpec => ReloadIsRestart` | `CatalogShape` |
| `ServedByItsFile` | `CatalogSpec => []ServedAlike`, if `Unambiguous` | `RoutesInv` |
| `DraftIsKept` | `ComposerInit /\ [][ComposerNext]_composerVars => DraftSurvives` | `ComposerInv` (types) |
| `ForksProofs!TypeCorrect` | `Spec => []TypeOK` | `Inv` |
| `OwnsItsContinuation` | `Spec => []OwnContinuation` | `Inv` |
| `LazyForkIsACopy` | `Spec => ForkIsACopy` | `Inv` |
| `IdsAreNotReused` | `Spec => DeletedStaysDeleted` | `Inv` |
| `CacheNeverAhead` | `Spec => []CacheIsNotAhead` | `Inv /\ CacheIsNotAhead` |
| `AccountsProofs!TypeCorrect` | `AccountsSpec => []TypeOK` | `Inv` |
| `NoSpentToken` | `AccountsSpec => []FileIsRedeemable` | `Inv`: `Once`, `Linear` |
| `WaitingIsServed` | `AccountsSpec => []PendingIsServed` | `Inv`: `Entries` |
| `WorkspaceProofs!KillReachesItsCommand` | `Spec => []KillsOnlyItsOwn` | itself |
| `DescriptionIsTrue` | `Spec => DescribedIsTrue`, for `Wrapped = FALSE` | versions, receipts, and what a description holds |
| `TranscriptProofs!TypeCorrect` | `Spec => []TypeOK` | `RowInv` |
| `SurvivorsKeepTheirRows` | `Spec => SurvivorsUnchanged` | `RowInv` |
| `BubblesAreAnchored` | `Spec => []BubblesMatchRows` | `RowInv`, `BubbleInv` |
| `ExchangeIsUnbroken` | `Spec => []OnlyOperatorsBetween` | `BetweenInv` and what the turn awaits |
| `PairsStayWhole` | `Spec => NothingElseParts` | `RowInv`, `OwnInv` |
| `HcodeProofs!EachBubbleOnce` | `Spec => []ShownOnceInOrder` | `FeedInv` |
| `TypeCorrect` | `Spec => []TypeOK` | `FeedInv`, `HcodeInv` |
| `InputMeansRest` | `Spec => []IdleMeansIdle` | `HcodeInv` |
| `PreviewFollowsItsCall` | `Spec => []PreviewIsLive` | `HcodeInv` |
| `StoppedTurnsStayStopped` | `Spec => StoppedStays` | `HcodeInv` |
| `EndsAreClean` | `Spec => []ExitIsClean` | `HcodeInv`: `EndInv` |
| `ModelCallProofs!AnswersAreWhole` | `OneOffSpec => []AnswerIsWhatWasSaid` | `OneOffInv` |
| `FailedGuessIsForgotten` | `ChoiceSpec => []FailureIsForgotten` | `GuessInv` |
| `SavingIsTheEdit` | `ChoiceSpec => SaveIsTheEdit` | `FormInv` |
| `SavedKeysOutliveRestart` | `ChoiceSpec => []KeysOutliveRestart` | `EnvInv` |
| `RequestsAreAccepted` | `ExchangesInit /\ [][ExchangesNext]_exchangeVars => []RequestIsAccepted` | `ExchangeInv`: `TextInv`, `Transcribed(cache)` |
| `ConversationIsOne` | the same `=> []SameConversation` | `ExchangeInv`, and `Lag`: `cache` is a beginning of the rows and what is missing is being rendered |
| `AnswersAreKept` | the same `=> []StoredAsWritten` | `ExchangeInv`, `StoreInv` |
| `CutCallsStand` | the same `=> EarlierCallsStand` | `ExchangeInv` |

They hold for every value of the constants that satisfies the named assumptions:
bounds are natural numbers, and special values (`NoAgent`, `Driver`, `Never`, ...)
differ from what they are told apart from. One says more: `ServedByItsFile` needs
`Unambiguous`, no request that two patterns fit, and no two files of one root for one
path and method. There the order of the scan decides.

*AgentRuns.* `OneRunPerAgent` is not inductive: `Stop` publishes idle when it finds
no controller. `Held` adds why it may: the cached object's controller names the run
that lives on it (`ControllerFollowsRun`), only active agents are cached, and
`RunHoldsRow` ties the run to the row. `ReturnInv` adds that nothing is claimed
after the sweep and that deleted rows are unclaimed; for `ClaimsEndWithRuns` the step
that would lose a claim is excluded agent by agent. `CursorInv` adds that the frontier
of a live run covers only what it took and that the cursor never passes the last row.
`StrandInv` adds, for each active agent (`InputStands`), that input taken by a run belongs
to a live one, that the schedule a run was claimed under stands until the operator stops
it, and that a settled run has an outcome. Then input that no run has started with loses its
schedule only in the finally block of a run that failed, and a submission that waits loses
its continuation only with the process. `AnchorInv`
is what the refinement needs: cursor and frontiers stand on operator rows that exist,
and no cursor passes the frontier of a live run. Each step of the detailed
specification is then one step of `OperatorInbox` or none.

*WorkerLoop.* `Queue`: the loop's continuation is queued at most once, the loop
parks only with an empty queue, and a settled promise in the queue has the wake flag
in front of it (`FlagGuardsTail`). From that, what the loop saw when it computed its
sleep is still true when it sleeps. `PollBoundsWait` accounts for the wait of an
agent as time already waited plus what is left of the timer.

*Forks.* `getFullMessages()` is recursive; what it computes is characterised by its
equations instead of by induction. A function on ids that satisfies them is unique,
because parents are older than their children (`Linked`) and the least id on which
two solutions differ would have to agree (`OneReading`). Each step of the system is
then shown to keep every reading but one (`OneChanges`). `Inv` adds that ids beyond
the counter are unborn (`Fresh`), that an offset never exceeds what the parent
reads, that cached agents are active, and that rows are their agent's own.

*Accounts.* `Once`: no grant is handed out twice. `Linear`: a caller that was answered
holds the newest serial of its grant, and holds it alone. With them, a write that
overtakes a logout, a new login or another caller never leaves a serial behind that
somebody spent, unless the answer was lost. `Entries` ties what the page shows to the
loop, request or child that works on it.

*Workspace.* Versions of a file only grow, so that equal versions mean equal lines; a
receipt names what its load hashed; and what a description says is true in parts: of
the source it resolved, of the candidates it watched, of the text it composed. Shape
predicates take the place of sets of values, because the records that describe a
load are many.

*Transcript.* `RowInv`: rows ascend by idx and by the identity the model gives them.
`BubbleInv` adds that a submission whose bubble is open
and the marker being worked on still have their rows: with patient operators no edit
falls in between. `OwnInv` says that a result stands behind its call and answers a marker,
and that the call being worked on has none yet. A deletion and a truncation take rows away by
an increasing function of positions (`Thins`), along which each part of the invariant is
carried; where one of two halves is taken and the other stays, the step is shown to be one
of the four that `NothingElseParts` names (`Halves`).

*Hcode.* `FeedInv` is the least that makes an offset honest: whatever stands, or will
stand, at a page's offset or beyond is newer than all the page shows, also while an
answer is on its way. `HcodeInv` relates the agent to the adapter in front of it: the row
says `running` exactly while a run lives (`AgentInv`), an open prompt means that the log
is drained and the agent rests (`LineInv`, `ScreenInv`), a stopped turn has no claim to
come, and a live preview is of the call that runs (`PreviewInv`). An adapter that is not
in use leaves its variables at their initial values.

*Start and routing.* The search for rules has a cursor: behind it, every directory that
kept its file is in the list, and the list ascends (`Searched`). The route table of
`RoutesInv` holds, for each path and method seen so far, the overlay's file if there is
one (`Kept`); since `src` is scanned first, the order within a root cannot matter unless
files of a root collide.

*Text box.* The old text is what stands before and behind the draft (`PutIn`). The common
prefix takes that before, and perhaps more, and the common suffix all that is left of the
old text (`EditIsAsLong`); so as many characters are kept as were typed. Each that the
prefix takes too much stands again behind the draft (`Reappear`), and moving a window over
such characters only turns what it shows (`WindowTurns`).

*Settings.* A saved form is compared with what resolves now and with what was rendered, so
the invariant is about the form: a field that was not touched still holds what was rendered
(`FormInv`). What a field shows, it submits (`ShownComesBack`), whatever the table says by
then; `SaveDoesTheEdit` follows setting by setting. `KeysOutliveRestart` is proved along two
predicates on the lines of `.env`: the first n lines are silent about a key, or the last of
them that names it gives a value (`Silent`, `Tells`). `saveEnv()` rewrites or drops every
line of one key and keeps what the others tell; a write that fails may cut the file, after
which nothing is claimed of any key but those saved later (`EnvInv`). `GuessInv`: while a
detected model is in the row, the agent bears its mark.

*Conversation.* `Delivered` says of any sequence of messages that its Anthropic form is
sound, has the same lines in the same mouths, and begins as the messages begin. It is
proved for every sequence, and `ExchangeInv` has only to say that the rows and what the agent
holds of them are texts, `Lag` that the two differ by messages still being rendered.
For `CutCallsStand` each function of the parser is described by where it cuts its text
(`ClosedIs`, `RightTrimIs`, `ContentEnds`, `RawEnds`), and shown to carry "begins with"
(`Leads`) from the text to what is read of it; a line more changes the last body at most.
`AnswersAreKept` compares two ways to read an answer: the parser's, which cuts the whole
text at its hits and each body at its closing mark, and that of a reader who sees one line
after the other. `ReadSoFar` says where such a reader stands after any text: before the
first hit its output is the prose; behind it, it has put out what the hits before the last
one say (`HasTold`), and of the last one's body (`InBody`) what is content so far, holding
back its marker while there are no words and a ragged `§` while nothing follows. A line
more keeps that (`ReadsFurther`). `StoreInv` then says that the rows since the answer
came, with the rows that the calls left to run will get, are what was read.

*Recursion.* What a recursive function computes is proved for one function at a time. Of
the set of all sequences (or numbers) that have the property it is shown that it holds
the empty one and is closed under appending; `ByAppending` and `Upwards`, proved from
the induction theorem for sets of naturals, make it everything. That a function defined
by its own values exists is shown once, for those that go through a sequence from left to
right (`Stepwise`). The models give such functions the form the proofs need: `Chosen`
in place of `SelectSeq`, which the prover cannot unfold, and `IF` in place of a `CASE`
with overlapping guards, of which TLA+ does not say which arm holds.

Left to TLC: liveness (`InputIsTaken`, `DueIsClaimed`, `PollingEnds`, `EventsArrive`,
`ExitEnds`, `AbortedEnds`, `SidebarFollows`, `AwaitedEnds`), which is out of the prover's
reach; and, so far, one property of what patches compute: `PatchKeepsTheRest` of `Workspace`.

## 5. What the models showed besides

Properties that are defined in the modules and checked by no run, with what they say
and what becomes of them:

| property | under | outcome |
|---|---|---|
| `AgentRuns!OneRunPerAgent` | `BypassSpec` | violated: `ui.sendToAgent` and `ui.createAgent` start runs without a claim, though `workerLoop.ts:5-11` calls the claim the lock |
| `AgentRuns!StaleClaimsReset` | `RecoverySpec` of `MCAgentRuns` | violated: `docs/architecture.md:117` has stale `running` rows reset, `:334` concedes "They sit forever" |
| `Transcript!OnlyOperatorsAreInput` | `Spec` | violated: `compact.ts:48` loses `excluded_from_cursor` (`docs/architecture.md:260`) |
| `Hcode!EventsArriveAfterEdits` | `FairSpec` | violated: `session/deleteMessageAt.ts:9-10` calls the idx gap harmless, a page below the gap waits for ever |
| `Hcode!NeverBoth` | `Spec` | violated: a stored event may stand beside the preview of its call (`memory-bank/features/FT-009/design.md`) |
| `CodexLogin!ServerSurvives` | `Spec` | violated: the exit handler of a child that a logout killed finds no state and throws |
| `Accounts!LogoutSticks` | `AccountsSpec` | violated: a refresh or a login under way stores a file after the logout, contrary to "Wipes ~/.codex/auth.json and any in-flight login state." (`settings/logoutCodex.ts:3`) |
| `Workspace!DescribedIsTrue` with `Wrapped = TRUE` | `Spec` | violated: `startRuntime` (`:156-250`) wraps `agent.run` and `agent.submit`, whose receipts then name a function that is not the registered one (`FT-036/design.md` INV-01) |
| `Browsers!SidebarPolls` | `Spec` | violated: after `agents.changed` the polling element is gone (`docs/architecture.md:324`) |
| `RunningRowHasRun`, `RunHoldsRow`, `OwnContinuation`, `CacheIsNotAhead`, `StopIsNoticed`, `WaitIsBounded`, `OnlyOperatorsBetween`, `PreviewIsLive`, `StoppedStays`, `ExitIsClean`, `OwnResult`, `RootsAreTold`, types of six modules | | hold, proved |
| `StopReturns`, `ShownIsUsed`, `DetectedIsCallable`, `AnswersArrive`, `OnlyRefreshesOvertake`, other types | | hold on the instances of section 3 |

Disagreements with documents or comments, and surprises, met while modelling:

*Scheduling and sessions*

* A message that arrives during a run which fails is neither run nor retried until
  something else schedules the agent (`workerLoop.ts:143-161`,
  `docs/architecture.md:138`), and so is one whose process dies while `submit()` awaits the
  rendering. `OnlyFailuresStrand` names these two and excludes others.
* A message stored during a run may be missing from the next request of a root agent as
  long as its rendering lasts (`submit.ts:9-10`, `buildLlmRequest.ts:24-26`).
* A message edited away during a run can take the schedule of a later one with it
  (`workerLoop.ts:147`, `docs/architecture.md:138`); idx is handed out again
  (`appendMessage.ts:8`).
* `DELETE /agent/:id` drops the object of a live run, passes a string where `{ id }` is
  expected, and leaves the row (`$route_$id_DELETE.ts:6`); a run in flight goes on
  inserting rows of a deleted agent. Rows a crash left `running` are reset by nobody.
* `stop.ts:17` frees a stale claim without waking the loop; `workerLoop.ts:212` waits for
  the poll while any run is in flight, so that a debounce can stretch to it.
* Besides `pairs`, three things part a call from its result: a truncation or a compaction
  through a pair with operator messages in between, or with a result that `compact()` has
  shortened; the deletion of a call while its action runs, or its loss to its own
  `compact()`; the death of the process. `compact.ts:48` drops the row of the `§eval` that
  called it, and in a fork stores the inherited rows a second time.
* `replaceMessages.ts` deletes and rewrites rows without a transaction.

*Delegation*

* "In 'await' mode, blocks until the child calls finishTask" (`delegateTask.ts:6`): the
  waiter's promise is never awaited, the parent waits for the end of the child's run,
  and gets a failure if that run fails after it reported. A stop of the parent does
  not abort the child. An asynchronous child's failure is an unhandled rejection.
* A user's fork of a delegated child copies its contract.

*Language, requests, streams*

* An answer that holds `§html` alone does not end the turn
  (`memory-bank/engineering/agent-protocol.md:24-25`); the next request then ends with
  an assistant message.
* `serializeMarkerCall.ts:1` does not escape `\§` again; prose that begins with `§eval`
  is taken for a call by `markerKind`. Markers without a body and text after a closing
  `§` are dropped silently. `maxLines` of 0 or less shows a line.
* A truncated stream counts as a whole answer, and the chat and Anthropic readers skip
  error events, so that a shortened call is executed; only `streamCodex` throws.
* Only `streamCodex` retries (`docs/architecture.md:160` says `streamAnthropic`); a
  response of an earlier attempt decides about a network error of a later one; the
  backoff ignores the signal and may outlast the 2 s grace. `toCodexInput`'s
  instructions are not used. `llmCall` posts an OpenAI body to Anthropic and passes a
  failed response on as an answer; it and `§eval` ignore the abort signal.

*Files and code*

* A reversed range (`- B..A`) makes `editHashline` loop for ever; insertions inside a
  replaced range are dropped; concurrent edits of one file lose writes.
* `git.status` reads `-z` renames as `from -> to`, which that format does not use.
* An overlay file created between a load's two looks (`load.ts:47-49`) loses to the base.
  `repl.load` cannot reload outermost names, and loads what `scan.ts:6-10` passes over or
  classes otherwise (files under `tmp_`, routes as functions), which is gone after a
  restart; a start skips an overlay file without a default function, a reload throws. An
  overlay that names a parameter otherwise does not override, and routes of equal shape are
  decided by the scan. Routes of deleted files stay until a restart.
* Pending migrations sort only among themselves, so that an upgraded database may apply
  them in another order than a new one; equal names in both roots fail the start.
* `hcode -C dir serve` takes `serve` for a prompt.

*Accounts, settings, pages*

* A codex POST may hang for ever (a replaced child's prompt fills the new entry);
  overlapping Kimi logins may overwrite "logged in" with "failed".
* An enum field whose value is not an option is saved as the first one; `NaN` becomes 0;
  a stale form reverts another tab's edits; Enter in a field of `/settings/declared`
  presses the first reset button; a reset discards other edits.
* `export K=` lines survive the removal of a key; a row shadows a key saved at
  `/settings`. `saveEnv.ts:22` changes the environment before a write that may fail, and
  what its `escape()` writes of a value with `$` or a backslash is not what comes
  back. No page shows a Kimi login as `logged_in`: pages look at the file.
  `?debounceSeconds=abc` is `NaN`.
* `listModels` asks `LMSTUDIO_URL` of the environment, `resolveEndpoint` the setting;
  `selectDefaultModel` puts `MODEL` before the row, `get()` after it. Recovery removes
  the row after any error event of a later turn as well (`hcode.ts:171-174` says first
  request); an exit during the first failing turn keeps the unusable model.
* A page of an agent that is archived or deleted in another window keeps its sidebar as
  it was: its address answers 404 (`agent/$route_$id_GET.ts:11`), `$layout.ts:51` and htmx
  leave what is there.
* A page whose first fetch of events fails never asks again, since only the tails of
  answers have the "every 10s safety fallback" (`$route_$id_GET.ts:62`). Pages that were
  answered once go on through later failures.
* Two overlapping refreshes may leave a sidebar with an older list; answers of several
  tabs to one `ui.eval` overwrite each other; without a tab it waits for ever;
  `files.open` and `files.close` have no handler.

*Terminals*

* An insertion before or inside the submitted text that begins with the same letters is kept
  rotated ("ac" typed before "ab" leaves "ca"), contrary to `runTui.entry.ts:305-311`; edits
  in two places keep submitted text; a start with an initial prompt erases an early draft.
  `DraftSurvives` is therefore about text typed in one place of an otherwise untouched box,
  and says when it may be turned. The browser's form clears its field after any request,
  failed ones included.
* `hcode` removes its handlers before `await runtime.shutdown()`: a second SIGINT
  kills. A second Ctrl+C of the TUI is ignored while it stops.

## 6. Plan

Done: every component of section 1, with abstract specifications for scheduling and
forks, and proofs of every safety property of the runs but one. Next:

1. Proofs: `PatchKeepsTheRest` of `Workspace` (`editHashline` over any file and patch);
   `ShownIsUsed` and `DetectedIsCallable` of the settings.
2. Abstract specifications: an agent as one queue of turns, implemented by `Hcode`; a
   registry with atomic loads, implemented by `Sources` where nobody writes meanwhile.
3. `Tui` with edits of the transcript during a turn; `Exchanges` with edits between calls.

## 7. Not modelled

* `.protocols/experiments`: one-off measuring scripts and mock servers of research
  notes, which run beside the program and never in it. They are half of the lines.
* Presentation (`markdown/`, HTML of `ui/` and of the routes, `createTuiView` but for its
  text box, `renderEventHtml`) has no state a model could say something about.
* Git and development helpers (`git/`, `dev/`, `tools/`, `skill/`), `genTypes.ts`, session
  search, `settings.list` and the statements of `db/`: single calls or processes outside.
* `files/$script_editor.js` (autosave of an editor) is never loaded by a page.
* The hashes of per-agent prompts and the categories of authority and state in
  `self/describe.ts`.
* What models, tools and rendering compute is external. Two processes on one workspace
  are declared unsupported by the program (`script/hcode.ts:98-100`) and occur only in
  `Migrations`. A SQLite statement is atomic and durable, and a synchronous handler
  uninterrupted except where a process death between two of its statements is an
  action of its own (`Forks`).
