# Verification of Sudo Studio: TLA+ models and proofs

Sudo Studio is an editor with a local AI assistant. Its program logic is in four parts:
`src/sudo-agent` (a Node process that runs the agent's turns), `src/sudo-ai-extension` (the
editor's side), `src/backend` (Express services, a runtime supervisor) and
`src/backend/runtime` (the model runtime, Python). The rest (`src/vscodium`, installers,
website, scripts) is packaging and a vendored build.

The models start with `sudo-agent`: it changes the user's files, it decides when the operator is
asked, and it has the behaviour that is hardest to test (turns suspended on the operator,
aborts, files written around crashes). Around it stand the panel that drives it and the
supervisors, loaders and tables that keep processes alive.

Contents: [inventory](#inventory), [modules](#the-modules), [runs](#the-runs),
[fairness](#fairness), [proofs](#what-is-proved), [disagreements](#where-code-and-documentation-disagree),
[not modelled](#what-is-not-modelled-and-why), [plan](#plan).

## Inventory

Concurrency is that of Node throughout the JavaScript parts: one callback at a time, so code
between two `await`s is atomic, and anything read before an `await` may be stale after it. The
Python runtime has threads.

### sudo-agent

| component | state | operations | hard behaviour | what makes it correct |
|---|---|---|---|---|
| HTTP server (`server.js`, `store.js`, `modes.js`, `permissions.js`) | sessions on disk; the Maps `runs`, `pending`, `waiters`, session rules in memory; project rules on disk | POST messages, tools/call, mode, undo, abort, approvals; DELETE session; restart | busy checks before the body arrives; decisions sent twice; closed streams | one turn per session; an approval is spent once; no stale registry entry |
| turn (`loop.js`) | entry in `runs` with its `aborted` mark; rounds; the waiter | `runTurn`, `toolsTurn`, `pauseForApproval`, `finishAborted`, fallback stream, sub-agents, project run | many exits; an abort that finds nothing to destroy; a pause without a limit; bounds and repairs that compete over a round | every exit gives the entry back; an aborted turn starts next to nothing and ends; "done" has its evidence |
| checkpoints (`checkpoints.js`, parts of `tools.js`, POST undo) | snapshots and sidecars on disk, `run.created` in memory | snapshot before a series, record creations, restore, verify, drop | series side by side; crashes before the sidecar; locked files, unstored contents | an undo gives back what was there, or keeps the history |
| jobs (`job.js`, project run in `loop.js`, plan of `spec.js`) | the job file; a copy in the running turn | load, start, begin a step, its result, budget, watchdog, finish, stop, crash, resume | crash inside a step; saves that fail silently; a child that never answers | done stays done; attempts bounded; an honest table; a run ends |
| orchestrated steps (`orch.js`) | its own run file | steps with a verification after each, whole-run budget | attempt counted and saved before the step; a save that throws | no step lost, none repeated without end |
| plans and loop guard (`plan.js`) | steps of a plan; the last call and its count | advance, repeat detection, verification of the current step | counters over rounds | a repeated call is stopped |
| providers (`providers.js`, `recovery.js`) | none between calls | request, probe, wait for a restarted runtime | refusals in a row, abort during a sleep | the wait ends in bounded time |
| processes (`exec.js`) | table of tracked processes | start, poll, stop, timeout, reap | the end of a process racing a poll, a stop or a timer | bounded table, no process forgotten, true verdicts |
| phased generation (`gen.js`) | manifest and backup of each phase, `run.json` | start, mark a phase, check, report, restore | files that change between manifest and copy; a crash before `run.json`; copies spread over the phases | what a marked phase held is found, or known to be a gap |
| MCP client (`mcp.js`) | live clients by name, requests in flight by id | connect, handshake, request, timer, child exit, reaper | two connects side by side; an exit of a client that was replaced | each request settled; one client per server |
| configuration and language helpers (`agents.js`, `skills.js`, `rules.js`, ...) | files read once | parsing, prompts | none | text processing |

### sudo-ai-extension, backend, runtime

| component | state | operations | hard behaviour | what makes it correct |
|---|---|---|---|---|
| supervision of the agent (`agent/AgentServer.js`, `extension.js`) | child, startup, restart timer; the host's current server | launch, handshake, exit, stop, relaunch, deactivate | exit, handshake and stop in any order; two relaunches at once | one process at a time, no stray agent |
| panel and engine (`agent/AgentPanel.js`, `AgentEngine.js`) | queue, cards, flags, sessions and requests known to each | send, stop, clear, continue, approve, change of session and folder, poll | a run that ends while another is asked for; leftovers of an earlier run | no prompt is stranded; one run per engine |
| other panels, sandbox, doctor, analysis | user interface | - | - | - |
| backend client (`services/`, `backendFallback.js`, `httpRetry.js`) | current address, retry counters | request, retry, fall back | retries of what was done | bounded retries |
| runtime supervisor (`backend/supervisor`) | failures in a row, window of restarts, a flag | tick, restart, by hand, reload, grace | counters used across awaits | restarts capped in the window; the runtime comes back |
| HTTP services, installers, licence, policy | files | routes | mostly I/O | - |
| model runtime (`backend/runtime/*.py`) | load state and its lock | download, load, unload, stream | threads; flags read by others between two assignments | one load at a time, watched; the lock comes back |

### How the parts interact

The extension spawns the agent, talks to it over HTTP and reads the events of a turn from one
stream per message. The agent talks to the runtime over the OpenAI-compatible API; the backend's
supervisor restarts the runtime, which the agent sees as refused connections and a wait. Inside
the agent the server and the loop share the registries `runs`, `pending`, `waiters` and the Sets of
session rules; the loop calls the tools, the tools take checkpoints, and the undo route reads
what they left on disk. A project run is a turn whose steps are child turns.

`PROJECT.json` lists every component with its status, and every hazard at its line with the
properties that cover it or the reason none does.

## The modules

| module | models | code |
|---|---|---|
| `AgentServer` | which requests may use a session, approvals, rules, aborts, restarts | `server.js`, `permissions.js`, `runTurn`, `toolsTurn`, `pauseForApproval`, `abortRun` in `loop.js`, `executeTool` in `tools.js` |
| `TurnLoop` | the rounds of one turn and its verdict | `toolsTurn`, `roundOnce`, `actionRepair`, `maybeVerify`, `computeRunStatus` in `loop.js`, the guard of `plan.js` |
| `Undo` | checkpoints, sidecars, undo | `checkpoints.js`, `executeTool`, `ensureSeriesCheckpoint` and the file tools of `tools.js`, POST undo |
| `JobRun` | one job file run by turns of its project | `job.js`, project run and `stepRunner` in `loop.js` |
| `JobPromise` | abstract specification of a job file | what `JobRun` implements |
| `GenRun` | the restore points of a phased generation | `gen.js` |
| `OrchRun` | one orchestrated plan, executed from its file | `orch.js` |
| `ExecProcs` | the table of tracked processes | `exec.js`, `exec_*` and `gen_check` in `tools.js` |
| `McpClient` | the clients of one MCP server | `mcp.js` |
| `Desk` | panel and engine against one agent server | `AgentPanel.js`, `AgentEngine.js` |
| `AgentSupervisor` | agent processes and the host that launches them | `AgentServer.js`, `extension.js` |
| `RuntimeSupervisor` | the watch over the model runtime | `runtimeSupervisor.js` |
| `ModelLoad` | loads of the model and streams that use it | `server.enterprise.py` |
| `MCAgentServer`, `MCUndo`, `MCTurn`, `MCJobRun`, `MCJobServer`, `MCDesk`, `MCServices` | instances for TLC | |
| `AgentServerProofs`, `JobRunProofs`, `UndoProofs`, `DeskProofs` | theorems about the module of that name | |
| `TurnProofs` | theorems about `TurnLoop` and `OrchRun` | |
| `ToolProofs` | theorems about `ExecProcs`, `GenRun` and `McpClient` | |
| `ServiceProofs` | theorems about `AgentSupervisor`, `RuntimeSupervisor`, `ModelLoad`, and about `MCServices` | |
| `MCTurnProofs` | the theorem about `MCTurn` | |

`MCTurn` puts `Undo`, `TurnLoop` and `GenRun` into one run, `MCServices` the six modules `OrchRun`,
`AgentSupervisor`, `RuntimeSupervisor`, `ModelLoad`, `ExecProcs` and `McpClient`, `MCJobServer` `JobRun` and `AgentServer`. These systems
share no state here: the variable `which` says whose behaviour it is, and the others stand
still in their initial state. A run explores each to its end, one beside the other.

Operators whose comment begins with "Mutant of" are named faulty variants of the definition that
follows (a dropped check, an off-by-one, a missing reset). No action uses them. They document
what each property would catch: with the variant in place of the original the property is
violated.

### AgentServer

A client is one HTTP request; its `pc` is the `await` its handler is suspended in.

| phase | suspended in |
|---|---|
| `body` | `readBody` |
| `probe`, `waiting` | the provider probe; the wait for a runtime that restarts |
| `model` | between two rounds, or two commands of a verification; there the loop reads `entry.aborted` |
| `deaf` | an `await` an abort does not interrupt: the compression request, the 400 ms pause before a retry |
| `asking` | a request to the model, destroyed by an abort |
| `chosen` | `executeTool` before the call: lookup of the command's binary |
| `stream` | a plain stream (a provider without tools), with a `finally` |
| `question` | a question turn, without one |
| `paused` | `pauseForApproval`, with a waiter |
| `entered`, `executing` | a direct call; a tool that runs |

`runs` maps a session to the client whose entry it holds, which is how the code's "is it still my
entry" tests read. `aborted` belongs to the entry. `raisedBy` and `askKey` are the fields of an
approval; ids are never reused, also not after a restart. `turnMode` and `turnRules` are what the turn read when
it began, `sessionRules` is shared. `verdict`, `executed` and `late` are history variables: they
record and never guard. `unsaved` is history too: the turns whose last write to the store threw. `toolsTurn`
and `questionTurn` have no `finally` around it, so that `StoreFails` is the end that leaves the entry.

A call is its rule key, and four things about a key matter. `Deploys` are deployments; those of the tool
bash (`KnownDeploys`) are recognised, asked for each time and approved for once, those `exec_start` or
`gen_check` runs are mutating calls like any other. The approval of a tool `mcp__server__tool`
(`Prefixed`) is stored under the tool's name and looked up under "mcp" (`RuleSought`). A rule for `mcp_call` (`McpCalls`)
lets `executeTool` through, and its handler then looks for "mcp" as well: unless the page of its server allows the
tool, the call ends as an error. Both are also let through by the plan mode, which refuses every other mutating tool.

Abstractions: tool calls the permission check allows without a rule (read-only tools) or denies
are left out; a verification command after the last reply is a round with its call. A client
takes part once; a client that sends two requests is two clients. The events of the stream are
left out. `UndoSeries` changes nothing here; `Undo` says what it does.

### TurnLoop

`AgentServer` leaves open how a turn goes on; `TurnLoop` is its inside, which nothing but an abort
disturbs. `awaits` is the await the turn is in: the compression, a
request with tools (`model`), the one without tools after them (`backup`), the wait for a runtime
that restarts, or an end (`over` with a verdict, `failed` with an error, `legacy` for the plain
stream). What follows a reply, up to the next request, is one action: `Corrective` (the guard
refuses), `ToolCall` with its outcome, `Unrecorded` (an answer that leaves no entry), `Subagent`,
`FinishCall` and `FreeText` with the verification before them, `NoCall` with `actionRepair`,
`TextFiles` (the text format of a provider without tools, whose files are written one a round).

`files` says that the project differs from its snapshot, `unresolved` what `unresolvedErrors`
would find, `last` how the last entry of the run reads; `checked` and `streak` are history.
`Verdict` is `computeRunStatus` and what `toolsTurn` makes of it.

Abstractions: build mode, with a project that has a check; one check stands for all, and leaves
the files alone (commands run by the model may change them); aborts and pauses are those of `AgentServer`, so a
call has its final outcome; of several calls in a reply the first is executed and the entries of
the rest may come last; the answer that rescues a stopped turn is wording; the plan that `plan.js`
verifies on disk annotates a turn and never steers it; the guard's last stage cannot be reached, since the
corrective one refuses before it. The guard notes the tools of `GUARD_TOOLS` and those called `mcp__...`; a
`look` stands for the reading tools and `mcp_call` for itself: neither is noted.

### Undo

A series is the mutating calls of one turn or direct call. `project` and `before` are whole
projects (functions from files to contents), `stack` is the list of snapshots in creation order
(in the code the order of file names, which begin with a sequence number), `made` is
`run.created`, `recorded` says whose sidecar is on disk. `hidden` are files the walk skips.
`Big` are contents above the stored size, kept as a hash. `Outside` is the operator's editor or
a shell command of the agent. `mixed` and `clean` are history variables that delimit what the
code can promise: `clean` becomes false when a file appears that no sidecar will name (broken
patch, creation from outside, aborted series) or when a hidden file changes.

### GenRun

`tree` is the project, `manifest` and `backup` what is on disk for each tag (0 is `start`, then the
phases in their order), `next` the phase to mark. The calls are synchronous, but the files belong
to others too: a mark is `TakeManifest`, a `BackUp` for each changed file and `WriteRun`, with
`Edit` at any moment between them and `CutShort` for a crash or a write that throws. The phase is then
marked again over what the first try left; a start gets a directory of its own. `gaps` are the files
a backup recorded that it has not. `Newest` and `ContentFor` are the search of a restore through the
backups, `Missing` its comparison with the manifest. `was`, `raced` and `cutShort` are history.

Abstractions: a content stands for its hash; files above the size, and those beyond the limit of the walk, are `Large` for as long as
they are passed over; a restore is one step that may fail on any set of files (also where the process dies in it).

### JobRun and JobPromise

`disk` is the job file, `mem` the state of the turn that runs it. `save` either writes the file
or fails silently (`lost`). `Load` to `Finish` are the loop of `job.run`: the state is marked and
saved, the loop takes the next step that is pending or may be retried, counts the attempt and
saves, waits for the child turn or its watchdog, judges, saves, and at the end writes the final
status. `Stop` marks the turn, `Crash` forgets `mem`. The number of runs is bounded by `MaxRuns`, the
only bound that appears in a guard; `fails` and `lost` are history.

`JobPromise` sees a job as the outcome of each step and whether the job is closed: done is final,
and a job is closed once, with no step left open. The refinement maps `pending` and `running` to
`open`. Steps are tried and put back by `Work` (a whole run may be one step of it, when saves
fail), and given up only by `Close`.

### OrchRun

`orchFile` and `orchState` are the file and the state in memory, `at` the step of the loop,
`inStep` that the child turn is awaited. Unlike a job's, a save that throws ends the execution (`SaveFails`).
A step is judged on disk, so what the child did is one of two outcomes. `tries` and `cuts` are
history: how often a step was handed over, and how often it was cut short (an abort, a failing
save, a crash), which `MaxCuts` bounds.

### ExecProcs

A process is `record` (in the table, or no longer), the fields of that record, and what the operating
system has (`os`, and `status`, how it really ended). A kill may leave the process alive, as
the code expects on Windows; then the grace timer ends the record. `Poll` and `CheckPolls` end
with `reapProcs`, which forgets every finished record, also those of other readers (`stolen`).

### McpClient

One server on standard streams. `entry` is the table's client, `proc` the process of each client
ever made, and a user (a turn, a route) goes through the keyring (`secrets`), the handshake
(`initialize`, `tools/list`) and its `call`. `Answer` is a reply in time, `RequestTimeout` the timer,
`ExitEvent` and `ErrorEvent` the two ends of a process that the code tells apart: only the first
takes the client off the table. `Disconnect` forgets the client at once and sends its process one SIGTERM; the
process is `signalled` and ends when it likes, or never. `config` is the server in `mcp.json`: `SetEnabled` disconnects when it switches off,
the imports and the routes that save the file (`RewriteConfig`) change it under a client that stays.

### Desk

The panel (`running`, `queue`, `cards`, `eng`, ...) and its engines (`busy`, `last`, `cache`,
`epend`, `polled`, `link`). A call is one prompt; its `pc` goes through the awaits of `engine.run`: the
gate, the session, the mode, the stream, the closing requests, the last poll. A `done` reaches
the panel synchronously and drains its queue: `draining` holds every other action back until
`Drain` has taken the next prompt, since the thread does not leave that callback. The agent is seen from its client only
(a turn per session, open requests), over at most `MaxGen` instances of it. `answer` and
`overruled` are history. A relaunch that is refused or fails leaves no instance: `relaunching` stays up, and nothing
assumes that it ends. `MaxUpsets` bounds stops, changes of session or folder, relaunches and
crashes together.

### AgentSupervisor

A server object has a startup (process before its handshake), a child (after it) and a restart
timer. `Halt` is `stop()`; it does not reach a startup, and the handshake does not look whether the
server was stopped. The host's activation and each relaunch await the configuration of the provider; the number
of relaunches under way is `awaiting`. `missed` is history: servers the host can no longer reach.

### RuntimeSupervisor

One tick of the clock ages every moment on record up to the window, and `age` up to the grace period: the code tells no
further apart. An episode is one call of `maybeRestart` and stands in its awaits (kill, backoff,
wait for health, model); a probe is the request of `pollTick`. `begun` and `pressed` are history.

### ModelLoad

Threads interleave between the assignments to shared state that other threads read. A caller
clears the model before it asks for the lock; a loader goes through the RAM gate, the weights
(watched by `watchdog`), the publication and its `finally`. A forced re-download is a loader that
runs itself once more inside (`nested`) and releases the lock twice. So does one whose handlers throw: the wrapper of
the thread (`Caught`) hides the model and releases once more. A thread that cannot be started leaves the lock taken (`unstarted`). A stream passes its guard
and reads the state again when its generator runs.

## The runs

| run | instance | shows |
|---|---|---|
| `server_all` | 1 session, 2 requests of any route, 2 approvals, keys `deploy` (bash), `start` (a deployment by `exec_start`), `call` (`mcp_call`), `tool` (`mcp__...`) | types, `SingleExecution`, `WaiterMatchesPause`, `DeployNeverRemembered`, `NoStaleEntry`, `LostTurnHasDirect`, `OneLateCall`, `SessionRuleHonoured` |
| `turn` | rounds: 4 to an attempt, 2 attempts, 2 requests to a round, 1 repair, guard at 2, 1 sub-agent; undo: 2 series, 2 files, contents small or too big to store; generation: the start and 2 phases, 2 contents and one too large | `VerdictHonest`, `RepeatsBounded`; `UndoLastRestores`, `UndoneToFirstRestores`, `HistoryKeptUntilRestored`; `Restorable`, `RestoreExact` |
| `job_abort` | two systems side by side, with fairness: a job of 3 steps, 2 attempts, 3 runs of one session; 2 requests (messages, direct calls), 2 approvals, keys `edit`, `deploy` | `AttemptsAccounted`, `CoverageHonest`, `KeepsPromise` (refinement), `RunEnds`; `AbortedTurnEnds` |
| `desk` | 3 prompts, 2 engines, 2 sessions, 1 approval, 2 instances of the agent, 1 upset, with fairness | `QueueMoves`, `FlagsTrue`, `PromptSettles` |
| `services` | six modules side by side, with fairness: a plan of 3 steps; 3 servers; 2 restarts in a window of 2 ticks; 2 callers and 2 loaders; 2 processes in a table of 2; 2 users and 2 clients | `StepsAccounted`, `OneWayOn`, `NoStrayAgent`, `RestartsCapped`, `RestartsOrderly`, `RuntimeComesBack`, `LoadsGuarded`, `MockOnlyWhenHidden`, `LockFreed`, `CheckVerdictTrue`, `NoneLost`, `TableTrue`, `EveryUseEnds` |
| `v_direct_call`, `v_paused_answerable`, `v_deploy_rule`, `v_undo_session`, `v_undo_aborted`, `v_job_two_turns`, `v_desk_card` | the smallest instance with the case | one sentence of documentation or test each, violated; see below |

What the properties say:

- `SingleExecution`: the call behind an approval runs at most once, whoever runs it (paused turn
  or handler), only after an accepting decision, and never while it is still listed.
- `WaiterMatchesPause`: a waiter is exactly a pause; none survives an abort, decision or restart.
- `DeployNeverRemembered`: an approved deployment that was recognised (one by bash) leaves no rule, whatever
  scope was picked. The others do leave one (`v_deploy_rule`).
- `NoStaleEntry`: the registry names a handler that has ended (the session answers 409 until the agent restarts) only
  after a turn whose last write to the store threw: no other exit, abort or fallback leaves its entry.
- `LostTurnHasDirect`: the registry loses a turn only to a direct call; `TurnExclusion`
  (proved): without direct calls it never does.
- `SessionRuleHonoured`: a key under a session rule is not asked for again, in the running turn
  as well, but for a recognised deployment and for a tool `mcp__server__tool`, whose rule is never found.
- `OneLateCall`: after an abort a turn begins at most one more call.
- `AbortedTurnEnds`: an aborted turn ends although nobody answers its approval.
- `VerdictHonest`: a turn that ends as `TERMINE` has its evidence: a demand for a change has
  changed a file or an external system, no error stands, files that differ passed their check
  after their last change, and nothing the text format brought is unwritten. Over every way to the
  end: checks fed back, repairs, sub-agents, a second attempt. A demand to run that left the files
  alone is exempt from the standing errors (see below).
- `RepeatsBounded`: no call to a tool the guard watches is completed with the same result more than `Repeats` times in a row,
  whatever is refused, asked or read in between.
- `UndoLastRestores`, `UndoneToFirstRestores`: undoing the last series, or all of them one by
  one, gives back the project as it was, as long as every new file is on record.
- `HistoryKeptUntilRestored`: a snapshot goes only when all its files are back.
- `Restorable`: what a file held when a phase was marked is what a restore finds, in whichever
  phase it was written, or its gap was recorded; unless it changed between manifest and copy, or some phase was marked in part.
- `RestoreExact`: a restore that tells of no gap and no error has brought the phase back, whatever
  was raced or cut short (the hash decides); but for files too large to be seen, then or now.
- `AttemptsAccounted` (`InterruptedIsResumable` and `FailuresBounded`), `CoverageHonest`, `RunEnds`: a
  step the process died in is found again, and no step fails more often than its budget over all
  runs; the final table says `fait` of done steps only; one step cannot block the run.
- `StepsAccounted`: the step in hand is pending in the file, so that a crash loses none, and no step is
  handed over more than twice and once for each time it was cut short, over all executions.
- `QueueMoves`, `PromptSettles`: a queued prompt is in the queue and always has a run whose end will take it, and every
  prompt is answered or dropped by the operator, unless "continue" was pressed with no decision to
  report (the panel then waits for a run that never was).
- `FlagsTrue` (`OneRunUnlessOverruled`, `FlagFollowsRun`, `PanelFollowsRun`): an engine has one run, until it refused a run during a
  run (the refusal takes down the flag of the run that goes on), and its flag is never left up; nor is that of
  the panel, which has a run in flight as long as it says running, or the "continue" above.
- `OneWayOn`, `NoStrayAgent`: a supervised agent is up, coming up or about to be started, and one of
  these only; an agent the host does not know is gone, or one of the named three it missed.
- `RestartsCapped`, `RestartsOrderly`, `RuntimeComesBack`: no window has more restarts than the cap;
  the flag that silences the watch is up only during a restart, and restarts overlap only
  after one by hand; the cap delays and never ends the supervision.
- `LoadsGuarded`, `MockOnlyWhenHidden`, `LockFreed`: one load at a time until a lock was released twice (re-download, crash), and each watched
  until it ends unless another thread dropped the flag; the demo text only if the model was taken
  away under a stream; the lock always comes back, unless the thread of a loader could not be started.
- `CheckVerdictTrue`, `NoneLost`: a check reports how its command ended, unless it was killed or
  its record was taken by another poll; no process leaves the table unkilled, and each that was not stopped
  has an end in sight.
- `TableTrue`, `EveryUseEnds`: a process that runs and was not signalled is the one in the table, unless two connects
  overlapped; the client in the table is not dead; a server that is off or deleted has a client only if that was
  started afterwards or the file was rewritten under it; no use of a server waits for ever.

**Why the bounds are enough.** Sessions share nothing but project rules, so one session is enough
for exclusion. The conflicts over a session are between two handlers (a turn, and a direct call that displaces
it or a message that gets in next); two approvals
let a turn or two handlers have an old and a new one. There is one key for each kind of call the code tells apart; `edit`,
an ordinary one, behaves as `start` does and stands in for it in `job_abort`. Undo relates
two snapshots, the last one and one below it; two files are enough for a rename and for a file that exists before
and one that does not. For jobs three steps separate done, failed and not yet tried; two
attempts separate a retry from the last try; three runs allow a resumption of a resumption.

A turn needs a change, a check, one more change and a declaration before a stale verdict can show: four
rounds. Two attempts carry what the first left into the second; the guard at 2 gets to its
refusal and past it in four rounds; every other bound of the loop is the smallest with a case on each side. `desk`: a
run, one behind it and one that overtakes; two engines and two sessions, since the disorders are
between an old and a new one; one upset at any moment, since after it the state is again one that
a run can begin in. `services`: three servers are a launch and two overlapping relaunches; a window of two ticks with a cap of two lets a restart
fall out of it; two of each actor where two race, and a table that is full with both.

A generation restores its files one by one, so one file is enough; the start and two phases have a copy
that is found at once, one found further back, and one hidden by a half-marked phase.

For every invariant and action property of the passing runs a theorem removes these bounds (`JobRun`: with one runner).

Symmetry is used in the safety runs only (over clients and approval ids, over series), never
under liveness. Deadlock is not checked because the systems may really stop: clients are used
once, series, runs, prompts and processes are bounded.

## Fairness

- `job_abort`, the aborted turn: once its entry is marked as aborted, a turn's own callbacks fire. The code
  justifies it: tools are killed or time out, requests to the model have a timeout (120 s), pauses and
  the 250 ms poll are timers, and a sub-agent, which no abort reaches, cannot pause and has a
  bounded number of rounds. Nothing is assumed of the operator, of a client, or of a turn that was
  not aborted. An abort can be lost (the fallback to a plain stream sets a new entry that is not
  aborted), and the property says so.
- `job_abort`, the job: the code of the run goes on and the watchdog of a step fires (weak fairness of `Run`).
  The child turn need not answer, and neither a stop nor a resumption is assumed.
- `desk`: the thread of the extension runs, a request gets an answer or an error, a stopped agent is
  spawned again; a relaunch need not succeed. A turn ends because of its own limits or the client's stream timeout. No message
  of the operator is assumed, nor an upset.
- `services`: for the runtime, timers fire and requests end (weak), and of repeated tries to kill,
  to spawn and to boot it one works (strong: a runtime that never boots cannot come back).
  For a load, a loader thread that was started goes on, its crash included. For MCP, a request has a timer
  and the keyring answers or fails; neither a reply nor an exit is assumed. The other three
  modules assume nothing.

## What is proved

`AgentServerProofs`, for all sets of sessions, clients, ids and keys (`ConstantsAssumption` only:
`None` is not one of the values, deployments and the keys of bash and MCP are keys, those of bash, `mcp_call` and `mcp__...` are three kinds, clients use the four routes). The invariant
`IInv` is the conjunction of the properties with three facts they rest on:

- `Asked`: an id that is listed or waited for has a client and a key, and an id nobody raised is
  undecided. Without it a stored rule might not be a key, and a fresh id might already be executed.
- `PhaseOfKind`: only messages pause, only direct calls enter. `LostTurnHasDirect` needs it.
- `LateIsLast`: a turn with a late call is in that call, past it or over, and its mark is set. It
  makes `OneLateCall` inductive: nothing leads from there to another call.

`TurnExclusion` follows from `LostTurnHasDirect`, which is stated for all routes because that is
the form that is inductive. `SessionRuleHonoured` is an action property: only
`CallTool` and `DirectCall` raise an id, both after the test of the rules.

`JobRunProofs`, for any number of steps, attempts and runs, with `Runners = {r}`. The assumption is
necessary (`v_job_two_turns`). `IInv` says of the file that its coverage agrees with its
marks (`Honest`), that skipped steps belong to closed jobs and running ones to a running job
(`FileSound`), and that no count is behind (`Counted`, while no save failed); and of a turn that
runs the same of its copy, that at most the step in hand is running and none behind
it pending (`InLoop`), and that what is done in the file is done in the copy. The last fact is what
makes a save of the copy a step of `JobPromise`. `FileKeepsPromise` is the refinement: the initial
file maps to an initial state, every step to a step or a stutter.

`TurnProofs`, in two parts. Of `TurnLoop`: `VerdictHonest` for every bound, by `TurnInv` (no request is
made while a file of the text format is unwritten; there is no verdict before the end) and
`DeclaredHonest`: where the turn is declared done, what was verified is what the verdict says; `RepeatsBounded` for `Repeats` at least 2, by
`GuardInv`: the guard counts what the history counts, and forbids a call from the moment its count
is `Repeats`, so that the row of equal results cannot grow; `TurnTyped`, where
rounds, attempts, requests and fixes may be at least one (`LoopBounds`), by `RoundInv`: a round that goes on has a request left and has not failed `MaxFix` times in a row,
without which the counters would pass their bounds. Of `OrchRun`, with `N` and `MaxCuts` naturals and `Nothing`
no state: `Counted` (the attempts in the file are those in memory, and the tries) and `FileAllowed`,
`StateAllowed`: the attempts at a step are bounded by its cuts, with one less while it is pending and
not awaited. Counting alone is not inductive, since a pending step may be begun once more.

`DeskProofs`, from `DeskAssumption`: `FlagOfRun` (a run has an engine, whose flag is up unless it was
overruled), `QueuedOnce` and `LastPolls` (a run ends with one last poll, its own). The many actions are
first sorted by what they do to the runs (nothing, end one, begin one), with a lemma for each. `Waiting`
adds the panel's side: who waits is in the queue, and whoever set `running` last is still in flight, since every
end of a run clears it. The types
(`DeskTyped`) rest on that invariant and on `RestKept`: past the choice of its session a run has one
(`RunTargets`), so that what it aborts is a session; a relaunch under way leaves room for one instance more
(`Launches`); what is under way on the net names requests and engines (`NetTypes`), so that what a late
answer shows is a request.

`UndoProofs`, for all sets of files and contents and any finite set of series. The claim of one undo is a
statement about its last step, and what makes it true was done long before: `UndoInv` keeps it in the state.
`Level(k)` is the project when the k-th snapshot was taken, and the present one after the last. `Accounted`
says that a file absent at one level and there at a later one is on record with a series in between,
or with one open beside the first: it relates any two levels, and not only neighbours, because an undo
removes the level between. `HiddenKept` and `HiddenMade` say the same of the files that no
snapshot sees (in the directories the walk skips): who was there is unchanged, and who was not is on record. Sidecars
are written when a series ends, so that `OnRecord` speaks of series that are over and kept, and `OpenBelow` says that one still
open below another was open when that one began (`mixed`). These facts hold as long as `clean` does (every file
new since the oldest snapshot is on record). `LastExact` concludes: with them an undo that drops the last snapshot leaves
exactly its project. `LastUndone`, `AllUndone` and `HistoryKept` are three action properties drawn from it.

`ServiceProofs`, in three parts and a composition. Of `AgentSupervisor`, with numbered servers: `Unlaunched` (a server not yet launched has nothing), `Exclusive` (of child, startup and timer at
most one) and `KnownOrMissed`. Of `RuntimeSupervisor`: `OnRecord` (every
restart begun in the window is among the recorded ones, which is what a prune between two awaits
must not break) and `OneByItself`. Of `ModelLoad`, for thread names other than 0 (a request):
`NestedRedone`, `AloneWithLock` (a job that is active holds the lock, as long as none was released
twice), `FlagOrBlind`, `PassedOrHidden`.

`ToolProofs`, in three parts. Of `ExecProcs`, without an assumption on the constants: `Untouched` (nothing is known of a
process before it starts), `EndedOrKilled`, `CodeIsStatus` and `VerdictFrom` (how a check may come
to its verdict). Of `GenRun`, from `GenAssumption` (the three kinds of content differ): a manifest has what was seen (`Taken`), the files of
a mark that are done have their copy or are told (`Copied`), and no other copy is in the way
(`NoneInTheWay`), so that the search goes past the phase to the one before (`NewestOlder`) where nothing changed.
Of `McpClient`, from `ClientAssumption` (`NoClient` is no client): `InHand` (who waits has a request, with the client in the table or
with one replaced there), which `TableTrue` needs where a client is taken off the table; `NobodyForgotten`
draws from it that a request outlives the exit of its process only on a replaced client.

The composed specifications: `SideBySide` and `AnyIsEach` show that a behaviour of `MCServices` and of `MCTurn` is one of each
module in them, so that what is proved of a module alone holds in the runs; `ServicesTyped` and
`RequestTyped` are the type invariants of the two runs.

The assumptions on constants that only proofs need (`LoopBounds`, `Servings`, `Sizes`, `0 \notin Jobs`) are hypotheses of
the theorems. Theorems are listed in `PROJECT.json`.

Only model-checked, because the prover does not reach liveness under fairness: `AbortedTurnEnds`,
`RunEnds`, `PromptSettles`, `RuntimeComesBack`, `LockFreed`, `EveryUseEnds`. Every other property of a
passing run is a theorem; those about `JobRun` leave out a second runner on purpose (`v_job_two_turns`).

## Where code and documentation disagree

| run | the text | the code |
|---|---|---|
| `v_direct_call` | POST tools/call: "409 pendant un tour" | the check comes before the body is awaited; a turn that begins meanwhile is displaced from the registry |
| `v_paused_answerable` | "an approval PAUSES the turn (resumable)" | a decision that fails on the project folder or the rule file has already taken the request off the list; the turn stays paused |
| `v_deploy_rule` | deployments: "usage unique, jamais mémorisée", "the operator is STILL asked every time" | a deployment is recognised in a bash command only; one started by `exec_start` or `gen_check` skips the network policy, and its session or project approval is stored as a rule |
| `v_undo_session` | "undo session reverts every series" | only the oldest sidecar is read; files created by later series stay |
| `v_undo_aborted` | the sidecar "records creations for honest undo" | aborted and failed turns leave without a sidecar; the undo is verified and their new files stay |
| `v_job_two_turns` | "A step left 'running' means the process died INSIDE it" | a second session of the project takes up the step a first one is in |
| `v_desk_card` | "engine answers FIFO so only the oldest unresolved card is actionable" | the click decides the engine's oldest request, which may be left over from an earlier run whose card is gone |

Two more sentences of the code are broken in a case that a property of `services` excuses by name. The run
shows that nothing else breaks them; with the excuse taken out TLC finds the case at once.

| property | the text | the code |
|---|---|---|
| `LoadsGuarded` | "Only ONE model load/download job may run at a time" (`server.enterprise.py:1917`) | the lock is released a second time after a forced re-download (`Finally`) and after a crash (`Caught`), whoever holds it by then: a third job starts beside the second. `SingleFlight == Cardinality(Active) <= 1` fails in nine states |
| `MockOnlyWhenHidden` | "Demo mock (reachable only when SUDO_DEMO_MOCK=1, see guard above)" (`server.enterprise.py:2305`) | the generator reads the state again after the guard; a load that begins, fails or is refused in between brings the demo text. `mocked = {}` fails in ten states |

Noticed while reading, without a run of their own:

- A write to the store that throws at the end of a turn (`loop.js:2035-2083`, and in the question turn) reaches
  the handler's catch (`server.js:258`), which removes no entry: the session is busy until the agent restarts (`StoreFails`).
- An MCP approval for the session or the project is stored under the tool's own name (`server.js:329`) and looked
  up under "mcp" (`tools.js:1177, 1288`): "Rules above still apply next" (`server.js:338`) is not so for `mcp__server__tool`, which is
  asked for again, and turns a remembered `mcp_call` into an error.
- The plan mode "refuse les outils mutants" (`README.md:65` of sudo-agent) and lets the MCP tools through.
- The loop guard counts "state-changing tools (mcp__* included via prefix)" (`loop.js:511`) and not `mcp_call`, which can
  be repeated up to the limit of rounds.
- "one whose handshake never completed, is not a hit" (`mcp.js:522-523`): on standard streams it is (`mcp.js:527`).
- Importing servers, or saving them, changes `mcp.json` and leaves the client that runs (`RewriteConfig`).
- A loader whose thread cannot be started keeps the load lock (`server.enterprise.py:1955-1965`): every load is refused from then on.

- The accepted `reply` or `done` is itself a successful call, so a demand to run that changes no
  file is `TERMINE` whenever it is declared, with errors standing (`loop.js:1759`). `Verdict` says so, and `VerdictHonest` exempts the case.
- An ACTION carried out through MCP counts as evidence, and yet is attempted again in full: the condition of
  a new attempt looks at files only (`FalseDone`).
- A tool answer that leaves no entry makes the guard and the count of failures read the entry before it (`Unrecorded`).
- Files a provider without tools answers during a repair are dropped.
- `runTurn` does not use the `allowedTools` a named sub-agent is given (`loop.js:1588`).
- A process that could not be started leaves its MCP client in the table, and so does a handshake
  that timed out: both are found there by the next connect (`McpClient`, `ErrorEvent` and `RequestTimeout`).
- `gen_check` may fail because the poll of another process forgot its record (`stolen`); `startProc` never reaps, so finished records nobody
  polled refuse new processes.
- A file too large for the manifest when a phase was marked, and smaller since, is deleted by a
  restore: it counts as one that appeared after (`GenRun`, `Appeared`).
- A restore takes the newest copy and does not fall through to an older one when the hash differs, so
  what a half-marked phase left can make a restore be refused with no gap on record (`cutShort`).
- `gen_report` counts a check that passed before later changes, a later failure or a restore (`gen.js:198`).
- A generation whose `run.json` was torn by a crash cannot be read any more: nothing replaces the file in one step.
- `stop()` during the startup of an agent leaves its process (`AgentSupervisor`, `missed`).

## What is not modelled, and why

- In `AgentServer`: listing and configuration routes; question turns beyond how they end; the network policy of deployments; the
  collision of approval ids (time plus 16 random bits). Whether the close listener of a stream
  fires at all depends on the Node version; the model lets it fire or not.
- In `TurnLoop`: plan mode, question turns, slash commands, prompts, compression beyond its await,
  the contents of edits.
- In `Undo`: the walk's limit of 500 files; a snapshot that cannot be unlinked; the checkpoints
  of child sessions.
- In `JobRun`: a specification with more requirements than steps fit in a plan; a child turn
  that goes on after the watchdog; wording, prompts, reports, the choice of a model.
- In `GenRun`: the checks appended to `run.json`, the report and its verdict.
- In `ExecProcs`: the output and its offsets. In `McpClient`: the HTTP transport (no connection is kept
  between requests), what a configuration says beyond its switch, policies, presets.
- In `Desk`: `ChatPanel.js`, which repeats the protocol of the agent panel with an engine of its own;
  listings, diffs, rendering, the command policy of the sandbox.
- In `RuntimeSupervisor`: the length of the backoff, the audit trail, `stop()` with the backend. In
  `ModelLoad`: inference, the manager process, tool-call repair, the OpenAI-compatible answers.
- The schedule of the wait for a restarted runtime (`providers.js`): a turn only sees that the
  wait succeeds or not. The backend client: next in the plan.
- `src/vscodium`, installers, website, scripts: build and packaging. User interface and static
  analysis: no protocol of its own. Licence and policy: a pure function of a file and the clock.
  HTTP services of the backend: routes that read, write and forward.

## Plan

Done: every module above, with its safety proved. Next:

1. `AbstractUndo`, a stack of projects, and `Undo` shown to implement it while `clean` holds; the
   limit of the walk, and a snapshot that cannot be unlinked.
2. `AgentServer` composed with `TurnLoop` through the abort mark; `JobRun` with the cut of long plans.
3. `WaitForRuntime` (`providers.js`) composed with `RuntimeSupervisor`: a runtime that comes back
   in time is found.
4. The report of `gen.js`, the backend's fallback, licence rules.
