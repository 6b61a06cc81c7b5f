# A TLA+ model of Hyperax

Hyperax is an agent operating system: one Go server that runs LLM agents, keeps
their state in a SQL database (SQLite by default), moves events between its
parts over an in-process bus, holds tool calls for approval, and stops agents
when something goes wrong. This directory holds TLA+ models of the parts of the
server whose correctness depends on interleavings, failures and restarts, the
TLC configurations that check them on small instances, and proofs of what holds
for every instance.

All paths below are relative to the repository; `internal/...` is `src/internal/...`.
`PROJECT.json` maps each definition to the lines it stands for, lists every
component of the repository, and names the hazards with the properties for them.

- [Inventory](#inventory)
- [Modules and code](#modules-and-code)
- [Runs, bounds and what they show](#runs-bounds-and-what-they-show)
- [Fairness](#fairness)
- [Proofs](#proofs)
- [Disagreements between code and documentation](#disagreements-between-code-and-documentation)
- [What is left out](#what-is-left-out)
- [Plan](#plan)
- [Running the checks](#running-the-checks)

## Inventory

The parts with control worth a model. "Hard" names what a test hardly reaches;
"correct" is what has to hold nevertheless.

### Andon Cord — `internal/interject`

- State: the table `interjections` (status, scope, severity, source clearance,
  TTL), and in memory the `SafeModeController`: per scope the ids that keep it
  in Safe Mode.
- Operations: `Halt` (store, engage, cascade to child agents), `Resolve` (read,
  compare clearance, update, disengage if clear), `ExpireTTL` (every tick of the
  maintenance loop), `RecoverOnStartup`, sieve bypasses, a dead letter queue,
  `IsHalted`.
- Talks to: HTTP and MCP handlers, the watchdog, the agent hierarchy (child
  resolver), the event bus.
- Hard: no lock is held across a request; table and controller are changed in
  separate steps; cycles in the hierarchy; restarts between two steps.
- Correct: an active halt keeps its scope in Safe Mode, and nothing else does; a
  halt ends once, by somebody entitled to or by its TTL; a lapsed one does end.

### Pulse watchdog — `internal/pulse/watchdog.go`

- State: `triggered`, `startupHeal` in memory; its halts in the interjections table.
- Operations: `check` on every tick: `trigger`, `recover`, `healStaleInterjections`.
- Talks to: the pulse engine's heartbeat (read), the Interjection Manager (calls).
- Hard: the note that it fired and the halt it stands for live in different
  places; failing calls; restarts; humans who resolve its halts.
- Correct: a stalled engine leads to a halt; at most one halt at a time; its
  halts end when the engine is back; nobody else's do.

### Event bus, ring buffer, WebSocket hub — `internal/nervous`, `internal/web/ws.go`

- State: a Lamport clock, a map of subscribers with one buffered channel each;
  a ring of the most recent events; per client its `since` and subscription.
- Operations: `Publish`, `Subscribe`, `Unsubscribe`, `Merge`, `Run`; `Push`,
  `Snapshot`, `Replay`; `HandleWebSocket`.
- Talks to: every component publishes; subscribers are the goroutines of cron,
  the dashboards, sentinels and so on.
- Hard: publishers share a read lock; channels are closed after the write lock
  is released; slow readers; the gap between replay and subscription.
- Correct: no send on a closed channel; a slow reader never blocks a publisher;
  order per publisher; ids are unique and agree with causality; the ring holds
  the newest events in order.

### Guard — `internal/guard`

- State: pending actions with a timer and a channel each; a bounded history.
- Operations: `WrapDispatch` (exempt, evaluate, hold), `CreatePending`, `Approve`,
  `Reject`, `timeoutAction`.
- Talks to: the MCP dispatcher and the tool-use executor, which call it for
  every tool; the tool `governance`, itself dispatched through it.
- Hard: approval, rejection, timeout and cancellation of one action at a time;
  a send and a close outside the lock.
- Correct: one decision per action; a denied call runs only on an approval;
  nobody blocks for ever or panics.

### Agent scheduler and work queue — `internal/scheduler`, `storage/sqlite/workqueue_repo.go`

- State: `agents.status`, `agent_work_queue`, two debounces in memory, one
  goroutine per activated agent.
- Operations: the tick (`checkAgents`), `drainLoop`, `RecoverOnStartup`;
  `Enqueue`, `Dequeue`; callers of `send_message` and `update_agent`.
- Talks to: the chat API, which runs completions; MCP handlers, which write the
  same rows.
- Hard: every change of status is a read and a write in two statements; a
  deferred reset behind an error; statuses that survive the process.
- Correct: one drain loop per agent; no agent is stuck `active`; an error is not
  clobbered; a queued message is taken out in the end.

### Cron — `internal/cron`

- State: the tables `cron_jobs` and `cron_executions`; the executor's channel on
  the bus; the job a dispatch has in hand.
- Operations: the tick (`checkAndDispatch`, `dispatchJob`), `seedNextRuns` at the
  start, the executor; `create_cron_job`, `update_cron_job`, `trigger_cron_job`,
  `delete_cron_job`; `Schedule.NextAfter`.
- Talks to: the bus, which drops the fire event when nobody listens; plugins,
  which bring jobs of their own.
- Hard: a dispatch is four statements on a row that others write back whole; the
  search for the next run jumps over months, days and hours.
- Correct: no slot is passed over or dispatched twice; a due job is dispatched in
  the end; the search finds the first match.

### AgentMail — `internal/agentmail`

- State: the outbound queue and the dead letter table, retry counts in memory;
  the tracker's pending mails, acknowledgements and partition locks.
- Operations: `send_mail`, `ack_mail`; the mailroom's dispatch, delivery, retry and
  quarantine; the deadlines; `Retry` and `Discard` of the dead letter office.
- Hard: rows are deleted before the delivery; a late acknowledgement against a
  deadline; retries that overlap.
- Correct: a mail is in one place, settles, and is retried a bounded number of
  times; an acknowledged mail raises no partition.

### Workflow executor — `internal/workflow`

- State: the rows of a run and of its steps, the waiters of steps that need an
  approval, the context of the run.
- Operations: `StartRun`, `executeDAG`, `executeStep`, `ApproveStep`, `CancelRun`.
- Hard: the steps of one level are goroutines; cancelling closes the channels that
  an approval closes; a dead context also refuses the writes.
- Correct: no step acts before what it depends on and before its approval; a run
  that is cut off ends.

### Pipelines — `internal/pipeline`, `mcp/handlers/pipeline.go`

- State: `pipeline_jobs.status`, the map of cancel functions, one goroutine a job.
- Operations: `run_pipeline`, `Execute`, `failJob`, `cancel_pipeline_job`.
- Hard: goroutine and cancelling calls write one status with nothing between
  them; the context that cancels the job also refuses the goroutine's last write.
- Correct: a job that is over is not left pending or running.

### Plugins — `internal/plugin`, `mcp/handlers/plugin.go`

- State: the manager's map, the directory and registry on disk, rows, cron jobs,
  subprocesses with a monitor each.
- Operations: install, upgrade, enable, disable, uninstall; restoration at the start.
- Hard: four places, written one after the other; processes that die meanwhile.
- Correct: a plugin's process, tools and hooks are those of its type and status; off
  stays off.

### Refactoring transactions — `internal/refactor`, `mcp/handlers/refactor.go`

- State: files; per transaction the snapshots taken before its first edit of each.
- Operations: begin, the editing calls (capture, write, mark), commit, rollback.
- Hard: edits of several files, failing halfway; calls beside a transaction.
- Correct: a transaction rolled back leaves none of its edits.

### Code index and watcher — `internal/index`

- State: rows of hashes, symbols and chunks; timers per file, pending events, a
  dispatch channel.
- Operations: the scan at startup and on request, the debouncing watcher,
  `IndexFile`, `RemoveFile`.
- Hard: a timer function that runs while its timer is replaced; two keys for one
  workspace; full channels.
- Correct: the last change of a file ends in the rows.

### CommHub — `internal/commhub`

- State: a bounded inbox per agent, the overflow table.
- Operations: `Send`, `Receive`, `DrainOverflow`.
- Hard: the inbox is found under one lock and filled under another.
- Correct: a message that was sent is in exactly one place.

### Tool-use executor — `internal/tooluse`

- State (of one run): the conversation, counters, the last call, a ring of the
  last six tool names.
- Operations: `Execute`, its dispatch of a batch, its guards, truncation.
- Hard: batches written into a ring that is read as it lies; a conversation cut by
  messages rather than by turns.
- Correct: a repeating pattern is caught wherever it begins; results follow calls.

### Token rate limiter — `internal/auth/ratelimit.go`

- State: per address a bucket and the time it was last looked at.
- Operations: `Allow`, `Cleanup`.
- Hard: nothing refills a bucket but the next look at it, and it may be forgotten.
- Correct: a request passes exactly if every window before it has room.

How the parts meet: components never call each other's internals. They share the
database (Andon Cord, scheduler, cron, handlers), publish on the bus, or call a
manager. The models follow this: a component is a module, a caller of a manager
is one more process of the manager's module (`Watchdog` extends `Interject`), a
subscriber is one more reader of the bus (`LateJoin` extends `EventBus` and
`RingBuffer`; the executor of cron is a reader whose channel `Cron` keeps).

## Modules and code

| Module | Models | Code (`internal/`) |
| --- | --- | --- |
| `Interject` | `Manager.Halt`, `Resolve`, `ExpireTTL`, `RecoverOnStartup`, `SafeModeController` | `interject/manager.go`, `safemode.go`, `storage/sqlite/interjection_repo.go` |
| `InterjectionLedger` | abstract: what is promised of one interjection | – |
| `Watchdog` (extends `Interject`) | the watchdog's goroutine | `pulse/watchdog.go` |
| `EventBus` | the bus | `nervous/bus.go` |
| `RingBuffer` | the ring | `nervous/ringbuffer.go` |
| `LateJoin` (extends both) | the feeder and a reconnecting client | `web/ws.go`, `web/router.go` |
| `Guard` | middleware and action manager | `guard/middleware.go`, `guard/action_manager.go` |
| `AgentScheduler` | tick, drain loops, work queue, `update_agent` | `scheduler/scheduler.go`, `storage/sqlite/workqueue_repo.go`, `mcp/handlers/agent.go` |
| `Cron` | scheduler, executor, calls on jobs | `cron/scheduler.go`, `cron/executor.go`, `mcp/handlers/pipeline.go` |
| `CronSearch` | `Schedule.NextAfter` and `advance` | `cron/parser.go` |
| `Mailroom` | queue, delivery, acknowledgements, deadlines | `agentmail/mailroom.go`, `ack_tracker.go`, `postbox.go`, handlers |
| `DeadLetters` | the dead letter office | `agentmail/dlo.go` |
| `Workflow` | one run of a workflow | `workflow/executor.go`, `workflow/approval.go` |
| `Pipelines` | jobs and the calls that cancel them | `pipeline/executor.go`, `mcp/handlers/pipeline.go` |
| `Plugins` | manager, processes, installation, restoration | `plugin/manager.go`, `plugin/subprocess.go`, `mcp/handlers/plugin.go` |
| `Refactor` | transactions and the edits in them | `refactor/transaction.go`, `refactor/operations.go`, `mcp/handlers/refactor.go` |
| `IndexWatcher` | scans, watcher, indexing of a file | `index/watcher.go`, `index/indexer.go` |
| `CommHub` | inboxes and overflow | `commhub/hub.go` |
| `ToolLoop` | one run of the executor | `tooluse/executor.go`, the adapters' turns |
| `RateLimiter` | buckets of tokens | `auth/ratelimit.go` |
| `InterjectProofs` (extends `Watchdog`) | theorems on the Andon Cord and the watchdog | – |
| `EventBusProofs`, `LateJoinProofs` (extends it) | theorems on the bus; on the ring and the hub | – |
| `AgentSchedulerProofs` | theorems on the scheduler of agents | – |
| `OversightProofs` | theorems on the gate, pipeline jobs and the rate limiter | – |
| `CronProofs` | theorems on cron jobs and the search for the next run | – |
| `BackgroundProofs` | theorems on mail, dead letters, workflows, inboxes | – |
| `ServicesProofs` | theorems on the tool loop, plugins and refactoring | – |
| `MC...` | values of the constants for TLC, and suites of services | – |

Conventions. An atomic step is what the code makes atomic: one SQL statement,
one locked section, one channel operation. A request that consists of several is
a process with a program counter (`pc`, `wpc`, `pub`, `at`, `loop`, `stage`) and,
where it keeps locals across steps, a record of them (`call`, `draft`, `item`). A
definition whose comment begins with "Mutant of" is a plausible bug of the
definition that follows; it is used in no specification, only to see that a
property notices.

**Interject.** `ij` is the table, `safe` the controller, `lapsed` the ids whose
TTL is over. `HaltCreate`, `HaltEngage`, `CascadeCreate`, `CascadeEngage`,
`CascadeSkip`, `CascadeDone` are `Halt` with `cascadeHalt`/`cascadeWalk`: the
walk's recursion is the list `todo` of agents still to halt, each with its depth.
`ResolveRead`, `ResolveStore`, `ResolveRejected` are `Resolve`; `KeepSafeMode`,
`ScopeIsClear`, `Disengage` are `disengageSafeModeIfClear`, a query and a later
write to the controller. `ExpireBegin`, `ExpireRow`, `ExpireSkip`, `ExpireDone` are
`ExpireTTL` over the snapshot `snap`. `Crash` clears the memory, `Restart` is
`RecoverOnStartup`. `CanFail` lets statements fail. Severities are reduced to
"halting" (critical, fatal) or not, which is all the code tells apart.

**InterjectionLedger** says that an interjection is issued once and ends once, by
a resolver with enough clearance (or one whose clearance was not looked up) or
by its TTL. `Interject!ImplementsLedger` is the refinement.

**Watchdog** adds `beat` (the age of the heartbeat against the threshold),
`triggered`, `healed`, `wpc`, `wlist`. Its calls of the Manager are steps of
`Interject` taken by the process `W`: `WatchdogHalt` is `HaltCreate` by `W`,
`ResolveNext` is `ResolveRead` by `W`; what follows interleaves with everybody.

**EventBus.** `Stamp` advances the clock before the lock is taken; `Lock` picks the
subscribers; `Send` is one `select` with a default branch; `Unlock`. `Unregister`
and `Close` are the two halves of `Unsubscribe`. `Subscribe` and `Shutdown` need
the write lock: they wait until no publisher is `sending`. `Receive` is a goroutine that
publishes too, `Hear` one that only reads. `heard` and `seen` are history, used by
properties only.

**RingBuffer** keeps `buf`, `head`, `count` as the code does; `Replay` is its loop over the
snapshot; `pushed` is history.

**LateJoin.** `SubscribeFeeder` and `Feed` are the feeder; `Connect` (replay) and
`GoLive` (subscribe) are the two steps of `HandleWebSocket`; `Deliver` and
`Disconnect` its loops. The client is outside the server: it returns with the
highest id it has seen, as the dashboards do.

**Guard.** A tool call is its own action id. `Pass`, `Deny`, `StartTimer`,
`Insert`, `Receive`, `Cancel`, `Run` are `WrapDispatch` with `CreatePending`;
`Decide`, `Signal`, `CloseChannel` are `decide` by a `governance` call; `Timeout`,
`TimeoutSignal`, `TimeoutClose` are `timeoutAction` on the timer's goroutine. The
configuration (`GuardsOn`, `AutoReads`, `AllowBypass`, plugin guards) are constants.

**AgentScheduler.** `row` is `agents.status`; `queue` the items not consumed. The
tick is a process with counter `at`: `Tick` lists, `NextAgent`, `Peek`,
`GetForActivation` and `Activate` are `tryDispatchMessages` and `setAgentActive`,
`Reset` the reset of an agent in error, `PromptTasks` and `RouteTasks` the two
prompts. `loop[a][k]` is the k-th drain loop of `a`: `Take`, `Complete`,
`CompleteDisabled`, `MarkError`, `Finish`, `PutIdle`. `EditRead` and `EditWrite` are
`update_agent`, which writes any status, by default the one it read. `reported` holds
the agents for which the code logs that they may be left as they are (a failed final
write); `misplaced` those that `EditWrite` took out of the scheduler's hands: made busy
without a drain loop, or idle with one. It is empty again after a start. Items with equal `created_at` are
taken in order of insertion, which the query's `ORDER BY` leaves open.

**Cron.** `job` is `cron_jobs`, `exec` is `cron_executions`, `fired` the executor's
channel. `CheckDue` reads the due jobs once into `batch`, `DispatchDue` takes the next
of them; `CreateExecution`, `Fire`, `MarkRunning`, `SetNextRun` are the four
statements of `dispatchJob`, which `trigger_cron_job` shares (`Trigger`).
`Subscribe`, `Receive`, `CompleteExecution`, `UpdateLastRun` are the executor.
`EditJob` and `SaveJob` are `update_cron_job`: the row is read, and written back
whole. `CreatePluginJob` makes a job without a next run, which `CronStart`
(`seedNextRuns`) gives it. `excused` and `mixed` are history: the jobs whose slots a
failure or an overlap brought back, and those whose schedule changed under a dispatch.

**CronSearch** is `NextAfter` in a calendar whose lengths are constants: `Advance`
jumps as `advance` does to the next month, day, hour or minute that may match,
`Found` and `GiveUp` end the search. The leap year is every fourth.

**Mailroom.** `queue` and `dead` are the two tables, `tries` the retry counts, `taken`
what a batch has dequeued (the code deletes the row when it dequeues). `SendOutbound`
and `Track` are `send_mail`; `Dispatch`, `Deliver`, `DeliveryFails` (retry or
quarantine) the mailroom; `AckRow` and `Acknowledge` are `ack_mail`, which stores its
row before it tells the tracker and answers the same whatever the tracker holds;
`Lapse` and `CheckDeadlines` the deadlines; `ResolvePartition` gives a lock back. `acks` has
the rows, which go with the mail when it is dequeued, `answering` the calls between their
two steps. `unheard` (answers the tracker did not take) and `lost` (what a failure or a
restart lost, which the code accepts) are history. The mailroom and the
tracker's loop are written but not started by `app`; the model is of the code as it
would run.

**DeadLetters.** `RetryBegins` counts the attempt under the lock; the sending, which
`RetryFails` or `RetryWorks` ends, runs without it.

**Workflow.** `StartRun` makes the rows; `Main` (`BeginLevel`, `CancelledBetween`,
`LevelsDone`, `EndLevel`, `EndRun`, `CompleteRun`) is `executeDAG`; `RunStep(s)`
(`ConditionEnds`, `StepRuns`, `WaitForApproval`, `Released`, `Aborted`, `Act`) is
`executeStep` on its goroutine; `CancelRun`, `CancelAll`, `CancelWrites` are the three steps of
cancelling. `ctx` is the context, which ends with the starting request too
(`RequestEnds`). `IsLevelling` states what `groupByLevel` computes; a graph has no
levelling exactly if `topoSort` refuses it. Writes fail when the context is dead.

**Pipelines.** `row` is the status, `stage` the goroutine: `TrackCancel`, `LoadJob`,
`MarkRunning`, `StartCommand`, `EndCommand`, `Complete`, `FailJob` are `Execute`;
`CancelReads`, `CancelSignals`, `CancelWrites` are `cancel_pipeline_job`. `AsksStore` says
that a statement of an aborted job is refused. `unmarked` holds the jobs for which a
write of the status failed.

**Plugins.** `mem` is the manager's map, `dir`, `rec`, `saved` and `jobs` the four places
on disk and in the store, `procs` the processes with their restart counts. `Running` has
the plugins of the types mcp and service; `EnablePlugin` starts no process for one of
the other types (wasm, http, native) and only marks it enabled (`OnlyMarked`). A method
of the manager holds its lock, so `Enable`, `Disable` and `Uninstall` are one step
each; `Install...` and `Upgrade...` are the handlers' calls of several methods, others
in between. `Restore` takes one row at a time at the start. `Monitor` is the
goroutine that restarts a process. `wanted` and `strayed` are history.

**Refactor.** A file is the set of transactions (or `Plain`) whose edits it holds.
`SnapshotFile`, `Read`, `Write`, `WriteFails`, `MarkModified` are the steps of an
editing call, per file; `TakeToCommit`, `Commit`, `TakeToUndo`, `RestoreFile`,
`RestoreFails`, `RolledBack` the two ends. `mingled` holds the transactions whose edits a
call outside of them has had in hand; the property asks nothing of those.

**IndexWatcher.** `Write` and `Delete` change a file; `Debounce`, `Fire`, `Take`, `Send` are
the timers (a timer's function may be running when its timer is replaced),
`ProcessDispatch` the consumer; `HashFile`, `UpsertFileHash`, `ExtractSymbols`,
`StoreChunks` are `IndexFile`, each reading the file anew; `RemoveSymbols` and
`RemoveChunks` are `RemoveFile`; `Walk` and `ScanEnds` a scan. A content is a member of
`Contents`, with `Size` chunks; a write may bring any of them, the present one and an
earlier one included. Chunks of a markdown file are overlaid, those of a source file
replaced. `stored` has the rows of both indexers, which use different keys. `seen` is
history: the files whose last change only time keeps out of the index; the guard
on the stored hash takes a file out of it when it skips one whose other rows are not of
its content.

**CommHub.** `FindInbox` is under the lock of the hub, `DeliverNote` (`Deposit`) under the
lock of the inbox, with the overflow of the oldest message; `Lookup` and `TakeOut` are
`Receive`; `Drain` and `Redeliver` are `DrainOverflow`. `Sift` stands for everything that
happens to a message before: it passes or is refused. `forfeit` is history.

**ToolLoop.** A response is whether it has text and its batch of calls. `Answer`,
`Cycle`, `CapReached`, `PatternFound`, `Dispatch`, `FormatFails`, `CompletionFails`,
`Unreadable`, `OutOfIterations` are the ways an iteration goes on or ends; `Track` writes
a batch into `patternRing`, `Detected` reads it as it lies; `Turn` is what the adapter
appends, `Truncated` what is kept. `made` is history.

**RateLimiter.** Tokens are counted in shares so that a tick refills a whole number of
them. `Allow` refills and takes, `Cleanup` forgets. `total` and `before` are history: what
was allowed so far, and before each tick.

## Runs, bounds and what they show

A run checks either one component or a suite of services that do not meet. In a suite
the variable `part` picks one service per behaviour; the others keep their initial
state, so the state space is the sum of the parts and not their product, and
each property is checked exactly as in a run of its own. A service that rests enables no
fair action, or its fairness is restated for where it runs (`MCControl`,
`MCBackground`), so that the fairness of one asks nothing of the others. Deadlock is not
checked in the suites and in the bus run: they end when a bound is used up or
every call has returned.

| Run | Instance | Shows |
| --- | --- | --- |
| `OversightRuns` (halts, pipelines, limiter) | Andon Cord: 3 ids, scopes `Global`, `a`, `b` with `a` and `b` below each other, one goroutine for everything, walks of depth 2, 2 halts, 1 crash, no failing statement. Pipelines: 2 jobs, 2 cancelling calls, 1 command, 1 fault or restart. Limiter: 1 address, 2 requests a minute of 3 ticks, 7 ticks, 3 calls a tick | `HaltsAreEngaged`, `SafeModeHasHalt`: at rest Safe Mode covers exactly the scopes with active halts; `CascadeCovers`: the walk of a cycle reaches all below, down to the depth limit, and engages them; `EndedIsMarked`; `AllowsByWindows` |
| `InterjectConcurrent` | 2 ids, a haltor, a resolver and the maintenance loop, a hierarchy that loops, walked one level, failing statements, 1 halt (and its cascade), 1 crash | `ImplementsLedger` on stale reads; `CallsReturn`: the walk of a loop ends at the limit too; `LapsedEnds` |
| `InterjectRaceUnsafe` (violation of `HaltsAreEngaged`) | 3 ids, 2 halts, the same goroutines, nothing fails | a Halt between the check and the Disengage of a Resolve is dropped from Safe Mode |
| `TickerRuns` (watchdog, jobs, search) | Watchdog: 2 ids, a human of level 0 or 3, 2 stalls, 1 crash, nothing fails. Cron: 1 job, schedules of 2 periods, 1 caller, a channel of 1, times 0 to 2, 1 trouble (call, failure or restart). Search: months of 2 and 1 days with a leap day, weeks of 2 days, days of 2 hours of 3 minutes, 243 schedules from every minute of 13 days | `OneWatchdogHalt`, `FailClosed`, `WatchdogHeals`, also for halts of an earlier process; `SlotServed`, `SlotOnce`, `DueIsServed`; `NoMatchSkipped` |
| `EventBusRuns` | 2 publishers, a subscriber that comes and goes on 2 channels of 2 slots and wants one of 2 types, a remote clock, ids up to 3 | `NoPanic`, `PublisherOrder`, `CausalOrder`, `PublishReturns` |
| `ControlRuns` (guard, scheduler) | Guard: 2 held autonomous calls, a held direct call, 2 governance calls, history of 2 cut to 1. Scheduler: 2 agents, 1 message, 1 `update_agent` that gives any status or none, one prompt, one failing store operation or one restart | `RunsOnlyApproved`, `WaitersReturn`; `DrainsAlone`, `ActiveIsServed`, `ErrorKept`, `Served` |
| `AgentSchedulerOverlap` (violation of `OneDrain`) | 1 agent, 2 messages, 1 `update_agent` that gives no status | a stale write makes a working agent idle and it gets a second drain loop |
| `ServicesRuns` (hub, ring, plugins, refactor, letters, inboxes, tools, watchdog) | Hub: 2 publishers, feeder, a client that connects twice, ring of 2, ids up to 2. Ring: 2 slots, 4 pushes of events with any ids. Plugins: 3, one with a process and jobs, two without (one of them a provider of secrets), 2 installing calls, 1 restart of a process, 4 calls, failures and restarts. Refactor: 2 transactions, 2 files, 1 editor, 2 edits. Letters: 2, 2 retrying calls, 2 attempts. Inboxes: 4 messages to 1 agent, 2 readers, inboxes of 2, 2 failures or restarts. Tools: 3, batches up to 2, 4 iterations, 6 messages. Watchdog: failing statements, the global scope, another goroutine that halts and resolves, 1 stall, 1 restart | `ClientOrder`, `ReplayIsMissed`; `RuntimeMatches`, `OffStaysOff`; `UndoneIsGone`; `ResentBounded`; `HubKeepsAll`; `PatternCaught`; `LeavesOthersAlone` |
| `BackgroundRuns` (mail, workflow, index) | Mail: 2 mails, batches of 1, 2 attempts, 2 failures or restarts. Workflow: 3 steps over a triangle, a join, a cycle and no dependencies, two gated, one conditional, 1 failing write. Index: 1 file, source or markdown, 3 changes among 2 contents of 2 and 1 chunks, room for 2 events and 1 dispatch, 1 scan on request, failure or restart | `MailInOnePlace`, `MailSettles`, `AckOrPartition`; `ActsInTurn`, `DeadRunEnds`; `ChangeIsIndexed` |
| `WorkflowUnapproved` (violation of `CancelApprovesNone`) | the workflow of `BackgroundRuns` | cancelling closes the channel a step waits on, and the step may take that for an approval |
| `IndexStale` (violation of `ChangeIsFound`) | 1 file | the watcher's rows follow a change, the rows that searches read do not |
| `ToolLoopOrphans` (violation of `ResultsFollowCalls`) | 3 tools, a limit of 6 messages | truncation cuts a turn in two and keeps the results without their calls |

Why the bounds are enough:

- Andon Cord: a row is touched by at most the goroutine that made it, one
  resolver and one expiry loop; two halts on one scope are what the race between
  check and disengage needs, and two levels of a cycle of two agents
  (`MaxDepth` 2, 20 in the code) bring the walk back to where it began, with two
  rows for one scope. In `InterjectConcurrent`, which pays for liveness, `a` leads
  itself: its walk would go round for ever and is cut after the first round.
  Clearances are one level there, so its ledger says that a row ends once; that
  the resolver's level suffices is proved for all levels (`TableImplementsLedger`).
  `MayHalt` lets a cascading halt begin only when ids for its walk are left.
- Watchdog: two stalls and one restart give a halt of this process, one of the
  earlier one, and a recovery between two stalls. Failing statements and
  `FailClosed` exclude each other (see below), hence two runs.
- Bus: two publishers are enough to interleave stamps and sends; a channel of two
  slots overflows with three events; an id that subscribes twice gives the orphaned
  channel. More ids add no new conflict: channels are independent but for the
  locks, and `BusNeverPanics` is proved for any number.
- Ring: 4 events in 2 slots wrap twice; the theorems cover every capacity.
- Guard: two deciders, a timer and a cancelling caller are all that can meet at
  one action; two more actions make the history overflow.
- Scheduler: `MaxLoops` 2 is what `OneDrain` and `DrainsAlone` need to fail; the second agent shows
  that one agent's trouble does not stop the other's; every operation of the store
  may be the one that fails, once.
- Cron: jobs meet only in the order of a batch; a dispatch, a call and a restart are
  all that meet at one row; one of them meets the tick in every order, and both theorems
  on slots hold for any number. Three moments are enough for a slot that is due, one that is missed and one to come.
- Search: every branch of `advance` is taken (a month without the day, a week day that
  never meets the day, the end of a year, the leap day), from every minute.
- Mail: batches of one leave the other mail queued while one is handed over.
- Workflow: three steps are the smallest graphs with two levels below one step and
  with two dependencies on different levels.
- Pipelines, limiter, tools: proved for every number; the instances reach every action.
- Plugins: the types differ in whether a process is started, and the providers of
  secrets in whether they are called back; two calls meet; with four calls a plugin is
  installed, enabled, crashed, restarted, switched off and uninstalled or upgraded.
- Inboxes: three messages overflow an inbox of two, a fourth meets the overflow being
  drained; two first messages race for the inbox.
- Index: a burst of three changes is a timer running, one stopped and one to come; of two
  contents the second is the shorter, and the third change may go back to the first. A
  scan, a failure and a restart each meet every order of changes and timers, one at a time.

Bounds are named constants (`MaxHalts`, `MaxCrashes`, `MaxStalls`, `MaxSeq`,
`MaxFaults`, `MaxPrompts`, `MaxLoops`, `MaxTime`, `MaxTroubles`,
`LastYear`, `MaxMishaps`, `MaxProcs`, `MaxCalls`, `MaxEdits`, `MaxSlips`, `MaxBatch`,
`MaxRounds`, `MaxWrites`, `MaxScans`, `MaxUpsets`, `Commands`, `LastTick`) that guard
the action they bound. Symmetry is used only in runs without liveness.

## Fairness

Only goroutines that the code starts, and statements that end, are fair; callers,
clocks, files and other people owe nothing.

- Interject: `WF Continue(p)`: a request that began is a runnable goroutine, and
  every statement ends. `WF ExpireBegin`: the maintenance ticker fires
  (`app.runInterjectionMaintenance`). `SF ExpireRow`: with failing statements the
  loop skips a row; it is tried again at every tick, and it is assumed not to
  fail for ever. `WF Restart`: a stopped server is started again.
- Watchdog: `WF Watch` (its ticker fires, its goroutine is scheduled) and the
  same for continuing requests and restarts. The engine owes nothing:
  `WatchdogHeals` assumes a heartbeat that stays fresh in its premise.
- Bus: `WF Publishing(p)` only. Readers owe nothing, which is the point of
  `PublishReturns`.
- Guard: `WF Proceed(c)` of a call that was dispatched and `WF Expire(c)` of a
  timer. Nobody has to decide.
- Scheduler: `WF Start` (an operator restarts the process), `WF Scheduler` (the
  tick), `WF` of the exit of a process whose context is cancelled, `WF DrainLoop`
  (completions run under a timeout, so each ends). Senders owe nothing.
- Cron: `WF CronStart` (a restart), `WF CheckDue` and `WF DispatchDue` (the ticker),
  `WF DispatchStep(d)` (a dispatch goes on), `WF ExecutorStep` (its goroutine). The bus
  may drop every event, and callers owe nothing.
- Mail: `WF Dispatch` and `WF CheckDeadlines` (their tickers), per mail `WF` of the
  end of a delivery, good or bad (adapters return), of the second half of `send_mail`
  and `ack_mail`, and of the deadline, which is a clock that runs.
- Workflow: `WF Main` and `WF RunStep(s)`: goroutines. Nobody has to approve or cancel.
- Index: `WF RunLoop`, `WF ScanLoop` (goroutines) and `WF Timer(f)` (a timer that was not
  stopped fires, its function runs). Nobody has to restart a stopped server.

## Proofs

TLAPS checks them with SMT, Zenon and LS4; every leaf is proved.

| Theorem | Module | Assumptions beyond those on the constants |
| --- | --- | --- |
| `TypeCorrect`, `SafeModeBlamesHalts`, `TableImplementsLedger` | `InterjectProofs` | none |
| `OnlyStaleChecksForgetHalts` | `InterjectProofs` | no step is a Disengage on a stale check (`StaleDisengage`) or a recovery that cannot read (`FailedRecovery`); any requests at once, failing statements |
| `OnlyLateStepsKeepSafeMode` | `InterjectProofs` | no step is an Engage for a halt that is over (`LateEngage`) or a check that cannot read (`BlindKeep`); any requests at once, failing statements |
| `WalksCoverEveryone` | `InterjectProofs` | no failing statement or lookup of children, no `StaleDisengage` |
| `WatchdogTypeCorrect`, `WatchedSafeModeBlamesHalts`, `WatchedTableImplementsLedger`, `WatchdogLeavesOthersAlone` | `InterjectProofs` | none |
| `WatchdogHaltsOnce` | `InterjectProofs` | no failing statement |
| `BusTypeCorrect`, `BusNeverPanics`, `BusIdsAreUnique`, `BusIsCausal`, `BusKeepsOrder` | `EventBusProofs` | none |
| `RingTypeCorrect`, `RingHoldsRecent`, `RingReplaysMissed` | `LateJoinProofs` | none |
| `HubImplementsBus`, `HubImplementsRing`, `HubKeepsClientOrder` | `LateJoinProofs` | none |
| `GuardTypeCorrect`, `GuardDecidesOnce`, `GuardedRunsAreApproved`, `GuardChannelsUsedOnce`, `GuardHistoryIsRecent` | `OversightProofs` | none |
| `SchedulerTypeCorrect` | `AgentSchedulerProofs` | none |
| `SchedulerInvariant`, `AgentsDrainAlone`, `ActiveAreServed`, `ErrorIsKept` | `AgentSchedulerProofs` | none: `update_agent` may write any status, agents in `misplaced` are excepted by the properties |
| `CronSlotsOnce`, `CronSlotsServed`, `SearchSkipsNothing` | `CronProofs` | none |
| `MailsAreInOnePlace`, `AcknowledgedOrRaised`, `RetriesAreBounded`, `WorkflowActsInTurn`, `HubKeepsMessages` | `BackgroundProofs` | none |
| `LoopTyped`, `LoopCatchesPatterns`, `PluginsRuntimeMatches`, `PluginsOffStayOff`, `RefactorUndoes` | `ServicesProofs` | none |
| `PipelinesTyped`, `EndedJobsAreMarked`, `RateLimiterTyped`, `LimiterAllowsByWindows` | `OversightProofs` | none |

The arguments:

- **Interject.** `EngagedAreHalts` is not inductive: what `HaltEngage` adds to Safe
  Mode comes from the locals of a request. `IInv` adds `CallInv`: the ids in a
  request's locals name stored rows that fit its step. The refinement
  `TableImplementsLedger` then goes action by action: a step issues, clears or
  lapses one row, or stutters; that a resolver's clearance suffices is part of
  `CallInv` since it was compared in an earlier step. `HaltsAreEngaged` and `SafeModeHasHalt` fail
  when requests overlap (`InterjectRaceUnsafe`); the theorems say by which steps alone,
  whatever else overlaps. `HeldInv`: an active halt is among the reasons for its scope's
  Safe Mode, or the request that stored it is about to engage it. `ClearInv` is the
  other direction: a scope in Safe Mode has an active halt, or some request is still to
  look at it. For `WalksCoverEveryone`, `WalkInv` speaks of lines of command: on
  every line of at most `MaxDepth` agents below the halted one, the last agent has a row
  that names the halt, or some agent on the line is still on the walk's list at its own
  depth. That the agents `Below` are the ends of such lines is an induction over the
  levels. A failing statement or lookup drops an agent with all below it, hence the
  assumption; that the row is engaged is `HeldInv`, as a halt has one walk (`LoneInv`),
  which engages each row it stores before it goes on.
- **Watchdog.** All it does to the Andon Cord it does as a caller of `Halt` and `Resolve`
  (`WNextMoves`), so `IInv` and the ledger carry over. `WatchInv`: what its goroutine has
  in hand are its own halts. `OneInv` adds that there is none while it is about to
  halt; a query that fails would take that away.
- **EventBus.** `NoPanic` needs that no channel is registered under two ids
  (`OneIdPerChannel`), or else one Unsubscribe would close what another id still
  has. `UniqueIds` and `CausalOrder` rest on `ClockIsAhead`: the clock is at least every
  id given out and everything a goroutine has merged, so that the next stamp
  is above both. `PublisherOrder` adds `NextIsNewest`: an event on its way is newer
  than what the channels it has still to be sent on have carried of its publisher;
  `OneIdPerChannel` keeps it from being sent on one twice.
- **RingBuffer.** `RInv`: the i-th slot behind the head holds the i-th last push.
  `Back` replaces the modulus by a case distinction, which the solver can do.
  `RingReplaysMissed` is an induction over the rows of Replay's loop: after i rows the
  result picks, in order, what is beyond `since` among the first i buffered events.
- **LateJoin.** While a connection is live the bus knows its channel (`Attached`), so every
  step of the hub is one of the bus or leaves it alone (`HubImplementsBus`), and a step
  of the feeder pushes an event the bus carried (`HubImplementsRing`); what is proved of
  the bus and of the ring so holds in the hub. What was pushed is what the feeder
  heard (`RingIsHeard`) and what the client has, some channel carried
  (`GotIsHeard`). `InOrder` is the strengthening of `ClientOrder`: what the client has, then
  what its channel still holds, then what a publisher has in hand are in order for each
  publisher; a replay keeps it because all it adds is above all the client has.
- **Guard.** `GInv` ties each holder of a decision to that decision (`DecidersHold`,
  `TimersHold`), what a channel holds to a decision (`AnswersAreMade`), and what is
  pending to a caller that was denied; with `DecidedOnce` two holders of one action
  are the same. `HistoryIsRecent` is inductive by itself; the lemmas on `NewestIs`
  show that cutting a sequence and then adding to it keeps its end.
- **AgentScheduler.** All parts of the invariant speak of the agents that are not
  `misplaced`. `DrainsAlone` needs that the scheduler never looks at one with a live
  loop (`LookedAtIsFree`, `LookedAtOnce`), which holds because a live agent's row keeps
  it away (`LiveIsBusy`), which is what a stale write breaks (`AgentSchedulerOverlap`).
  `ErrorIsKept` follows from `LiveIsBusy`.
- **Cron.** `SlotInv`: the slots the ticker has dispatched for a job that nothing excused
  are below what its batch holds, below the job's next run, or the one it has in hand,
  which ends each of the ways a slot can come back. `SchedInv` and `CreatedInv` say that
  the next run is set by the schedule the dispatch began with, which `SlotServed` needs.
- **CronSearch.** `SearchInv`: nothing between where the search began and where it is
  matches. The assumptions on the constants are that a schedule has minutes, hours and
  months, each in its range (`parseField` refuses others), and that the calendar reaches
  as far as the search. Sums over months are unwound by an induction over a year
  (`DaysBeforeSums`, `LeapDay`), so that each month begins where the last one ended
  (`NextStart`), every day has one date (`EveryDayDated`) and dates come in order
  (`LaterMonth`). Then each jump by itself goes on and passes over no match: `JumpMonth`
  by that order, `JumpDay`, `JumpHour` and `JumpMinute` by division with remainder.
- **Mailroom.** `MailInv` spells out the five places and adds that a mail not yet sent is in
  none and one not yet tracked is unknown to the tracker (`PendingIsOpen` is what an
  acknowledgement and a deadline decide between them). `RowsAreAnswers`: a row of an
  acknowledgement belongs to one the tracker took, will be told of or did not take.
- **DeadLetters.** `OfficeInv`: what was sent again is what the attempts count.
- **Workflow.** `LevelsInv`: below the current level everything is over, above it nothing
  has begun. `TurnsInv` follows as a level is only left when its steps have ended well;
  `GatesInv` ties acting to approval until a cancellation begins.
- **CommHub.** `PlaceInv`: a message whose Send succeeded is in exactly one of five places.
  `Layout` and `FoundInv` keep an inbox that a goroutine has found that of its agent.
- **ToolLoop.** `RingFollows`: slot by slot the ring holds the last calls in the order
  of their number, wherever the index stands. `RepeatIsSeen` shows that a repetition
  at the end of the calls is one in the ring read as it lies, whatever the rotation:
  each period that is looked for (1, 2 or 3) divides the six slots.
- **Pipelines.** `EndedIsMarked` needs that the context of a job is cancelled only
  by a call that has its write still to come, or that has been written
  (`AbortedIsWritten`), and that a job has a row before anything else of it (`RowFirst`).
- **RateLimiter.** `TightestWindow`: what a bucket holds once refilled is what the
  tightest window that ends now has left, and some window attains it. Forgetting a
  bucket keeps this because a bucket older than a minute would be full (`StaleIsFull`).
- **Plugins.** `RuntimeMatches` is kept by each method of the manager (`Touched`: one plugin
  changes, and it matches its type and status). `OffStaysOff` needs `WantedInv` (the saved row of a
  plugin switched off does not say enabled) and `StartInv` (nobody else enables before
  the restoration is over).
- **Refactor.** `ContentInv`: an edit of a transaction on its own is in a file that the
  transaction has captured, and after that among those left to restore; `SnapshotsInv`
  keeps it out of every snapshot, so restoring cannot bring it back.

Proved and checked by a run: those whose entry under `theorems` in `PROJECT.json` names a
property. Proved only: the type invariants, `EngagedAreHalts`, `UniqueIds`, `HoldsRecent`,
`DecidedOnce`, `ChannelUsedOnce`, `HistoryIsRecent`, and that the hub implements the bus and
the ring.

Induction. The induction theorems of the library take an operator, which the provers
cannot instantiate; that `<` is well founded on the naturals is a statement about a set,
and with the numbers that have a property as a set it gives `LeastOf` and `UpTo`, which
the loops, levels and months above use.

Only model-checked: everything temporal under fairness (`CallsReturn`,
`LapsedEnds`, `FailClosed`, `WatchdogHeals`, `PublishReturns`, `WaitersReturn`,
`Served`, `DueIsServed`, `MailSettles`, `DeadRunEnds`, `ChangeIsIndexed`), which needs
ENABLED and is out of the prover's reach. Every invariant and every property of single
steps that a passing run checks is also a theorem, under the assumptions of the table.

## Disagreements between code and documentation

Five have a run that shows them (`findings` in `PROJECT.json`):

1. `disengageSafeModeIfClear` drops a scope from Safe Mode on a stale check
   (`interject/manager.go:470`, comment at 454) — `InterjectRaceUnsafe`.
2. `setAgentActive` is called an optimistic lock but is a read and a write
   (`scheduler/scheduler.go:202`, 530) — `AgentSchedulerOverlap`.
3. `CancelAll` "closes all pending approval waiters without approving them"
   (`workflow/approval.go:124`), and a waiting step takes a closed channel for an
   approval (`workflow/executor.go:317`) — `WorkflowUnapproved`.
4. The watcher indexes under the id of the workspace, scans and searches use its
   name (`index/watcher.go:296`, docs/Architecture.md:164) — `IndexStale`.
5. Truncation counts messages, the Anthropic adapter's turns are two each
   (`tooluse/executor.go:410`, `adapter_anthropic.go:104`) — `ToolLoopOrphans`.

Noticed while modelling, without a run of its own. Where a definition states what is
broken it stays in the module, so that TLC can show it:

- Interject: a halt that is resolved between its Create and its Engage leaves
  Safe Mode engaged for a row that is over (`manager.go:122`). A failing recovery
  at startup only warns (`app/app.go:242`) although docs/Architecture.md makes it an
  audit. A failing Create of one child leaves out all below it (`manager.go:375`).
- Watchdog: `trigger` notes that it fired before the halt is stored, so a failing
  Halt fails open (`pulse/watchdog.go:124`, comment at 33); `FailClosed` fails with
  `CanFail`. A failing Resolve in `recover` is forgotten (`watchdog.go:223`). `recover`
  clears halts by itself although docs/Architecture.md:654 wants a human.
- Bus: a second Subscribe with an id orphans the first channel (`bus.go:71`), which
  the shutdown then does not close (comment at 126).
- WebSocket: `HandleWebSocket` subscribes only after the replay; events between are
  lost (`web/ws.go:202`, comment at 65); `LateJoin!CaughtUp` fails.
- Guard: the skip list names tools that no longer exist (`middleware.go:53-59`); the
  tool today is `governance`, which passes only as a "view". With
  `auto_approve_reads` off and a denying plugin guard the approvals themselves are
  held. The timer starts before the action is pending
  (`action_manager.go:81`, 91). An approval of a call whose caller is gone, or that
  was direct, is reported as success and nothing runs. The command line calls
  `approve_action` (`cmd/hyperax/approve.go:89`), which is not registered.
- Scheduler: `update_agent` writes the status back that it read, or the one it is asked
  for, whatever the scheduler does meanwhile (`handlers/agent.go:490`): beside the second
  drain loop of finding 2, it leaves an agent "active" without one, which no tick looks at
  again and no log line tells of, and an "error" that the loop of the agent resets.
  A completion that finds its provider disabled suspends the agent, and
  the end of the same drain loop makes it idle again (`web/api/chat.go:351-380`).
  An item is consumed before its completion: a crash or an error loses it
  (`storage/sqlite/workqueue_repo.go:61`). A failing last write leaves an agent active
  until a restart (`scheduler.go:577`). The debounce of task prompts is recorded only
  after the activation (`scheduler.go:289`, comment at 230): while that fails every
  tick adds a prompt.
- Cron: jobs of a plugin have no next run until the server is restarted. A stale
  `update_cron_job` brings an old slot back, which is then dispatched again.
  `last_status` stays "running" when the event was dropped. The dead letter queue of
  jobs has no writer. `@every` schedules, too, begin strictly after. The search falls
  back after 4 * 365 days, on schedules of 29 February too (`parser.go:228`, 236);
  `CronSearch!NeverFallsBack` fails.
- AgentMail: acknowledging a mail that was dequeued is refused by a foreign key, and
  its partition is raised later. `ack_mail` stores, publishes and reports an
  acknowledgement whatever the tracker holds (`handlers/comm.go:863`): one before the mail
  is tracked or after its deadline stands beside the partition. The row goes when the mail
  is dequeued. `retry_dead_letter` asks an office in memory that is
  always empty in production. `Mailroom` and `PartitionManager` are constructed nowhere,
  the tracker's `Run` is not started, `ResolvePartition` has no caller.
- Workflow: a run lives no longer than the request that started it. "cancelled" can be
  overwritten by "failed". `failRun` with a dead context leaves the row "running"; its
  waiter stays, so that a later approval is reported as a success. A crash leaves runs
  "running", and nothing repairs them.
- Pipelines: "cancelled" can be overwritten by "failed" or "running"; a job cancelled
  before `trackCancel` runs to its end although the call answered "cancelled"; a
  cancellation can overwrite "completed". A failing read leaves "pending", a crash
  "pending" or "running", for ever. docs/Architecture.md:256 and 614 promise that
  running steps may finish, the process group is killed at once (`executor.go:197`).
- Plugins: a plugin of type wasm, http or native is reported as enabled, with tools that
  answer that it is not connected (`plugin/manager.go:413`).
  `DisablePlugin` does not clean resources up, though docs/PluginContribution.md:664
  and docs/PluginSystem.md:468 say so; enabling again and restarting duplicate cron
  jobs. The monitor of a subprocess may restart it after it was stopped
  (`subprocess.go:157`, docs/PluginSystem.md:287); `Plugins!DisabledIsStopped` fails. An
  uninstall that is refused has already deleted the jobs (`manager.go:1321`). A plugin in
  "error" cannot be disabled and is enabled again at the next start. An upgrade that
  fails after the unloading loses the plugin. After the last restart it is not marked
  as failed. A process that was restarted is not connected to the old client.
- Refactor: a call that marks a file of a transaction that has ended writes to a nil
  map (`transaction.go:163`, against "It is safe for concurrent use" at 31);
  `Refactor!NeverPanics` fails. Overlapping transactions resurrect or lose each other's
  edits. A failed rollback has lost its snapshots. `rename_symbol`, `ensure_imports` and
  `create_file` never are part of a transaction.
- Index: the hash is stored before the symbols, so that a file whose indexing failed
  midway counts as unchanged (`indexer.go:308`, 319), saved again or changed back to that
  content too; likewise one that changed between the hash and the later reads and back. The startup scan keeps the rows of files
  that are gone, changes between it and the watcher are lost, and full channels drop
  events. Without a workspace at the start the watcher never runs (`app.go:705`). The
  chunks of a shortened Markdown file keep their tail (`indexer.go:360`).
- CommHub: `DrainOverflow` has no caller; two at once would deliver twice, and a failing
  statement loses the rows it marks. Inboxes are lost with the process.
- Tool loop: the caps "across all iterations" (`tooluse/executor.go:18`, 42) are
  reset at a truncation (421), so that with `AutoContinue` a run may never end; the
  defaults named at 47 and what 0 does differ from 110-112; truncation drops the
  user's question; a cycle may return a response without text though an earlier one
  had some. Repetitions that end inside a batch are not looked for.
- Limiter: `Cleanup` has no caller though the comment says stale buckets are cleaned
  up periodically (`ratelimit.go:36`); an address not seen before may get up to twice the
  rate in its first minute, as the window property allows; the configured rate is not
  read (`web/router.go:683`).
- Federation: refreshing and disconnecting one server at once leaves tools registered
  (`federation/manager.go:136`); two refreshes at once may panic on a duplicate
  registration (`mcp/server.go:55`).
- Budget: `ClearAlert` has no caller, so a scope whose halt was resolved is not halted
  again by this process, and the alert at 95 % suppresses the fatal one (`monitor.go:43`).
- Pulse engine: `SetBackpressure` has no caller (docs/Architecture.md:555);
  `UpdateCadence` changes the schedule before it refuses a bad priority.
- Delegation: `CleanupExpired` leaves credentials although its comment (199) says not.
- Agents: `logAgentTransition` validates the state its caller names, not the stored one.

## What is left out

- Data: payloads, reasons, names, severities beyond halting or not, prices,
  prompts. No property here depends on them.
- Rows other than the status of an agent: `update_agent` writes the whole row, but
  only its status takes part in the scheduling.
- Clocks: a TTL, a threshold, a timeout or a debounce passes at any moment
  allowed by its guard; durations are compared only in `Cron`, `CronSearch` and
  `RateLimiter`, in ticks. `EarlyTimer` (a guard's timer that beats the insertion of its
  action) is FALSE in the run: it takes a timeout of microseconds. The proofs hold
  for both values.
- Go's `select` and map iteration are nondeterministic choices. The memory model is
  sequentially consistent: all shared fields modelled are under a mutex, atomic, or in
  the database. `m.guards` of the guard middleware, which is appended to without a
  lock at startup, is not.
- Statements: one whose context is done before it begins fails; a context that ends
  in the middle of a statement is not told from one that ends before or after.
- In `AgentScheduler.Start` any number of failing updates count as one fault, and
  task lists are a choice: an agent has tasks or has not.
- `Cron`: parsing, retention. `Mailroom`: the inbound direction, which hands on.
  `Workflow`: the definition of workflows, disabled ones. `Pipelines`: logs, results, the
  parsing of swimlanes. `Plugins`: approval, health checks that nothing starts.
  `Refactor`: the conflict detector. `IndexWatcher`: new directories, two scans at once; a
  stored hash that cannot be read counts as none in the code, here that indexing ends. `CommHub`:
  trust, sieve, recall, hints, the log. `ToolLoop`: the pass-through without tools, the
  formats of the adapters. `RateLimiter`: proxy headers, rounding of floats.
- Components with status `not_modelled` in `PROJECT.json`, each with its reason. Many of
  them are control-free: parsers, HTTP clients, templates, single statements behind a
  tool. Others keep state that one goroutine alone touches. Of the rest, federation and
  the session tracker (a tool call recorded while its session ends is not counted)
  have no property that holds when their calls overlap, as described above.

Known hazards beyond those listed in `PROJECT.json`, which no property covers because
the code does go wrong there, or accepts the loss: `cron/scheduler.go:125`,
`cron/parser.go:228`, `scheduler/scheduler.go:145` and 577,
`storage/sqlite/workqueue_repo.go:61`, `web/api/chat.go:361`,
`storage/sqlite/agentmail_repo.go:60`, `nervous/bus.go:71`, `guard/action_manager.go:81`,
139 and 145, `guard/middleware.go:53`, `workflow/executor.go:236`,
`interject/manager.go:123` and 375, `pulse/watchdog.go:223`, `plugin/manager.go:1321`,
`plugin/subprocess.go:157`, `refactor/transaction.go:163`, `index/indexer.go:319`,
`web/ws.go:202`. Each is described in the section before.

## Plan

Done: the modules above. What would come next:

1. The Andon Cord's dead letter queue and sieve bypasses; approval of plugins; the
   inbound direction of AgentMail once something routes it.
2. The pulse engine, once backpressure has a caller, with `Watchdog` over it; the
   lifecycle monitors once they are constructed.
3. Federation and the budget monitor once calls that overlap are ordered.

## Running the checks

    tlasany Interject.tla
    tlc -workers 2 -config OversightRuns.cfg MCOversight.tla
    tlapm InterjectProofs.tla

Each `.cfg` belongs to the `MC` module that `PROJECT.json` names for it. The longest run
takes two to three minutes, the longest proof a few minutes, each on two cores.
