# A TLA+ model of luck-agent

luck-agent is a Lark (Feishu) assistant that runs as one asyncio process under
systemd. A message becomes a *goal*: a row in SQLite, an item in an in-process
queue, a run of a planner/executor/supervisor graph that may call tools with
effects on real machines, and a result card pushed back to the chat. This
directory models that path, from the message to the card, and what surrounds it: the
connection to Lark, confirmations, service operations, the agent's own turns, model
providers, memory, the database connection and the legacy runtime, with the crashes,
shutdowns and failing calls the code has to live with. It checks them with TLC on
small instances and proves every safety property of these checks with TLAPS for every
instance; liveness is left to TLC.

- [Inventory](#inventory): the parts of the system, their state and hazards
- [Modules](#modules): what models what, and how actions correspond to code
- [Runs](#runs): what each TLC run checks, bounds, fairness
- [Proofs](#proofs): what TLAPS proves and along which argument
- [Findings](#findings): where code and documentation disagree
- [Not modelled](#not-modelled) and [Plan](#plan)

`PROJECT.json` has the same in a machine-readable form: `map` gives the source
lines of every definition, `hazards` the places where this code can go wrong,
`runs` and `mutants` the checks, `theorems` the proved results.

## Inventory

Two generations of the system share the tree. The *production* path is what
`main.py` starts. The *legacy* runtime (`core/goal.py`, `core/execution_engine.py`,
`runtime/runtime_manager.py`, `runtime/worker.py`, skills) is kept with its tests
and not started by `main.py`; its worker uses the same `RuntimeTaskQueue`.

```
 Lark --> LarkSdkRunner (thread) --> LarkWebSocketInterface (dedupe, access, approval)
                                          |
                                          v handle_message
  goals table <--- GoalStore <------ GraphRuntime ------> RuntimeTaskQueue
                                      workers |  ^ recover_goals at start
                                              v
                            GraphGoalExecutor -> planner -> executor -> supervisor
                                              |                |
                                              v                v
                                   operation ledger <---- ToolExecutor -> tools
                                              |
                     result card <---- terminal callback
```

| Part | State | Operations | What is hard | What makes it correct |
| --- | --- | --- | --- | --- |
| Goal queue, `runtime/task_queue.py` | items and statuses, a heap of entries, free permits, active slots, settled items, asyncio's unfinished count, execution tasks | `submit`, `get`, `mark_*`, `cancel`, `settle_from_goal`, `register/unregister_execution_task` | `get` suspends twice and can be cancelled in between; entries outlive their items; three paths settle | slots conserved, `task_done` once per item, statuses and slots agree, a result is final |
| Goal runtime, `runtime/graph_runtime.py` | worker tasks, items, semaphores | `start`, `stop`, `handle_message`, `recover_goals`, `_worker_loop`, `_execute_item`, `_fail_goal`, `_notify` | handlers, workers and recovery interleave at each store call; each call can fail, applied or not; crash and shutdown anywhere | one owner per goal, nothing lost, settled once, reported at most once |
| Goal store, `memory/goal_store.py`, `memory/db.py` | the `goals` table; one connection for statements and commits | `create`, `update_status`, `reset_for_recovery`, reads, `schedule_status_update` | `update_status` reads, suspends, then writes unconditionally | legal transitions, terminal rows final |
| Operation ledger, `memory/operation_store.py` | attempts and decisions | `prepare`, `executing`, `finish`, `record_decision`, `unresolved_writes` | it must be right about calls across a crash | no call without a receipt |
| ReAct graph, `core/graph/*` | graph state: step count, decision, last result | `execute`, planner, executor, supervisor, router | a rerun after a crash; a loop driven by a model | no write replayed, runs end |
| Supervisor, `core/supervisor.py` | none | `review_step_result` | what counts as a retry | the retry budget |
| Tool executor, `core/tool_executor.py` | none beyond the ledger | `execute`, `_execute` | timeout, cancellation and failing ledger writes around a call with effects | unknown outcomes are treated as unknown |
| Process, `main.py`, systemd unit | which services run | `start`, `stop`, restart | order of start and stop | serves only after recovery |
| Approvals, `interface/lark_approval.py` | pending and approved tokens | `issue`, `confirm`, `consume_grant`, `cancel`, `_purge` | SDK thread and event loop without a lock; expiry while queued | a grant is used once, by its owner, while it is alive |
| Lark interface, `interface/lark_ws.py`, `lark_sdk.py` | dedupe table, active tasks, loop, connection, SDK thread | `handle_message`, `handle_card_action`, `stop`, `drain_active`, `_run_client`, `_watch_connection` | redelivery, a restart forgets the table; SDK thread against event loop; a stop while the client connects | a confirmed request runs once; the application sees what the connection is; stops end |
| Service operations, `interface/lark_commands.py`, `tools/vps_sysops.py`, `core/targets.py` | selected target per user and chat, receipts, the process | select, confirm, `/restart`, receipt, audit, timeout | the target is read again after awaits; receipt writes fail before and after the effect | runs where it may, on its own confirmation; receipt and answer never deny an effect |
| OAuth, `interface/lark_oauth.py` | pending states, tokens, one lock | `authorization_url`, `handle_callback`, `access_token_for` | refresh and callback interleave; eviction; restart | tokens are the user's own, a refresh token serves one successful refresh |
| LLM clients, `llm/router.py`, `openai_compat.py` | circuit, failure count, active provider | `generate`, retry, failover | concurrent calls move the active provider; late answers | each provider asked once, circuits have deadlines, calls end |
| Agent turn, `core/agent.py`, `interface/web.py` | history, summary, chain of status writes | `run_turn`, `_maybe_compress_context`, `schedule_status_update` | turns interleave; a failed write breaks the chain; a web request has its own loop | writes are legal in order, turns settle |
| Patterns, `memory/pattern_store.py`, `curator.py`, `db.py` | table and its search index, one connection | store, search, clean | statement and commit are two awaits on a shared connection, and a failure may roll back all of it; rowids are reused | what was answered is on disk and the index agrees with the table, unless a rollback took it back |
| Mem0 memories, `tools/mem0_client.py`, `memory/scope_store.py` | project per chat, ids shown | list, add, update, delete, smoke test | the project switches while an answer is under way | nobody deletes outside of their scope |
| Shell tool, `tools/shell.py` | process, pipe | `run` | the wait precedes the reads; a background job keeps the pipe; a cancel leaves the shell | a good answer is whole or marked as cut, a call ends |
| Legacy runtime, `core/goal.py`, `core/execution_engine.py`, `runtime/worker.py`, `runtime_manager.py`, `notifications.py` | goals, steps, workers, notification rows | claim, plan, run, retry, pause, resume, cancel, recover, notify | operators and stops against a running worker; `fail_goal` writes whatever the goal is; at-least-once notification | every call accounted, results final but for a failure after an exception, pool and queue agree, told once |
| Health, observability, skills, operations scripts | - | read-only, content, or run by hand | - | - |

The hazards the checks are for, at their lines, are in `PROJECT.json`. The survey met
others that no property here is about:

- tables that only grow or are cut by size: `runtime/task_queue.py:50` (settled items
  stay), `interface/lark_commands.py:647` (at 128 sessions the oldest is dropped while its card offers pages);
- promises nobody makes: a message whose handling failed is not taken again when it is redelivered
  (`interface/lark_ws.py:151`), a slow success closes a circuit that opened meanwhile
  (`llm/openai_compat.py:240`), the first failing run ends the curator's loop
  (`memory/curator.py:64`), a save that timed out after its effect is answered as
  unavailable (`interface/lark_commands.py:1617`);
- a refresh of a Lark token runs under the lock of all users without a timeout
  (`interface/lark_oauth.py:153`);
- the restore script and a scheduled restart may overlap (`ops/luck-agent-restore:14`); an interrupted
  restore leaves the log of another database (`ops/luck-agent-restore-worker:14`).

## Modules

### RuntimeTaskQueue: the queue

One action per method. All methods run on one event loop, and none suspends
while it holds the lock: the heap is unbounded, so `put` returns at once. A locked
section is therefore one step. `get` is the exception: it waits for a permit
(`AcquireSlot`) and then for an entry (`Claim`, or `SkipEntry` when the item was
settled meanwhile), and can be cancelled during the second wait (`AbortGet`).

The callers are unconstrained: any method may be called for any goal at any
time. This covers the production runtime and the legacy worker and manager, and
makes the properties promises of the queue and not of its callers' discipline.
`created_at` comes from `time.time()`; the model uses the arrival number, so it
does not show what a clock that steps back does to the order of equal priorities.
`_user_semaphores` only hands out objects and is left out.

| Code | Model |
| --- | --- |
| `_items[g].status`, `_finished_tasks`, `_active_slots` | `status`, `finished`, `active` |
| `_slots` (semaphore), `_queue` (heap), unfinished count of `asyncio.Queue` | `slots`, `heap` with `place`, `unfinished` |
| consumers between the two waits of `get` | `waiting` |
| `mark_done`, `mark_failed`, `mark_interrupted`, `mark_cancelled` | `MarkTerminal(g, st)` |
| `_finish_task` | `FinishTask`, part of the action that calls it |

### GoalLifecycle: what the runtime promises

For each goal: accepted, settled at most once, reported at most once and only
after it was settled. No process, no crash, no queue.

### GraphRuntime: the production goal path

`db` (and what was delivered to the chat) survives the process; all other variables die
with it. An action is the code between two suspensions another coroutine could
observe: one store call and what follows it up to the next one. Interleavings of
handlers, recovery, workers and shutdown at each of these points are explored.

| Code | Model |
| --- | --- |
| `goals.status` | `db` |
| coroutine of `handle_message` | `handler`: `Receive`, `Route`, `Plan`, `FailMessage` |
| `_worker_loop`, `_execute_item` | `worker`: `Take`, `Load`, `Advance` (three status writes), `RunGraph`, `Finish`, `Report`, and the `except` branch `FailItem`, `ReportFailure` |
| the items of the queue | `queue` |
| `start`, `recover_goals`, connecting the interface | `Boot`, `Recover`, `RecoverRaises`, `Serve` |
| `stop`, cancellation reaching each worker, exit | `Stop`, `CancelWorker`, `Exit` |
| the process killed | `Crash` |

*Slots.* `start` creates `max_active` workers and the queue has `max_active` slots;
a worker holds at most one, so no worker ever waits for a slot and the queue is
reduced to item statuses. What that reduction rests on, `SlotsConserved` and
`StatusDiscipline`, is proved of the queue itself.

*Faults.* A fault is one SQLite or Lark call that raises. A write that raised may have
been applied, because statement and commit are separate awaits on one connection
and a later commit commits both. A cancelled worker's last call may have been carried out,
too. Faults are bounded by `MaxFaults`, crashes and shutdowns by `MaxRestarts`.

*LangGraph* is external: a run decides `done`, decides something else, or raises.
Its inside is GoalExecution.

### GoalExecution: one goal through the graph and the ledger

`goal`, `ledger`, `decided` and `effects` survive a crash; the rest is the state of
the current run. `effects` is what happened in the world: it has no counterpart in
the process. A run starts at `Begin`, passes `Gate` (the check for unresolved
writes), and then loops `Plan`, the tool executor (`Prepare`, `Check`, `Start`, `Call`,
`Return`, `Settle`), `Supervise`, `Persist`. `Crash` ends it anywhere, `Cancel` where
the tool executor handles `CancelledError`, `GraphRaises` where LangGraph or the
model can raise. A later run is started with the ledger and nothing else:
the executor seeds the state anew and never reads a checkpoint back.

A step makes at most one attempt, so an attempt is a pair of run and step. Tool names,
arguments and outputs are reduced to what control depends on: may have an effect
or not; ok, error, blocking error, uncertain. `hitl` is `False`, as the
runtime passes it.

That a goal has at most one run at a time is not an assumption of this module alone:
it is `OneOwner` and `RunsOnlyExecutingGoals` of GraphRuntime.

### OneUseGrant and ApprovalManager: confirmations

`OneUseGrant` is the promise: a request is asked for, granted and used at most once each, in
this order, and what is dropped stays dropped. `ApprovalManager` is
`interface/lark_approval.py`: two dictionaries without a lock, used by the SDK's callback
thread (card actions) and the event loop (messages, tool calls). A step is one access to a dictionary,
which the interpreter lock makes atomic; everything between two accesses can be interleaved with the other
thread.

| Code | Model |
| --- | --- |
| keys of `_pending`, `_approved`; `expires_at` | `pending`, `approved`, `expires` |
| the method each thread is in, with its locals | `op` |
| `_purge` at the head of each method | `Call` (clock, `_pending`), `Purge` (`_approved`) |
| `issue`, `has_pending`, `confirm`, `consume_grant` | `Issue`, `HasPending`, `PopPending` then `Grant`, `Consume` |
| `cancel` | `Cancel`, `ListApproved` (the two key lists), `Remove` for each key, `EndCancel` |
| a new process | `Restart`: both tables are gone, and recovered goals carry no token |

`confirms`, `uses` and `revoked` are history variables for the properties. A key is the pair of
user and token; the model gives each token one owner, and a call with another user's
token finds nothing. Whether a grant's scope covers a tool call
(`core/operation_policy.py`, matching of words) is either outcome of `Consume`.

### LegacyExecution: the plan of one goal

`GoalManager` and `ExecutionEngine` over one goal and its steps: claim, plan, the loop of
`run_goal` with review, retry and the loop bound, `_finish_goal`, and from outside pause, resume, cancel,
interruption and recovery. The goal store of the legacy runtime is called synchronously, so other calls come in only at the
awaits of a run: the planner and the skill (`pc`). `calls`, `interrupts` and `announced` are history variables.

| Code | Model |
| --- | --- |
| `goals.status`, `goal_steps.status`, `retry_count` | `goal`, `step`, `retries` |
| a run between two awaits, its step, its iterations | `pc`, `current`, `left` |
| `claim_goal`, the planner's answer, the head of the loop, a skill's answer and its review | `Claim`, `Plan`, `Check`, `StepReturns` |
| a run that returns or raises, and the worker's `fail_goal` | `RunReturns`, `RunRaises`, `FailRaised` |
| `pause_goal`, `resume_goal`, `cancel_goal`; the worker of a cancelled run | `Pause`, `SetRunning`, `CancelGoal`, bounded by `MaxOps`; `CancelledRun` |
| `_persist_interrupted_goal` of a stopped worker: `pause_goal`; the fallback to `fail_goal` when a call raises | `StopRun`, then `PauseStopped` or `PauseFails` |
| a crash, the next start | `Crash`, `Recover` |

`MaxStops` bounds stops, crashes and failing store calls together. `fail_goal` has no condition on the status, so it may write
`failed` over a cancel or a completion: `FailRaised` and `PauseFails` do, and `SettledIsFinal` names these two and no other step.

### RuntimeWorkerPool: workers over the queue

`WorkerManager`, `RuntimeWorker` and `RuntimeManager.cancel_goal` composed with the queue: its steps are the actions
of `RuntimeTaskQueue`, by `INSTANCE`, and not a second model of them. `goal` is the store,
`told` counts the terminal notifications started for a goal. What a worker does between two suspensions is two actions of the
queue with nothing between them (`Quiet`). `cancel_goal` never suspends, so it is one step; the
interesting orders are against the end of a run and its settlement. Stops of the pool, crashes and failing store
calls may come anywhere. `AfterRun` is what the worker makes of a run that is over, `AfterFault` what it makes of it when one of
its own store calls fails: the goal is as it was, paused, or overwritten by `fail_goal`.

### GoalNotifications: the message about an end

The row of `notification_store` (claimed, stale, failed, sent; the table is external), the acceptance gate, the task a worker starts and the
recovery loop, which retries what failed or has been claimed for too long. A send may reach the user and
still be seen as failed (`lost` counts the attempts without a record of their success); a stop cancels a task and leaves its claim.
The recovery passes over the row of a goal that is no longer done, blocked or failed (`Announceable`): a blocked goal can be
cancelled, paused or resumed (`Reopen`) before its message was sent, and is then announced when it ends again, or never.
`Reopenable` bounds the goals that do so, once each.

### MessageIntake: one request of one user

`LarkMessageDeduper`, `handle_message` and `handle_card_action` for plain, risky and confirming
messages. Deliveries repeat; a card's click is handled on the SDK's thread and scheduled on the loop, while
texts are handled on the loop. The approvals are one set each here, because
ApprovalManager has shown what the tables do. `Execute` is what comes of an approved request: it uses its grant and runs, or fails after
that, or is refused or fails before the grant is asked for, which then stays until it expires. A card's request may also be answered with
the card of a memory proposal (`HandleCard`). Time is bounded by `MaxTime`, and a restart forgets every table.

### RuntimeLifecycle and LarkSdkRunner: start, stop and the SDK's thread

`RuntimeLifecycle` is `Runtime.start` and `Runtime.stop` in `main.py`: the order of services,
one of which may fail or hang, handlers still running, the drain, a client that keeps a connection to the health
server. `LarkSdkRunner` has the thread of the SDK client with the loop it binds, the watcher that
infers the connection, and `stop()` with its bounded waits, each a step.

### ServiceOperation: a confirmed restart

For one user: selection of a target per chat, with the write of it under way; confirmation; restore of the selection,
check, receipt (`prepare`), audit, `executing`, the operation's process, its timeout, the receipt's end and the
answer. Each write may fail, the handler may be cancelled in each await, and the process may end or hang.
`loop` marks a handler between two awaits that do not yield. Two refuted properties, `RunsOnShownTarget` and
`RunsOnlyWhereBound`, are kept at the end of the module.

### Mem0Scopes and LarkOAuth: what a user may reach

`Mem0Scopes` covers the memory commands in the mode `lark_user`, with switches of the project and
late answers; the Mem0 service is external and deletes any id it is asked to. `LarkOAuth` has pending
states with expiry and eviction, the callback in both forms, tokens and their refresh under one lock.

### AgentTurn, LLMRouter, ShellTool

`AgentTurn` is `run_turn` in both modes: a shared history and its compression across a model
call, and the chain of tasks `schedule_status_update` builds. The setting `ownLoops` is the web interface, where each turn has
an event loop that ends with it. `LLMRouter` is the failover over circuits, one step per answer of a provider.
`ShellTool` counts units of output: standard output and error are one pipe, a job the shell leaves
keeps it open, and the answer shows the first `Limit` units with a mark for the rest. Its own limit of 15 s precedes that of the executor, 30 s.
`Cancelled` ends the call at either await and kills nothing.

### SharedConnection: one database connection

Statement and commit are separate requests to the thread of one aiosqlite connection: any
commit makes durable what other coroutines executed before it. A pattern is two rows, table and index; the
cleaning deletes in two statements. A statement or commit that fails leaves the transaction open, or rolls all of it back,
as SQLite does on a full disk or an I/O error (`MayRollBack`, either at every failure). `undone` and `restored` are history
variables: the calls of which a rollback took something back, and the index entries whose deletion it took back. One curator is modelled: two cleanings overlap only where the web interface
opens a loop per request.

### Modules that join components

Five modules hold the components that belong to one question, with the properties that join them:

| Module | Components | `part` |
| --- | --- | --- |
| `AssistantProcess` | GraphRuntime, RuntimeLifecycle, LarkSdkRunner | `goals`, `process`, `client` |
| `LegacyRuntime` | LegacyExecution, RuntimeWorkerPool over RuntimeTaskQueue, GoalNotifications | `plan`, `pool`, `notifier` |
| `ConfirmedRequests` | ServiceOperation, MessageIntake | `operation`, `intake` |
| `UserAccess` | Mem0Scopes, LarkOAuth | `memories`, `access` |
| `AgentWork` | SharedConnection, AgentTurn, LLMRouter, ShellTool | `connection`, `turns`, `router`, `shell` |

Each extends its first component and takes the others by `INSTANCE`. Each component models the
calls of its neighbours as steps of its own and shares no variable with them, so no property of one can depend
on the other's steps, and a product would only multiply states: `part` picks at the start whose steps a
behaviour of `JointSpec` has. `FairJointSpec` conjoins their fairness with `part`, and a liveness
property that another part could not fulfil is claimed for its own.

### MC modules and proof modules

`MCRuntimeTaskQueue`, `MCGoalExecution` and `MCApprovalManager` give one component its sets, the other MC modules one of
the five above. A proof module has the name of the module it is about and ends in `Proofs`.

Symmetry is used where a run checks safety only; symmetric elements are never compared except for equality.
Operators commented as mutants, next to the definition they alter, are plausible bugs that the
properties must catch; no specification uses them.

## Runs

| Run | Instance | Shows |
| --- | --- | --- |
| `task_queue` | 3 goals, 2 consumers, 2 slots, 2 priorities, 1 execution task; 244 000 states up to symmetry | slots, entries and results are neither lost nor doubled in any order of calls |
| `assistant_process` | 2 goals, 2 workers, 2 faults, 2 restarts; 3 messages and 2 faults for the process; 2 messages and 2 waiting marks for the client; 212 000 states | one owner, only executing goals run, no goal lost, each settles, GoalLifecycle implemented; services start and stop in order; stops end |
| `goal_execution` | 3 steps, 2 retries, 2 runs, 2 faults; 2.8 million states | receipts, no replay, unknown writes last, `DONE` certain and decided |
| `goal_execution_ends` | the same with 2 steps; 597 000 states | every run ends |
| `approvals` | 2 tokens of one user, a second user, lifetime 1, clock up to 3; 836 000 states | one confirm, one use, only while alive; a cancel that ended has revoked; OneUseGrant implemented |
| `legacy_runtime` | plan of 3 steps, 3 calls of operators, 2 stops; pool of 2 goals and 2 workers, 1 stop, 1 fault; notifications of 2 goals, one of which may block and be taken up again, 1 failure, 1 stop; 474 000 states | calls accounted, done goals have results, results final but for `fail_goal` after an exception; pool, queue and store agree; told by one sender; work settles |
| `confirmed_requests` | 1 operation, 2 chats, 2 targets, 2 selections, 1 restart; intake of 3 messages, one delivered twice, table of 2; 555 000 states | runs as confirmed, receipt and answer true, requests end |
| `user_access` | 2 users in 3 chats, 2 projects, 2 commands, 2 records, 1 switch, 1 restart; OAuth of 2 users, 2 states, 2 calls; 1.1 million states up to symmetry | deletes stay in their scope; access is the user's own |
| `agent_work` | 1 write, 2 patterns, 2 aged ones, 4 rowids, 2 faults, each with or without a rollback; 2 turns of one user, of two, and of the one user of the web page; 3 providers and 2 calls; a shell with a job, 7 units of output and a limit of 5; 1.1 million states | what was answered is on disk and index and table agree, unless a rollback took it back; turns agree with their rows, failover complete, shell answers honest, what a turn starts ends |
| `lost_report`, `wrong_report`, `retry_budget` | smallest that shows it | a documented promise the code does not keep, see [Findings](#findings) |

*Properties of several parts.* A property of a run that joins components may be a conjunction of named
invariants of one of them: `PoolAgrees`, `NotifiedOnce`, `RunsAsConfirmed`, `AccessIsOwn`,
`ServicesInOrder`, `FailoverIsComplete`, `ShellIsHonest`, `TurnsAgree`; their liveness is joined in
`WorkSettles`, `ServicesSettle`, `RequestsEnd` and `TurnsEnd`. The components define the conjuncts, each with its own comment.

*Why the bounds are enough.* In the queue, three goals and two slots are the least with a
goal settled, one holding a slot and one waiting for it; a third consumer adds only a second
waiter of the same kind. In the runtime, two goals and two workers give every pairing of
handler, recovery and worker on one goal and another; the second fault is needed for a failure
inside the `except` branch, which follows a first one; the second restart for a goal
recovered twice. In the execution, three steps are the least where a pass, a retry and the
step cap meet; two runs the least with a replay; the second fault lets the
write that settles an attempt fail after the write that started it failed or was
half done. In the approvals, one token per thread gives every pairing of two methods on the same and on
different tokens, and three ticks let one be issued, granted and expired while another is alive.
A legacy plan of three steps has one of each kind (replayable, left running, optional), and three calls of operators a
pause, a resume and a cancel; two stops let `fail_goal` come after a first failing call. Two goals on two workers let a cancel overtake a run while the other goal waits for
the slot; one failure and one stop leave a notification claimed and nobody to hold it.
Three messages are one of each kind (plain, risky, confirming), the second copy the redelivery, and a table of two is evicted
by the third id. Two chats with two targets, one of which supports the operation, are the least where a selection of
one chat changes what the registry says to the other. Three places give a user a second chat and another user a
chat of their own. Four rowids let one be given again while its old row is still listed. Three providers
let a call be in the middle of its list. The limit of 5 lies between what the command alone and what it and its job write, so that an answer is
whole or cut. The safety properties need no bounds: they are proved.

*Deadlock* is not checked: when all goals are settled and the bounds are used up there is
nothing left to do, and the callers of the queue and of the approvals may stop calling.

*Fairness.* A coroutine that can run is scheduled by the event loop, and the calls it awaits return: LLM and
tool calls have timeouts, SQLite calls are local. `GraphRuntime!FairSpec` has weak fairness on the steps of each handler, of recovery
and of each worker; on `Boot` because the unit has `Restart=always`; on `Serve` and `Exit` because nothing in them
waits. `GoalExecution!FairSpec` has it on the run and its end. The others:

| Component | Weak fairness of | Because |
| --- | --- | --- |
| LegacyExecution | the run's steps, `Recover` | planner and skills have timeouts; recovery runs at each start |
| RuntimeWorkerPool | the start of workers, each worker, each run, recovery of each goal | tasks of the loop |
| GoalNotifications | `Start`, each notification task, the staleness of claims, the recovery loop | 30 s timeout of the send; the loop runs every few seconds |
| RuntimeLifecycle | `async_main`, the disconnect of health clients | claimed only for clients that go away |
| LarkSdkRunner | each thread's steps | threads run; waits of `stop()` are bounded |
| MessageIntake | the task of a click | a scheduled task runs while the loop does |
| ServiceOperation | writes under way, the handler | local writes, process killed at its timeout |
| AgentTurn, LLMRouter, ShellTool | a turn, its writes; each answer; timers and reads | model calls have timeouts |

No message, fault, crash or call of an operator is ever forced.

A liveness property says that again and again nothing is outstanding (`[]<>`), of all goals, calls or clients at once. Where what
is outstanding stays so until it is dealt with, as here, this is at least as strong as that each comes to its end, and one
formula per run keeps the check of temporal properties small.

`EveryGoalSettles` of GraphRuntime excepts goals that a fault stranded and the state in which
every worker is dead: an exception inside the `except` branch of `_execute_item` ends the
worker task, and nothing restarts it before the process does. That is how the code is; the
exception is named in the property rather than hidden in the model. Likewise `ItemsSettle` and
`TurnsSettle` except a failing store, `AllSent` of GoalNotifications a goal that was taken up again and has not ended since, `NoneOutstanding` of
MessageIntake a loop that was closed, and LegacyExecution's `EveryGoalSettles` a goal an operator touched: `resume_goal` marks a goal
running and tells nobody, so it waits for the next start.

## Proofs

Each proof module extends the module it is about. Assumptions are on constants only:
`max_active` is positive, `NoTask` and `NoGoal` are not a task and a goal, there is a finite
non-zero number of workers, bounds are natural numbers. Goals, consumers and tasks may be
infinite sets. TLC evaluates these assumptions in every run. Each safety property of the passing runs,
invariant or action property, is stated by a theorem, and so are both refinements. Types are proved with the properties.

A theorem about a component that a joining module extends is stated of the component's own `Spec`;
`EachPartBehaves` says of each of the five joining modules that a behaviour of its `JointSpec` is one of every component's
specification, the ones taken by `INSTANCE` with their substitution. So these theorems hold of what TLC runs, and
what is proved of `JointSpec` is about the components and not about `part`.

**RuntimeTaskQueueProofs.** `SlotsConserved` speaks of cardinalities, so `IInv` first says that the
sets counted are finite (`Finiteness`). `SlotsConserved` and `TaskDoneBalanced` are not
inductive alone: skipping an entry settles its item, which is harmless only because an entry that is
not pending was settled before (`HeapMatchesStatus`), and this depends on `SlotsMatchStatus`. The
conjunction is inductive; `FinishTaskSlots` and `FinishTaskCount` state once what
`_finish_task` does to the sums. `StatusDiscipline`, an action property, follows from the same
invariant. `ConcurrencyIsBounded` is the consequence an operator cares about.

**AssistantProcessProofs**, the goals. `OneOwner` needs to know what a worker may rely on while it holds a goal
(`Holds`): that its item left the queue, the goal is past `ROUTING`, nothing was
reported yet, and at which places the item is still running or the goal closed. It also
needs `PhaseState`: while the process is down nothing is held, or recovery could
requeue a goal a worker has. `WorkerStepIInv` and `UnheldStepIInv` say once that a step about one
goal cannot disturb the others; each action then has only its own goal to consider.
`NoGoalIsLost` is proved through `OpenAreKept`, which also covers the time of recovery. The
refinement maps `db` to the outcome. A step may move one goal forward (`Moves`), and each
such move is a step of GoalLifecycle (`MoveImplements`); the invariant gives that
a reported goal is settled and that a goal about to be reported was not.

*The services.* `ServicesFollow` reads off the position in the start or the stop which services run; with
it a stop that gets through has left nothing running, whatever failed before (`ProcessInv`).

*The client.* The queue of connection states that wait for the loop never holds the same state twice in a row
(`Alternates`) and ends with what the runner believes, and nothing waits in a closed loop (`ClientFollows`). From this and
the types of the shutdown follows that a `stop()` that says the client stopped is right (`StoppedIsEnded`).

**ApprovalManagerProofs.** `Places` says where a token can be, from how often it was confirmed and
used; a token between the pop and the insert of `confirm` is in neither table, and only one thread can hold
it (`Confirming`). `Cancels` carries what a running cancel found granted through its steps: a grant is never
given twice, so what was removed cannot return. `FreshGrants` is why the lookup need not
look at the clock: the token was confirmed before the check began, so no grant for it can appear between
the purge and the pop. The refinement maps a token held by a `confirm` to *granted*: the pop is
the moment of the grant, the insert a stutter. `TakingAwayDrops` covers every step that only removes
entries, `OneMoves` the three that move a token forward.

**GoalExecutionProofs.** The strengthening follows a run: `RunIsOpen` (a run
belongs to an open goal and is under the cap where it plans), `CallsArePast` (calls made lie before the
current step), `NoOldWrites` (past the gate every started write is of this run),
`Certainty` (where a run may still go on, all writes but the one under way have a known
outcome), `PlansAreDecided` (the decision behind the current step is recorded). `NoOldWrites`
gives `WritesInOneRun`, `Certainty` gives `UnknownWriteIsLast` and `DoneIsCertain`.

**LegacyRuntimeProofs**, the plan. A step waiting to run was called once for each retry and interruption on
record (`Accounted`), so one more call is covered; `RunState` says what a run relies on at its awaits, `PlanIsWhole` that steps
are stored together. The conjunction is inductive and gives `CallsAreAccounted` and `DoneGoalsHaveResults`;
`SettledIsFinal`, an action property, follows from it: only `FailRaised` and `PauseFails` write over a settled goal.

*The messages.* `Delivered` accounts for each message: before the success of one is recorded none is, and each
attempt without a record is a failure or was cut off by a stop. It needs `OneSender`, since two attempts for one goal could
both arrive before either is recorded.

*The pool.* `PoolInv` has the queue's own invariant (`QueueInv`), which lemmas such as `SettleQueue` carry over the queue's actions
inside the pool's; that no two workers hold one goal (`Alone`); what a worker relies on where it stands (`WhileClaimed`,
`WhileRunning`, `WhileSettling`, joined in `WorkerInv`): the item's status, the row and the run determine each other up
to what a cancel, a stop or a failing store call has done; and per goal (`GoalInv`) that a settled item nobody works on agrees
with its row, and how many announcements its state permits (`TellsOf`). `GoalStep` and `WorkerStep`
are the frame: a step about one goal and one worker leaves the invariants of the others (`GoalStays`,
`WorkerStays`), so each action's lemma shows its own goal and worker only. `PoolAndStoreAgree` follows;
`ExecutionsAreBounded` adds that at most `max_active` goals are executed at a time, because permits, free
or taken, are never created (`Permits`).

**AgentWorkProofs**, the connection. A call that executed has its row open (`ExecutedIsOpen`), one that answered has it on disk
(`OkIsKept`), each unless a rollback took it back. The cleaner removes index entries before rows (`UnindexedFirst`) and only rows
it listed (`ListedAreAged`); when it begins, the aged rows are the same on disk and in the transaction (`NothingBegun`), so
a rollback changes nothing of what it listed.

*The turns.* The chain of status writes runs behind the turns. `Legal` says that each write of it follows its
predecessor for the same goal, or the row if there is none; `Ends` what the row will be once the chain is written; `Follows`
that this is the status the turn's place calls for, unless a write failed and broke the chain. So no
write is ever refused, and a turn that ended has its final status as soon as its writes are through.

*The router.* Whom a call has asked or passed and whom it has still to ask are all providers, each once
(`Well`). Candidates are filtered and reordered by the circuits and the active provider, which other
calls move in between; `Distinct` and the lemmas on the sequence operators show that no order loses or doubles one. `CountedOut`
is carried by `FailureFacts` and `EnsureFacts`, one for each way a circuit changes.

*The shell.* `ShellInv` adds that a shell that ended well wrote everything and that nothing reads before it ended. What is read at
the end of file is all there is; `Truncate` shows it or its beginning.

**ConfirmedRequestsProofs**, the operation. `Agree(r)` relates the place of a handler to grant, receipt and process of its request:
what holds `Before` the receipt, once it is `Prepared`, and once the operation has `Begun`. It is shown
per request, since no step touches two. `Selection` follows a selection of a chat from memory over the writes under way to the
table: the newest of them is what was chosen (`Kept`), and there are no more writes than selections (`Counted`).

*The intake.* `Deduper` describes the table of ids: its ids are in the order of their times (`Ordered`), and an id
that is not in it was accepted too long ago or was followed by as many others as the table holds
(`Remembered`). `OneWay` says that a token is issued once, waits, is granted and is executed at most once, in this order.

**UserAccessProofs**, the memories. Ids shown in a scope belong to it (`Shown`), and what a command holds agrees with the scope it read (`Kept`:
what it requested, added and still has to clean up). Records are only added (`Grows`), so an answer
that arrives late still names records of the scope it was asked for.

*The access.* `TokensOwn` says that a stored token comes from an authorization its user started in this
process; `Queued` and `Under` that the lock is handed from one waiting call to the next and that a refresh
under way is the first of them. `Used` is why a refresh token serves one successful refresh: what was consumed is of an
earlier generation than anything stored or in use (`Newer`). The one-time use of a state, an action property,
follows from the same invariant.

*Model-checked only:* the six liveness properties (`EveryGoalSettles`, `ServicesSettle`, `EveryRunEnds`,
`WorkSettles`, `RequestsEnd`, `TurnsEnd`), because they rest on fairness and ENABLED, which TLAPS
does not handle, and the runs that show a violation. No safety property is left to TLC alone.

## Findings

1. **A result can be lost** (`lost_report`). The terminal status is committed, then the result is
   pushed once (`runtime/graph_runtime.py:243`). `recover_goals` reads non-terminal
   rows only, so when the process stops in between, the result is never delivered.
   `docs/current-state.md` says terminal results are pushed to the chat they came from.
2. **A completed goal can be reported as failed** (`wrong_report`). When the
   read after the committed `DONE` raises, the `except` branch labels its report `FAILED`
   (`runtime/graph_runtime.py:258`), although `_fail_goal` leaves the goal `DONE`. The card
   is red for a goal the store shows as done.
3. **The retry budget is a step budget** (`retry_budget`). `core/graph/nodes.py:216` passes
   `step_count` as `retry_count`. It starts at 1 and is not reset by a pass, so a failure at step
   `n` is retried only when `n < max_retry`, whatever was retried before.

The modules also state promises of documents, tests or messages that the code does not keep. Each is a
definition whose comment begins with *Violated*, and no run lists it. TLC refutes each on the instance of
its run, but three: `NothingIsForgotten` takes a third turn, `RunsOnlyWhereBound` a service bound to one target, and
`StopIsBounded` a client of the health server that never goes away (`BoundedSpec` instead of `FairSpec`):

| Definition | What the code does |
| --- | --- |
| LegacyExecution `TerminalIsTerminal` | `fail_goal` has no condition: it writes `failed` over a cancelled or completed goal, for a run that raised (`runtime/worker.py:178`) or after a failing call (`runtime/worker.py:461`) |
| LegacyExecution `TerminalGoalsAreAnnounced` | `fail_goal` (`core/goal.py:205`) writes `failed` and emits no terminal event |
| RuntimeWorkerPool `EveryEndIsTold` | a `cancel_goal` between the end of a run and its settlement settles the item, and the worker announces nothing (`runtime/runtime_manager.py:333`) |
| GoalNotifications `AcceptanceFirst` | the wait for the acceptance is cancelled after 30 s and drops the gate; the retry sends before the acceptance (`runtime/runtime_manager.py:219`) |
| GoalNotifications `EveryRowIsSent` | the row of a goal that was blocked and then cancelled or resumed is passed over (`runtime/worker.py:610`) |
| MessageIntake `NoGrantLeftBehind` | a click answered "confirmed, executing" gets a proposal card (`interface/lark_ws.py:197`), or is refused before the grant is asked for (`interface/lark_commands.py:708`) |
| MessageIntake `TextConfirmationWorks` | the card has consumed the token when it asks the user to confirm by text (`interface/lark_ws.py:303`) |
| LLMRouter `QuotaCircuitIsLongLived` | a transient failure replaces the longer deadline of a quota failure (`llm/openai_compat.py:228`) |
| AgentTurn `NothingIsForgotten` | compression cuts a history that other turns extended since it was read (`core/agent.py:440`) |
| AgentTurn `AnsweredGoalsSettle` | the loop of a web request cancels its status writes, and later ones await a cancelled task (`interface/web.py:121`) |
| RuntimeLifecycle `StopIsBounded`, `StopLeavesNothing` | a client of the health server holds up the stop (`interface/health.py:80`); one failing stop skips the rest (`main.py:283`) |
| LarkOAuth `CompletedAuthorizationStays` | a refresh stores over a newer authorization (`interface/lark_oauth.py:154`) |
| LarkSdkRunner `FailsOnlyIfAlive` | `stop()` raises although the thread has ended (`interface/lark_sdk.py:257`) |
| ServiceOperation `RunsOnShownTarget`, `RunsOnlyWhereBound` | the target is read again after the card and after the check (`interface/lark_ws.py:188`, `tools/vps_sysops.py:360`) |
| ShellTool `TimeoutIsTheCommands` | output larger than the pipe blocks the command until its timeout (`tools/shell.py:101`) |
| ShellTool `NoShellLeftBehind` | a cancel while the tool waits for the shell kills nothing (`tools/shell.py:102` handles the timeout only) |
| SharedConnection `EveryAckIsDurable`, `EveryEntryHasItsRow` | a statement that fails on a full disk may take a neighbour's uncommitted one with it (`memory/db.py:171`), or bring the index entries back whose rows are deleted next (`memory/pattern_store.py:79`) |

## Not modelled

`core/task_queue.py`, `core/health.py` and `core/lark_ws_runner.py` are constructed by tests only.
Formatting and texts (cards, prompts, command output), logging, read-only commands and reports (health,
observability, snapshots, platform pages), tools that only read, the content of skills, the context store and
proposals (single statements), migrations, the operations scripts other than the restart, the matching of words in
`core/operation_policy.py`, and what LangGraph, aiosqlite and the Lark SDK do inside
are left out: their effect on the modelled parts is an outcome of the call that uses them.

What a joined module does not check is one component against the other's actions: there the promise of one is
what the other assumes (`OneOwner` for GoalExecution, `StatusDiscipline` for GraphRuntime, OneUseGrant for
ServiceOperation's grants). Only RuntimeWorkerPool takes its neighbour's actions themselves.

## Plan

What would come next, most important first:

1. A refinement of GraphRuntime's item statuses by RuntimeTaskQueue, as RuntimeWorkerPool has it, proved step by step.
2. GoalNotifications against an abstract at-least-once delivery with a bound on duplicates, proved.
3. OneUseGrant in place of ServiceOperation's own grants, so that `RunsOnUsedGrant` rests on ApprovalManager's refinement.
4. Two overlapping cleanings of SharedConnection, as the web interface allows.
