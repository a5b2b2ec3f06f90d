# Formal verification of VARIANT-1

VARIANT-1 is a desktop agent host: a Python backend (`backend/`) that runs chats
with tools, goals, automations and peers against local or remote language models,
an Electron shell around it and a React window in front of it. This directory holds
TLA+ models of the parts of the backend whose correctness depends on ordering,
crashes and concurrency, TLC configurations that model-check them on small
instances, and TLAPS proofs for every instance where the prover can reach.

Contents: [1 inventory](#1-inventory), [2 modules](#2-modules-and-the-code-they-model), [3
runs](#3-runs-bounds-and-what-they-show), [4 fairness](#4-fairness), [5
proofs](#5-proofs), [6 findings](#6-findings-and-observations), [7 not
modelled](#7-what-is-not-modelled), [8 plan](#8-plan), [9 how to run](#9-how-to-run).

## 1. Inventory

### 1.1 The two cores

Everything long-lived in the backend rests on two stores and the code that drives them.

**Work Fabric** (`backend/work_fabric/`, one SQLite database, every operation a
`BEGIN IMMEDIATE` transaction).

| part | state | operations | hard behaviour | what makes it correct |
|---|---|---|---|---|
| durable jobs (`repository.py`, `models.py`) | `work_job`, `work_event` | create, lease, start, heartbeat, progress, wait, finish, release, cancel, acknowledge, pause, wake, retry, recover | leases expire under live workers; continuations and recovered leases are not counted as attempts; row and event must move together | stale workers are fenced, attempts are bounded, no queued row is stranded, the log describes the table, settled means settled |
| scheduler (`scheduler.py`, `jobs.py`, `service.py`, `recovery.py`) | the tasks of one process over the table | admit (choose, lease, track), execute, heartbeat, commit_result, cancel, shutdown, restart, periodic recovery | database calls run in threads and outlive a cancelled await; thread handlers cannot be stopped; admission awaits between its limits and their use; shutdown can leak a lease | one execution per job, no more tasks than slots, runs are paid for, success and publication are earned, everything accepted settles |
| events and outbox (`events.py`, `repository.py`) | `work_event`, `work_outbox`, `work_projection_state` | append, claim, deliver, acknowledge, reject, recover; projections (not modelled) | handler failure, expiry during delivery, crash before acknowledgement | at-least-once, dead only when exhausted, in order within a claim |
| interactions (`interactions.py`, `clarification.py`) | `work_interaction` | create, wait, time out, reply, cancel | the user's answer races the timeout, a Stop and a restart | tool and user are told what the row says, no question is left open but by a crash |
| operation receipts, handles, capabilities | `work_operation`, handles | insert-or-return, recover | idempotent replay after a crash | not modelled yet |

**Session runtime** (`backend/session_runtime/` with `chat_pipeline.py`,
`chat_finalize.py`, `chat_setup_stage.py`, `host_chat_service.py`, `ws_dispatch.py`;
one asyncio loop plus SQLite).

| part | state | operations | hard behaviour | what makes it correct |
|---|---|---|---|---|
| admission, pause, budget (`registry.py`) | `_LiveRuntime`, `_RunAdmission`, mutation authority, budget | reserve, finish, change_settings, claim_kernel_retirement, set_mutation_write_enabled, pause, resume, Stop, charge | every holder awaits in the middle of what it holds; `finish_run` is called up to three times; commands arrive late | one run per chat, no maintenance under a run, no lost wake-up, no stale command, Stop releases the chat |
| input queue and transcript commit (`registry.py`, `repository.py`, `chat_finalize.py`) | `astb_input_ticket`, transcript, graph checkpoint | enqueue, drain, checkpoint, commit, park, continue, remove, resume, reconcile | the commit is several writes; a Stop may land at every await; a crash between any two writes | no ticket lost, answered twice, or delivered to a run it was not meant for |

### 1.2 The clients of the cores

| part | state | operations | hard behaviour | what makes it correct |
|---|---|---|---|---|
| goals (`goals/`) | goal, step, effect, wait and slot rows; supervisor jobs; the chat of the goal | submit, tick, admit and launch a turn, report, pause, continue, stop, archive, recover | a tick, a turn, its done callback, a Stop and a crash meet between transactions of different tables | a goal with work has a supervisor, a turn of unknown fate is not repeated, ended stays ended |
| automations (`automation/`, `host_workflow_service.py`) | definition and claims in one document, a job per occurrence, its events | find what is due, claim, enqueue, run, settle by event or scan, edit, enable, disable, webhook | the claim is written before its job; events are late or repeated; keys are reused; the clock changes | an accepted occurrence is neither lost nor changed nor run after a Stop, and every claim settles |
| peers (`peers/`) | connections with epochs, messages, endpoint | register, touch, close, expire, send, claim, settle, reply | delivery suspends while its lease is replaced, contested or lost | a request is handed over at most once, an answered request stays answered |
| kernels (`kernel_runtime/`) | leases, boot locks and slots, generations, cell evidence | execute, boot, evict, sweep, release, restart, interrupt, cancel, shutdown, recover | teardown and boot await under locks of several chats; lists of victims go stale; a Stop follows a Steer; workers die | one worker per chat within the capacity, a run keeps its kernel, every cell leaves evidence and every request is answered |

### 1.3 How they interact

* A window's message reaches `ws_dispatch`, which reserves the chat (admission), starts
  the chat task and, while a run is active, turns further messages into tickets.
* The graph runner drains tickets at its boundaries, saves checkpoints, waits at the
  pause boundary and hands the final answer to `chat_finalize`, which commits the
  transcript and the tickets; the finalizer of `chat_pipeline` charges the budget, parks
  what was not delivered and releases the admission.
* A tool call that runs Python goes to the kernel manager, which boots or reuses the
  worker of the chat. Automatic teardown of a worker takes the `kernel_retirement` fence
  of the chat's admission record: a run and a retirement exclude each other.
* Goals, automations and background tools submit jobs to the Work Fabric and read its
  event log through outbox handlers and projections; a run that asks the user goes
  through an interaction row. A goal launches its turns through the admission of the
  chat that owns it and is woken by the end of a turn and by the chat becoming idle.
* Peers wake an idle chat by claiming its oldest ticket.

### 1.4 The rest of the backend

By size: `session_catalog` (12k lines: tool catalog and child sessions),
`model_runtime` (11k: local engine, provider recovery, usage ledger), `browser_fabric`
(8k), `agent_engine` (7k: graph runner and snapshot store), `desktop_fabric`,
`extensions`, `execution_hosts`, `coding`, `artifacts` (4–6k each), `observability`,
`messaging_gateway`, `chat_sessions`, `web_search`, `speech`, `model_providers`,
`security`, and the HTTP and WebSocket surface at the top level. `PROJECT.json` lists
each with its status. They are mostly calls to external programs and services, or data;
section 7 says more.

The hazards of the modelled code, each at its line and with the properties that would
catch it going wrong, are the list `hazards` of `PROJECT.json`.

## 2. Modules and the code they model

`PROJECT.json`/`map` gives the source lines of every definition. Definitions keep the
names of the functions they model. An operator whose comment starts with "Mutant" is a
deliberately wrong variant of the definition after it; it is used only to confirm that
a property notices the bug.

### WorkJobs

The job table. One action per repository transaction. A row keeps what the WHERE
clauses and guards look at: status, the lease pair `(lease_owner, lease_epoch)`, the
continuation and sync-handler markers, attempt, cancel flag, revision. Time is
relative: `lease_left` and `delay` are the distances of `lease_expires_at` and
`available_at` from now (`NULL` = no lease), and `Tick` lets them run down. `ledger`
holds the newest event of each job; `Commit` is `_job_event_tx`, which refuses a
version that is not the next one. Payload columns and the idempotency lookup of
`create_job` are left out. `MaxRevision` bounds only what may go on for ever from
outside (pausing, waking, retrying, progress, leases lost by live workers); transactions
that settle a job are never cut off by it.

### JobContract

What a submitter of a job may rely on, without leases, clocks, workers, revisions or
events: submitted, granted, executing, parked, settled; grants that cost an attempt
unless they continue one; a cancellation that settles an idle job at once and keeps an
executing one from succeeding. `WorkJobs` implements it: `Contract` is the instance
under the refinement mapping `JobLife`, computed from the row alone, and
`ImplementsContract` is checked in `work_jobs` (recovery and the clock map to one step
for every row they touch, hence the contract allows several jobs to step together).

### WorkScheduler (extends WorkJobs)

The process above the table. At most one process lives at a time, under a fresh
`worker_id`; `crash` forgets it, `shutdown` cancels its tasks. Each `_execute` task is a
record whose `pc` names the await it is at; the `except` branches are states of their
own. `late` holds database calls whose await was cancelled and which may still commit.

A round of admission is three steps, as in `_admit_locked`: `admit_choose` computes the
kinds with room and the jobs to exclude, `admit_lease` (or `admit_none`) is the
`lease_next_job` transaction that uses them after the await, and `admit_track` creates
the task. `choosing` holds the calls under way with what they were given (`awaited` is
FALSE once shutdown cancelled the loop: the lease commits and gets no task), `granted`
the leases brought back before their task exists. The poll loop, the follow-up of every
finished task and the pumps of the host take turns under the `_admission` lock.

A coroutine handler may ignore its cancellation and still commit its result, which the
row decides about; only the result of a thread handler that was told to stop is dropped,
by `_invoke_handler`. `commit_result` awaits nothing, so it leaves no late call. The lease
of a live task may run out at any await and inside the handler, on each of the job's
first `LostLeases` epochs; leases nobody serves always run out. `runs`, `waits`,
`completed` and `published` are history variables.

### WorkOutbox

Event `s` is the s-th row of the log. The pump claims a batch, calls handlers in order,
acknowledges or rejects; a lost lease or a rejection abandons the rest of the claim, as
`dispatch_once` does. Nothing renews the lease of a claim, so recovery may take the items
back while their handlers run. `lost` counts the leases an item lost in dispatch and
`claimed` remembers the items of the last claim; both are history variables.

### WorkInteractions

The `ask_user` call, its poll and timeout, the `finally` block that retires an open
question, the user's reply (a read and a later write), Stop and crash, all on a row
fenced by its version. A resumed run may repeat its call under the same key. `deserted`
are the questions whose call died with the host: no start looks at open rows, so they stay
open until the user replies or the call is repeated. `late` and `late_times_out` are a
timeout's resolve left running in its thread by a Stop.

### SessionAdmission

One chat's `_LiveRuntime`. The registry runs on one asyncio loop, so the code between
two awaits is one action. A turn's `pc` follows its task: waiting for a retirement,
launched, running, at the pause boundary (`notifying` while the notice is awaited,
`paused` while waiting for the event), finalizing, charged, released. A task cancelled
before its body started (`unlaunched`) has no finalizer: only the Stop handler releases
it. `commands` are messages of attached windows in flight; `shown` the pause snapshots
sent so far. The budget is either `exhausted` or not: any charge may use it up, by any
amount, the run's own (`record_run_usage`) as well as those of its descendants while it
runs (`child_usage`), and `set_budget` resets it. The code compares before a run only, so a
run may overshoot; no property speaks of the amount. A charge that fails is logged and
skipped.

### SessionTickets

One chat's durable input queue. Tickets and runs are numbered in order of creation.
Where a crash can fall between two writes of one loop step the writes are separate
actions, and `LoopFree` keeps other loop actions out. Points that need care:

* `park_reason`: a parking that failed and is owed; the next admission settles it.
* `pending`: a "continue" command between its revision check and its claim.
* resuming is two steps (`resume`, then `promote_recovered_inputs` in the turn's setup),
  and the peer wake-up `start_next_queued_input` may find an owed parking and an empty
  queue.
* `_cancel` sends the task where the code's `except` clauses send it from that await;
  the Stop handler goes on only when the task has ended (`_cancel_settles`). Stop may be
  pressed again while a handler waits: `stops[r]` counts the handlers of a run, each of
  which parks once, the last ones when the chat has long found its next run.
* `abandoned`: the delivered tickets a turn gives up without settling them, after a second
  Stop before it persisted or a completion that failed in `persist_unfinalized_turn`.
  Nobody looks at them again before the next start (section 6).
* `turn[r].answered`: the graph handed over a terminal answer
  (`commit_transcript_terminal`), so a checkpoint awaiting its commit exists.
* "selected" exists only inside `claim_input` and counts as preparing; "rejected" is
  never written.

Admission is reduced here to who holds the chat; SessionAdmission is about how.

### GoalTurns

A composer goal: one durable step carried out by turns in the chat that owns it. `g` is
the goal with its step, effect, wait and slot rows; `tick` is the supervisor job under
way, which suspends while the step handler runs; `task[n]` is the chat task of attempt
`n`; `owner` says who holds the chat. Between its launch and its first step
(`turn_begins`) a turn's task exists without having run: cancelled there, it ends with the
chat still held (section 6). `execute` may also end without a turn, blocked or failed,
when the chat is gone or archived or a call raises; an admission made before that is
given back. A Stop in the chat window is the turn ending: SessionAdmission models how.
`taken` stands for the version of the row used as idempotency key of a supervisor job.
The transactions of one loop step between which a
crash can fall have actions for that crash (`continue_crashes` and the others named
`…_crashes`); `restart` is `recover_goal_supervisors`. Stops queue in `cleaners` and take
the cleanup lock one after the other.

### Automations

One automation. `store` is its document (definition, scheduled claim, webhook claims,
epoch), `job` the Work job of each occurrence, `handler` what its handler does, `events`
the job events not yet acknowledged, `inflight` the claims this process has in
`_AUTOMATION_CLAIMS_INFLIGHT`. `accepted` remembers with which definition and payload an
occurrence was accepted. Jobs are reduced to status and attempts; WorkJobs is about how
they get there.

The calendar has days of `DayLength` slots and weeks of `WeekLength` days of local time,
and one change of the clock in each direction: at slot `Forward` the clock skips `Shift`
slots, at slot `Back` it shows `Shift` slots twice. `Local` and `Fold` are what the clock
shows at a moment, `timestamp` the moment of a shown time, in the conventions of Python's
`datetime` (a skipped time is read with the offset before the change, a repeated one by
its fold). `is_due` computes candidates in shown time and compares shown times or
timestamps exactly where the code does.

### Peers

Delivery of requests to one external harness session: connections are leases with an
epoch, a delivery task claims a request under the lease it picked, attaches (and
suspends), writes and settles. A fenced claim becomes "unknown" and is never handed out
again; `handed` counts. `live` says that a lease has not run out yet: the row is expired
only when a sweep, a registration or a settlement looks at it.

### Kernels

The kernel manager and its leases. A task (a cell, an operator or sweep, or one of the
closers of shutdown, named by its chat) has a `pc` for the await it is at; boot locks
and boot slots are held where the code's `async with` blocks hold them, and a boot lock
goes to who waited longest (`ahead`), as an asyncio lock does. A sweep (`reap_idle`) lists
its victims once and then closes one after the other, looking at each again under its
boot lock: `victims` is what is left of the list. Every boot sweeps, and so does the
periodic reaper. `close` is one shielded teardown per lease with any number of waiters; a
cancelled waiter goes on waiting; a teardown that finds no lease has nothing to close and goes on. `lease[c]` is
the lease in the manager's map and the registry, `workers[c]` the generations whose
lease is not closed. An identity change is possible at every `_lease`; how long a lease
has been idle is left open. A deadline of a cell acts like a Stop. `config` is chosen
among `Config` at the start and never changes: the limits of the manager, the chats that
begin with a kernel, who submits cells and sweeps, and the bounds on runs and faults.

## 3. Runs, bounds and what they show

| run | instance | distinct states | checks |
|---|---|---|---|
| `work_jobs` | 2 jobs (2 attempts/retry, 1 attempt/fail), 2 workers, lease 1 tick, delay 0..1, MaxRevision 6 | 489,908 | `JobsInv`, `SettledIsFinal`, `EpochFences`, `SyncHandlerNotRequeued`, `ImplementsContract` |
| `scheduler` | 1 coroutine job, 2 attempts, 2 processes, MaxRevision 8, LostLeases 3 | 156,626 | `ExecutionsArePaidFor`, `SuccessIsEarned`, `CancelSettles`, `EveryJobSettles` |
| `scheduler_pair` | 2 thread jobs of one kind limited to 1, 2 slots, 2 processes, MaxRevision 2, LostLeases 1 | 1,445,790 | `SchedInv` |
| `outbox` | 2 events, 2 handlers, batches of 2, 2 processes, 2 attempts, MaxLost 1 | 65,155 | `OutboxInv`, `AcknowledgedInOrder`, `EveryEventSettles` |
| `interactions` | 2 questions, 2 answers, 2 crashes | 34,080 | `InteractionsInv`, `EveryoneIsToldTheOutcome`, `AskEnds` |
| `session_admission` | 2 turns, 1 settings change, 1 retirement, 1 command in flight, 2 pause revisions | 245,032 | `AdmissionInv`, `StaleCommandsIgnored`, `StopReleasesChat`, `WaitersWake` |
| `session_tickets` | 2 tickets, 2 runs, a Stop per run, 1 fault: a failing parking, append or completion, a repeated Stop or a crash | 625,454 | `TicketsInv`, `LeftoversNeedConsent`, `TerminalTicketIsFinal`, `HeldTicketSettles` |
| `goal_turns` | 5 attempts, 2 supervisor jobs, 2 Stops, 1 pause or continuation, 1 user run, 1 fault: a restart, a missed heartbeat or a failing launch | 1,025,776 | `GoalTurnsInv`, `NoSilentReplay`, `EndedStaysEnded`, `TurnEndIsNoticed` |
| `goal_turns_idle` | the same with 2 user runs, no Stop, no fault and no command | – | `IdleEventWakes`, which the code violates (section 6) |
| `automations` | 2 scheduled, 1 webhook and 1 manual occurrence, 2 payloads, 2 attempts, 2 edits, 2 requests, 1 fault; days of 3 slots, weeks of 4 days, 2 of them workdays; the clock goes forward by 1 slot at slot 13 and back at slot 19 | 449,794 | `AutomationsInv`, `DueIsExact`, `StoppedStaysStopped`, `AcceptedIsNotLost`, `ClaimSettles` |
| `peers` | 2 connections, 2 runtimes, 2 epochs, 2 requests, 1 crash | 211,387 | `PeersInv`, `RepliedIsFinal`, `LostLeaseReleases` |
| `kernels` | 2 cells, a shutdown at any time, and three configurations: (a) 2 chats, 1 kernel, 2 boot slots, an operator, 2 runs, 1 fault or interrupt; (b) 2 warm chats, 2 kernels, 1 slot, a sweep, 1 run; (c) 3 chats, 2 of them warm, 2 kernels, 1 slot, 2 runs | 369,575 | `KernelsInv`, `RunKeepsKernel`, `AdmittedIsRecorded`, `RequestIsAnswered` |

An `…Inv` is the conjunction of the module's type invariant and its named state
invariants; the comment above each part says what it means.

Why the bounds are enough for what is asked:

* Jobs do not refer to each other; the second one exists because recovery, the clock and
  the priority rule act on several rows at once. Two attempts are the least at which a
  recovered lease, a continuation and the last attempt differ. Six revisions allow
  create, lease, start, release or wait, a second lease and an outcome under outside
  interference, and everything past that continues to its end.
* Two processes give one restart, which is what separates a stale lease from a live one;
  a third would repeat the second.
* In `scheduler` one job is enough, since its properties are about one row and its
  tasks; the interplay of two jobs is `scheduler_pair`. Lease and retry times are one
  tick, as only "before or after expiry" matters. `LostLeases` is how many epochs of a job
  a live task may lose: three are two attempts and a continuation, and one in
  `scheduler_pair` is enough for recovery to return a job, or to settle it, while its old
  task unwinds in a thread and holds its slot.
* Two events, two handlers and a batch of two are the least at which an abandoned claim
  leaves an item behind and a failing second handler repeats the first. `MaxLost = 1` lets
  an item lose its claim twice while its handlers run. Were that to go on, the batch would
  be claimed for ever (section 6), so `EveryEventSettles` exempts a log with an item that
  lost more than `MaxLost` leases, and promises the rest.
* Two turns are a predecessor and a successor: the stale `finish_run`, Stop or pause is
  always about such a pair.
* Two tickets are the one that starts a turn and the one queued for it; two runs are the
  one that leaves and the one that finds.
* Five attempts of a goal are more than its commands, faults and reports can use up, so no
  behaviour is cut off by the bound on attempts. Two Stops overlap; a third waits like the
  second.
* Two scheduled occurrences are the settled one whose event is late and the next one; one
  webhook key with two payloads is the reuse of a key. `DueIsExact` evaluates `is_due`
  against its reference on all inputs of two weeks that contain both changes of the clock,
  at the hours no change skips or repeats; at the others the code is not exact (section 6).
* Two connections of two runtimes give renewal, replacement and contest; two requests the
  claimed one and the one behind it.
* Two chats and room for one kernel make every boot of the second chat an eviction. Warm
  chats and a single boot slot give a sweep two victims, and time between them for a run to
  start on the second. A third chat, whose boot sweeps, holds the slot meanwhile, which
  is the state `SlotsDeadlocked` of section 6: the run reaches it, and `RequestIsAnswered`
  exempts that state and no other. With a sweep that lists nothing it is not reached.

In `session_tickets` one budget pays for failing writes, repeated Stops and restarts. With
one fault each of them meets everything else; with two (`MaxFaults = 2`, 2,060,629 states)
every pair of them does, and the same properties hold. The theorems of section 5 hold for
any number.

Deadlock is not checked: with its bounded supply of jobs, turns and tickets each model
ends in states where nothing is left to do. The liveness properties say that nothing
stops halfway.

## 4. Fairness

* `scheduler`: weak fairness of each task's own steps, of a handler's end, each step of a
  round of admission, periodic recovery, the end of shutdown, the restart and the clock.
  The asyncio loop runs every ready task, recovery is a task of the process, and job
  handlers are finite work. Nothing obliges a handler to succeed, a user to wake a waiting
  job, or a late database call to commit.
* `outbox`: pump, restart and clock. A handler ends, but may fail each time, and may outlive
  the lease of its claim.
* `interactions`: the polling tool, whose deadline passes. The user owes nothing.
* `session_admission`: ready tasks run; settings and retirement handlers end, their awaits
  being bounded by timeouts; a message in flight is handled. A graph need not end and
  nobody need resume.
* `session_tickets`: one condition on `Ready`, whatever the loop has ready: setup,
  finalizer, Stop handler and startup. That a graph ends is assumed (the model and its
  step budget decide it), since a ticket held by a run that never ends is not settled and
  need not be.
* `goal_turns`: the Work scheduler runs supervisor jobs and their handlers, a task that
  was launched begins, one that was cancelled or has ended runs its callback, the cleanup
  proceeds, a user's run ends and the process is started again. Nobody need continue a
  goal.
* `automations`: the scan (every 30 seconds), the Work scheduler, the event pump and the
  restart. `peers`: the sweep and the restart; a harness need never answer.
* `kernels`: every task takes its next step, a teardown ends (its waits have timeouts),
  shutdown proceeds and the host is started again. A cell ends, by itself or because it is
  interrupted: a cell that never ends and is never interrupted keeps its chat's kernel.

## 5. Proofs

The theorems hold for every value of the constants; each proof module `XProofs` extends
the module it is about (`WorkSchedulerProofs` also WorkJobs, `WorkTablesProofs` the modules
WorkOutbox and WorkInteractions). The assumptions are those the modules name (`JobsAssumption`,
`SchedulerAssumption`, ...): constants have their types, "nobody" is no member of the set
it is added to, and limits whose zero would switch a component off are positive. `Conn` of
Peers and the tasks of Kernels are finite, as capacity and contest count them. The kinds of
occurrences of Automations are disjoint, as their ids are prefixed `schedule:`, `webhook:`
and `manual:` (`store.py:572`, `server_http.py:110`, `host_workflow_service.py:200`). Its two
changes of the clock lie in this order and do not overlap (`Forward + Shift <= Back`). Jobs,
questions, turns, windows' commands, events, crashes and faults are any number.

| theorem | states |
|---|---|
| `WorkSchedulerProofs` I | |
| `JobsInvariant` | `JobsInv`; `JobsTypeCorrect`, `LeaseCorrect`, `AttemptsCorrect`, `QueuedCorrect` and `LedgerCorrect` name its parts |
| `SettledCorrect`, `EpochCorrect`, `SyncCorrect` | `SettledIsFinal`, `EpochFences`, `SyncHandlerNotRequeued`: what no transaction does to a row |
| `ContractImplemented` | `ImplementsContract`: the repository implements `JobContract` under the refinement mapping `JobLife` |
| `WorkSchedulerProofs` II | |
| `SchedulerInvariant`, `SchedulerCorrect` | `SchedIInv`, the inductive invariant, and its part `SchedInv`: slots and kind limits hold for the tasks that still run, one task per job, and what a round of admission counted before its await still holds after it |
| `ExecutionsCorrect` | `ExecutionsArePaidFor`: one execution per job in a process, none that nothing paid for |
| `SuccessCorrect` | `SuccessIsEarned`: success and publication come from a handler that ended under the recording epoch |
| `WorkTablesProofs` I | |
| `OutboxInvariant` | `OutboxInv`: delivered only after every handler, dead only when exhausted, and rows, log and the pump's batch agree |
| `DeliveryInOrder` | `AcknowledgedInOrder`: within a claim no event is delivered before an earlier one |
| `SettledFinal` | a delivered or dead item is not touched again |
| `WorkTablesProofs` II | |
| `InteractionsInvariant`, `ToldCorrect` | `InteractionsInv`: an open question has a call that waits for it, or its call died with the host; `EveryoneIsToldTheOutcome` |
| `OutcomeFinal` | a recorded outcome is not replaced |
| `SessionAdmissionProofs` | |
| `AdmissionInvariant`, `StaleCommands` | `AdmissionInv`: one run per chat, apart from maintenance, under the authority that admitted it; `StaleCommandsIgnored` |
| `SessionTicketsProofs` | |
| `QueueInvariant` | `TicketsInv`: nothing stranded between runs, nothing reported completed that is not in the transcript |
| `LeftoversAreAsked`, `SettledTicketsStay` | `LeftoversNeedConsent`; `TerminalTicketIsFinal` |
| `GoalTurnsProofs` | |
| `GoalTurnsInvariant` | `GoalTurnsInv`: no goal forgotten, success only on the claim of its last turn, a complete cleanup means that no turn runs or is about to begin |
| `ReplayNeedsReason`, `EndedGoalsFinal` | `NoSilentReplay`; `EndedStaysEnded` |
| `AutomationsProofs` | |
| `AutomationsInvariant` | `AutomationsInv`: runs are as accepted, and the facts about claims and jobs this rests on |
| `StoppedStays`, `AcceptedStays` | `StoppedStaysStopped`; `AcceptedIsNotLost` |
| `CalendarIsExact`, `DueExact` | `is_due` finds exactly the occurrences missed, across one change of the clock forward and one back, at hours neither skips nor repeats, for any day, week, workdays, changes and length of the absence; `DueIsExact` |
| `PeersProofs` | |
| `PeersInvariant`, `AnswersFinal` | `PeersInv`; `RepliedIsFinal` |
| `KernelsProofs` | |
| `KernelsSafety` | `KInv` and `Queued`, the inductive invariant and the lock queues |
| `KernelsInvariant` | `KernelsInv`: one worker per chat within the capacity, nothing left by a shutdown, only a Stop kills |
| `RunKeepsKernelCorrect`, `RecordedCorrect` | `RunKeepsKernel`; `AdmittedIsRecorded` |

Together they state every invariant and every action property of the passing runs. What a
proof adds to a property to make it inductive is part of the `…Inv` that the run checks,
so TLC has seen it too; `KInv`, `Core` and the `Kept` of GoalTurns and Automations say the
same again in a form suited to the proof, and `ToldInv` adds that only an outcome is told.

### The arguments

**WorkJobs.** `QueuedIsLeasable` and the attempt bound are not inductive: a waiting or
paused row becomes queued without a look at its attempts. `RowInv` therefore also requires
that every parked row still has an attempt or a continuation, that a leased row agrees with
its lease (which lets `start_job` drop the continuation), and that a row not yet created
has used nothing. Every transaction but the renewal of a lease, recovery and the clock goes
through `Commit`, so `CommitInv` reduces preservation to "the row written is good", one
lemma per action; recovery and the clock rewrite all rows and are proved row by row. The
action theorems have the same shape: `Allowed(r, s)` says what no step may make of a row
and `CommitAllowed` lifts it to the table. For the refinement, a transaction is a step of
the contract for its one row and a stutter for the others; recovery and the clock are one
step of the contract for every row they touch.

**WorkScheduler.** `WithinLimits` counts tasks, not leases, so it is not the row's business.
It needs `LimitsOutliveAwait`: the kinds and exclusions a round of admission counted before
its await are still right when its task is created. That holds because of `OneRound` (only
the holder of the admission lock adds tasks; all others only end), not because nothing
happens meanwhile. `OwnedByProcess` (tasks, late calls and a pending admission belong to
a live process) and `OneTaskPerJob` are what makes a task's knowledge of its row survive
an await. `ExecutionsArePaidFor` counts: it holds with what is `Promised` added, the
invocation a lease or continuation allows and the one a started task is about to make.
`SuccessIsEarned` needs `ResultsAreCurrent`: a completion under way, in a task or in a
call that outlived its await, carries the epoch of the row, and then its handler ended
under it, or an older one, which the row never takes again. `Quiet` says what a
transaction may do to a row without the books being touched and `Survive` what a step
may do to the tasks; nearly every step is both, and the rest (entering a handler, its
end, a commit of its result) is proved alone. `JobsInv`, from part I of the proof module,
is the table's half.

**WorkOutbox.** `RowsMatchLog` ties row and log, `PumpHoldsClaim` the batch in the pump's
hands to the claims in the table: acknowledging writes only what this claim
dispatched to the end. A stale pump cannot pass the check of owner and epoch.
`AcknowledgedInOrder` rests on the order of the batch: what is left of a claim is its
tail, and nothing in that tail was delivered under the claim.

**WorkInteractions.** A row goes from absent to open to one outcome, its version from 1 to
2 (`WrittenTwice`); a call past its creation has a row (`CallKnowsItsRow`). So a version
conflict means that the question is resolved, and what the loser then reads is the outcome.

**SessionAdmission.** `SnapshotsArePast` carries the order of the pause snapshots sent: no
revision shown is ahead of the admission record, so a change of state takes a revision
nobody was shown.

**SessionTickets.** `NoStrandedTicket` speaks of the moments when nobody holds the chat; what
carries it there is who answers for a ticket meanwhile. A delivered ticket belongs to the
run that holds the chat or was given up (`DeliveredIsHeld`), a claimed one to the run it
started (`ClaimedIsHeld`), a queued one to the run it waits for, or a Stop or an owed
parking will take it (`QueuedIsAwaited`), and a run that is about to release the chat has
parked or owes it (`ReleasedIsParked`). `LeftoversNeedConsent` follows from
`QueuedIsAwaited`: a queued ticket of another run is found only by a run that starts while
that run was cut, or after the user resumed it. `TerminalTicketIsFinal` needs
`MemoryIsCurrent`, that a "continue" command whose revision still matches names a parked
ticket, and `CompletedMeansPersisted` that a turn past its append has its messages in the
transcript. Nearly every action is one of five shapes (a run goes on, settles what it
delivered, leaves, starts, or somebody parks), and each shape is proved once.

**GoalTurns.** `NeverForgotten` is inductive once `KeyMeansJob` is known: a version of the
goal whose key is taken has its supervisor job still open or is older than the goal, so an
enqueue that meets a finished job cannot be the one that was needed. `StepFollowsGoal` ties
the rows of a goal to its status, `TickHoldsAttempt` what a suspended tick still knows of
them when the handler returns, `SlotHoldsChat` the slot to the task that holds the chat
(and says that only a Stop before its first step leaves a chat held by no task),
`CleanupFollowsStop` the Stops still queued to the cleanup that is reported.
`NoSilentReplay` needs `RetryHasReason`: whoever sets the step to be retried has a reported
end or a user who asked, and no later step can take that reason away before the attempt is
counted. A supervisor tick is a composition of functions on the goal, so there is one lemma
for each function, saying which rows it leaves alone and what the ones it writes satisfy;
an action then combines the lemmas of the functions it calls.

**Automations.** The document, the jobs and what is in flight are kept apart: `StoreOK`
for a document and `JobsOK` for the table are proved per function, `ClaimsFit` relates
both. `ClaimsAreCurrent` (a claim carries the epoch of the document, and no job of an
older epoch has it) makes the epoch compared by `_automation_job` decide; without it a
claim written before a disable could be run after the next enable. `JobsAsAccepted` carries
the definition and payload of the acceptance through the claim and the job to the handler,
past edits. Claims leave a document only through `_finalize_automation_claim`, whose job is
terminal, or with a new epoch; jobs that are terminal stay so.

**The calendar.** `Day` and `Slot` are a quotient and a remainder, and the days of the week
a remainder again. `UniqueDivision` says that this determines them; from it follow that the
occurrences of a slot are a day apart, that `_latest_weekday` steps back to the last workday
and never over one (`LastWorkday`), and that `latest_weekly` is the last slot of its weekday
not after now (`LatestWeekly`). A last occurrence that is later than the last run is an
occurrence since the last run (`SinceLastRun`), and conversely. A regular hour is one no
change of the clock skips or repeats (`RegularSlot`): there a shown time has one moment
(`RegularTime`), so the order of shown times and that of timestamps agree
(`PassedFacts`, `TodayPassed`) and comparing either is right. Nothing is said about the
first week, in which the arithmetic would reach before day 0.

**Peers.** The transactions are functions of the database; `GoodDb` is what each must leave
and `Follows` what it may do to requests, proved for each piece and composed.
`HandedIsNotWaiting` is the strengthening of `HandedOnce`: a request that was handed over
and may be claimed again would be handed over twice one step later.

**Kernels.** The four parts added to the properties: `LocksAreHeld` (who boots or tears
down holds boot lock and fence), `LeasesAreKnown` (what a task learned of a lease before
it awaited is still so), `ClosersWait` (a lease being closed has a task that waits for it
and answers for the reason), `NothingBootsAgain` (after shutdown began). `KInv` says this
per task (`TaskOK`) and per chat (`LeaseOK`, `CloserWaits`). A step belongs to one task;
the frame lemma `Kept` says that every other task keeps its part when the step respects its
locks, so each action owes only its own task and the lease it touches. Capacity holds
because counting the leases and installing the new one is one step of the loop, whatever
happened during the evictions before it. An eviction never meets a run: its victim had none
when the fence was claimed, and a run is not admitted under a fence. A list of victims may
be stale; each victim is looked at again under its boot lock (`SelectedOK`, `Returned`), so
nothing is assumed of those further down the list.

### What is only model-checked

* All liveness properties, for good: fairness and ENABLED are out of the prover's reach.

## 6. Findings and observations

`goal_turns_idle` is expected to end in a violation: the comment at the head of
`goals/parent_session.py` says that idle admission events wake a waiting goal. `notify_idle`
(`parent_session.py:31`) enqueues the supervisor under the version of the goal row; a tick
that finds the chat busy again changes nothing, so the next idle event gets the finished
job of the first one, and the goal waits until something else writes to it.

Observed while modelling, without a run of their own:

Work Fabric
* `mark_job_waiting` does not look at `cancel_requested` (`repository.py:1364`), so a
  cancelled handler may park its job; `CancelSettles` therefore counts "waiting" as an end.
  No handler in the tree waits today.
* The outbox keeps order within one claim only, which is `AcknowledgedInOrder`: a rejected
  event is overtaken by later claims (`events.py:140`). Consumers that need order use
  projections.
* `dispatch_once` (`events.py:104`) does not renew the lease of a claim, and a lease lost
  during delivery does not count against `max_attempts`: a batch whose handlers together take
  longer than the lease is claimed and delivered again for ever.

Interactions
* A crash leaves the question of a running call open. No start retires it; it stays in the
  window until it is answered or the resumed run repeats the call.

Chats
* A budget is compared before a run only (`session_runtime/repository.py:755`,
  `chat_pipeline.py:806`): a run and its descendants may exceed it by any amount.
* The finalizer awaits an activity event before it parks undelivered input
  (`chat_pipeline.py:881`). A Stop that cancels it there releases the chat first, and a
  waiting peer wake-up claims a ticket queued for the old turn, which the comment at line
  893 excludes. `LeftoversNeedConsent` shows that this is the only way it happens.
* Completing the tickets is inside the `try` of the append (`chat_finalize.py:575`): its
  failure marks as `transcript_failed` tickets whose messages are in the transcript. If the
  turn was also stopped, they stay `transcript_committing` until the next start.
* The checkpoint lists drained tickets but not the ticket that started the turn
  (`registry.py:1224`); after a crash and a resume that ticket is queued again and
  delivered to the graph whose root message it is.
* A second Stop cancels the task while it awaits the event before
  `persist_unfinalized_turn` (`chat_pipeline.py:640`): the exchange is not persisted and
  the delivered ticket stays running until the next start.
* The Stop handler parks by chat (`ws_dispatch.py:729`) and may park the "preparing" ticket
  of a newer run; `begin_transcript_commit` accepts "parked", so nothing is lost.

Goals
* `continuing` of an earlier report survives an idle admission, so an expired lease is
  retried automatically although its reason says "explicit retry required".
* Between the end of a turn's task and its done callback a tick may treat the finished
  turn as one that lost its admission.
* A goal turn that its goal's cleanup cancels before the task has run for the first time has
  no finalizer, the done callback skips `finish_run` for a cancelled task
  (`host_chat_service.py:94`), and `parent_session.cancel` (`parent_session.py:389`) only
  cancels and awaits. The cleanup is reported complete and the chat stays held until a
  restart; a later Stop finds a task that is done and changes nothing.

Automations
* A daily or weekday time inside the hour the clock skips is due at every round of the
  loop from the change until its timestamp is past: the candidate's shown time is compared
  (`store.py:181`, `191`), then its later timestamp with the last run. A time in the hour
  that is repeated runs twice, as `now.replace` keeps the fold; a weekly one runs once.
* A job event that was dead-lettered leaves its claim in `_AUTOMATION_CLAIMS_INFLIGHT`
  until the next start.
* A webhook key that is used again with another body after its first occurrence completed
  is accepted (202) but never settles: each scan meets a `WorkConflict`; `ClaimSettles`
  exempts it. A key sent again after its old job was cancelled is settled as cancelled at
  once.

Peers
* A receipt that arrives after the lease expired overwrites "unknown" (`service.py:1178`).
* A crash between `persist_message` and its move to "queued" leaves a request "persisted"
  for ever (`service.py:833`).

Kernels
* Sweeps and boots can wait for each other. A boot of chat A holds a boot slot and sweeps; its
  list of victims, made before it awaits (`manager.py:1280`), is D and then B. While it
  closes D, a run on B starts, and its cell takes B's boot lock (its worker died or its
  identity changed) and waits for a slot; the sweep comes to B and waits for that lock, with
  the slot in its hands. With `max_boot_concurrency` 1 three chats are enough; the default of
  2 needs two sweeping boots in that state. It is reachable only with an idle or absolute
  lifetime above its default of 0, and ends only by a Stop or a shutdown. An eviction for
  capacity alone does not get there: it picks its next victim anew and boot locks are
  first come, first served.
* A second cell of a chat that enters `_lease` while a Stop waits for its soft interrupt
  (state "stopping") closes the generation the Stop might have kept.

## 7. What is not modelled

The map covers a few per cent of the backend. Most of the rest is not protocol: provider
adapters, HTML and document conversion, prompt and context assembly, browser and desktop
drivers, process and container hosts, tool implementations, catalogs and their documents,
and the user interface. Their behaviour is that of external programs or pure data, which a
model could only restate line by line. Within the modelled parts:

* Session runtime: deletion of a chat and its tombstones, reconciliation of runtime
  owners, attaching and detaching windows, run history, displays, the amounts of a budget.
* Tickets: the peer service's unparking of its own tickets, goal effects on the queue.
* Projections (`work_projection_state`): one transaction reduces the events past the cursor
  and stores cursor and state, so there is nothing between them to go wrong.
* Scheduler: unregistering a kind between lease and start, capacity resolvers that change
  at run time, progress notes of handlers.
* Interactions: `goal_input` transactions, which run inside goal transactions.
* Goals: plans of several steps and their python, process, child, verification and input
  kinds, budgets beyond the pause they cause, a peer that becomes unavailable, resume from
  the Goals page (`enqueue=False`), cleanup of child resources.
* Automations: more than one period of summer time (the calendar has one change of the
  clock in each direction, at hours of the model's choosing), cron expressions (an
  external parser), what a run does (model calls, tools, history rows), write errors of
  the document, edits of the trigger type, the priority queue of
  `automation/scheduler.py`.
* Peers: delivery to a native chat, legacy adapter claims, inbox reads and waits,
  installation and transport.
* Kernels: `kill_all` and the closing of a chat, which act as a restart of the chat does;
  failing closes (`close_failed`, a shutdown that reports failures), failing
  evidence storage, capsules and automatic restore, the retry of an identity that moves
  during admission, the worker bridge and its protocol, resource and namespace reports.
* Operation receipts: insert-or-return rows in one transaction each. Child sessions and
  catalog mutation: not yet modelled.

## 8. Plan

Done, in this order: WorkJobs, WorkScheduler, WorkOutbox, WorkInteractions,
SessionAdmission, SessionTickets, JobContract, GoalTurns, Automations, Peers and Kernels,
with their runs; then the proofs of section 5.

No invariant or action property of a passing run is left without a theorem. Modules that
could follow: child sessions (`session_catalog/children.py`), catalog mutation, plans of
several steps.

## 9. How to run

    tlc -workers 2 -config MCWorkJobs.cfg MCWorkJobs
    tlapm GoalTurnsProofs.tla
    tlapm KernelsProofs.tla

`PROJECT.json`/`runs` names the module and the configuration of every run, its `theorems`
the proof modules. `KernelsProofs` takes a few minutes, the others less.
