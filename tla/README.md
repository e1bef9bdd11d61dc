# Verification of the MindPal core

This directory is a TLA+ development kept beside the MindPal sources. It models
the parts of the system where several processes write the same rows:

- the execution of work: runs and their steps, the queue, the workers that
  consume it, the requests that write the same rows, devices that answer late,
  and the lease that guards writing tools;
- the offline sync engine, which applies what clients push, and push again;
- the audit trail: the outbox, the dispatchers and the hash chain they append to;
- the export of audit events to a SIEM destination by overlapping ticks;
- governance change sets: drafted, approved, evaluated, released to canary
  spaces or to everybody, promoted and rolled back.

The modules are checked on small instances with TLC; the main safety results are
proved for all instances with TLAPS. Paths below are relative to the root of the
repository.

## 1. The system

MindPal is a TypeScript monorepo. `apps/api` is a Fastify server, `apps/worker`
a set of BullMQ workers and periodic tickers, `apps/device-agent` runs on a user's
device, `apps/runner` executes packaged skills, `packages/shared` holds state
machines, policies and pure helpers. Postgres keeps all business state, Redis the
BullMQ queue. API and workers share no memory: they meet in tables and in queue
messages, and every process may run in several copies.

### Inventory

| Component | State | Operations and interactions | What is hard | What makes it correct |
|---|---|---|---|---|
| Workflow execution (`worker/src/index.ts`, `workflow/processor/processStep.ts`, `api/.../jobRepo.ts`, `kernel/executionKernel.ts`) | rows of `runs`, `jobs`, `steps`; messages of the queue `workflow` | submit, take a message, execute the step, conclude, schedule the next step, cancel, retry by BullMQ or of the whole run | each handler is a series of statements that commit one by one; cancels, redeliveries and operators interleave | effects in the order of the plan; no run is forgotten; run and job agree; success means done |
| Approvals (`routes/approvals.ts`, `approvalRepo.ts`) | one row of `approvals` per run | ask (at submission or by the worker), approve, reject | the row is reused for each risky step; the message is sent before the transaction commits | a risky step takes effect only after a decision about this step |
| Dead letters (`workflow/deadletter.ts`, `routes/runs.ts`) | step status `deadletter`, `queue_job_id` | mark after the last attempt, retry, cancel | an operator against a retry of BullMQ; the retry of a run revives dead letters, too | a dead letter is not executed, a retry is executed |
| Device executions (`deviceDispatch.ts`, `routeDeviceExecutions.ts`, `resumeTicker.ts`) | rows of `device_executions` | ask the device and suspend, result, resumption by the API and by a ticker | two resumers; answers that arrive while the worker still suspends; lookups and insertion are statements of their own | one execution per step (as far as the code goes, section 4); an answered run is resumed |
| Write lease (`workflow/writeLease.ts`) | `workflow_write_leases`, one row per resource | acquire by upsert, release by owner, expiry | tools that overrun, workers that die, an owner that names a step and not an execution | one writer per resource; a resource becomes free again |
| Concurrency and timeouts (`processor/runtime.ts`) | counters of one process | withConcurrency, withTimeout | a timeout raises a signal only | that holding times are bounded, which they are not (section 4) |
| Agent runtime (`skills/agent-runtime/routes.ts`) | the rows of the run of a task | plan and submit, cancel, continue | continue enqueues a step beside the one that is executed and does not look at its approval; cancel updates without a condition | as for a run |
| Closed loop (`skills/orchestrator`) | a run whose steps are planned one at a time | continue, retry, skip, stop | retries against BullMQ's own; an approval row that is already decided | as for a run |
| Collaboration runtime (`skills/collab-runtime`) | `collab_runs`, events, role states | guard and arbiter roles, `dependsOn`, three steps at a time | two workers schedule the same step; only the first ready step is checked for an approval | dependencies respected, each step scheduled once |
| Triggers (`worker/src/triggers`) | `next_fire_at`, trigger runs | claim by compare-and-set, fire | death between claim and creation of the run | each firing at most once, none twice |
| Channel outbox, notifications (`channels/outboxDelivery.ts`) | outbox rows | claim, deliver, back off, dead letter | claimed rows of dead workers, failure after delivery | delivered at least once or dead |
| Audit outbox (`audit/outboxRepo.ts`, `requestOutbox.ts`, `plugins/audit.ts`) | `audit_outbox` | row with the business transaction or as the fallback of a read, claim, dispatch, mark | answers that are lost after the commit, dispatchers that die, rows that are dispatched again | each row gets one event |
| Audit hash chain (`audit/auditRepo.ts`, `processor/audit.ts` of the worker) | `audit_events`, an advisory lock per tenant | append to the end of the chain, verify | the end is found by timestamp, and the clocks of the processes disagree | the chain verifies at any time; an append-only, ordered ledger |
| SIEM export (`worker/src/audit/siemWebhook.ts`, `siemRepo.ts`, `routes/audit.ts`) | cursor, outbox and dead letters of a destination | take events, post batches, retry, give up; requeue, clear, backfill | ticks overlap and end anywhere; every statement commits by itself; the cursor is set without a condition | no taken event is lost, none is passed over |
| Sync engine (`skills/sync-engine`, `web/src/lib/offline/syncClient.ts`) | records, `sync_ops`, watermarks, conflict tickets; the store of the client | push, log, watermark, ticket, resolve, apply proposals | no transaction binds record and log; lost responses, repeated and overlapping pushes | an operation is applied once; what is logged as accepted was applied; what a client has heard of is logged |
| Change sets and evaluations (`governance/changeSetRepo.ts`, `evalRepo.ts`, `worker/src/governance/evalExecutor.ts`) | `governance_changesets`, items, approvals, bindings, evaluation runs; the settings they change, of the tenant and of spaces | add items, submit, approve, bind, evaluate, release, promote, roll back | checks are made before the change set is locked; rows of settings are read without a lock; canary rows override those of the tenant | one life; as many approvals and evaluations as the items call for; a rollback restores; a promotion keeps the canary spaces |
| Subscriptions, tool registry, entities, schemas, keyring, secrets, memory, knowledge, media, model gateway, authorization, safety, UI, CLI, device agent, skill runner | each its own tables | mostly one request, one transaction | little concurrency, or I/O and text | listed in `PROJECT.json` with the reason why they are not modelled |

`PROJECT.json` lists every component with its sources and status, and under
`hazards` what is hard to test in this code, each at its line, with the
properties that speak about it or the reason why none does.

### How the parts meet

A request creates the rows of a run (`created`) and either adds a message for its
first step or asks for an approval. A worker takes the message, reads the run,
marks run and step running and executes the tool; then it writes the outcome of
the step, counts the steps that remain and sets the run to `queued` or
`succeeded`. For an agent run it then looks for the first pending step without a
message and enqueues it, asks for an approval, or stops the run because its
budget is spent. An error goes back to BullMQ, which redelivers the message up to
three times; after the last attempt the listener of the event `failed` marks the
step as a dead letter. A device step suspends the run in `needs_device`. All
these writers update the same rows, nearly always without looking at the status
they replace. Four requests enqueue a step by hand (the continue of an agent run,
the retry and the approve of a run in `runs.ts`, the retry of a failed step by the
closed loop) and do not look whether a message of the run is waiting or a worker is
executing it.

Requests and jobs are audited: a write puts a row into the audit outbox with its
own transaction, or its response is held until an event is written. All events of
a tenant form one chain, whose end is protected by an advisory lock. A ticker of
the worker exports the events and audits itself while it does. Pushes of the sync
engine change the same records as the entities API, and change sets change the
settings that later requests read. The modules below are therefore separate:
apart from the chain, which the export reads only through timestamps, the
components share no row that two of them write, other than a record (which
`SyncEngine` lets the entities API edit at any time).

## 2. Modules

| Module | What it is |
|---|---|
| `WorkflowExecution` | the life of one run: rows, queue, workers, operators, devices, resumers, faults |
| `PlanExecution` | the abstract promise: effects in plan order, risky ones approved |
| `MCWorkflowExecution` | symmetry for TLC |
| `WorkflowExecutionProofs` | type correctness and the approval gate, proved |
| `WorkflowTokenProofs` | one thing at a time carries a run: one execution, quiet dead letters, proved |
| `WorkflowOrderProofs` | where in the plan it is: bounded repetition, the refinement of `PlanExecution`, nothing forgotten, run and job agree, success means done, proved |
| `WriteLease` | the lease around writing tools, with relative time |
| `MCWriteLease` | model values and symmetry for TLC |
| `WriteLeaseProofs` | type correctness, exclusion, covered writers and no takeover, proved |
| `SyncEngine` | pushes, the log, watermarks, tickets, proposals |
| `MCSyncEngine`, `SyncEngineProofs` | its instance for TLC; five theorems |
| `AuditLedger` | the abstract promise: an append-only, ordered, linked ledger |
| `AuditTrail` | outbox, dispatchers, hash chain, clocks |
| `MCAuditTrail`, `AuditTrailProofs` | its instance; the chain verifies and implements the ledger, proved |
| `SiemExport` | ticks, cursor, outbox, dead letters, operators |
| `MCSiemExport`, `SiemExportProofs` | its instance; both properties, proved |
| `ChangeSets` | life of change sets, evaluations, settings |
| `MCChangeSets`, `ChangeSetsProofs` | its instance; all five of its properties, proved |

### WorkflowExecution

State: `run`, `job`, `step` are the status columns; `hasJobId` tells whether
`steps.queue_job_id` is set; `queue` is a multiset of messages
`<<step, attemptsMade>>` (waiting or delayed); `worker` gives each slot of the
BullMQ workers a program counter, its message, whether it still holds the
message's lock (`own`), what it has read (`note`) and the step it will enqueue;
`approval` is the run's one row of approvals; `api` is the operator's request in
progress, `hand` the requests in progress that enqueue a step by hand; `resumer` the
resumptions in progress; `device` how many executions of a step a device has open and
how the last one ended; `effects`, `granted`, `continued` (the steps a continue has
picked) and `forced` (a request by hand was made) are history; `ops` and `faults`
count against their bounds.

Actions and code, in the order of a message's life:

- `Submit`: `_handleApprovalOrEnqueue`.
- `Fetch`, then `Park` or `Drop`: the reads and early returns at the start of
  `processStep`; `Begin`, `Mark`: run and step become running.
- `ToolEnds`, `ToolFails`: the outcome of the tool. An error may come before the
  effect or after it (a timeout, an output that is too large or violates its
  schema), and BullMQ retries it or it is final. `FindAnswer`, `FindOpen`,
  `CreateExecution`: `executeDeviceToolDispatch`, one action for each lookup and one
  for the INSERT.
- `CancelTail`, `Succeed`, `Count`, `Conclude`: the tail of a success, after the
  status of the run has been read again (`Verify`).
- `Fail`, `FailRun`, `Suspend`: the catch block. `Throw`, `Dead`: redelivery and
  the listener for `failed`.
- `Schedule`, `OutOfTime`, `ScheduleNothing`, `Ask`, `AskRun`, `EnqueueNext`,
  `SetJobId`, `Stop`: `scheduleNextAgentRunStep`. `Done`: BullMQ completes the
  message.
- `Stall`, `Crash`, `QueryFails`: a lost lock while the slot goes on, the death of
  a process, a failing statement. `Stalled`: BullMQ delivers the message again, or,
  from the second stall on, gives it up without a dead letter. `Recovery` tells where the latter leads: into
  the catch block, back to BullMQ, or, in the scheduler, into a log line.
- `CancelRead`, `CancelRun`, `CancelRest`: cancel. `OverruleRead`, `OverruleRun`,
  `CancelRest`: the cancel of the agent runtime and the reject of `runs.ts`, which
  update the run without a condition. `ApproveCheck`, `ApproveSend`,
  `ApproveCommit`, `ApproveRollback`, `Reject`: decisions. `RetryDead`,
  `RetrySend`, `RetryCrash`, `CancelDead`: dead letters.
- By hand: `ContinueRead`, `Pick`, `Send`, `HandJobId` are the continue of an agent
  run; `RetryRunRead`, `Requeue`, `Reset`, `Send` the retry of a run (whose
  `queue_job_id` stays empty); `ApproveRunRead`, `Requeue`, `Send`, `HandJobId` the
  approve of `runs.ts`; `RetryFailed`, `Send`, `HandJobId` the retry of a failed step
  by the closed loop. `HandCrash` ends any of them half-way.
- `Report`, `Tick`, `ResumeRun`, `ResumeGiveUp`, `ResumeSend`: devices.

Grain. Statements go to a `Pool`, one by one; `pool.query("BEGIN")` on a pool does
not bind the statements after it to one connection, so `cancelRun` and
`retryDeadletterStep` are modelled as what they may be, separate commits. That a
statement may end up inside another request's open transaction is not modelled.
Merged into one action are a read with the writes before it, the writes that one
branch sends in a row without a read in between, and `queue.add` with the
`queue_job_id` after it where Submit, a resumption or the retry of a dead letter does
it (the comment at the head of the module lists them). Merging the updates of run and
job matters to `JobAgrees` only, since no guard reads the job's status; that property
is therefore limited to runs that one handler at a time writes. Only the decision of an approval is a transaction
on one client; while it is open (`RowsFree` is false) nobody else changes the run
or the job.

Left out: compensation runs and their retry, `needs_arbiter`, the parallel
scheduling of collaboration runs and their routes, the continue, skip and stop of the
closed loop (they extend the plan), reexec and replay, digests and seals, audit rows,
task states, and the death of the ticker. One request that decides (`api`) is in
progress at a time, and beside it as many requests by hand as `Hands` has members.

### PlanExecution

Three variables, `effects`, `granted` and `loose`. `Execute(s)` is allowed when every
earlier step has taken effect, no later one has, and a risky `s` has been approved; a
step may repeat (`Tries` times) until a later one begins. `Loosen` may end the promise
of the order at any time; that of the approvals is never ended. The detailed module
implements it (`KeepsPromise`) through the identity on `effects`; a step is asked for
when it was approved or picked by a continue; the plan is loose once a step was
enqueued by hand or a fault has met a run that uses devices. All of rows, queue and
workers is hidden.

### WriteLease

`lease` maps a resource to its row, `exec` an execution to what it is writing and
how long the lease it was given still lasts. Time is relative: a row carries the
ticks until the database's clock passes `expires_at`. An owner is a step, not an
execution, as in the code; `Finish` deletes by owner, `Abandon` is a death of the
worker or a failed delete. Nothing bounds an execution: `withTimeout` only raises a
signal, so the clock ticks on whoever is writing. `robbed` is history: executions whose row
an execution of the same step has deleted that outlived its own lease. `Over(e)` says
that the lease of `e` no longer protects it, for one of these two reasons.

### SyncEngine

State: `client` and `base` are the store of the clients (`syncClient.ts`), `rec`
the records, each the sequence of the writers of its revisions, `log` the table
`sync_ops` in the order of its cursor, `watermark` and `tickets` the tables of
that name, `req` the push requests in progress with a program counter and what
they have collected for the response, `operator` the request about a ticket.

`Push`, then for each operation in order `Lookup` (the log decides whether it is
a repetition), `Read`, then `Refuse`, `Create`, or `Compare` and `Update`
(`updateRecord` with its condition on the revision), and `LogOp`; at the end
`Watermark`, `Ticket`, `Respond`. `Die` ends a request anywhere, also after its
last statement (a lost response). `EditRecord` is the entities API, `Open`,
`ReadProposal`, `ApplyProposal`, `Resolve`, `Abandon`, `GiveUp` the operators.
Every statement commits by itself, as in the code. Pulls and lists only read.

### AuditTrail and AuditLedger

State: `events` is the chain in the order of its commits, a position standing for
a hash; `lock` the advisory lock, `tx` the transaction of each writer, `way` how a
request is audited, `outbox` the status of its row, `claimed` the rows a
dispatcher works on. A clock is read by choosing any time (`Begin`, `Read`), so
that clocks disagree as much as they like; `TimeOf` is the rule by which the code
moves a time behind the last event. `Write` is the commit, whose answer may be
lost; `Fail` a statement that fails. `Commit`, `Audit`, `Ended`, `Fallback` are
requests, `Claim`, `Dispatch`, `Mark`, `Die` dispatchers.

`AuditLedger` has one variable and one action: add an entry that is later than
all others, of a request that has none, linked to the one before it.

### SiemExport

State: `events` are timestamps in the order of the commits (a millisecond is an
even number, the microseconds after it, which the export's own events have, the odd
one), `cursor`, `box` and `dlq` the tables of a destination, `received` what it
has got, `exp` the ticks. `Start`, `Select`, `Take`, `Advance` are
`enqueueFromCursor`; `Deliver` is `claimBatch` and the post; `Delete`, `Advance`,
`Audit` its success, `Stumble` a statement that fails after it, `GiveUp` and
`Unbox` are `markFailure`; `Die` ends a tick anywhere. `Requeue`, `ClearDlq` and
`Backfill` are requests of operators. The code's backfill may start at any given time
or event and may keep the outbox (`routes/audit.ts:704-713`); the model's starts at
the first event and clears the outbox. `taken`, `cleared`, `overtaken`, `seen`,
`late` are history.

### ChangeSets

State: `cs` is the row of a change set with its approvals, `items` how many of
its planned items were inserted, `bound` and `runs` its evaluations, `settings`
the rows it changes, per key one of the tenant and one per space, `tx` the request
each caller is in. The kinds of items the code knows behave in four ways
(`Kinds`), and `Released`, `Promoted` and `Replay` say which rows each of them
writes, in which order, and which it records for the rollback.

A request checks (`CheckRelease`, `CheckPromote`, `CheckRollback`), lists the items
(`ListItems`), locks (`Lock`, with the checks made again there), reads and writes
row by row at READ COMMITTED (`Read`, `Write`) and commits. `AddItem` and
`InsertItem`, `ListForSubmit` and `Submit`, `Unbind` and `Bind` are pairs of
statements with other requests in between. `Abort` is any refusal, error or death.

Left out: items of the kinds `schema.*`, `ui.page.*`, `workbench.*`,
`policy.version.*`, `policy.cache.*`, whose release calls the repositories of
those documents; the preflight, which reads; several suites bound to one change
set; evaluation jobs that are delivered again.

## 3. Runs

All counts are distinct states, with two workers of TLC.

| Run | Instance | Shows | States |
|---|---|---|---|
| `workflow_agent` | agent run, 3 steps, steps 2 and 3 risky, all may fail, 4 requests (both rejections among them), no faults | type; the run is never forgotten (`NotStranded`), run and job agree when all is quiet (`JobAgrees`), success means that all steps have succeeded, the promise is kept, the run settles (`Settles`) | 116,486 |
| `workflow_cancel` | agent run, 3 steps, budget of 2, the second risky; two of: cancels of both routes, retry of a dead letter, approval, and by hand continue, approve of the run, retry of a failed step | whatever a cancel or a request by hand races with, a risky step needs an approval or a continue that has picked it; until a request by hand the order is kept, one worker executes the run at a time (`OneExecution`), dead letters stay dead (`DeadIsQuiet`) | 2,046,411 |
| `workflow_crash` | `tool.execute`, two deaths of workers at any statement, one request, which may be the retry of the run | the run settles and is not forgotten unless its message was given up; until a request by hand run and job agree, success means done, a dead letter is quiet | 94,140 |
| `workflow_device` | device step, both resumers, one death of a worker, a retry | one execution on the device, one more for the death (`DeviceRepeatsBounded`); an answered run is resumed (`DeviceResumed`), the run settles | 197,640 |
| `workflow_chaos` | 2 steps, one risky, each kind of fault, 2 requests, among them the approve by hand, which may die half-way | no unapproved effect (`ApprovalGate`); until a request by hand repetitions stay bounded (`RepeatsBounded`) | 733,315 |
| `write_lease_held` | 3 executions, 2 owners, 2 resources, grants of 1 and 2 ticks, tools of any length | two writers only when the lease of one is over (`OneWriter`), a writer keeps its row as long as its lease (`WriterCovered`); no takeover of an unexpired row; a resource becomes free again | 87,081 |
| `sync_push` | one client, 2 operations on one record, base versions 0 to 2 or none, 2 overlapping requests, one death or lost response, one edit, one decision about a ticket | a record holds a patch with a base at most once (`BasedOnce`), the log accepts only what was applied (`AcceptedIsApplied`), what a client has heard of is logged below its watermark (`WatermarkCovers`), and a stale one has its ticket (`StaleHasTicket`) | 2,207,749 |
| `audit_trail` | 2 requests, 2 dispatchers, clocks of 2 times, 2 faults | the chain verifies from any start (`Verifies`), each row of the outbox gets its event (`OutboxLands`), the trail is the ledger (`KeepsLedger`) | 18,760 |
| `siem_export` | 2 ticks, 2 events, batches of 2, 2 attempts, 2 deliveries, one incident | no taken event is lost (`NotLost`), the cursor passes over late events only (`OnlyLateSkipped`) | 4,296,636 |
| `change_sets` | 2 change sets that share a routing purpose, 2 callers, 2 approvers, one canary space | one life each (`OneLife`), approvals (`FourEyes`), evaluations (`EvalGated`), rollback (`Restored`), promotion (`CanaryKept`) | 1,149,128 |
| `canceled_revived` | one cancel | **violated**: see findings | |
| `continue_unapproved` | agent run, 2 steps, the second risky, one continue | **violated**: see findings | |

Every property of a passing run has a mutant in `PROJECT.json`: a change of one
definition, as a plausible bug would make it, under which the property fails.
The mutated forms stand in the modules as "Variant" operators, directly before
the definition they vary.

### Bounds and why they are enough

Two worker slots suffice for every race of one message with its redelivery or
its successor. `MaxAttempts` is 2 where the code says 3: first, last and the one
between them differ only in being the last. One fault per behaviour is enough for
a redelivery; `workflow_crash` has two, since at its second stall BullMQ (5.70.4,
`maxStalledCount` 1) gives a message up. The model does not tell which fault hit which
message, so that it may give up any message from the second fault on; what is claimed
of runs that go on is limited to one fault (`Forgettable`). Requests by hand are spread
over three runs: `workflow_cancel` has those of agent runs, `workflow_crash` the retry
of a run, also during the delay of BullMQ's own, and `workflow_chaos` one whose process
dies. One slot in `Hands` lets a request overlap with every worker and with the
request of `api`. In `workflow_agent` `MaxOps` lets each risky step be approved and a
dead letter be retried or canceled; in `workflow_cancel` it lets a cancel come at any
point before or after an approval, a retry or a request by hand. Three steps give an
order with something between the first and the last. Requests to cancel,
approve, reject and retry are bounded by `MaxOps`, faults by `MaxFaults`, steps
that may fail by `Faulty`. Deadlock is not checked in the workflow runs: a run
that has ended, or waits for a person or a device, may rest for ever.

`write_lease_held`: three executions are a writer, one of its own step that has
outlived its lease, and a contender; two owners for two of these; grants of one tick
expire at once, of two ticks allow an early boundary. Nothing else bounds the run.

`sync_push`: two overlapping requests and two pushes are a push and its
repetition; two operations of one record make a base stale by a push; a base of 2
is the revision after the first of them or after an edit. A client, a record and
one fault are enough, since a second fault or client meets the same statements;
the theorems hold for any number. `audit_trail`: two clocks that differ suffice
for events whose commit and call order disagree, two dispatchers for a row that is
claimed twice. `siem_export`: two events give a batch of one and a batch that is
full, an event that appears late, and one of the export's own; times 2 and 3 are of
one millisecond, 4 is the next; two attempts are one that is repeated and one that
is the last. `change_sets` starts when one change set has been prepared (a state
the full specification reaches, as `MCChangeSets` says) and the other one is a
draft: release, promotion and rollback of the one then meet every step of the
other within the bounds; `MaxRuns` and `MaxBinds` are 1 since a run can be queued,
passed or failed and one rebinding opens the gap between DELETE and INSERT. In
these four runs deadlock is not checked: everybody may be done, or the bounds
reached.

### Fairness

`FairSpec` asks that a worker that can go on does (BullMQ takes waiting messages
and Node runs to the next await), that a request that has begun goes on, and that
the ticker fires and finishes (`setInterval`). Operators owe nothing, devices may
never answer, faults are never forced. Liveness therefore speaks of runs that are
`queued` or `running`, and of devices that have answered. In `WriteLease` the
clock advances, and tool functions need not return. In `AuditTrail` statements end, a writer
that waits for the advisory lock gets it (Postgres queues waiters: strong fairness
of `Lock`), requests go on, and a row that waits is claimed eventually (the interval
of the API takes the oldest rows that are due: strong fairness, as other
dispatchers may hold the row for a while). The other three modules state safety
only: a client need not push again, and a destination need not answer.

## 4. Findings

- `canceled_revived`. `processStep` reads the run, finds it not canceled, and
  later sets it to `running` unconditionally. A cancel in between is undone and
  the run is executed, against `RUN_TRANSITIONS`, where nothing follows
  `canceled`. The run `workflow_cancel` shows what still holds.
- `continue_unapproved`. `POST /tasks/:taskId/agent-runs/:runId/continue`
  (`agent-runtime/routes.ts:333`) enqueues the first pending step that has no message.
  While the run is queued or running, that is the next step, and neither the route nor
  `processStep` asks whether it needs an approval: a risky step is executed that
  nobody has approved, against the first of the invariants of `架构-07` §2. Once the
  run is in `needs_approval` the route refuses. `ApprovalGate` therefore says
  "approved, or picked by a continue", which is what the code keeps.

What else exploring the model brought up, and why some properties are claimed
for some runs only:

- The message of an approved step is added to the queue before the transaction commits
  (`approvals.ts:173`). A worker that takes it at once finds the run in
  `needs_approval`, parks the step and consumes the message; the commit then sets the
  run to `queued`, with no message and nobody to add one. TLC finds `NotStranded`
  violated in a run of type `tool.execute` with a risky step and one approval, no
  fault. For an agent run the worker's own scheduler repairs this, which is why
  `workflow_agent` holds.
- `executeDeviceToolDispatch` looks for an execution that is finished, then for one that
  is open, and then inserts one, without a unique key (`deviceDispatch.ts:195-268`). The
  API and the ticker may both resume a run after its first device step, two workers then
  reach the second one and insert two executions, and the device acts twice, which
  the lookup is there to prevent ("避免重复创建"). TLC finds that in an agent run of two
  device steps without a fault. A run of one device step is safe without faults, and
  `DeviceRepeatsBounded` says that each fault adds one at most.
- `withTimeout` ends its own wait and raises a signal that the writing tools do not look
  at (`runtime.ts:148`); nobody renews a lease. A tool that outlives its lease writes
  beside the next one, against `架构-02`. `OneWriter` says what is left.
- A worker that dies after `queue.add` of the next step and before its message is
  completed makes two workers execute an agent run at the same time. Order,
  agreement and "success means done" are then lost; `workflow_chaos` shows what
  is left, the approval gate and bounded repetition. `workflow_crash` is
  therefore about runs of one step.
- A request by hand has the same effect without any fault. With a continue one worker
  counts the steps as "more", the other as "last" and writes `succeeded`, then the
  first writes `queued` and finds no candidate: the run is stranded. If the first
  one's tool fails instead, the run may be reported succeeded over a failed step,
  since only pending and running steps are counted. With the retry of a run step 1 is
  executed again beside BullMQ's retry of any step, and after later ones; for tool
  runs, too, a dead letter may then have a message on its way, and success be written
  over a failed step. `OneExecution`, `DeadIsQuiet`, `JobAgrees`,
  `SucceededMeansDone`, `RepeatsBounded` and the order in `KeepsPromise` therefore end
  with the first such request (`forced`); for agent runs so does `NotStranded`. A
  tool run is not forgotten even then.
- A repetition bound for requests by hand is not stated: with two attempts TLC found
  five effects of a step after one retry of a failed step, more than the bound of
  `RepeatsBounded` would allow without a fault, since every message of a step makes an
  agent run's scheduler look for candidates again.
- The cancel of an agent run and the reject of `runs.ts` update the run whatever it
  has become since it was read; a run that has just succeeded is canceled.
- Two workers that execute one run may ask for the same approval twice, and each further approval
  repeats the step once more; the bound of `RepeatsBounded` counts approvals.
- A cancel that comes while a worker of an agent run counts the remaining steps and
  concludes: `Conclude` sets the canceled run back to `queued`, then the cancel takes
  the steps away, and the scheduler finds nothing. The run says `queued` for ever, and
  nothing will go on with it. `workflow_cancel` therefore does not claim
  `NotStranded`; for tool runs, which schedule nothing, it is proved with cancels
  (`ToolRunGoesOn`).
- An error in the scheduler is only logged: the run stays `queued` without a
  message. Likewise a retry of a dead letter whose process dies before
  `queue.add`. Both happen in `workflow_chaos`, where `NotStranded` is not
  claimed.
- Statuses also take other turns than `RUN_TRANSITIONS` lists (an agent run goes
  from `running` back to `queued` after every step but the last), which the code
  only reports with a warning.

About the sync engine:

- An operation without a base version is applied twice when it is pushed again
  while, or after, its first request dies between the record and the log
  (`routes.ts:262`). `架构-15` §6 asks for strict idempotence by operation id.
  `BasedOnce` is about operations with a base.
- A request that dies between the log and the tickets (`routes.ts:834`) leaves a stale
  operation without a ticket. `StaleHasTicket` speaks of what the client has heard of.
- An operation that was logged as rejected is reported as accepted when it is
  pushed again after a lost response (`routes.ts:264`); the client forgets the
  conflict. A ticket exists all the same (`StaleHasTicket` speaks of what the
  client knows to be stale).
- Proposals are applied without an expected revision (`routes.ts:1089`), and a
  ticket is resolved or abandoned whatever its status.
- A push without `deviceId` fails at `upsertWatermark`, after its operations were
  applied: the column is part of a primary key (migration 021). The model's
  clients send one.

About the audit trail:

- Rows claimed by a dispatcher that dies keep the status `processing` and are never
  claimed again, although `架构-06` §7.1 says that the audit must reach the
  database in the end. `OutboxLands` leaves these rows out (`stranded`).
- A read whose event cannot be written and whose fallback fails too, and a direct
  write whose event fails, end as an error of the request; a job of the worker goes
  on without its event.
- `GET /audit/verify` checks that each event links to the one before it and that no
  hash is null (`routes/audit.ts:297-331`); it does not compute hashes, and an event
  missing at the end is not noticed. `Verifies` is about the links.

About the SIEM export:

- `markFailure` inserts the dead letter and then deletes the row. A requeue between
  the two finds the old row, inserts nothing and deletes the dead letter; the tick
  then deletes the row, and the event is lost (`siemWebhook.ts:279`,
  `siemRepo.ts:185`). `NotLost` names these events (`overtaken`).
- The cursor a backfill has cleared is set again by a tick that was running. The
  cursor is truncated to milliseconds, so that events are posted again; and an
  event that becomes visible after a tick has read past its time is never taken
  (`late`). The export's own events are exported in their turn.

About change sets:

- A rollback replays the recorded rows in the order in which they were recorded: if
  a change set writes a row twice, the value from its middle is restored. What to
  replay is read before the lock, so a promotion that commits in between is not
  undone. Rows are recorded without a lock, so that another change set's write is
  overwritten by the rollback. A canary that disables a setting records nothing of
  a space where it finds neither an override nor a row of the tenant to copy; if
  another change set writes an override there, the promotion deletes it, and the
  rollback does not bring it back. `架构-16` asks for a path back to the last stable
  version of every change. `Restored` says when the code keeps that promise.
- A promotion deletes the overrides of its canary spaces one after the other. One
  that another change set commits for a space it has already looked at stays, and
  the space keeps that value (`crossed`). With two change sets TLC does not meet
  this, since the first canary's row has to be deleted meanwhile by a third; the
  attempt to prove `CanaryKept` did.
- An item inserted by a request that had read the change set as a draft, after
  another has submitted it, is released with approvals counted without it
  (`Counted`). Bindings of suites are replaced by two statements that no
  transaction binds. The API records the result of a run it executes at once
  without looking at the binding again.

## 5. Proofs

`WriteLeaseProofs`, however long tool functions run: `TypeCorrect`; `NoTakeoverHolds`;
and `LeaseExcludes`: two executions write one resource only when the lease of one is
over. `OneWriter` alone is not inductive, since nothing in it keeps a row alive; the
invariant adds `WriterCovered` (as long as its lease is not over a writer's row exists,
is its own and lasts as long as the lease it was given) and that only writers are
`robbed`.

`WorkflowExecutionProofs`, for any plan, any number of workers, attempts, requests
and faults:

- `TypeCorrect`. `TypeOK` is not inductive: a parked job takes its status from the
  note of the worker, so `TypeInv` adds `WorkersConsistent` (a parking worker has
  noted a blocked status, an idle one owns no message).
- `ApprovalGateHolds`. `ApprovalGate` speaks of effects only. `GateInv` says that a
  risky step that nobody has decided for is `Untouched`: no message, no worker
  executing or about to enqueue it, no device execution, no dead letter, no
  request and no resumption refers to it. A retry of the whole run enqueues step 1,
  so `GateInv` adds `Unstarted`: a run whose risky first step nobody has asked for
  waits, or was canceled while it waited, and cannot have failed. Each action either
  keeps all that or grants (`ApproveCheck`, `ApproveRunRead`) or picks (`Pick`). The proof has one step per action.
- `CalmStep`: until a request by hand every step is one of `CalmNext`, the actions of
  everybody else. The invariants below hold as long as that is so (`forced \/ ...`).

`WorkflowTokenProofs` is about a token nobody wrote down: a run is carried by the
message of a step, or by the worker that has taken it, or by an approval that is
waited for, a dead letter or the request that revives it, one of them at a time.
`TokenInv` says which excludes which (`OneMessage`, `OneHolder`, `MessageOrHolder`,
`RetryAlone`, `AwaitingAlone`, `DeadAlone`, `CreatedAlone`) and where a worker can
be while a decision is committed (`Deciding`). A worker holds the token from `Fetch`
until it rests (`Holds`); an agent run's worker rests as soon as `queue.add` has
passed the token on, though its own message is not completed yet. Nearly every
action of a worker is one of two kinds, `HolderMoves` or `HolderSends`, so that the
invariant is proved for the kinds and each action is shown to be of one.
`OneExecutionHolds` and `DeadIsQuietHolds` follow under `Unduplicated`: no device
steps (two resumers may send two messages), no lost locks, no rollback of an
approval whose message has been sent, and no deaths of workers in runs of several
steps. Each of these can duplicate the token, as in `workflow_chaos` or `workflow_device`.
Cancels of both routes, both rejections, failing statements, a retry whose process dies
are all included. A request by hand makes a second token, and ends the claim.

`WorkflowOrderProofs` adds what the token carries.

- `OrderInv`: whoever has it is at the front of the plan (`Front`): the steps before
  have succeeded, those after have had no effect and are either all pending without
  a message or all canceled. The scheduler takes the first candidate, which is the
  front again (`FirstIsFront`), also while another worker has still to write the
  `queue_job_id` of the step it enqueued. An approval is about a step that has not
  taken effect (`Unasked`).
- `AttemptsInv` counts: what a message has behind it is bounded by its
  `attemptsMade`, the requests of operators and the deaths of workers (`Spent`).
  `RepeatsBoundedHolds` follows under `Unduplicated`, and, without deaths,
  `KeepsPromiseHolds`: the initial states agree, and every step is
  `PlanExecution!Execute` or `Approve` or leaves `effects` and `granted` alone.
- `FlowInv`, for `NotStrandedHolds`, `JobAgreesHolds` and
  `SucceededMeansDoneHolds`: somebody will go on with the run, or it has ended or
  waits and the job says the same (`Going`); a canceled step is the end
  (`CanceledEnds`); and `FlowAt` says what a worker may rely on at each of its
  program counters, for instance that a run that was set back to `queued` has a step
  for the scheduler to find. This is assumed `Undisturbed`: no devices, no cancels and
  no reject by `runs.ts` (three updates, and a worker that revives the run: finding
  `canceled_revived`), no failed statements, deaths in runs of one step only, and no
  approval in a run of type `tool.execute` (section 4). Rejections of an
  approval, retries and cancels of dead letters and errors of the tools are included.
  It ends with a request by hand and, in a run that may lose its message, with the
  second fault (`CalmFlow`). `SucceededMeansDone` is part of the invariant and holds
  between the statements of a handler, too.

For agent runs these exclusions are needed: TLC finds `NotStranded` violated with a
cancel (section 4) and with a death or a lost lock, after which two workers conclude
and schedule one run. A run of type `tool.execute` is sturdier, and so is a device,
which answers with the result it has:

- `DeviceKeepsPromise`, for a run of one device step. Until the first fault or request
  by hand the device executes the step at most once: before the device has answered
  one token carries the run, next to an open execution nothing can insert another one
  (`OpenAlone`), and the answer leaves nobody between the lookups and the INSERT
  (`AnsweredOnce`), however many messages the two resumers then add. After that the
  plan is loose, and each effect has its approval by `GateInv`.
- `ToolRunGoesOn`: `NotStranded` with cancels, devices, the retry of the whole run, and a
  death or a lost lock (at the second one the message may be given up), for a step that
  asks for no approval. No token is counted; it is enough that whoever makes the run
  queued or running, or takes its last message, works on it (`CarriedOn`), and that who
  stops working has ended the run, blocked it or left a message (`LeavesOn`).
- `ToolRunSucceeds`: until a request by hand success means done with cancels as well,
  since the one holder writes the step before the run and nobody else is left to write
  it (`SuccessLast`).

The run `workflow_crash` is an instance of `Undisturbed`, and so is `workflow_agent`
but for the reject by `runs.ts`; `workflow_cancel` is one of `Unduplicated`,
`workflow_device` of the assumptions of `DeviceKeepsPromise` and `ToolRunGoesOn`.

`SyncEngineProofs`, for any operations, clients, records and overlapping requests.
`CoreTypeCorrect` is the type of all that the others need, `TypeCorrect` adds the
counters. `BasedOnceHolds`: by `Placed` the patch of an operation with base `b`
stands at revision `b + 1` and nowhere else, so two places of one patch are the
same place. `AcceptedIsAppliedHolds`: by `AppliedInv` a request that is about to log
an operation as accepted has applied it. `WatermarkCoversHolds`: by `Handled` what a
request has handled is in the log at or below its cursor, and at or below the
watermark once it has written that; the log and the watermarks never shrink.
`StaleHasTicketHolds`: by `TicketInv` a request that will respond has written the
ticket of its stale operations, and no step takes a ticket away.

`AuditTrailProofs`, for any number of requests, dispatchers and clock values. The
invariant says that events are in the order of their times and each links to the one
before (`Ordered`); that who has read the last event holds the lock, the chain still
ends there, and its own time is later than all (`Holding`); and which request may
still get which event (`Own`, `Rows`). `VerifiesHolds` follows: with increasing
times the order by timestamp is the order of the commits. `AuditedOnceHolds` needs
`Own` and `Rows`. `ImplementsLedger`: the initial states agree, and every step is
`AuditLedger!Add` or leaves the chain alone.

`SiemExportProofs`, for any number of ticks, batch size and incidents. `ExportInv`
adds to the properties, about what is in the tables: every row and dead letter is of
an event that was taken (rows are numbered per event by `taken`, so that a row
requeued is told from the one it replaces); the cursor and every cursor a tick
carries is at an event before which everything was taken or was late (`Covered`);
what a tick is about to insert reaches down to such an event; what a tick is about
to delete is `Safe`, that is received, a dead letter, cleared, overtaken, or there
again with a higher number. `Grows` names what nearly every step preserves, and the
lemma `Suffices` reduces a step to what it changes. Two chained events have different
times; without that, an event of the cursor's millisecond could be passed over.

`ChangeSetsProofs`, for any change sets, plans, spaces, callers and initial
settings. `LifeInv` relates the status of a change set to the operations committed on
it (`ChangeSetGood`), a request to the change set it has checked or locked
(`RequestGood`), and says that one request works on a change set at a time
(`Exclusive`). Approvals only grow and are finite, and the required number is
stored with the number of items it was computed from. `OneLifeHolds`,
`FourEyesHolds` and `EvalGatedHolds` follow.

`RestoredHolds` and `CanaryKeptHolds` are about the rows. `RowsInv` says of each
transaction how what it has written, what it has recorded and what it has still to
come to fit together: what it writes was recorded with the value that is still
committed, or is an override a promotion deletes (`Recorded`); a canary leaves out no
row of its spaces (`Covering`); a promotion has set the tenant's row and removed the
overrides, or will (`Promoting`); a rollback has put a row back, or will
(`Restoring`); no row is written by two transactions at once (`Apart`). `Kept` carries
that over from commit to commit: the records of a released change set hold what was
there before it, and those of a canary cover its spaces, which is why the promotion
need not record the overrides it deletes. A commit of another transaction changes
only rows that the first has not written; a row it has recorded or looked for in vain
makes it `stale` or is `crossed`, which the properties leave out. What a request has
to do is a `FlattenSeq` of touches per item; which touches it contains
(`WorkOfItems`) is shown by induction, without a theorem that takes an operator: the
least number for which the claim fails (`Least`) cannot exist.

The assumptions are those the modules name: `StepsAssumption`,
`AttemptsAssumption`, `BoundsAssumption`, `SubsetsAssumption`,
`ResumersAssumption`, `AgentAssumption` for the workflow; `GrantsAssumption`,
`DistinctAssumption` for the lease; `SizesAssumption`,
`NoBaseAssumption`, `OpsAssumption`, `ActorsAssumption`, `FreeAssumption`,
`RequestsAssumption` and `PlanAssumption` for the others. TLC evaluates them on
every run. They say what type the constants have, that a distinguished value is
none of the others, and that bounds are natural numbers.

Model-checked only: liveness (`Settles`, `DeviceResumed`, `EventuallyFree`,
`OutboxLands`: the prover does not reason about ENABLED); and `RepeatsBounded`,
`OneExecution` and `NotStranded` beyond the assumptions above, and
`DeviceRepeatsBounded`; `RepeatsBounded` for instance in `workflow_chaos`, where tokens are duplicated and an invariant would have
to sum over those there are. Nothing in the modules that carry theorems is recursive.

## 6. Not modelled, and what would come next

Built in this order: `WriteLease` with its proofs; `WorkflowExecution` with
`PlanExecution` as its abstract specification, and the proofs of its types and of
the approval gate; `SyncEngine`; `AuditTrail` with `AuditLedger`; `SiemExport`;
`ChangeSets`; the proofs of these four; the proofs of the token, the order and the
flow of a run, and of tool and device runs; the proof that change sets restore rows.

Not modelled, for a reason of the code:

- Channel outbox and notifications. `claimOne` sends BEGIN to a pool, so that its
  FOR UPDATE SKIP LOCKED binds nothing and two workers may claim one message; rows
  of a dead worker stay `processing`. Nothing but "a message that was sent was in
  the outbox" would hold.
- Triggers. The claim by compare-and-set on `next_fire_at` is one statement; a death
  between it and the creation of the run loses the firing, which needs no search.
- The sandbox, the device agent, connectors, media, knowledge, the web client: I/O
  and text. Authorization, policies and schemas: pure functions of one request and
  stored documents.

Not modelled yet:

1. `CollabRun`: `dependsOn`, up to three steps at a time, guard and arbiter roles; is
   a step scheduled twice, is a risky step that is not the first ready one checked.
   It would be composed with the queue as in `WorkflowExecution`.
2. `ClosedLoop`: steps planned one at a time (continue, skip, stop), the approval row
   that is kept on conflict. Its retry is part of `WorkflowExecution`.
3. The kinds of change-set items with repositories of their own, and the promotion
   of a change set whose items write one row twice.
4. Compensation and replay of runs in `WorkflowExecution`; a push without a device in
   `SyncEngine`.
5. The circuit breaker and the rate limits of the model gateway, over counters in
   Redis.

Theorems worth proving next: what two workers of one agent run may still do to each
other after a death, which would turn the bound of `RepeatsBounded` into a theorem
about duplicated tokens; the sum over the tokens can be had by the induction of
`ChangeSetsProofs`.
