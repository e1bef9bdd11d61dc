-------------------------- MODULE WorkflowExecution --------------------------
(* The life of one run: its rows in runs, jobs, steps, approvals and       *)
(* device_executions (Postgres), its "step" messages in the BullMQ queue   *)
(* "workflow", the workers that consume them (processStep.ts, index.ts,    *)
(* deadletter.ts), the API requests that write the same rows (submit,      *)
(* cancel, approve, reject, retry and cancel of a dead letter, result of a *)
(* device; and those that enqueue a step by hand: the continue of an agent *)
(* run, the retry and the approve of a run, the retry of a failed step)    *)
(* and the worker's ticker that resumes device steps.                      *)
(*                                                                         *)
(* Grain: the statements of processStep, of index.ts and of jobRepo.ts     *)
(* commit one by one (they go to a Pool, also between "BEGIN" and          *)
(* "COMMIT"), so a handler is a sequence of actions with a program         *)
(* counter.  Merged into one action are: a read and the writes before it;  *)
(* the writes that one branch sends in a row with no read between them     *)
(* (step, job and run of Park, Drop, CancelTail, Suspend, Stop, RetryDead, *)
(* RetryFailed, CancelDead, Reject; run and job of Requeue); queue.add and *)
(* the queue_job_id written after it, where Submit, a resumption or the    *)
(* retry of a dead letter does it.                                         *)
(* No guard reads the job's status: merging the updates of run and job is  *)
(* a simplification only for JobAgrees, which speaks of runs that nobody   *)
(* has forced (below), where one handler at a time writes them.            *)
(* Fail and FailRun, and the updates of a cancel, stay apart: other writes *)
(* in between matter there.  Only the decision of an approval is a real    *)
(* transaction (approvals.ts): it holds the rows of the run, the job and   *)
(* the approval until it commits.                                          *)
(*                                                                         *)
(* Abstracted: inputs, outputs, digests and seals, audit rows, task        *)
(* states, collaboration rows, the backoff of a retry.  A tool ends well   *)
(* (its effect happens), or with an error that BullMQ retries, or with one *)
(* that it does not (policy_violation, internal); an error may come before *)
(* the effect or after it (a timeout, an output that is too large).        *)
EXTENDS Naturals

CONSTANTS
    Workers,      \* slots of the BullMQ workers of all processes
    NumSteps,     \* steps of the plan; a step is its seq
    AgentRun,     \* TRUE: job type agent.run; FALSE: tool.execute, one step
    Risky,        \* steps whose toolContract asks for an approval
    DeviceSteps,  \* steps whose tool is device.*
    Faulty,       \* bound: steps whose tool may end with an error
    MaxSteps,     \* limits.maxSteps of an agent run
    MaxAttempts,  \* opts.attempts of a message (3 in the code)
    Hands,        \* bound: slots for requests that enqueue a step by hand
    Ops,          \* bound: what operators do: "approve", "reject", "cancel", "retry",
                  \* "cancelDead", "cancelAgent", "rejectRun" and, by hand, "continue",
                  \* "retryRun", "approveRun", "retryStep"
    MaxOps,       \* bound: how many requests operators make
    Faults,       \* bound: the kinds of fault: "stall", "crash", "query", "rollback",
                  \* "apiCrash"
    MaxFaults,    \* bound: how many faults happen
    Resumers      \* who resumes a waiting run: "api", "ticker" (a resumption by the
                  \* API may fail: its error is caught, the ticker is left)

Steps == 1..NumSteps

ASSUME StepsAssumption == NumSteps \in Nat \ {0} /\ MaxSteps \in Nat
ASSUME AttemptsAssumption == MaxAttempts \in Nat \ {0}
ASSUME BoundsAssumption == MaxOps \in Nat /\ MaxFaults \in Nat
ASSUME SubsetsAssumption ==
    Risky \subseteq Steps /\ DeviceSteps \subseteq Steps /\ Faulty \subseteq Steps
ASSUME ResumersAssumption == Resumers \subseteq {"api", "ticker"}
ASSUME AgentAssumption == AgentRun \in BOOLEAN /\ (~AgentRun => NumSteps = 1)

RunStatuses == {"created", "queued", "running", "needs_approval", "needs_device",
                "succeeded", "failed", "canceled", "stopped"}
StepStatuses == {"pending", "running", "succeeded", "failed", "deadletter", "canceled"}
Blocked == {"needs_approval", "needs_device"}
\* The statuses in which a run can no longer be canceled.
Finished == {"succeeded", "failed", "canceled"}

Messages == Steps \X (0..(MaxAttempts - 1))   \* <<step, attemptsMade>>

\* A worker's program counter, the message it works on, whether it still holds
\* the message's lock, what it has read (note) and the step it will enqueue.
WorkerPCs == {"idle", "park", "drop", "begin", "mark", "tool", "lookup", "create", "cancelTail",
              "succeed", "count", "conclude", "fail", "failRun", "suspend", "throw",
              "dead", "schedule", "ask", "askRun", "enqueue", "jobId", "stop", "done"}
Notes == Blocked \cup {"none", "retry", "fatal", "more", "last"}
WorkerStates == [pc : WorkerPCs, step : Steps, made : 0..(MaxAttempts - 1),
                 own : BOOLEAN, note : Notes, next : Steps]
IdleWorker == [pc |-> "idle", step |-> 1, made |-> 0, own |-> FALSE,
               note |-> "none", next |-> 1]

\* The operator's request in progress.
ApiStates == [pc : {"idle", "cancelRun", "overrule", "cancelSteps", "checked", "sent", "retry"},
              step : Steps]
IdleApi == [pc |-> "idle", step |-> 1]

\* A request that enqueues a step by hand.
HandStates == [pc : {"idle", "pick", "requeue", "reset", "resend", "release", "send", "jobId"},
               step : Steps]
IdleHand == [pc |-> "idle", step |-> 1]

\* The rows of device_executions of a step: how many are pending or claimed, and
\* the status of the one that was completed last.
DeviceStates == [open : Nat, last : {"none", "succeeded", "failed"}]
NoExecution == [open |-> 0, last |-> "none"]

ResumerStates == [pc : {"idle", "cas", "send"}, step : Steps]
IdleResumer == [pc |-> "idle", step |-> 1]

VARIABLES
    run,       \* runs.status
    job,       \* jobs.status
    step,      \* steps.status
    hasJobId,  \* steps.queue_job_id is set
    queue,     \* how many messages of each kind wait in the queue
    worker,    \* what each worker slot is doing
    approval,  \* the run's row of approvals: status and step_id
    api,       \* the operator's request in progress
    hand,      \* the requests by hand in progress
    resumer,   \* the resumptions in progress
    device,    \* the device_executions of each step
    effects,   \* history: how often each step's effect happened
    granted,   \* history: steps an operator has decided to approve
    continued, \* history: steps that a continue has picked, approved or not
    forced,    \* history: a request by hand has been made
    ops,       \* operator requests so far
    faults     \* faults so far

vars == <<run, job, step, hasJobId, queue, worker, approval, api, hand, resumer, device,
          effects, granted, continued, forced, ops, faults>>

TypeOK ==
    /\ run \in RunStatuses
    /\ job \in RunStatuses
    /\ step \in [Steps -> StepStatuses]
    /\ hasJobId \in [Steps -> BOOLEAN]
    /\ queue \in [Messages -> Nat]
    /\ worker \in [Workers -> WorkerStates]
    /\ approval \in [status : {"none", "pending", "approved", "rejected"}, step : Steps]
    /\ api \in ApiStates
    /\ hand \in [Hands -> HandStates]
    /\ resumer \in [Resumers -> ResumerStates]
    /\ device \in [Steps -> DeviceStates]
    /\ effects \in [Steps -> Nat]
    /\ granted \subseteq Steps
    /\ continued \subseteq Steps
    /\ forced \in BOOLEAN
    /\ ops \in Nat
    /\ faults \in Nat

\* createJobRunStep or createJobRun and appendStepToRun have inserted the rows.
Init ==
    /\ run = "created"
    /\ job = "queued"
    /\ step = [s \in Steps |-> "pending"]
    /\ hasJobId = [s \in Steps |-> FALSE]
    /\ queue = [m \in Messages |-> 0]
    /\ worker = [w \in Workers |-> IdleWorker]
    /\ approval = [status |-> "none", step |-> 1]
    /\ api = IdleApi
    /\ hand = [h \in Hands |-> IdleHand]
    /\ resumer = [r \in Resumers |-> IdleResumer]
    /\ device = [s \in Steps |-> NoExecution]
    /\ effects = [s \in Steps |-> 0]
    /\ granted = {}
    /\ continued = {}
    /\ forced = FALSE
    /\ ops = 0
    /\ faults = 0

-----------------------------------------------------------------------------
At(w, pc) == worker[w].pc = pc
Goto(w, pc) == worker' = [worker EXCEPT ![w].pc = pc]
Become(w, state) == worker' = [worker EXCEPT ![w] = state]

\* The transaction of an approval holds the rows of the run and its job.
RowsFree == api.pc # "sent"

SetRun(status) == RowsFree /\ run' = status /\ job' = status
SetStep(s, status) == step' = [step EXCEPT ![s] = status]
KeepRun == UNCHANGED <<run, job>>
KeepSteps == UNCHANGED <<step, hasJobId>>

\* steps.status of all pending (and running) steps of the run.
CancelSteps(statuses) ==
    step' = [s \in Steps |-> IF step[s] \in statuses THEN "canceled" ELSE step[s]]

\* enqueueWorkflowStep: queue.add, then queue_job_id.
Enqueue(s) ==
    /\ queue' = [queue EXCEPT ![<<s, 0>>] = @ + 1]
    /\ hasJobId' = [hasJobId EXCEPT ![s] = TRUE]

\* processStep has returned: an agent run goes on to scheduleNextAgentRunStep.
Returned(w) ==
    Become(w, [worker[w] EXCEPT !.pc = IF AgentRun THEN "schedule" ELSE "done",
                                !.note = "none"])

\* Only a worker acts, and these variables stay.
ElseUnchanged == UNCHANGED <<api, hand, resumer, granted, continued, forced, ops, faults>>

\* submitNewToolRun and the agent runtime: ask for an approval of the first
\* step, or enqueue it.
Submit ==
    /\ run = "created"
    /\ IF 1 \in Risky
       THEN /\ SetRun("needs_approval")
            /\ approval' = [status |-> "pending", step |-> 1]
            /\ UNCHANGED <<queue, hasJobId>>
       ELSE /\ SetRun("queued")
            /\ Enqueue(1)
            /\ UNCHANGED approval
    /\ UNCHANGED <<step, worker, device, effects>>
    /\ ElseUnchanged

-----------------------------------------------------------------------------
(* A worker: processStep.                                                  *)

\* What processStep does with a message, by the run's status at its start.
Entry(status) ==
    CASE status \in Blocked -> "park"
      [] status = "canceled" -> "drop"
      [] OTHER -> "begin"

\* A free slot takes a message; processStep reads the run's row.
Fetch(w, s, made) ==
    /\ At(w, "idle")
    /\ queue[<<s, made>>] > 0
    /\ queue' = [queue EXCEPT ![<<s, made>>] = @ - 1]
    /\ Become(w, [pc |-> Entry(run), step |-> s, made |-> made, own |-> TRUE,
                  note |-> IF run \in Blocked THEN run ELSE "none", next |-> s])
    /\ UNCHANGED <<run, job, step, hasJobId, approval, device, effects>>
    /\ ElseUnchanged

\* Variant: the step takes the status of the run.
ParkStatus(w) ==
    /\ At(w, "park")
    /\ RowsFree
    /\ job' = worker[w].note
    /\ SetStep(worker[w].step, worker[w].note)
    /\ Returned(w)
    /\ UNCHANGED <<run, hasJobId, queue, approval, device, effects>>
    /\ ElseUnchanged

\* The run is blocked: the job takes its status, the step goes back to pending.
Park(w) ==
    /\ At(w, "park")
    /\ RowsFree
    /\ job' = worker[w].note
    /\ IF step[worker[w].step] = "succeeded" THEN UNCHANGED step
       ELSE SetStep(worker[w].step, "pending")
    /\ Returned(w)
    /\ UNCHANGED <<run, hasJobId, queue, approval, device, effects>>
    /\ ElseUnchanged

\* The run is canceled: so are the step and the job.
Drop(w) ==
    /\ At(w, "drop")
    /\ RowsFree
    /\ job' = "canceled"
    /\ SetStep(worker[w].step, "canceled")
    /\ Returned(w)
    /\ UNCHANGED <<run, hasJobId, queue, approval, device, effects>>
    /\ ElseUnchanged

\* Variant: the run keeps its status until the step has ended.
BeginSilent(w) ==
    /\ At(w, "begin")
    /\ Goto(w, "mark")
    /\ UNCHANGED <<run, job, step, hasJobId, queue, approval, device, effects>>
    /\ ElseUnchanged

\* The run becomes running, whatever it has become since it was read.
Begin(w) ==
    /\ At(w, "begin")
    /\ RowsFree
    /\ run' = "running"
    /\ Goto(w, "mark")
    /\ UNCHANGED <<job, step, hasJobId, queue, approval, device, effects>>
    /\ ElseUnchanged

\* The step becomes running, whatever it was.
Mark(w) ==
    /\ At(w, "mark")
    /\ SetStep(worker[w].step, "running")
    /\ Goto(w, "tool")
    /\ UNCHANGED <<run, job, hasJobId, queue, approval, device, effects>>
    /\ ElseUnchanged

\* The tool ended well: processStep reads the run's status again.
Verify(w) == Goto(w, IF run = "canceled" THEN "cancelTail" ELSE "succeed")

\* A tool that runs in the worker ends well.
ToolEnds(w) ==
    LET s == worker[w].step IN
    /\ At(w, "tool")
    /\ s \notin DeviceSteps
    /\ effects' = [effects EXCEPT ![s] = @ + 1]
    /\ Verify(w)
    /\ UNCHANGED <<run, job, step, hasJobId, queue, approval, device>>
    /\ ElseUnchanged

\* A tool ends with an error, one that BullMQ retries or one that it does not,
\* before its effect or after it; a device step fails before it asks the device,
\* or because there is none that is active.
ToolFails(w) ==
    LET s == worker[w].step IN
    /\ worker[w].pc \in {"tool", "create"}
    /\ s \in Faulty
    /\ \E kind \in {"retry", "fatal"} :
          Become(w, [worker[w] EXCEPT !.pc = "fail", !.note = kind])
    /\ \/ UNCHANGED effects
       \/ s \notin DeviceSteps /\ effects' = [effects EXCEPT ![s] = @ + 1]
    /\ UNCHANGED <<run, job, step, hasJobId, queue, approval, device>>
    /\ ElseUnchanged

\* Variant: completed executions are not looked up.
FindAnswerForgetful(w) ==
    /\ At(w, "tool")
    /\ worker[w].step \in DeviceSteps
    /\ Goto(w, "lookup")
    /\ UNCHANGED <<run, job, step, hasJobId, queue, approval, device, effects>>
    /\ ElseUnchanged

\* executeDeviceToolDispatch: the result of the execution that was completed last.
FindAnswer(w) ==
    LET s == worker[w].step IN
    /\ At(w, "tool")
    /\ s \in DeviceSteps
    /\ CASE device[s].last = "succeeded" -> Verify(w)
         [] device[s].last = "failed" ->
               Become(w, [worker[w] EXCEPT !.pc = "fail", !.note = "retry"])
         [] OTHER -> Goto(w, "lookup")
    /\ UNCHANGED <<run, job, step, hasJobId, queue, approval, device, effects>>
    /\ ElseUnchanged

\* needs_device while an execution is open.
FindOpen(w) ==
    /\ At(w, "lookup")
    /\ Goto(w, IF device[worker[w].step].open > 0 THEN "suspend" ELSE "create")
    /\ UNCHANGED <<run, job, step, hasJobId, queue, approval, device, effects>>
    /\ ElseUnchanged

\* The execution is inserted, whatever others have inserted since the lookups.
CreateExecution(w) ==
    /\ At(w, "create")
    /\ device' = [device EXCEPT ![worker[w].step].open = @ + 1]
    /\ Goto(w, "suspend")
    /\ UNCHANGED <<run, job, step, hasJobId, queue, approval, effects>>
    /\ ElseUnchanged

\* The run was canceled while the tool ran.
CancelTail(w) ==
    /\ At(w, "cancelTail")
    /\ SetStep(worker[w].step, "canceled")
    /\ SetRun("canceled")
    /\ Returned(w)
    /\ UNCHANGED <<hasJobId, queue, approval, device, effects>>
    /\ ElseUnchanged

Succeed(w) ==
    /\ At(w, "succeed")
    /\ SetStep(worker[w].step, "succeeded")
    /\ Become(w, [worker[w] EXCEPT !.pc = IF AgentRun THEN "count" ELSE "conclude",
                                   !.note = "last"])
    /\ UNCHANGED <<run, job, hasJobId, queue, approval, device, effects>>
    /\ ElseUnchanged

\* Variant: steps that have not started are not counted.
RemainingRunning == {s \in Steps : step[s] = "running"}

\* The steps that keep an agent run going.
Remaining == {s \in Steps : step[s] \in {"pending", "running"}}

Count(w) ==
    /\ At(w, "count")
    /\ Become(w, [worker[w] EXCEPT !.pc = "conclude",
                                   !.note = IF Remaining = {} THEN "last" ELSE "more"])
    /\ UNCHANGED <<run, job, step, hasJobId, queue, approval, device, effects>>
    /\ ElseUnchanged

\* Variant: the run and its job go back to queued after every step.
ConcludeQueued(w) ==
    /\ At(w, "conclude")
    /\ SetRun("queued")
    /\ Returned(w)
    /\ UNCHANGED <<step, hasJobId, queue, approval, device, effects>>
    /\ ElseUnchanged

\* The run and its job go back to queued, or they have succeeded.
Conclude(w) ==
    /\ At(w, "conclude")
    /\ SetRun(IF worker[w].note = "more" THEN "queued" ELSE "succeeded")
    /\ Returned(w)
    /\ UNCHANGED <<step, hasJobId, queue, approval, device, effects>>
    /\ ElseUnchanged

Fail(w) ==
    /\ At(w, "fail")
    /\ SetStep(worker[w].step, "failed")
    /\ Goto(w, "failRun")
    /\ UNCHANGED <<run, job, hasJobId, queue, approval, device, effects>>
    /\ ElseUnchanged

\* Variant: the job is left as it was.
FailRunOnly(w) ==
    /\ At(w, "failRun")
    /\ RowsFree
    /\ run' = "failed"
    /\ IF worker[w].note = "retry" THEN Goto(w, "throw") ELSE Returned(w)
    /\ UNCHANGED <<job, step, hasJobId, queue, approval, device, effects>>
    /\ ElseUnchanged

FailRun(w) ==
    /\ At(w, "failRun")
    /\ SetRun("failed")
    /\ IF worker[w].note = "retry" THEN Goto(w, "throw") ELSE Returned(w)
    /\ UNCHANGED <<step, hasJobId, queue, approval, device, effects>>
    /\ ElseUnchanged

\* Variant: only the step is set back.
SuspendStepOnly(w) ==
    /\ At(w, "suspend")
    /\ SetStep(worker[w].step, "pending")
    /\ Returned(w)
    /\ UNCHANGED <<run, job, hasJobId, queue, approval, device, effects>>
    /\ ElseUnchanged

\* needs_device: the step is pending again, the run and its job wait.
Suspend(w) ==
    /\ At(w, "suspend")
    /\ SetStep(worker[w].step, "pending")
    /\ SetRun("needs_device")
    /\ Returned(w)
    /\ UNCHANGED <<hasJobId, queue, approval, device, effects>>
    /\ ElseUnchanged

-----------------------------------------------------------------------------
(* A worker: what BullMQ does with an error, and index.ts after            *)
(* processStep.                                                            *)

\* Variant: the attempt that is still to come is counted.
GivenUpEarly(made) == made + 2 >= MaxAttempts

\* The "failed" listener: attemptsMade is not below attempts.
GivenUp(made) == made + 1 >= MaxAttempts

\* processStep threw: BullMQ delays and redelivers the message unless it was the
\* last attempt, and the "failed" listener marks a step it holds for given up.
\* For a slot that has lost the lock of its message neither happens.
Throw(w) ==
    LET s == worker[w].step
        made == worker[w].made IN
    /\ At(w, "throw")
    /\ queue' = IF worker[w].own /\ made + 1 < MaxAttempts
                THEN [queue EXCEPT ![<<s, made + 1>>] = @ + 1]
                ELSE queue
    /\ IF worker[w].own /\ GivenUp(made)
       THEN Goto(w, "dead")
       ELSE Become(w, IdleWorker)
    /\ UNCHANGED <<run, job, step, hasJobId, approval, device, effects>>
    /\ ElseUnchanged

\* markWorkflowStepDeadletter: the statuses of the run and the job stay.
Dead(w) ==
    /\ At(w, "dead")
    /\ SetStep(worker[w].step, "deadletter")
    /\ hasJobId' = [hasJobId EXCEPT ![worker[w].step] = TRUE]
    /\ Become(w, IdleWorker)
    /\ UNCHANGED <<run, job, queue, approval, device, effects>>
    /\ ElseUnchanged

\* Variant: a queued run is taken for one that has a message.
NotScheduledQueued == Finished \cup Blocked \cup {"stopped", "queued"}

\* scheduleNextAgentRunStep returns early in these statuses.
NotScheduled == Finished \cup Blocked \cup {"stopped"}

\* Steps that may be scheduled: pending, and without a message.
Candidates == {s \in Steps : step[s] = "pending" /\ ~hasJobId[s]}

\* Variant: an approval is asked for only when the run is submitted.
MoveUnasked(s) == IF s > MaxSteps THEN "stop" ELSE "enqueue"

Move(s) ==
    CASE s > MaxSteps -> "stop"
      [] s \in Risky -> "ask"
      [] OTHER -> "enqueue"

\* Variant: the candidates come in no order.
AnyCandidate(s) == s \in Candidates

\* ORDER BY seq: the first candidate decides what happens next.
First(s) == s \in Candidates /\ \A t \in Candidates : s <= t

Schedule(w) ==
    /\ At(w, "schedule")
    /\ run \notin NotScheduled
    /\ \E s \in Steps :
          /\ First(s)
          /\ Become(w, [worker[w] EXCEPT !.pc = Move(s), !.next = s])
    /\ UNCHANGED <<run, job, step, hasJobId, queue, approval, device, effects>>
    /\ ElseUnchanged

\* The wall time of the run is spent.
OutOfTime(w) ==
    /\ At(w, "schedule")
    /\ run \notin NotScheduled
    /\ Candidates # {}
    /\ Goto(w, "stop")
    /\ UNCHANGED <<run, job, step, hasJobId, queue, approval, device, effects>>
    /\ ElseUnchanged

ScheduleNothing(w) ==
    /\ At(w, "schedule")
    /\ run \notin NotScheduled => Candidates = {}
    /\ Goto(w, "done")
    /\ UNCHANGED <<run, job, step, hasJobId, queue, approval, device, effects>>
    /\ ElseUnchanged

\* The run's one row of approvals is reused for the step.
Ask(w) ==
    /\ At(w, "ask")
    /\ RowsFree
    /\ approval' = [status |-> "pending", step |-> worker[w].next]
    /\ Goto(w, "askRun")
    /\ UNCHANGED <<run, job, step, hasJobId, queue, device, effects>>
    /\ ElseUnchanged

\* Variant: the job is left as it was.
AskRunOnly(w) ==
    /\ At(w, "askRun")
    /\ RowsFree
    /\ run' = "needs_approval"
    /\ Goto(w, "done")
    /\ UNCHANGED <<job, step, hasJobId, queue, approval, device, effects>>
    /\ ElseUnchanged

AskRun(w) ==
    /\ At(w, "askRun")
    /\ SetRun("needs_approval")
    /\ Goto(w, "done")
    /\ UNCHANGED <<step, hasJobId, queue, approval, device, effects>>
    /\ ElseUnchanged

\* Variant: the step is enqueued by the handler and by the scheduler.
EnqueueNextTwice(w) ==
    /\ At(w, "enqueue")
    /\ queue' = [queue EXCEPT ![<<worker[w].next, 0>>] = @ + 2]
    /\ Goto(w, "jobId")
    /\ UNCHANGED <<run, job, step, hasJobId, approval, device, effects>>
    /\ ElseUnchanged

\* queue.add; the next worker may take the message before queue_job_id is set.
EnqueueNext(w) ==
    /\ At(w, "enqueue")
    /\ queue' = [queue EXCEPT ![<<worker[w].next, 0>>] = @ + 1]
    /\ Goto(w, "jobId")
    /\ UNCHANGED <<run, job, step, hasJobId, approval, device, effects>>
    /\ ElseUnchanged

SetJobId(w) ==
    /\ At(w, "jobId")
    /\ hasJobId' = [hasJobId EXCEPT ![worker[w].next] = TRUE]
    /\ Goto(w, "done")
    /\ UNCHANGED <<run, job, step, queue, approval, device, effects>>
    /\ ElseUnchanged

\* stopRunWithBudget.
Stop(w) ==
    /\ At(w, "stop")
    /\ SetRun("stopped")
    /\ CancelSteps({"pending"})
    /\ Goto(w, "done")
    /\ UNCHANGED <<hasJobId, queue, approval, device, effects>>
    /\ ElseUnchanged

\* The handler has returned: BullMQ completes the message.
Done(w) ==
    /\ At(w, "done")
    /\ Become(w, IdleWorker)
    /\ UNCHANGED <<run, job, step, hasJobId, queue, approval, device, effects>>
    /\ ElseUnchanged

\* BullMQ delivers a message again that stalls, the first time; at the second stall
\* of the same message it gives it up, and the "failed" listener marks no dead
\* letter.  Which fault hit which message is not told apart: it may give up any
\* message after the first fault.
Stalled(w) ==
    \/ queue' = [queue EXCEPT ![<<worker[w].step, worker[w].made>>] = @ + 1]
    \/ faults > 0 /\ UNCHANGED queue

\* The message of a slot is delivered again because its lock was not renewed,
\* while the slot goes on (its process was blocked, or cut off from Redis).
Stall(w) ==
    /\ "stall" \in Faults /\ faults < MaxFaults
    /\ worker[w].own /\ ~At(w, "dead")
    /\ faults' = faults + 1
    /\ Stalled(w)
    /\ Become(w, [worker[w] EXCEPT !.own = FALSE])
    /\ UNCHANGED <<run, job, step, hasJobId, approval, api, hand, resumer, device,
                   effects, granted, continued, forced, ops>>

\* The process of a slot dies.  Its message is delivered again, except one that
\* BullMQ has already given up.
Crash(w) ==
    /\ "crash" \in Faults /\ faults < MaxFaults
    /\ worker[w].own
    /\ faults' = faults + 1
    /\ IF At(w, "dead") THEN UNCHANGED queue ELSE Stalled(w)
    /\ Become(w, IdleWorker)
    /\ UNCHANGED <<run, job, step, hasJobId, approval, api, hand, resumer, device,
                   effects, granted, continued, forced, ops>>

\* Where a worker goes when a statement fails: processStep catches an error of the
\* lookup of a device or after the tool and fails the step, other errors go back to
\* BullMQ, and an error of the scheduling is only logged.
Recovery(pc) ==
    CASE pc \in {"lookup", "create", "cancelTail", "succeed", "count", "conclude"} -> "fail"
      [] pc \in {"park", "drop", "begin", "mark", "fail", "failRun", "suspend"} -> "throw"
      [] pc \in {"schedule", "ask", "askRun", "enqueue", "jobId", "stop"} -> "done"
      [] OTHER -> "none"

\* A statement of a worker fails.  After run and job have been concluded it is the
\* update of the job or the audit row that fails.
QueryFails(w) ==
    LET outcome == IF worker[w].note = "more" THEN "queued" ELSE "succeeded" IN
    /\ "query" \in Faults /\ faults < MaxFaults
    /\ Recovery(worker[w].pc) # "none"
    /\ faults' = faults + 1
    /\ \/ KeepRun
       \/ /\ At(w, "conclude") /\ RowsFree
          /\ run' = outcome
          /\ job' \in {job, outcome}
    /\ Become(w, [worker[w] EXCEPT !.pc = Recovery(worker[w].pc),
                                   !.note = IF Recovery(worker[w].pc) = "fail"
                                            THEN "retry" ELSE @])
    /\ UNCHANGED <<step, hasJobId, queue, approval, api, hand, resumer, device,
                   effects, granted, continued, forced, ops>>

Fault(w) == Stall(w) \/ Crash(w) \/ QueryFails(w)

-----------------------------------------------------------------------------
(* Operators: runs.ts, approvals.ts.                                       *)

\* An operator starts one of the requests the instance allows.
Start(op) == api.pc = "idle" /\ op \in Ops /\ ops < MaxOps /\ ops' = ops + 1
Requests(pc, s) == api' = [pc |-> pc, step |-> s]
ByOperator == UNCHANGED <<worker, hand, resumer, device, effects, continued, forced>>

\* The cancel route, and cancelRun after it, find the run not finished.
CancelRead ==
    /\ Start("cancel")
    /\ run \notin Finished \cup {"created"}
    /\ Requests("cancelRun", 1)
    /\ UNCHANGED <<run, job, step, hasJobId, queue, approval, granted, faults>>
    /\ ByOperator

CancelRun ==
    /\ api.pc = "cancelRun"
    /\ run' = IF run \in Finished THEN run ELSE "canceled"
    /\ Requests("cancelSteps", 1)
    /\ UNCHANGED <<job, step, hasJobId, queue, approval, granted, ops, faults>>
    /\ ByOperator

\* The cancel of the agent runtime, and the reject of runs.ts.
OverruleRead ==
    /\ \/ Start("cancelAgent") /\ AgentRun /\ run \notin Finished \cup {"created"}
       \/ Start("rejectRun") /\ run = "needs_approval"
    /\ Requests("overrule", 1)
    /\ UNCHANGED <<run, job, step, hasJobId, queue, approval, granted, faults>>
    /\ ByOperator

\* They cancel the run whatever has become of it.
OverruleRun ==
    /\ api.pc = "overrule"
    /\ run' = "canceled"
    /\ Requests("cancelSteps", 1)
    /\ UNCHANGED <<job, step, hasJobId, queue, approval, granted, ops, faults>>
    /\ ByOperator

\* The steps and the job follow what was read, not what the update did.
CancelRest ==
    /\ api.pc = "cancelSteps"
    /\ CancelSteps({"pending", "running"})
    /\ job' = "canceled"
    /\ api' = IdleApi
    /\ UNCHANGED <<run, hasJobId, queue, approval, granted, ops, faults>>
    /\ ByOperator

\* The checks of an approval before its transaction; the operator has decided.
ApproveCheck ==
    /\ Start("approve")
    /\ approval.status = "pending"
    /\ run = "needs_approval"
    /\ granted' = granted \cup {approval.step}
    /\ Requests("checked", approval.step)
    /\ UNCHANGED <<run, job, step, hasJobId, queue, approval, faults>>
    /\ ByOperator

\* The transaction has locked the approval, found it pending and updated the
\* run and the job; it enqueues the step before it commits.
ApproveSend ==
    /\ api.pc = "checked"
    /\ approval.status = "pending"
    /\ queue' = [queue EXCEPT ![<<api.step, 0>>] = @ + 1]
    /\ Requests("sent", api.step)
    /\ UNCHANGED <<run, job, step, hasJobId, approval, granted, ops, faults>>
    /\ ByOperator

ApproveCommit ==
    /\ api.pc = "sent"
    /\ approval' = [approval EXCEPT !.status = "approved"]
    /\ run' = "queued"
    /\ job' = "queued"
    /\ api' = IdleApi
    /\ UNCHANGED <<step, hasJobId, queue, granted, ops, faults>>
    /\ ByOperator

\* The approval is no longer pending, or the API process dies before the commit.
ApproveRollback ==
    /\ \/ api.pc = "checked" /\ approval.status # "pending" /\ UNCHANGED faults
       \/ /\ api.pc = "sent"
          /\ "rollback" \in Faults /\ faults < MaxFaults
          /\ faults' = faults + 1
    /\ api' = IdleApi
    /\ UNCHANGED <<run, job, step, hasJobId, queue, approval, granted, ops>>
    /\ ByOperator

\* One transaction; it does not look at the run's status.
Reject ==
    /\ Start("reject")
    /\ approval.status = "pending"
    /\ approval' = [approval EXCEPT !.status = "rejected"]
    /\ SetRun("canceled")
    /\ CancelSteps({"pending", "running"})
    /\ UNCHANGED <<hasJobId, queue, api, granted, faults>>
    /\ ByOperator

Retryable(s) == step[s] = "deadletter"

\* retryDeadletterStep, and the message after it.
RetryDead(s) ==
    /\ Start("retry")
    /\ Retryable(s)
    /\ SetStep(s, "pending")
    /\ hasJobId' = [hasJobId EXCEPT ![s] = FALSE]
    /\ SetRun("queued")
    /\ Requests("retry", s)
    /\ UNCHANGED <<queue, approval, granted, faults>>
    /\ ByOperator

RetrySend ==
    /\ api.pc = "retry"
    /\ Enqueue(api.step)
    /\ api' = IdleApi
    /\ UNCHANGED <<run, job, step, approval, granted, ops, faults>>
    /\ ByOperator

\* The API process dies between the two.
RetryCrash ==
    /\ api.pc = "retry"
    /\ "apiCrash" \in Faults /\ faults < MaxFaults
    /\ faults' = faults + 1
    /\ api' = IdleApi
    /\ UNCHANGED <<run, job, step, hasJobId, queue, approval, granted, ops>>
    /\ ByOperator

\* cancelDeadletterStep.
CancelDead(s) ==
    /\ Start("cancelDead")
    /\ step[s] = "deadletter"
    /\ SetStep(s, "canceled")
    /\ hasJobId' = [hasJobId EXCEPT ![s] = FALSE]
    /\ SetRun("canceled")
    /\ UNCHANGED <<api, queue, approval, granted, faults>>
    /\ ByOperator

-----------------------------------------------------------------------------
(* Requests by hand: they enqueue a step and do not look whether a message *)
(* of the run is waiting or a worker is executing it.                      *)

\* An operator starts one of them.
ByHand(h, op, pc, s) ==
    /\ hand[h].pc = "idle" /\ op \in Ops /\ ops < MaxOps
    /\ ops' = ops + 1
    /\ forced' = TRUE
    /\ hand' = [hand EXCEPT ![h] = [pc |-> pc, step |-> s]]
    /\ UNCHANGED <<queue, worker, approval, api, resumer, device, effects, continued, faults>>

\* The continue of an agent run: any status but a finished one and needs_approval.
ContinueRead(h) ==
    /\ ByHand(h, "continue", "pick", 1)
    /\ AgentRun /\ run \notin Finished \cup {"created", "needs_approval"}
    /\ UNCHANGED <<run, job, step, hasJobId, granted>>

\* The retry of a run that has failed.
RetryRunRead(h) ==
    /\ ByHand(h, "retryRun", "requeue", 1)
    /\ run = "failed"
    /\ UNCHANGED <<run, job, step, hasJobId, granted>>

\* The approve of runs.ts takes the step of the run's approval, whatever the
\* status of the approval is.
ApproveRunRead(h) ==
    /\ ByHand(h, "approveRun", "release", approval.step)
    /\ run = "needs_approval"
    /\ granted' = granted \cup {approval.step}
    /\ UNCHANGED <<run, job, step, hasJobId>>

\* The retry of the closed loop: retryFailedStep and setRunAndJobStatus.
RetryFailed(h, s) ==
    /\ ByHand(h, "retryStep", "send", s)
    /\ AgentRun /\ step[s] = "failed"
    /\ SetStep(s, "pending")
    /\ hasJobId' = [hasJobId EXCEPT ![s] = FALSE]
    /\ SetRun("queued")
    /\ UNCHANGED granted

HandGoes(h, pc) == hand' = [hand EXCEPT ![h].pc = pc]
InHand == UNCHANGED <<worker, approval, api, resumer, device, effects, granted, forced,
                      ops, faults>>

\* The first step that is pending and has no message, whatever it asks for.
Pick(h) ==
    /\ hand[h].pc = "pick"
    /\ \/ \E s \in Steps :
             /\ First(s)
             /\ hand' = [hand EXCEPT ![h] = [pc |-> "send", step |-> s]]
             /\ continued' = continued \cup {s}
       \/ Candidates = {} /\ HandGoes(h, "idle") /\ UNCHANGED continued
    /\ UNCHANGED <<run, job, step, hasJobId, queue>>
    /\ InHand

\* The run and its job are queued again, whatever they have become.
Requeue(h) ==
    /\ \/ hand[h].pc = "requeue" /\ HandGoes(h, "reset")
       \/ hand[h].pc = "release" /\ HandGoes(h, "send")
    /\ SetRun("queued")
    /\ UNCHANGED <<step, hasJobId, queue, continued>>
    /\ InHand

\* Every step that has ended without success is pending again.
Reset(h) ==
    LET ended == {s \in Steps : step[s] \in {"failed", "canceled", "deadletter"}} IN
    /\ hand[h].pc = "reset"
    /\ step' = [s \in Steps |-> IF s \in ended THEN "pending" ELSE step[s]]
    /\ hasJobId' = [s \in Steps |-> hasJobId[s] /\ s \notin ended]
    /\ HandGoes(h, "resend")
    /\ UNCHANGED <<run, job, queue, continued>>
    /\ InHand

\* queue.add of the step, or of step 1: its queue_job_id stays empty.
Send(h) ==
    /\ \/ hand[h].pc = "send" /\ HandGoes(h, "jobId")
       \/ hand[h].pc = "resend" /\ HandGoes(h, "idle")
    /\ queue' = [queue EXCEPT ![<<hand[h].step, 0>>] = @ + 1]
    /\ UNCHANGED <<run, job, step, hasJobId, continued>>
    /\ InHand

HandJobId(h) ==
    /\ hand[h].pc = "jobId"
    /\ hasJobId' = [hasJobId EXCEPT ![hand[h].step] = TRUE]
    /\ HandGoes(h, "idle")
    /\ UNCHANGED <<run, job, step, queue, continued>>
    /\ InHand

\* The API process dies in the middle of the request.
HandCrash(h) ==
    /\ hand[h].pc # "idle"
    /\ "apiCrash" \in Faults /\ faults < MaxFaults
    /\ faults' = faults + 1
    /\ HandGoes(h, "idle")
    /\ UNCHANGED <<run, job, step, hasJobId, queue, worker, approval, api, resumer, device,
                   effects, granted, continued, forced, ops>>

-----------------------------------------------------------------------------
(* Devices: the result of an execution, and the two resumptions.           *)
Elsewhere == UNCHANGED <<worker, approval, api, hand, granted, continued, forced, ops, faults>>

\* The device agent reports, a failure perhaps after the effect; the API looks
\* whether the run waits for it.
Report(s) ==
    /\ device[s].open > 0
    /\ "api" \in Resumers => resumer["api"].pc = "idle"
    /\ \E result \in {"succeeded", "failed"} :
          /\ result = "failed" => s \in Faulty
          /\ device' = [device EXCEPT ![s] = [open |-> @.open - 1, last |-> result]]
          /\ \/ effects' = [effects EXCEPT ![s] = @ + 1]
             \/ result = "failed" /\ UNCHANGED effects
    /\ resumer' = IF "api" \in Resumers /\ run = "needs_device"
                  THEN [resumer EXCEPT !["api"] = [pc |-> "cas", step |-> s]]
                  ELSE resumer
    /\ UNCHANGED <<run, job, step, hasJobId, queue>>
    /\ Elsewhere

\* Variant: only executions that succeeded are selected.
AnsweredWell(s) == device[s].last = "succeeded"

Answered(s) == device[s].last # "none"

\* tickDeviceExecutionResume selects a finished execution of a waiting run.
Tick(s) ==
    /\ "ticker" \in Resumers
    /\ resumer["ticker"].pc = "idle"
    /\ Answered(s)
    /\ run = "needs_device"
    /\ resumer' = [resumer EXCEPT !["ticker"] = [pc |-> "cas", step |-> s]]
    /\ UNCHANGED <<run, job, step, hasJobId, queue, device, effects>>
    /\ Elsewhere

\* Only the ticker looks at the number of rows its update changed.
GiveUp(r) == r = "ticker" /\ run # "needs_device"

\* UPDATE runs .. WHERE status = 'needs_device', and the job and the step.
ResumeRun(r) ==
    /\ resumer[r].pc = "cas"
    /\ ~GiveUp(r)
    /\ RowsFree
    /\ run' = IF run = "needs_device" THEN "queued" ELSE run
    /\ job' = "queued"
    /\ hasJobId' = [s \in Steps |-> IF s = resumer[r].step /\ step[s] = "pending"
                                    THEN FALSE ELSE hasJobId[s]]
    /\ resumer' = [resumer EXCEPT ![r].pc = "send"]
    /\ UNCHANGED <<step, queue, device, effects>>
    /\ Elsewhere

ResumeGiveUp(r) ==
    /\ resumer[r].pc = "cas"
    /\ GiveUp(r)
    /\ resumer' = [resumer EXCEPT ![r] = IdleResumer]
    /\ UNCHANGED <<run, job, step, hasJobId, queue, device, effects>>
    /\ Elsewhere

ResumeSend(r) ==
    /\ resumer[r].pc = "send"
    /\ Enqueue(resumer[r].step)
    /\ resumer' = [resumer EXCEPT ![r] = IdleResumer]
    /\ UNCHANGED <<run, job, step, device, effects>>
    /\ Elsewhere

-----------------------------------------------------------------------------
WorkerStep(w) ==
    \/ \E s \in Steps, made \in 0..(MaxAttempts - 1) : Fetch(w, s, made)
    \/ Park(w) \/ Drop(w) \/ Begin(w) \/ Mark(w)
    \/ ToolEnds(w) \/ ToolFails(w)
    \/ FindAnswer(w) \/ FindOpen(w) \/ CreateExecution(w)
    \/ CancelTail(w) \/ Succeed(w) \/ Count(w) \/ Conclude(w)
    \/ Fail(w) \/ FailRun(w) \/ Suspend(w) \/ Throw(w) \/ Dead(w)
    \/ Schedule(w) \/ OutOfTime(w) \/ ScheduleNothing(w) \/ Ask(w) \/ AskRun(w)
    \/ EnqueueNext(w) \/ SetJobId(w) \/ Stop(w) \/ Done(w)

\* The steps of a request that has been started.
ApiStep ==
    \/ Submit \/ CancelRun \/ OverruleRun \/ CancelRest
    \/ ApproveSend \/ ApproveCommit \/ RetrySend

OperatorStep ==
    \/ CancelRead \/ OverruleRead \/ ApproveCheck \/ ApproveRollback \/ Reject
    \/ \E s \in Steps : RetryDead(s) \/ CancelDead(s)
    \/ RetryCrash

\* A request by hand that begins, goes on or dies.
HandStart(h) ==
    \/ ContinueRead(h) \/ RetryRunRead(h) \/ ApproveRunRead(h)
    \/ \E s \in Steps : RetryFailed(h, s)

HandStep(h) == Pick(h) \/ Requeue(h) \/ Reset(h) \/ Send(h) \/ HandJobId(h)

ResumerStep(r) == ResumeRun(r) \/ ResumeGiveUp(r) \/ ResumeSend(r)

Next ==
    \/ \E w \in Workers : WorkerStep(w) \/ Fault(w)
    \/ ApiStep \/ OperatorStep
    \/ \E h \in Hands : HandStart(h) \/ HandStep(h) \/ HandCrash(h)
    \/ \E s \in Steps : Report(s) \/ Tick(s)
    \/ \E r \in Resumers : ResumerStep(r)

Spec == Init /\ [][Next]_vars

\* Workers and requests that have begun go on, and the ticker fires.  Operators
\* may do nothing and devices may never answer.
FairSpec ==
    /\ Spec
    /\ \A w \in Workers : WF_vars(WorkerStep(w))
    /\ WF_vars(ApiStep)
    /\ \A h \in Hands : WF_vars(HandStep(h))
    /\ \A r \in Resumers : WF_vars(ResumerStep(r))
    /\ \A s \in Steps : WF_vars(Tick(s))

-----------------------------------------------------------------------------
(* Properties.                                                             *)

\* The tool of a step that asks for an approval takes effect only after an
\* operator has decided to approve this step, or a continue has picked it.
ApprovalGate == \A s \in Risky : effects[s] > 0 => s \in granted \cup continued

\* Program counters between taking a step up and writing its outcome.
Working == {"begin", "mark", "tool", "lookup", "create", "cancelTail", "succeed", "count",
            "conclude", "fail", "failRun", "suspend"}

\* No two workers execute steps of the run at once, until an operator enqueues a
\* step by hand: the handlers, which write statuses without looking at them, rely
\* on it.
OneExecution ==
    forced \/ \A v, w \in Workers :
        worker[v].pc \in Working /\ worker[w].pc \in Working => v = w

\* Nothing is going to touch the run unless somebody outside acts.
Quiet ==
    /\ \A w \in Workers : worker[w].pc = "idle"
    /\ \A m \in Messages : queue[m] = 0
    /\ api.pc = "idle"
    /\ \A h \in Hands : hand[h].pc = "idle"
    /\ \A r \in Resumers : resumer[r].pc = "idle"

\* A run may be forgotten after a message has been given up, and an agent run when
\* requests by hand make two workers conclude it in turn.
Forgettable == faults > 1 \/ (AgentRun /\ forced)

\* A run that says it is queued or running has a message, or somebody who works
\* on it: it is not forgotten.
NotStranded == run \in {"queued", "running"} => ~Quiet \/ Forgettable

\* When the dust has settled the job tells what the run tells.
JobAgrees == Quiet /\ run # "created" => job = run \/ forced \/ faults > 1

\* A run that reports success has executed its whole plan.
SucceededMeansDone ==
    run = "succeeded" => forced \/ \A s \in Steps : step[s] = "succeeded"

\* A dead letter is dead: no retry of it is on its way and nobody executes it.
DeadIsQuiet ==
    \A s \in Steps : step[s] = "deadletter" /\ ~forced =>
        /\ \A made \in 0..(MaxAttempts - 1) : queue[<<s, made>>] = 0
        /\ \A w \in Workers : worker[w].step = s => worker[w].pc \notin Working

\* Repetitions are bounded, though a redelivered message lets two workers schedule
\* the same run: each fault adds one that does, and each of them enqueues a step
\* at most once more for every approval or retry of an operator.  (A request by
\* hand may let each of these workers enqueue it once more.)
RepeatsBounded ==
    \A s \in Steps : forced \/ effects[s] <= MaxAttempts * (1 + faults) * (1 + ops)

\* A device executes a step once, and once more for each fault that lets another
\* worker look for an execution between the lookups and the insertion.
DeviceRepeatsBounded ==
    \A s \in DeviceSteps : effects[s] <= 1 + faults \/ forced

\* How often a step's effect may happen: a device executes a step once, a tool
\* once per attempt of each message.
Tries == [s \in Steps |-> IF s \in DeviceSteps THEN 1 ELSE MaxAttempts * (1 + MaxOps)]

\* The effects and approvals of a run are those of the abstract plan: in order,
\* none repeated once a later one has happened, the risky ones approved; once an
\* operator has enqueued a step by hand, or a fault has met a step on a device,
\* only the approvals are kept.
Promise == INSTANCE PlanExecution
    WITH Plan <- Steps,
         granted <- Risky \cap (granted \cup continued),
         loose <- forced \/ (DeviceSteps # {} /\ faults > 0)
KeepsPromise == Promise!Spec

\* A run that is under way settles or waits for somebody outside.
Settles ==
    run \in {"queued", "running"} ~> run \notin {"queued", "running"} \/ Forgettable

\* A run that waits for a device that has answered is resumed.
DeviceResumed ==
    \A s \in Steps :
        run = "needs_device" /\ device[s].last \in {"succeeded", "failed"}
            ~> run # "needs_device"

-----------------------------------------------------------------------------
(* What documents and comments of the repository say.                      *)

\* RUN_TRANSITIONS: nothing follows canceled.  A worker that has read the run
\* before the cancel breaks it.
CanceledIsFinal == [][run = "canceled" => run' = "canceled"]_run

\* A risky step is executed only after its approval.  The continue of an agent run
\* breaks it.
ApprovedFirst == \A s \in Risky : effects[s] > 0 => s \in granted

=============================================================================
