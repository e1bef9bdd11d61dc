------------------------- MODULE WorkflowTokenProofs -------------------------
(* One token: a run is carried by one thing at a time, the message of a    *)
(* step, the worker that has taken it, the approval that is waited for,    *)
(* the dead letter or the request that revives it.  No row says so and no  *)
(* lock enforces it; it follows from every handler handing on exactly what *)
(* it took.  OneExecution and DeadIsQuiet are what one sees of it.  It     *)
(* ends with the first request that enqueues a step by hand.               *)
EXTENDS WorkflowExecutionProofs

\* Where the token cannot be duplicated.  Excluded are the two resumers of a device
\* step, which may both enqueue it; lost locks; an approval whose message was sent
\* and whose transaction rolls back; and the death of a worker that has enqueued the
\* next step of an agent run and whose own message is delivered again.
Unduplicated ==
    /\ DeviceSteps = {}
    /\ Faults \subseteq {"query", "apiCrash"} \cup (IF AgentRun THEN {} ELSE {"crash"})

\* A worker of an agent run that has enqueued the next step has passed the token on.
Resting == IF AgentRun THEN {"idle", "jobId", "done"} ELSE {"idle"}
Holds(w) == worker[w].pc \notin Resting

NoMessage == \A m \in Messages : queue[m] = 0
NobodyHolds == \A w \in Workers : ~Holds(w)

\* An approval that may still be decided; one whose message has been sent may not.
Awaiting == approval.status = "pending" /\ api.pc # "sent"

OneMessage ==
    /\ \A m \in Messages : queue[m] <= 1
    /\ \A m, n \in Messages : queue[m] > 0 /\ queue[n] > 0 => m = n

OneHolder == \A v, w \in Workers : Holds(v) /\ Holds(w) => v = w

MessageOrHolder == NoMessage \/ NobodyHolds

\* A request that revives a dead letter is alone with it.
RetryAlone ==
    api.pc = "retry" =>
        /\ NoMessage /\ NobodyHolds
        /\ approval.status # "pending" /\ run # "needs_approval"
        /\ \A s \in Steps : step[s] # "deadletter"

\* The worker that asks for an approval has still to block the run.
AwaitingAlone ==
    Awaiting => NoMessage /\ \A w \in Workers : Holds(w) => worker[w].pc = "askRun"

DeadAlone ==
    \A s \in Steps : step[s] = "deadletter" =>
        /\ NoMessage /\ NobodyHolds /\ ~Awaiting
        /\ \A t \in Steps : step[t] = "deadletter" => t = s

CreatedAlone ==
    run = "created" =>
        /\ NoMessage /\ NobodyHolds
        /\ approval.status = "none" /\ api.pc = "idle"
        /\ \A s \in Steps : step[s] # "deadletter"

\* A run that waits for an approval is blocked until the decision commits.  What has
\* been sent before stays where the blocked run is looked at, or the error it ends in.
Deciding ==
    /\ api.pc \in {"checked", "sent"} => run = "needs_approval"
                                         /\ approval.status = "pending"
    /\ run = "needs_approval" /\ api.pc # "sent" => NoMessage /\ NobodyHolds
    /\ api.pc = "sent" =>
          \A w \in Workers : Holds(w) => worker[w].pc \in {"park", "throw", "dead"}

\* Only an agent run is scheduled by the worker, and nothing waits for a device.
Scheduling == {"schedule", "ask", "askRun", "enqueue", "jobId", "stop"}
PlainPaths ==
    /\ \A w \in Workers : /\ worker[w].pc \notin {"lookup", "create", "suspend"}
                          /\ worker[w].pc \in Scheduling => AgentRun
    /\ \A s \in Steps : device[s] = NoExecution
    /\ \A r \in Resumers : resumer[r].pc = "idle"
    /\ run # "needs_device"

TokenInv ==
    /\ OneMessage /\ OneHolder /\ MessageOrHolder /\ RetryAlone /\ AwaitingAlone
    /\ DeadAlone /\ CreatedAlone /\ Deciding /\ PlainPaths

\* At the start nobody has the token: the run has only been created.
LEMMA InitToken == Init => TokenInv
<1> SUFFICES ASSUME Init PROVE TokenInv
  OBVIOUS
<1>1. /\ NoMessage
      /\ \A w \in Workers : worker[w].pc = "idle"
      /\ \A r \in Resumers : resumer[r].pc = "idle"
      /\ \A s \in Steps : step[s] = "pending" /\ device[s] = NoExecution
      /\ run = "created" /\ approval.status = "none" /\ api.pc = "idle"
  BY DEF Init, NoMessage, IdleWorker, IdleApi, IdleResumer
<1>2. NobodyHolds
  BY <1>1 DEF NobodyHolds, Holds, Resting
<1>3. OneMessage
  BY <1>1 DEF OneMessage, NoMessage
<1>4. OneHolder /\ MessageOrHolder
  BY <1>1, <1>2 DEF OneHolder, MessageOrHolder, NobodyHolds
<1>5. RetryAlone /\ AwaitingAlone /\ DeadAlone /\ CreatedAlone /\ Deciding
  BY <1>1, <1>2 DEF RetryAlone, AwaitingAlone, Awaiting, DeadAlone, CreatedAlone, Deciding
<1>6. PlainPaths
  BY <1>1 DEF PlainPaths, Scheduling
<1> QED
  BY <1>3, <1>4, <1>5, <1>6 DEF TokenInv

-----------------------------------------------------------------------------
(* Steps of workers.                                                       *)

\* A step of a worker is one of that worker.
LEMMA OnlyOneWorker ==
    ASSUME TypeInv, NEW w \in Workers, WorkerStep(w) \/ Fault(w)
    PROVE  /\ \A v \in Workers : v # w => worker'[v] = worker[v]
           /\ api' = api /\ resumer' = resumer
<1>a. worker \in [Workers -> WorkerStates]
  BY DEF TypeInv, TypeOK
<1>1. CASE WorkerStep(w)
  <2>1. \/ \E state : Become(w, state)
        \/ \E pc : Goto(w, pc)
    BY <1>1 DEF WorkerStep, Fetch, Park, Drop, Begin, Mark, ToolEnds, ToolFails, FindAnswer,
       FindOpen, CreateExecution, Verify, CancelTail, Succeed, Count, Conclude, Fail, FailRun, Suspend, Throw, Dead,
       Schedule, OutOfTime, ScheduleNothing, Ask, AskRun, EnqueueNext, SetJobId, Stop, Done,
       Returned
  <2>2. api' = api /\ resumer' = resumer
    BY <1>1 DEF WorkerStep, Fetch, Park, Drop, Begin, Mark, ToolEnds, ToolFails, FindAnswer,
       FindOpen, CreateExecution, CancelTail, Succeed, Count, Conclude, Fail, FailRun, Suspend, Throw, Dead,
       Schedule, OutOfTime, ScheduleNothing, Ask, AskRun, EnqueueNext, SetJobId, Stop, Done,
       ElseUnchanged
  <2> QED
    BY <1>a, <2>1, <2>2 DEF Become, Goto
<1>2. CASE Fault(w)
  BY <1>a, <1>2 DEF Fault, Stall, Crash, QueryFails, Become
<1> QED
  BY <1>1, <1>2

\* The holder of the token goes on, or puts the token down, and leaves queue, requests
\* and approval alone.
HolderMoves(w) ==
    /\ Holds(w)
    /\ \A v \in Workers : v # w => worker'[v] = worker[v]
    /\ UNCHANGED <<queue, api, approval, resumer, device>>
    /\ api.pc = "sent" => run' = run /\ worker'[w].pc \in {"park", "throw", "dead"} \cup Resting
    /\ Awaiting => worker'[w].pc \in {"askRun"} \cup Resting
    /\ run' = "needs_approval" => worker'[w].pc \in Resting \/ api.pc = "sent"
    /\ run' \notin {"created", "needs_device"}
    /\ \A s \in Steps : step'[s] = "deadletter" /\ step[s] # "deadletter" =>
             s = worker[w].step /\ worker'[w].pc \in Resting /\ ~Awaiting
    /\ worker'[w].pc \notin {"lookup", "create", "suspend"}
    /\ worker'[w].pc \in Scheduling => AgentRun

\* The invariant survives what HolderMoves allows.
LEMMA HolderMovesToken ==
    ASSUME TokenInv, NEW w \in Workers, HolderMoves(w)
    PROVE  TokenInv'
<1> USE DEF HolderMoves
<1>1. NoMessage /\ NoMessage' /\ OneMessage'
  BY DEF TokenInv, MessageOrHolder, NobodyHolds, NoMessage, OneMessage
<1>2. \A v \in Workers : v # w => ~Holds(v) /\ ~Holds(v)'
  BY DEF TokenInv, OneHolder, Holds
<1>3. OneHolder' /\ MessageOrHolder'
  BY <1>1, <1>2 DEF OneHolder, MessageOrHolder
<1>4. /\ api.pc \notin {"checked", "retry"}
      /\ \A s \in Steps : step[s] # "deadletter"
  BY DEF TokenInv, Deciding, RetryAlone, DeadAlone, NobodyHolds
<1>5. worker'[w].pc \in Resting => NobodyHolds'
  BY <1>2 DEF NobodyHolds, Holds
<1>6. RetryAlone'
  BY <1>4 DEF RetryAlone
<1>7. AwaitingAlone'
  BY <1>1, <1>2, <1>5 DEF AwaitingAlone, Awaiting, NobodyHolds, Holds
<1>8. DeadAlone'
  BY <1>1, <1>4, <1>5 DEF DeadAlone, Awaiting
<1>9. CreatedAlone'
  BY DEF CreatedAlone
<1>10. Deciding'
  <2>1. api.pc = "sent" => run' = "needs_approval" /\ approval.status = "pending"
    BY DEF TokenInv, Deciding
  <2>2. api.pc = "sent" =>
           \A v \in Workers : Holds(v)' => worker'[v].pc \in {"park", "throw", "dead"}
    BY <1>2 DEF Holds
  <2> QED
    BY <1>1, <1>4, <1>5, <2>1, <2>2 DEF Deciding
<1>11. PlainPaths'
  BY DEF TokenInv, PlainPaths
<1> QED
  BY <1>1, <1>3, <1>6, <1>7, <1>8, <1>9, <1>10, <1>11 DEF TokenInv

\* A worker that does not hold the token goes on without it.
LEMMA RestMovesToken ==
    ASSUME TokenInv, NEW w \in Workers, ~Holds(w), ~Holds(w)',
           \A v \in Workers : v # w => worker'[v] = worker[v],
           UNCHANGED <<run, step, queue, api, approval, resumer, device>>,
           worker'[w].pc \notin {"lookup", "create", "suspend"},
           worker'[w].pc \in Scheduling => AgentRun
    PROVE  TokenInv'
<1>1. \A v \in Workers : Holds(v)' = Holds(v) /\ (Holds(v) => worker'[v] = worker[v])
  BY DEF Holds
<1>2. NobodyHolds' = NobodyHolds /\ NoMessage' = NoMessage /\ Awaiting' = Awaiting
  BY <1>1 DEF NobodyHolds, NoMessage, Awaiting
<1>3. OneMessage' /\ OneHolder' /\ MessageOrHolder'
  BY <1>1, <1>2 DEF TokenInv, OneMessage, OneHolder, MessageOrHolder
<1>4. RetryAlone' /\ AwaitingAlone' /\ DeadAlone' /\ CreatedAlone' /\ Deciding'
  BY <1>1, <1>2 DEF TokenInv, RetryAlone, AwaitingAlone, DeadAlone, CreatedAlone, Deciding
<1>5. PlainPaths'
  BY DEF TokenInv, PlainPaths
<1> QED
  BY <1>3, <1>4, <1>5 DEF TokenInv

\* The holder passes the token on in a message and rests.
HolderSends(w, m) ==
    /\ Holds(w)
    /\ \A v \in Workers : v # w => worker'[v] = worker[v]
    /\ m \in Messages /\ queue' = [queue EXCEPT ![m] = @ + 1]
    /\ UNCHANGED <<run, step, api, approval, resumer, device>>
    /\ worker[w].pc # "askRun"
    /\ worker'[w].pc \in Resting
    /\ worker'[w].pc \in Scheduling => AgentRun

\* The invariant survives a holder that has become a message.
LEMMA HolderSendsToken ==
    ASSUME TokenInv, queue \in [Messages -> Nat],
           NEW w \in Workers, NEW m, HolderSends(w, m)
    PROVE  TokenInv'
<1> USE DEF HolderSends
<1>1. /\ queue'[m] = 1
      /\ \A n \in Messages : n # m => queue'[n] = 0
  BY DEF TokenInv, MessageOrHolder, NobodyHolds, NoMessage
<1>2. OneMessage'
  BY <1>1 DEF OneMessage
<1>3. NobodyHolds'
  BY DEF TokenInv, OneHolder, NobodyHolds, Holds
<1>4. OneHolder' /\ MessageOrHolder'
  BY <1>3 DEF OneHolder, MessageOrHolder, NobodyHolds
<1>5. /\ api.pc \notin {"checked", "retry"} /\ ~Awaiting
      /\ run # "created" /\ (run = "needs_approval" => api.pc = "sent")
      /\ \A s \in Steps : step[s] # "deadletter"
  BY DEF TokenInv, Deciding, RetryAlone, DeadAlone, AwaitingAlone, CreatedAlone, NobodyHolds
<1>6. RetryAlone' /\ AwaitingAlone' /\ DeadAlone' /\ CreatedAlone'
  BY <1>5 DEF RetryAlone, AwaitingAlone, Awaiting, DeadAlone, CreatedAlone
<1>7. Deciding'
  BY <1>3, <1>5 DEF TokenInv, Deciding, NobodyHolds
<1>8. PlainPaths'
  <2>1. worker'[w].pc \notin {"lookup", "create", "suspend"}
    BY DEF Resting
  <2> QED
    BY <2>1 DEF TokenInv, PlainPaths
<1> QED
  BY <1>2, <1>4, <1>6, <1>7, <1>8 DEF TokenInv

\* What the invariant says about the worker that takes a step.
LEMMA HolderFacts ==
    ASSUME TypeInv, TokenInv, NEW w \in Workers
    PROVE  /\ worker \in [Workers -> [pc : WorkerPCs, step : Steps,
                                      made : 0..(MaxAttempts - 1), own : BOOLEAN,
                                      note : Notes, next : Steps]]
           /\ worker[w].step \in Steps /\ worker[w].next \in Steps
           /\ worker[w].made \in 0..(MaxAttempts - 1)
           /\ queue \in [Messages -> Nat] /\ step \in [Steps -> StepStatuses]
           /\ job \in RunStatuses /\ AgentRun \in BOOLEAN
           /\ Holds(w) /\ api.pc = "sent" =>
                 run = "needs_approval" /\ worker[w].pc \in {"park", "throw", "dead"}
           /\ Holds(w) /\ Awaiting => worker[w].pc = "askRun"
           /\ Holds(w) /\ run = "needs_approval" => api.pc = "sent"
           /\ Holds(w) => run \notin {"created", "needs_device"}
           /\ worker[w].pc \notin {"lookup", "create", "suspend"}
           /\ worker[w].pc \in Scheduling => AgentRun
           /\ AgentRun => Resting = {"idle", "jobId", "done"}
           /\ ~AgentRun => Resting = {"idle"}
           /\ worker[w].own => worker[w].pc # "idle"
<1>1. worker \in [Workers -> [pc : WorkerPCs, step : Steps, made : 0..(MaxAttempts - 1),
                             own : BOOLEAN, note : Notes, next : Steps]]
  BY DEF TypeInv, TypeOK, WorkerStates
<1>2. /\ worker[w].step \in Steps /\ worker[w].next \in Steps
      /\ worker[w].made \in 0..(MaxAttempts - 1)
  BY <1>1
<1>3. /\ queue \in [Messages -> Nat] /\ step \in [Steps -> StepStatuses]
      /\ job \in RunStatuses /\ AgentRun \in BOOLEAN
  BY AgentAssumption DEF TypeInv, TypeOK
<1>4. /\ Holds(w) /\ api.pc = "sent" =>
            run = "needs_approval" /\ worker[w].pc \in {"park", "throw", "dead"}
      /\ Holds(w) /\ Awaiting => worker[w].pc = "askRun"
      /\ Holds(w) /\ run = "needs_approval" => api.pc = "sent"
      /\ Holds(w) => run \notin {"created", "needs_device"}
      /\ worker[w].pc \notin {"lookup", "create", "suspend"}
      /\ worker[w].pc \in Scheduling => AgentRun
  BY DEF TokenInv, Deciding, AwaitingAlone, CreatedAlone, NobodyHolds, PlainPaths
<1>5. /\ AgentRun => Resting = {"idle", "jobId", "done"}
      /\ ~AgentRun => Resting = {"idle"}
  BY DEF Resting
<1>6. worker[w].own => worker[w].pc # "idle"
  BY DEF TypeInv, WorkersConsistent, Consistent
<1> QED
  BY <1>1, <1>2, <1>3, <1>4, <1>5, <1>6

\* The actions in which the holder keeps the token or puts it down.
HolderAction(w) ==
    \/ Park(w) \/ Drop(w) \/ Begin(w) \/ Mark(w) \/ ToolEnds(w) \/ ToolFails(w)
    \/ CancelTail(w) \/ Succeed(w) \/ Count(w) \/ Conclude(w) \/ Fail(w) \/ FailRun(w)
    \/ Dead(w) \/ Schedule(w) \/ OutOfTime(w) \/ ScheduleNothing(w) \/ AskRun(w) \/ Stop(w)
    \/ Throw(w) /\ ~(worker[w].own /\ worker[w].made + 1 < MaxAttempts)
    \/ Holds(w) /\ (Done(w) \/ QueryFails(w))
    \/ Crash(w) /\ (At(w, "dead") \/ queue' = queue)

\* They are moves in the sense of HolderMoves.
LEMMA HolderActionMoves ==
    ASSUME Unduplicated, TypeInv, TokenInv, NEW w \in Workers, HolderAction(w),
           WorkerStep(w) \/ Fault(w)
    PROVE  HolderMoves(w)
<1>a. worker \in [Workers -> [pc : WorkerPCs, step : Steps, made : 0..(MaxAttempts - 1),
                             own : BOOLEAN, note : Notes, next : Steps]]
  BY HolderFacts
<1>b. /\ \A v \in Workers : v # w => worker'[v] = worker[v]
      /\ api' = api /\ resumer' = resumer
  BY OnlyOneWorker DEF WorkerStep, Fault
<1>c. /\ Holds(w) /\ api.pc = "sent" =>
            run = "needs_approval" /\ worker[w].pc \in {"park", "throw", "dead"}
      /\ Holds(w) /\ Awaiting => worker[w].pc = "askRun"
      /\ Holds(w) /\ run = "needs_approval" => api.pc = "sent"
      /\ Holds(w) => run \notin {"created", "needs_device"}
      /\ worker[w].pc \notin {"lookup", "create", "suspend"}
      /\ worker[w].pc \in Scheduling => AgentRun
  BY HolderFacts
<1>d. /\ queue \in [Messages -> Nat] /\ step \in [Steps -> StepStatuses]
      /\ job \in RunStatuses /\ AgentRun \in BOOLEAN
  BY HolderFacts
<1>e. worker[w].step \in Steps /\ worker[w].next \in Steps
      /\ worker[w].made \in 0..(MaxAttempts - 1)
  BY HolderFacts
<1> USE DEF At
<1>f. /\ AgentRun => Resting = {"idle", "jobId", "done"}
      /\ ~AgentRun => Resting = {"idle"}
  BY HolderFacts
<1>1. CASE Park(w)
  BY <1>1, <1>a, <1>b, <1>c, <1>d, <1>e, <1>f
     DEF HolderMoves, Park, RowsFree, SetStep, Returned, Become, ElseUnchanged, Holds,
     Scheduling
<1>2. CASE Drop(w)
  BY <1>2, <1>a, <1>b, <1>c, <1>d, <1>e, <1>f
     DEF HolderMoves, Drop, RowsFree, SetStep, Returned, Become, ElseUnchanged, Holds,
     Scheduling
<1>3. CASE Begin(w)
  BY <1>3, <1>a, <1>b, <1>c, <1>d, <1>e, <1>f
     DEF HolderMoves, Begin, RowsFree, Goto, ElseUnchanged, Holds, Scheduling
<1>4. CASE Mark(w)
  BY <1>4, <1>a, <1>b, <1>c, <1>d, <1>e, <1>f
     DEF HolderMoves, Mark, SetStep, Goto, ElseUnchanged, Holds, Scheduling
<1>5. CASE ToolEnds(w)
  BY <1>5, <1>a, <1>b, <1>c, <1>d, <1>e, <1>f
     DEF HolderMoves, ToolEnds, Verify, Goto, ElseUnchanged, Holds, Scheduling
<1>6. CASE ToolFails(w)
  <2>1. worker'[w].pc = "fail"
    BY <1>6, <1>a DEF ToolFails, Become
  <2> QED
    BY <2>1, <1>6, <1>b, <1>c, <1>f
       DEF HolderMoves, ToolFails, ElseUnchanged, Holds, Scheduling
<1>7. CASE CancelTail(w)
  BY <1>7, <1>a, <1>b, <1>c, <1>d, <1>e, <1>f
     DEF HolderMoves, CancelTail, SetStep, SetRun, RowsFree, Returned, Become,
     ElseUnchanged, Holds, Scheduling
<1>8. CASE Succeed(w)
  BY <1>8, <1>a, <1>b, <1>c, <1>d, <1>e, <1>f
     DEF HolderMoves, Succeed, SetStep, Become, ElseUnchanged, Holds, Scheduling
<1>9. CASE Count(w)
  BY <1>9, <1>a, <1>b, <1>c, <1>d, <1>e, <1>f
     DEF HolderMoves, Count, Become, ElseUnchanged, Holds, Scheduling
<1>10. CASE Conclude(w)
  BY <1>10, <1>a, <1>b, <1>c, <1>d, <1>e, <1>f
     DEF HolderMoves, Conclude, SetRun, RowsFree, Returned, Become, ElseUnchanged, Holds,
     Scheduling
<1>11. CASE Fail(w)
  BY <1>11, <1>a, <1>b, <1>c, <1>d, <1>e, <1>f
     DEF HolderMoves, Fail, SetStep, Goto, ElseUnchanged, Holds, Scheduling
<1>12. CASE FailRun(w)
  <2>1. \/ worker'[w].pc = "throw"
        \/ worker'[w].pc = IF AgentRun THEN "schedule" ELSE "done"
    <3>1. Goto(w, "throw") \/ Returned(w)
      BY <1>12 DEF FailRun
    <3>2. CASE Goto(w, "throw")
      BY <3>2, <1>a DEF Goto
    <3>3. CASE Returned(w)
      BY <3>3, <1>a DEF Returned, Become
    <3> QED
      BY <3>1, <3>2, <3>3
  <2> QED
    BY <2>1, <1>12, <1>b, <1>c, <1>d, <1>f
       DEF HolderMoves, FailRun, SetRun, RowsFree, ElseUnchanged, Holds, Scheduling
<1>13. CASE Dead(w)
  BY <1>13, <1>a, <1>b, <1>c, <1>d, <1>e, <1>f
     DEF HolderMoves, Dead, SetStep, Become, IdleWorker, ElseUnchanged, Holds, Scheduling
<1>14. CASE Schedule(w)
  BY <1>14, <1>a, <1>b, <1>c, <1>d, <1>e, <1>f
     DEF HolderMoves, Schedule, Become, Move, NotScheduled, Blocked, ElseUnchanged, Holds,
     Scheduling
<1>15. CASE OutOfTime(w)
  BY <1>15, <1>a, <1>b, <1>c, <1>d, <1>e, <1>f
     DEF HolderMoves, OutOfTime, Goto, NotScheduled, Blocked, ElseUnchanged, Holds, Scheduling
<1>16. CASE ScheduleNothing(w)
  BY <1>16, <1>a, <1>b, <1>c, <1>d, <1>e, <1>f
     DEF HolderMoves, ScheduleNothing, Goto, ElseUnchanged, Holds, Scheduling
<1>17. CASE AskRun(w)
  BY <1>17, <1>a, <1>b, <1>c, <1>d, <1>e, <1>f
     DEF HolderMoves, AskRun, SetRun, RowsFree, Goto, ElseUnchanged, Holds, Scheduling
<1>18. CASE Stop(w)
  BY <1>18, <1>a, <1>b, <1>c, <1>d, <1>e, <1>f
     DEF HolderMoves, Stop, SetRun, RowsFree, CancelSteps, Goto, ElseUnchanged, Holds,
     Scheduling
<1>19. CASE Throw(w) /\ ~(worker[w].own /\ worker[w].made + 1 < MaxAttempts)
  <2>1. worker'[w].pc \in {"idle", "dead"}
    BY <1>19, <1>a DEF Throw, Become, Goto, IdleWorker
  <2> QED
    BY <1>19, <2>1, <1>b, <1>c, <1>f
       DEF HolderMoves, Throw, ElseUnchanged, Holds, Scheduling
<1>20. CASE Holds(w) /\ Done(w)
  <2>1. worker'[w].pc = "idle"
    BY <1>20, <1>a, <1>f DEF Done, Become, IdleWorker
  <2> QED
    BY <1>20, <2>1, <1>b, <1>c, <1>f DEF HolderMoves, Done, ElseUnchanged, Scheduling
<1>21. CASE Holds(w) /\ QueryFails(w)
  <2>1. worker'[w].pc = Recovery(worker[w].pc)
    BY <1>21, <1>a DEF QueryFails, Become
  <2> QED
    BY <1>21, <2>1, <1>b, <1>c, <1>f
       DEF HolderMoves, QueryFails, Recovery, KeepRun, RowsFree, Scheduling
<1>22. CASE Crash(w) /\ (At(w, "dead") \/ queue' = queue)
  <2>1. ~AgentRun /\ Holds(w) /\ worker'[w].pc = "idle"
    BY <1>22, <1>a, <1>f DEF Crash, Unduplicated, Become, IdleWorker, Holds, TypeInv,
       WorkersConsistent, Consistent
  <2>2. queue' = queue
    BY <1>22 DEF Crash
  <2> QED
    BY <1>22, <2>1, <2>2, <1>b, <1>c, <1>f DEF HolderMoves, Crash, Scheduling
<1> QED
  BY <1>1, <1>2, <1>3, <1>4, <1>5, <1>6, <1>7, <1>8, <1>9, <1>10, <1>11, <1>12,
     <1>13, <1>14, <1>15, <1>16, <1>17, <1>18, <1>19, <1>20, <1>21, <1>22
     DEF HolderAction

\* Those in which it becomes a message: the retry of a step, the next step, and the
\* step of a worker that dies.
LEMMA HolderActionSends ==
    ASSUME Unduplicated, TypeInv, TokenInv, NEW w \in Workers,
           WorkerStep(w) \/ Fault(w)
    PROVE  /\ Throw(w) /\ worker[w].own /\ worker[w].made + 1 < MaxAttempts
                 => /\ HolderSends(w, <<worker[w].step, worker[w].made + 1>>)
                    /\ worker[w].made + 1 \in 0..(MaxAttempts - 1)
                    /\ worker'[w].pc = "idle"
           /\ EnqueueNext(w) => /\ HolderSends(w, <<worker[w].next, 0>>)
                                /\ worker'[w] = [worker[w] EXCEPT !.pc = "jobId"]
           /\ Crash(w) /\ ~At(w, "dead") /\ queue' # queue
                 => /\ HolderSends(w, <<worker[w].step, worker[w].made>>)
                    /\ worker'[w].pc = "idle"
<1>a. worker \in [Workers -> [pc : WorkerPCs, step : Steps, made : 0..(MaxAttempts - 1),
                             own : BOOLEAN, note : Notes, next : Steps]]
  BY HolderFacts
<1>b. /\ \A v \in Workers : v # w => worker'[v] = worker[v]
      /\ api' = api /\ resumer' = resumer
  BY OnlyOneWorker DEF WorkerStep, Fault
<1>c. /\ Holds(w) /\ api.pc = "sent" =>
            run = "needs_approval" /\ worker[w].pc \in {"park", "throw", "dead"}
      /\ Holds(w) /\ Awaiting => worker[w].pc = "askRun"
      /\ Holds(w) /\ run = "needs_approval" => api.pc = "sent"
      /\ Holds(w) => run \notin {"created", "needs_device"}
      /\ worker[w].pc \notin {"lookup", "create", "suspend"}
      /\ worker[w].pc \in Scheduling => AgentRun
  BY HolderFacts
<1>d. /\ queue \in [Messages -> Nat] /\ step \in [Steps -> StepStatuses]
      /\ job \in RunStatuses /\ AgentRun \in BOOLEAN
  BY HolderFacts
<1>e. worker[w].step \in Steps /\ worker[w].next \in Steps
      /\ worker[w].made \in 0..(MaxAttempts - 1)
  BY HolderFacts
<1> USE DEF At
<1>f. /\ AgentRun => Resting = {"idle", "jobId", "done"}
      /\ ~AgentRun => Resting = {"idle"}
  BY HolderFacts
<1>1. ASSUME Throw(w), worker[w].own, worker[w].made + 1 < MaxAttempts
      PROVE  /\ HolderSends(w, <<worker[w].step, worker[w].made + 1>>)
             /\ worker[w].made + 1 \in 0..(MaxAttempts - 1)
             /\ worker'[w].pc = "idle"
  <2>1. worker'[w].pc = "idle"
    BY <1>1, <1>a, <1>e, AttemptsAssumption DEF Throw, GivenUp, Become, IdleWorker
  <2> DEFINE m == <<worker[w].step, worker[w].made + 1>>
  <2>2. worker[w].made + 1 \in 0..(MaxAttempts - 1)
    BY <1>1, <1>e, AttemptsAssumption
  <2>3. m \in Messages /\ queue' = [queue EXCEPT ![m] = @ + 1]
    BY <1>1, <1>e, <2>2, AttemptsAssumption DEF Throw, Messages
  <2> HIDE DEF m
  <2>4. HolderSends(w, m)
    BY <1>1, <2>1, <2>3, <1>b, <1>c, <1>d, <1>f
       DEF HolderSends, Throw, ElseUnchanged, Holds, Scheduling
  <2> QED
    BY <2>1, <2>2, <2>4 DEF m
<1>2. ASSUME EnqueueNext(w)
      PROVE  /\ HolderSends(w, <<worker[w].next, 0>>)
             /\ worker'[w] = [worker[w] EXCEPT !.pc = "jobId"]
  <2> DEFINE m == <<worker[w].next, 0>>
  <2>1. /\ AgentRun /\ Holds(w)
        /\ worker'[w] = [worker[w] EXCEPT !.pc = "jobId"] /\ worker'[w].pc = "jobId"
    BY <1>2, <1>a, <1>c, <1>f DEF EnqueueNext, Goto, Holds, Scheduling
  <2>2. m \in Messages /\ queue' = [queue EXCEPT ![m] = @ + 1]
    BY <1>2, <1>e, AttemptsAssumption DEF EnqueueNext, Messages
  <2> HIDE DEF m
  <2>3. HolderSends(w, m)
    BY <1>2, <2>1, <2>2, <1>b, <1>c, <1>d, <1>f
       DEF HolderSends, EnqueueNext, ElseUnchanged, Scheduling
  <2> QED
    BY <2>1, <2>3 DEF m
<1>3. ASSUME Crash(w), ~At(w, "dead"), queue' # queue
      PROVE  /\ HolderSends(w, <<worker[w].step, worker[w].made>>)
             /\ worker'[w].pc = "idle"
  <2>1. ~AgentRun /\ Holds(w) /\ worker'[w].pc = "idle"
    BY <1>3, <1>a, <1>f DEF Crash, Unduplicated, Become, IdleWorker, Holds, TypeInv,
       WorkersConsistent, Consistent
  <2> DEFINE m == <<worker[w].step, worker[w].made>>
  <2>2. m \in Messages /\ queue' = [queue EXCEPT ![m] = @ + 1]
    BY <1>3, <1>e DEF Crash, Stalled, Messages
  <2> HIDE DEF m
  <2>3. HolderSends(w, m)
    BY <1>3, <2>1, <2>2, <1>b, <1>c, <1>d, <1>f DEF HolderSends, Crash, Scheduling
  <2> QED
    BY <2>1, <2>3 DEF m
<1> QED
  BY <1>1, <1>2, <1>3

\* A step of a worker, or a fault that befalls it.
LEMMA WorkerToken ==
    ASSUME Unduplicated, TypeInv, TokenInv, NEW w \in Workers, WorkerStep(w) \/ Fault(w)
    PROVE  TokenInv'
<1>a. worker \in [Workers -> [pc : WorkerPCs, step : Steps, made : 0..(MaxAttempts - 1),
                             own : BOOLEAN, note : Notes, next : Steps]]
  BY HolderFacts
<1>b. /\ \A v \in Workers : v # w => worker'[v] = worker[v]
      /\ api' = api /\ resumer' = resumer
  BY OnlyOneWorker DEF WorkerStep, Fault
<1>c. /\ Holds(w) /\ api.pc = "sent" =>
            run = "needs_approval" /\ worker[w].pc \in {"park", "throw", "dead"}
      /\ Holds(w) /\ Awaiting => worker[w].pc = "askRun"
      /\ Holds(w) /\ run = "needs_approval" => api.pc = "sent"
      /\ Holds(w) => run \notin {"created", "needs_device"}
      /\ worker[w].pc \notin {"lookup", "create", "suspend"}
      /\ worker[w].pc \in Scheduling => AgentRun
  BY HolderFacts
<1>d. /\ queue \in [Messages -> Nat] /\ step \in [Steps -> StepStatuses]
      /\ job \in RunStatuses /\ AgentRun \in BOOLEAN
  BY HolderFacts
<1>e. worker[w].step \in Steps /\ worker[w].next \in Steps
      /\ worker[w].made \in 0..(MaxAttempts - 1)
  BY HolderFacts
<1> USE DEF At
<1>f. /\ AgentRun => Resting = {"idle", "jobId", "done"}
      /\ ~AgentRun => Resting = {"idle"}
  BY HolderFacts
<1>1. ASSUME NEW s \in Steps, NEW made \in 0..(MaxAttempts - 1), Fetch(w, s, made)
      PROVE  TokenInv'
  <2>1. <<s, made>> \in Messages /\ queue[<<s, made>>] > 0
    BY <1>1 DEF Fetch, Messages
  <2>2. NobodyHolds /\ \A m \in Messages : m # <<s, made>> => queue[m] = 0
    BY <2>1, <1>d DEF TokenInv, MessageOrHolder, NoMessage, OneMessage
  <2>3. NoMessage'
    BY <1>1, <2>1, <2>2, <1>d DEF Fetch, TokenInv, OneMessage, NoMessage
  <2>4. \A v \in Workers : v # w => ~Holds(v)'
    BY <2>2, <1>b DEF NobodyHolds, Holds
  <2>5. /\ UNCHANGED <<run, step, approval, device>>
        /\ worker'[w].pc = Entry(run)
    BY <1>1, <1>a DEF Fetch, Become
  <2>6. /\ api.pc \notin {"checked", "retry"} /\ ~Awaiting
        /\ \A t \in Steps : step[t] # "deadletter"
        /\ run \notin {"created", "needs_device"}
        /\ run = "needs_approval" => api.pc = "sent"
        /\ api.pc = "sent" => run = "needs_approval" /\ approval.status = "pending"
    BY <2>1 DEF TokenInv, RetryAlone, AwaitingAlone, DeadAlone, CreatedAlone, Deciding,
       PlainPaths, NoMessage
  <2>7. /\ Entry(run) \in {"park", "drop", "begin"}
        /\ run = "needs_approval" => Entry(run) = "park"
    BY DEF Entry, Blocked
  <2>8. OneMessage' /\ OneHolder' /\ MessageOrHolder'
    BY <2>3, <2>4 DEF OneMessage, NoMessage, OneHolder, MessageOrHolder
  <2>9. RetryAlone' /\ AwaitingAlone' /\ DeadAlone' /\ CreatedAlone'
    BY <2>5, <2>6, <1>b DEF RetryAlone, AwaitingAlone, Awaiting, DeadAlone, CreatedAlone
  <2>10. Deciding'
    BY <2>4, <2>5, <2>6, <2>7, <1>b DEF Deciding
  <2>11. PlainPaths'
    BY <2>5, <2>7, <1>b DEF TokenInv, PlainPaths, Scheduling
  <2> QED
    BY <2>8, <2>9, <2>10, <2>11 DEF TokenInv
<1>2. CASE HolderAction(w)
  BY <1>2, HolderActionMoves, HolderMovesToken
<1>3. CASE Ask(w)
  <2>1. Holds(w) /\ api.pc # "sent" /\ worker'[w].pc = "askRun"
    BY <1>3, <1>a, <1>f DEF Ask, RowsFree, Goto, Holds
  <2>2. /\ NoMessage /\ NoMessage'
        /\ \A v \in Workers : v # w => ~Holds(v)'
        /\ api.pc \notin {"checked", "retry"}
        /\ \A s \in Steps : step[s] # "deadletter"
        /\ run \notin {"created", "needs_approval"}
    BY <1>3, <2>1, <1>b, <1>c DEF Ask, TokenInv, MessageOrHolder, NobodyHolds, NoMessage,
       OneHolder, Holds, Deciding, RetryAlone, DeadAlone
  <2>3. OneMessage' /\ OneHolder' /\ MessageOrHolder'
    BY <2>2 DEF OneMessage, NoMessage, OneHolder, MessageOrHolder
  <2>4. RetryAlone' /\ AwaitingAlone' /\ DeadAlone' /\ CreatedAlone' /\ Deciding'
    BY <1>3, <2>1, <2>2, <1>b DEF Ask, RetryAlone, AwaitingAlone, DeadAlone, CreatedAlone,
       Deciding
  <2>5. PlainPaths'
    BY <1>3, <2>1, <1>b, <1>c DEF Ask, TokenInv, PlainPaths, Scheduling
  <2> QED
    BY <2>3, <2>4, <2>5 DEF TokenInv
<1>4. CASE \/ Throw(w) /\ worker[w].own /\ worker[w].made + 1 < MaxAttempts
           \/ EnqueueNext(w)
           \/ Crash(w) /\ ~At(w, "dead") /\ queue' # queue
  BY <1>4, <1>d, HolderActionSends, HolderSendsToken
<1>5. CASE SetJobId(w)
  <2>1. AgentRun /\ ~Holds(w) /\ worker'[w].pc = "done" /\ ~Holds(w)'
    BY <1>5, <1>a, <1>c, <1>f DEF SetJobId, Goto, Holds, Scheduling
  <2> QED
    BY <1>5, <2>1, <1>b, RestMovesToken DEF SetJobId, ElseUnchanged, Scheduling
<1>6. CASE Done(w) /\ ~Holds(w)
  <2>1. worker'[w].pc = "idle" /\ ~Holds(w)'
    BY <1>6, <1>a, <1>f DEF Done, Become, IdleWorker, Holds
  <2> QED
    BY <1>6, <2>1, <1>b, RestMovesToken DEF Done, ElseUnchanged, Scheduling
<1>7. CASE QueryFails(w) /\ ~Holds(w)
  <2>1. worker'[w].pc = Recovery(worker[w].pc)
    BY <1>7, <1>a DEF QueryFails, Become
  <2>2. AgentRun /\ worker[w].pc = "jobId" /\ worker'[w].pc = "done"
    BY <1>7, <2>1, <1>f DEF QueryFails, Recovery, Holds
  <2>3. ~Holds(w)'
    BY <2>2, <1>f DEF Holds
  <2>4. run' = run
    BY <1>7, <2>2 DEF QueryFails, KeepRun
  <2> QED
    BY <1>7, <2>2, <2>3, <2>4, <1>b, RestMovesToken DEF QueryFails, Scheduling
<1>8. CASE FindAnswer(w) \/ FindOpen(w) \/ CreateExecution(w) \/ Suspend(w) \/ Stall(w)
  BY <1>8, <1>c DEF FindAnswer, FindOpen, CreateExecution, Suspend, Stall, Unduplicated
<1> QED
  BY <1>1, <1>2, <1>3, <1>4, <1>5, <1>6, <1>7, <1>8 DEF WorkerStep, Fault, HolderAction

-----------------------------------------------------------------------------
(* Steps of requests, devices and resumptions.                             *)

\* A request puts the token into a message while nobody holds it.
LEMMA SendToken ==
    ASSUME queue \in [Messages -> Nat], NoMessage, NobodyHolds, NEW s \in Steps,
           queue' = [queue EXCEPT ![<<s, 0>>] = @ + 1], worker' = worker
    PROVE  OneMessage' /\ OneHolder' /\ MessageOrHolder' /\ NobodyHolds'
<1>1. <<s, 0>> \in Messages
  BY AttemptsAssumption DEF Messages
<1>2. OneMessage'
  BY <1>1 DEF NoMessage, OneMessage
<1>3. NobodyHolds'
  BY DEF NobodyHolds, Holds
<1> QED
  BY <1>2, <1>3 DEF NobodyHolds, OneHolder, MessageOrHolder

\* A request that sends a message holds the token itself; other requests leave it where it is,
\* and nothing waits for a device.
LEMMA OtherToken ==
    ASSUME Unduplicated, TypeInv, TokenInv,
           \/ ApiStep \/ OperatorStep
           \/ \E s \in Steps : Report(s) \/ Tick(s)
           \/ \E r \in Resumers : ResumerStep(r)
    PROVE  TokenInv'
<1>a. /\ worker' = worker
      /\ NobodyHolds' = NobodyHolds /\ OneHolder' = OneHolder
      /\ \A w \in Workers : Holds(w)' = Holds(w)
  BY OthersLeaveWorkers DEF Holds, NobodyHolds, OneHolder
<1>b. /\ queue \in [Messages -> Nat] /\ step \in [Steps -> StepStatuses]
      /\ api.step \in Steps /\ 1 \in Steps
      /\ api \in ApiStates
      /\ approval \in [status : {"none", "pending", "approved", "rejected"}, step : Steps]
  BY StepsAssumption DEF TypeInv, TypeOK, ApiStates, Steps
<1>c. /\ OneMessage /\ OneHolder /\ MessageOrHolder /\ RetryAlone /\ AwaitingAlone
      /\ DeadAlone /\ CreatedAlone /\ Deciding /\ PlainPaths
  BY DEF TokenInv
<1>d. queue' = queue => /\ OneMessage' = OneMessage /\ NoMessage' = NoMessage
                        /\ MessageOrHolder' = MessageOrHolder
  BY <1>a DEF OneMessage, NoMessage, MessageOrHolder
<1>e. UNCHANGED <<device, resumer>> /\ run' # "needs_device" => PlainPaths'
  BY <1>a, <1>c DEF PlainPaths
<1> USE DEF TokenInv
<1>1. CASE Submit
  <2>1. /\ NoMessage /\ NobodyHolds /\ approval.status = "none" /\ api.pc = "idle"
        /\ \A s \in Steps : step[s] # "deadletter"
        /\ UNCHANGED <<step, api, device, resumer>>
    BY <1>1, <1>c DEF Submit, ElseUnchanged, CreatedAlone
  <2>2. CASE 1 \in Risky
    BY <1>1, <2>1, <2>2, <1>a, <1>d, <1>e
       DEF Submit, SetRun, NobodyHolds, RetryAlone, AwaitingAlone, Awaiting, DeadAlone,
       CreatedAlone, Deciding, MessageOrHolder, OneMessage, OneHolder
  <2>3. CASE 1 \notin Risky
    <3>1. OneMessage' /\ OneHolder' /\ MessageOrHolder' /\ NobodyHolds'
      BY <1>1, <2>1, <2>3, <1>a, <1>b, SendToken DEF Submit, Enqueue
    <3> QED
      BY <1>1, <2>1, <2>3, <3>1, <1>e
         DEF Submit, SetRun, RetryAlone, AwaitingAlone, Awaiting, DeadAlone, CreatedAlone,
         Deciding
  <2> QED
    BY <2>2, <2>3
<1>2. CASE CancelRun
  BY <1>2, <1>a, <1>b, <1>c, <1>d, <1>e
     DEF CancelRun, Requests, ByOperator, PlainPaths, RetryAlone, AwaitingAlone, Awaiting,
     DeadAlone, CreatedAlone, Deciding
<1>3. CASE CancelRest
  BY <1>3, <1>a, <1>b, <1>c, <1>d, <1>e
     DEF CancelRest, IdleApi, CancelSteps, ByOperator, PlainPaths, RetryAlone,
     AwaitingAlone, Awaiting, DeadAlone, CreatedAlone, Deciding
<1>4. CASE ApproveSend
  <2>1. /\ api.pc = "checked" /\ approval.status = "pending" /\ run = "needs_approval"
        /\ NoMessage /\ NobodyHolds
        /\ \A s \in Steps : step[s] # "deadletter"
        /\ api' = [pc |-> "sent", step |-> api.step]
        /\ UNCHANGED <<run, step, approval, device, resumer>>
    BY <1>4, <1>c DEF ApproveSend, Requests, ByOperator, Deciding, DeadAlone, Awaiting
  <2>2. OneMessage' /\ OneHolder' /\ MessageOrHolder' /\ NobodyHolds'
    BY <1>4, <2>1, <1>a, <1>b, SendToken DEF ApproveSend
  <2> QED
    BY <2>1, <2>2, <1>e
       DEF NobodyHolds, RetryAlone, AwaitingAlone, Awaiting, DeadAlone, CreatedAlone,
       Deciding
<1>5. CASE ApproveCommit
  BY <1>5, <1>a, <1>b, <1>c, <1>d, <1>e
     DEF ApproveCommit, IdleApi, ByOperator, PlainPaths, RetryAlone, AwaitingAlone,
     Awaiting, DeadAlone, CreatedAlone, Deciding
<1>6. CASE RetrySend
  <2>1. /\ api.pc = "retry" /\ approval.status # "pending"
        /\ NoMessage /\ NobodyHolds
        /\ run # "created" /\ run # "needs_device"
        /\ api'.pc = "idle"
        /\ UNCHANGED <<run, step, approval, device, resumer>>
    BY <1>6, <1>c DEF RetrySend, IdleApi, ByOperator, RetryAlone, CreatedAlone, PlainPaths
  <2>2. OneMessage' /\ OneHolder' /\ MessageOrHolder' /\ NobodyHolds'
    BY <1>6, <2>1, <1>a, <1>b, SendToken DEF RetrySend, Enqueue
  <2>3. run # "needs_approval" /\ \A s \in Steps : step[s] # "deadletter"
    BY <2>1, <1>c DEF RetryAlone
  <2> QED
    BY <2>1, <2>2, <2>3, <1>e
       DEF RetryAlone, AwaitingAlone, Awaiting, DeadAlone, CreatedAlone, Deciding
<1>7. CASE CancelRead
  BY <1>7, <1>a, <1>b, <1>c, <1>d, <1>e
     DEF CancelRead, Start, Requests, ByOperator, PlainPaths, RetryAlone, AwaitingAlone,
     Awaiting, DeadAlone, CreatedAlone, Deciding
<1>8. CASE ApproveCheck
  BY <1>8, <1>a, <1>b, <1>c, <1>d, <1>e
     DEF ApproveCheck, Start, Requests, ByOperator, PlainPaths, RetryAlone, AwaitingAlone,
     Awaiting, DeadAlone, CreatedAlone, Deciding
<1>9. CASE ApproveRollback
  BY <1>9, <1>a, <1>b, <1>c, <1>d, <1>e
     DEF ApproveRollback, IdleApi, ByOperator, Unduplicated, PlainPaths, RetryAlone,
     AwaitingAlone, Awaiting, DeadAlone, CreatedAlone, Deciding
<1>10. CASE Reject
  BY <1>10, <1>a, <1>b, <1>c, <1>d, <1>e
     DEF Reject, Start, SetRun, RowsFree, CancelSteps, ByOperator, PlainPaths, RetryAlone,
     AwaitingAlone, Awaiting, DeadAlone, CreatedAlone, Deciding
<1>11. CASE RetryCrash
  BY <1>11, <1>a, <1>b, <1>c, <1>d, <1>e
     DEF RetryCrash, IdleApi, ByOperator, PlainPaths, RetryAlone, AwaitingAlone, Awaiting,
     DeadAlone, CreatedAlone, Deciding
<1>12. ASSUME NEW s \in Steps, RetryDead(s)
      PROVE  TokenInv'
  BY <1>12, <1>a, <1>b, <1>c, <1>d, <1>e
     DEF RetryDead, Start, Retryable, SetStep, SetRun, RowsFree, Requests, ByOperator,
     PlainPaths, RetryAlone, AwaitingAlone, Awaiting, DeadAlone, CreatedAlone, Deciding
<1>13. ASSUME NEW s \in Steps, CancelDead(s)
      PROVE  TokenInv'
  BY <1>13, <1>a, <1>b, <1>c, <1>d, <1>e
     DEF CancelDead, Start, SetStep, SetRun, RowsFree, ByOperator, PlainPaths, RetryAlone,
     AwaitingAlone, Awaiting, DeadAlone, CreatedAlone, Deciding
<1>14. ASSUME NEW s \in Steps, Report(s) \/ Tick(s)
      PROVE  TokenInv'
  BY <1>14, <1>c DEF Report, Tick, Answered, PlainPaths, NoExecution
<1>15. ASSUME NEW r \in Resumers, ResumerStep(r)
      PROVE  TokenInv'
  BY <1>15, <1>c DEF ResumerStep, ResumeRun, ResumeGiveUp, ResumeSend, PlainPaths
<1>16. CASE OverruleRead
  BY <1>16, <1>a, <1>b, <1>c, <1>d, <1>e
     DEF OverruleRead, Start, Requests, ByOperator, PlainPaths, RetryAlone, AwaitingAlone,
     Awaiting, DeadAlone, CreatedAlone, Deciding
<1>17. CASE OverruleRun
  BY <1>17, <1>a, <1>b, <1>c, <1>d, <1>e
     DEF OverruleRun, Requests, ByOperator, PlainPaths, RetryAlone, AwaitingAlone, Awaiting,
     DeadAlone, CreatedAlone, Deciding
<1> QED
  BY <1>1, <1>2, <1>3, <1>4, <1>5, <1>6, <1>7, <1>8, <1>9, <1>10, <1>11, <1>12,
     <1>13, <1>14, <1>15, <1>16, <1>17 DEF ApiStep, OperatorStep

\* Every step of the run preserves the invariant, as long as no request is made by
\* hand.
LEMMA TokenInvInductive ==
    ASSUME Unduplicated
    PROVE  TypeInv /\ TokenInv /\ [CalmNext]_vars => TokenInv'
<1> SUFFICES ASSUME TypeInv, TokenInv, [CalmNext]_vars PROVE TokenInv'
  OBVIOUS
<1>1. CASE UNCHANGED vars
  <2>1. /\ \A w \in Workers : Holds(w)' = Holds(w)
        /\ NoMessage' = NoMessage /\ NobodyHolds' = NobodyHolds /\ Awaiting' = Awaiting
    BY <1>1 DEF vars, Holds, NoMessage, NobodyHolds, Awaiting
  <2> QED
    BY <1>1, <2>1 DEF vars, TokenInv, OneMessage, OneHolder, MessageOrHolder, RetryAlone,
       AwaitingAlone, DeadAlone, CreatedAlone, Deciding, PlainPaths
<1>2. ASSUME NEW w \in Workers, WorkerStep(w) \/ Fault(w)
      PROVE  TokenInv'
  BY <1>2, WorkerToken
<1>3. CASE \/ ApiStep \/ OperatorStep
           \/ \E s \in Steps : Report(s) \/ Tick(s)
           \/ \E r \in Resumers : ResumerStep(r)
  BY <1>3, OtherToken
<1> QED
  BY <1>1, <1>2, <1>3 DEF CalmNext

CalmToken == TypeInv /\ HandsIdle /\ (forced \/ TokenInv)

LEMMA CalmTokenInductive ==
    ASSUME Unduplicated
    PROVE  CalmToken /\ [Next]_vars => CalmToken'
BY CalmStep, TypeInvInductive, TokenInvInductive DEF CalmToken

\* The invariant in every state, for the theorems that build on it.
LEMMA TokenAlways ==
    ASSUME Unduplicated
    PROVE  Spec => []CalmToken
<1>1. Init => CalmToken
  BY InitType, InitHands, InitToken DEF CalmToken
<1>2. CalmToken /\ [Next]_vars => CalmToken'
  BY CalmTokenInductive
<1> QED
  BY <1>1, <1>2, PTL DEF Spec

\* Who executes a step holds the token.
LEMMA WorkingHolds ==
    ASSUME NEW w \in Workers, worker[w].pc \in Working
    PROVE  Holds(w)
  BY DEF Working, Holds, Resting

\* However many workers take messages, whatever operators approve, cancel and retry,
\* and whichever statements fail, no two workers execute steps of the run at once,
\* until an operator enqueues a step by hand (continue of an agent run, retry or
\* approve of a run, retry of a failed step).
THEOREM OneExecutionHolds ==
    ASSUME Unduplicated
    PROVE  Spec => []OneExecution
<1>1. CalmToken => OneExecution
  BY WorkingHolds DEF CalmToken, TokenInv, OneHolder, OneExecution
<1> QED
  BY <1>1, TokenAlways, PTL

\* A step that has been given up stays alone: no message of it is left that could
\* execute it behind the back of the operator who decides what to do with it, unless
\* an operator has enqueued a step by hand.
THEOREM DeadIsQuietHolds ==
    ASSUME Unduplicated
    PROVE  Spec => []DeadIsQuiet
<1>1. CalmToken => DeadIsQuiet
  <2> SUFFICES ASSUME CalmToken, NEW s \in Steps, step[s] = "deadletter", ~forced
               PROVE  /\ \A made \in 0..(MaxAttempts - 1) : queue[<<s, made>>] = 0
                      /\ \A w \in Workers : worker[w].step = s => worker[w].pc \notin Working
    BY DEF DeadIsQuiet
  <2>1. NoMessage /\ NobodyHolds
    BY DEF CalmToken, TokenInv, DeadAlone
  <2>2. \A made \in 0..(MaxAttempts - 1) : queue[<<s, made>>] = 0
    BY <2>1 DEF NoMessage, Messages
  <2>3. \A w \in Workers : worker[w].pc \notin Working
    BY <2>1, WorkingHolds DEF NobodyHolds
  <2> QED
    BY <2>2, <2>3
<1> QED
  BY <1>1, TokenAlways, PTL
=============================================================================
