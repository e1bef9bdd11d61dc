----------------------- MODULE WorkflowExecutionProofs -----------------------
(* Proofs about the execution of a run, for any number of workers, steps,  *)
(* attempts, operator requests and faults.                                 *)
EXTENDS WorkflowExecution, TLAPS

-----------------------------------------------------------------------------
(* What the updates of a worker's record do to its type.                   *)

\* The fields of a worker's record, and the records made from it.
LEMMA WorkerRecords ==
    ASSUME NEW x \in WorkerStates
    PROVE  /\ x.step \in Steps /\ x.next \in Steps /\ x.note \in Notes
           /\ x.made \in 0..(MaxAttempts - 1)
           /\ x.own \in BOOLEAN
           /\ \A pc \in WorkerPCs : [x EXCEPT !.pc = pc] \in WorkerStates
           /\ \A pc \in WorkerPCs, n \in Notes :
                 [x EXCEPT !.pc = pc, !.note = n] \in WorkerStates
           /\ \A pc \in WorkerPCs, s \in Steps :
                 [x EXCEPT !.pc = pc, !.next = s] \in WorkerStates
           /\ [x EXCEPT !.own = FALSE] \in WorkerStates
  BY DEF WorkerStates

LEMMA IdleIsWorkerState == IdleWorker \in WorkerStates
<1>1. 1 \in Steps /\ 0 \in 0..(MaxAttempts - 1)
  BY StepsAssumption, AttemptsAssumption DEF Steps
<1>2. "idle" \in WorkerPCs /\ "none" \in Notes
  BY DEF WorkerPCs, Notes
<1> QED
  BY <1>1, <1>2 DEF IdleWorker, WorkerStates

\* After processStep has returned.
LEMMA ReturnedType ==
    ASSUME NEW x \in WorkerStates
    PROVE  [x EXCEPT !.pc = IF AgentRun THEN "schedule" ELSE "done", !.note = "none"]
               \in WorkerStates
<1>1. (IF AgentRun THEN "schedule" ELSE "done") \in WorkerPCs /\ "none" \in Notes
  BY DEF WorkerPCs, Notes
<1> QED
  BY <1>1, WorkerRecords

\* One more message in the queue.
LEMMA QueueAdd ==
    ASSUME queue \in [Messages -> Nat],
           NEW s \in Steps, NEW made \in 0..(MaxAttempts - 1)
    PROVE  [queue EXCEPT ![<<s, made>>] = @ + 1] \in [Messages -> Nat]
<1>1. <<s, made>> \in Messages
  BY DEF Messages
<1> QED
  BY <1>1

-----------------------------------------------------------------------------
(* Type correctness.  The job takes its status from the note of a worker   *)
(* that parks its step, so the type of job rests on what such a worker     *)
(* has noted.                                                              *)

\* A worker that parks its step has read that the run is blocked, and an idle one
\* holds no message.
Consistent(x) ==
    /\ x.pc = "park" => x.note \in Blocked
    /\ x.own => x.pc # "idle"

WorkersConsistent == \A w \in Workers : Consistent(worker[w])

TypeInv == TypeOK /\ WorkersConsistent

LEMMA InitType == Init => TypeInv
<1>1. 1 \in Steps
  BY StepsAssumption DEF Steps
<1>4. ASSUME Init
      PROVE  TypeOK
  <2>1. device \in [Steps -> DeviceStates] /\ hand \in [Hands -> HandStates]
    BY <1>1, <1>4 DEF Init, DeviceStates, NoExecution, HandStates, IdleHand
  <2>2. worker \in [Workers -> WorkerStates] /\ resumer \in [Resumers -> ResumerStates]
    BY <1>1, <1>4, IdleIsWorkerState DEF Init, ResumerStates, IdleResumer
  <2> QED
    BY <1>1, <1>4, <2>1, <2>2 DEF Init, TypeOK, RunStatuses, StepStatuses, ApiStates, IdleApi
<1>2. Init => TypeOK
  BY <1>4
<1>3. Init => WorkersConsistent
  <2>1. Consistent(IdleWorker)
    BY DEF Consistent, IdleWorker
  <2>2. Init => \A w \in Workers : worker[w] = IdleWorker
    BY DEF Init
  <2> QED
    BY <2>1, <2>2 DEF WorkersConsistent
<1> QED
  BY <1>2, <1>3 DEF TypeInv

\* A step of a worker, or a fault that befalls it.
LEMMA WorkerStepType ==
    ASSUME TypeInv, NEW w \in Workers, WorkerStep(w) \/ Fault(w)
    PROVE  TypeOK'
<1> USE DEF TypeInv
<1> DEFINE x == worker[w]
<1>a. worker \in [Workers -> WorkerStates] /\ x \in WorkerStates
  BY DEF TypeOK
<1>b. /\ x.step \in Steps /\ x.next \in Steps /\ x.note \in Notes
      /\ x.made \in 0..(MaxAttempts - 1)
      /\ \A pc \in WorkerPCs : [x EXCEPT !.pc = pc] \in WorkerStates
      /\ \A pc \in WorkerPCs, n \in Notes :
            [x EXCEPT !.pc = pc, !.note = n] \in WorkerStates
      /\ \A pc \in WorkerPCs, s \in Steps :
            [x EXCEPT !.pc = pc, !.next = s] \in WorkerStates
      /\ [x EXCEPT !.own = FALSE] \in WorkerStates
  BY <1>a, WorkerRecords
<1>d. x.step \in Steps /\ x.made \in 0..(MaxAttempts - 1)
  BY <1>b
<1>c. /\ [x EXCEPT !.pc = IF AgentRun THEN "schedule" ELSE "done", !.note = "none"]
            \in WorkerStates
      /\ IdleWorker \in WorkerStates
  BY <1>a, ReturnedType, IdleIsWorkerState
<1>1. ASSUME NEW s \in Steps, NEW made \in 0..(MaxAttempts - 1), Fetch(w, s, made)
      PROVE  TypeOK'
  <2>1. worker' \in [Workers -> WorkerStates]
    <3> DEFINE y == [pc |-> Entry(run), step |-> s, made |-> made, own |-> TRUE,
                     note |-> IF run \in Blocked THEN run ELSE "none", next |-> s]
    <3>1. Entry(run) \in WorkerPCs
      BY DEF Entry, WorkerPCs
    <3>2. (IF run \in Blocked THEN run ELSE "none") \in Notes
      BY DEF Notes
    <3>3. y \in WorkerStates
      BY <3>1, <3>2 DEF WorkerStates
    <3> QED
      BY <1>1, <1>a, <3>3 DEF Fetch, Become
  <2> QED
    BY <1>1, <2>1 DEF Fetch, ElseUnchanged, TypeOK, Messages
<1>2. CASE Park(w)
  <2>1. worker' \in [Workers -> WorkerStates]
    BY <1>2, <1>a, <1>b, <1>c DEF Park, Returned, Become
  <2> QED
    <3>1. job' \in RunStatuses
      BY <1>2 DEF Park, At, WorkersConsistent, Consistent, Blocked, RunStatuses
    <3> QED
      BY <1>2, <2>1, <3>1, <1>b DEF Park, SetStep, ElseUnchanged, TypeOK, StepStatuses
<1>3. CASE Drop(w)
  <2>1. worker' \in [Workers -> WorkerStates]
    BY <1>3, <1>a, <1>b, <1>c DEF Drop, Returned, Become
  <2> QED
    BY <1>3, <2>1, <1>b DEF Drop, RowsFree, SetStep, ElseUnchanged, TypeOK,
      RunStatuses, StepStatuses
<1>4. CASE Begin(w)
  <2>1. worker' \in [Workers -> WorkerStates]
    BY <1>4, <1>a, <1>b, <1>c DEF Begin, Goto, WorkerPCs
  <2> QED
    BY <1>4, <2>1, <1>b DEF Begin, ElseUnchanged, TypeOK, RunStatuses
<1>5. CASE Mark(w)
  <2>1. worker' \in [Workers -> WorkerStates]
    BY <1>5, <1>a, <1>b, <1>c DEF Mark, Goto, WorkerPCs
  <2> QED
    BY <1>5, <2>1, <1>b DEF Mark, SetStep, ElseUnchanged, TypeOK,
      StepStatuses
<1>6. CASE ToolEnds(w)
  <2>1. worker' \in [Workers -> WorkerStates]
    BY <1>6, <1>a, <1>b, <1>c DEF ToolEnds, Verify, Goto, WorkerPCs
  <2> QED
    <3>1. effects' \in [Steps -> Nat]
      BY <1>6, <1>d DEF ToolEnds, TypeOK
    <3> QED
      BY <1>6, <2>1, <3>1 DEF ToolEnds, ElseUnchanged, TypeOK
<1>7. CASE ToolFails(w)
  <2>1. worker' \in [Workers -> WorkerStates]
    <3>1. PICK kind \in {"retry", "fatal"} :
             Become(w, [x EXCEPT !.pc = "fail", !.note = kind])
      BY <1>7 DEF ToolFails
    <3>2. "fail" \in WorkerPCs /\ kind \in Notes
      BY DEF WorkerPCs, Notes
    <3>3. [x EXCEPT !.pc = "fail", !.note = kind] \in WorkerStates
      BY <3>2, <1>b
    <3> QED
      BY <3>1, <3>3, <1>a DEF Become
  <2> QED
    <3>1. effects' \in [Steps -> Nat]
      BY <1>7, <1>d DEF ToolFails, TypeOK
    <3> QED
      BY <1>7, <2>1, <3>1 DEF ToolFails, ElseUnchanged, TypeOK
<1>8. CASE FindAnswer(w)
  <2>1. worker' \in [Workers -> WorkerStates]
    <3>1. \/ Verify(w)
          \/ Goto(w, "lookup")
          \/ Become(w, [x EXCEPT !.pc = "fail", !.note = "retry"])
      BY <1>8 DEF FindAnswer
    <3>2. CASE Verify(w)
      BY <3>2, <1>a, <1>b DEF Verify, Goto, WorkerPCs
    <3>3. CASE Goto(w, "lookup")
      BY <3>3, <1>a, <1>b DEF Goto, WorkerPCs
    <3>4. CASE Become(w, [x EXCEPT !.pc = "fail", !.note = "retry"])
      BY <3>4, <1>a, <1>b DEF Become, WorkerPCs, Notes
    <3> QED
      BY <3>1, <3>2, <3>3, <3>4
  <2> QED
    BY <1>8, <2>1 DEF FindAnswer, ElseUnchanged, TypeOK
<1>30. CASE FindOpen(w)
  <2>1. worker' \in [Workers -> WorkerStates]
    BY <1>30, <1>a, <1>b DEF FindOpen, Goto, WorkerPCs
  <2> QED
    BY <1>30, <2>1 DEF FindOpen, ElseUnchanged, TypeOK
<1>31. CASE CreateExecution(w)
  <2>1. worker' \in [Workers -> WorkerStates]
    BY <1>31, <1>a, <1>b DEF CreateExecution, Goto, WorkerPCs
  <2>2. device' \in [Steps -> DeviceStates]
    BY <1>31, <1>d DEF CreateExecution, TypeOK, DeviceStates
  <2> QED
    BY <1>31, <2>1, <2>2 DEF CreateExecution, ElseUnchanged, TypeOK
<1>9. CASE CancelTail(w)
  <2>1. worker' \in [Workers -> WorkerStates]
    BY <1>9, <1>a, <1>b, <1>c DEF CancelTail, Returned, Become
  <2> QED
    BY <1>9, <2>1, <1>b DEF CancelTail, SetRun, SetStep, ElseUnchanged,
      TypeOK, RunStatuses, StepStatuses
<1>10. CASE Succeed(w)
  <2>1. worker' \in [Workers -> WorkerStates]
    BY <1>10, <1>a, <1>b, <1>c DEF Succeed, Become, WorkerPCs, Notes
  <2> QED
    BY <1>10, <2>1, <1>b DEF Succeed, SetStep, ElseUnchanged, TypeOK,
      StepStatuses
<1>11. CASE Count(w)
  <2>1. worker' \in [Workers -> WorkerStates]
    BY <1>11, <1>a, <1>b, <1>c DEF Count, Become, WorkerPCs, Notes
  <2> QED
    BY <1>11, <2>1, <1>b DEF Count, ElseUnchanged, TypeOK
<1>12. CASE Conclude(w)
  <2>1. worker' \in [Workers -> WorkerStates]
    BY <1>12, <1>a, <1>b, <1>c DEF Conclude, Returned, Become
  <2> QED
    BY <1>12, <2>1, <1>b DEF Conclude, SetRun, ElseUnchanged, TypeOK,
      RunStatuses
<1>13. CASE Fail(w)
  <2>1. worker' \in [Workers -> WorkerStates]
    BY <1>13, <1>a, <1>b, <1>c DEF Fail, Goto, WorkerPCs
  <2> QED
    BY <1>13, <2>1, <1>b DEF Fail, SetStep, ElseUnchanged, TypeOK,
      StepStatuses
<1>14. CASE FailRun(w)
  <2>1. worker' \in [Workers -> WorkerStates]
    BY <1>14, <1>a, <1>b, <1>c DEF FailRun, Goto, Returned, Become, WorkerPCs
  <2> QED
    BY <1>14, <2>1, <1>b DEF FailRun, SetRun, ElseUnchanged, TypeOK,
      RunStatuses
<1>15. CASE Suspend(w)
  <2>1. worker' \in [Workers -> WorkerStates]
    BY <1>15, <1>a, <1>b, <1>c DEF Suspend, Returned, Become
  <2> QED
    BY <1>15, <2>1, <1>b DEF Suspend, SetRun, SetStep, ElseUnchanged, TypeOK,
      RunStatuses, StepStatuses
<1>16. CASE Throw(w)
  <2>1. worker' \in [Workers -> WorkerStates]
    BY <1>16, <1>a, <1>b, <1>c DEF Throw, Goto, Become, WorkerPCs
  <2> QED
    <3>1. CASE x.own /\ x.made + 1 < MaxAttempts
      <4>1. x.made + 1 \in 0..(MaxAttempts - 1)
        BY <3>1, <1>d, AttemptsAssumption
      <4>2. [queue EXCEPT ![<<x.step, x.made + 1>>] = @ + 1] \in [Messages -> Nat]
        BY <4>1, <1>b, QueueAdd DEF TypeOK
      <4> QED
        BY <1>16, <2>1, <3>1, <4>2 DEF Throw, ElseUnchanged, TypeOK
    <3>2. CASE ~(x.own /\ x.made + 1 < MaxAttempts)
      BY <1>16, <2>1, <3>2 DEF Throw, ElseUnchanged, TypeOK
    <3> QED
      BY <3>1, <3>2
<1>17. CASE Dead(w)
  <2>1. worker' \in [Workers -> WorkerStates]
    BY <1>17, <1>a, <1>b, <1>c DEF Dead, Become
  <2> QED
    BY <1>17, <2>1, <1>b DEF Dead, SetStep, ElseUnchanged, TypeOK,
      StepStatuses
<1>18. CASE Schedule(w)
  <2>1. worker' \in [Workers -> WorkerStates]
    BY <1>18, <1>a, <1>b, <1>c DEF Schedule, Become, Move, WorkerPCs
  <2> QED
    BY <1>18, <2>1, <1>b DEF Schedule, ElseUnchanged, TypeOK
<1>19. CASE ScheduleNothing(w)
  <2>1. worker' \in [Workers -> WorkerStates]
    BY <1>19, <1>a, <1>b, <1>c DEF ScheduleNothing, Goto, WorkerPCs
  <2> QED
    BY <1>19, <2>1, <1>b DEF ScheduleNothing, ElseUnchanged, TypeOK
<1>20. CASE Ask(w)
  <2>1. worker' \in [Workers -> WorkerStates]
    BY <1>20, <1>a, <1>b, <1>c DEF Ask, Goto, WorkerPCs
  <2> QED
    BY <1>20, <2>1, <1>b DEF Ask, ElseUnchanged, TypeOK
<1>21. CASE AskRun(w)
  <2>1. worker' \in [Workers -> WorkerStates]
    BY <1>21, <1>a, <1>b, <1>c DEF AskRun, Goto, WorkerPCs
  <2> QED
    BY <1>21, <2>1, <1>b DEF AskRun, SetRun, ElseUnchanged, TypeOK,
      RunStatuses
<1>22. CASE EnqueueNext(w)
  <2>1. worker' \in [Workers -> WorkerStates]
    BY <1>22, <1>a, <1>b, <1>c DEF EnqueueNext, Goto, WorkerPCs
  <2> QED
    <3>1. [queue EXCEPT ![<<x.next, 0>>] = @ + 1] \in [Messages -> Nat]
      <4>1. 0 \in 0..(MaxAttempts - 1)
        BY AttemptsAssumption
      <4> QED
        BY <4>1, <1>b, QueueAdd DEF TypeOK
    <3> QED
      BY <1>22, <2>1, <3>1, <1>b DEF EnqueueNext, ElseUnchanged, TypeOK
<1>23. CASE Stop(w)
  <2>1. worker' \in [Workers -> WorkerStates]
    BY <1>23, <1>a, <1>b, <1>c DEF Stop, Goto, WorkerPCs
  <2> QED
    BY <1>23, <2>1, <1>b DEF Stop, SetRun, CancelSteps, ElseUnchanged,
      TypeOK, RunStatuses, StepStatuses
<1>24. CASE Stall(w)
  <2>1. worker' \in [Workers -> WorkerStates]
    BY <1>24, <1>a, <1>b, <1>c DEF Stall, Become
  <2> QED
    <3>1. [queue EXCEPT ![<<x.step, x.made>>] = @ + 1] \in [Messages -> Nat]
      BY <1>b, QueueAdd DEF TypeOK
    <3> QED
      BY <1>24, <2>1, <3>1 DEF Stall, Stalled, TypeOK
<1>25. CASE Crash(w)
  <2>1. worker' \in [Workers -> WorkerStates]
    BY <1>25, <1>a, <1>b, <1>c DEF Crash, Become
  <2> QED
    <3>1. [queue EXCEPT ![<<x.step, x.made>>] = @ + 1] \in [Messages -> Nat]
      BY <1>b, QueueAdd DEF TypeOK
    <3> QED
      BY <1>25, <2>1, <3>1 DEF Crash, Stalled, TypeOK
<1>26. CASE OutOfTime(w)
  <2>1. worker' \in [Workers -> WorkerStates]
    BY <1>26, <1>a, <1>b, <1>c DEF OutOfTime, Goto, WorkerPCs
  <2> QED
    BY <1>26, <2>1, <1>b DEF OutOfTime, ElseUnchanged, TypeOK
<1>27. CASE SetJobId(w)
  <2>1. worker' \in [Workers -> WorkerStates]
    BY <1>27, <1>a, <1>b, <1>c DEF SetJobId, Goto, WorkerPCs
  <2> QED
    BY <1>27, <2>1, <1>b DEF SetJobId, ElseUnchanged, TypeOK
<1>28. CASE Done(w)
  <2>1. worker' \in [Workers -> WorkerStates]
    BY <1>28, <1>a, <1>b, <1>c DEF Done, Become
  <2> QED
    BY <1>28, <2>1, <1>b DEF Done, ElseUnchanged, TypeOK
<1>29. CASE QueryFails(w)
  <2>1. worker' \in [Workers -> WorkerStates]
    <3>1. Recovery(x.pc) \in WorkerPCs
      BY <1>29 DEF QueryFails, Recovery, WorkerPCs
    <3>2. (IF Recovery(x.pc) = "fail" THEN "retry" ELSE x.note) \in Notes
      BY <1>b DEF Notes
    <3>3. [x EXCEPT !.pc = Recovery(x.pc),
                    !.note = IF Recovery(x.pc) = "fail" THEN "retry" ELSE @]
             \in WorkerStates
      BY <3>1, <3>2, <1>b
    <3> QED
      BY <1>29, <1>a, <3>3 DEF QueryFails, Become
  <2>2. run' \in RunStatuses /\ job' \in RunStatuses
    BY <1>29 DEF QueryFails, KeepRun, TypeOK, RunStatuses
  <2>3. faults' \in Nat
    BY <1>29 DEF QueryFails, TypeOK
  <2> QED
    BY <1>29, <2>1, <2>2, <2>3 DEF QueryFails, TypeOK
<1> QED
  BY <1>1, <1>2, <1>3, <1>4, <1>5, <1>6, <1>7, <1>8, <1>9, <1>10, <1>11,
    <1>12, <1>13, <1>14, <1>15, <1>16, <1>17, <1>18, <1>19, <1>20, <1>21,
    <1>22, <1>23, <1>24, <1>25, <1>26, <1>27, <1>28, <1>29, <1>30, <1>31
    DEF WorkerStep, Fault

\* A step of the API, of an operator, of a device or of a resumption.
LEMMA OtherStepType ==
    ASSUME TypeOK,
           \/ ApiStep \/ OperatorStep
           \/ \E s \in Steps : Report(s) \/ Tick(s)
           \/ \E r \in Resumers : ResumerStep(r)
    PROVE  TypeOK'
<1>a. 1 \in Steps /\ 0 \in 0..(MaxAttempts - 1)
  BY StepsAssumption, AttemptsAssumption DEF Steps
<1>b. api.step \in Steps /\ \A r \in Resumers : resumer[r].step \in Steps
  BY DEF TypeOK, ApiStates, ResumerStates
<1> USE DEF TypeOK, Messages, RunStatuses, StepStatuses, ApiStates, ResumerStates
<1>1. CASE Submit
  <2>1. [queue EXCEPT ![<<1, 0>>] = @ + 1] \in [Messages -> Nat]
    BY <1>a, QueueAdd
  <2>2. CASE 1 \in Risky
    BY <1>1, <2>2, <1>a DEF Submit, SetRun, ElseUnchanged
  <2>3. CASE 1 \notin Risky
    BY <1>1, <2>1, <2>3, <1>a DEF Submit, SetRun, Enqueue, ElseUnchanged
  <2> QED
    BY <2>2, <2>3
<1>2. CASE CancelRun
  BY <1>2, <1>a, <1>b DEF CancelRun, Requests, ByOperator
<1>3. CASE CancelRest
  BY <1>3, <1>a, <1>b DEF CancelRest, IdleApi, ByOperator, CancelSteps
<1>4. CASE ApproveSend
  BY <1>4, <1>a, <1>b DEF ApproveSend, Requests, ByOperator
<1>5. CASE ApproveCommit
  BY <1>5, <1>a, <1>b DEF ApproveCommit, IdleApi, ByOperator
<1>6. CASE RetrySend
  BY <1>6, <1>a, <1>b DEF RetrySend, Enqueue, IdleApi, ByOperator
<1>7. CASE CancelRead
  BY <1>7, <1>a, <1>b DEF CancelRead, Start, Requests, ByOperator
<1>8. CASE ApproveCheck
  BY <1>8, <1>a, <1>b DEF ApproveCheck, Start, Requests, ByOperator
<1>9. CASE ApproveRollback
  BY <1>9, <1>a, <1>b DEF ApproveRollback, IdleApi, ByOperator
<1>10. CASE Reject
  BY <1>10, <1>a, <1>b DEF Reject, Start, SetRun, CancelSteps, ByOperator
<1>11. CASE RetryCrash
  BY <1>11, <1>a, <1>b DEF RetryCrash, IdleApi, ByOperator
<1>12. ASSUME NEW s \in Steps, RetryDead(s)
      PROVE  TypeOK'
  BY <1>12, <1>a, <1>b DEF RetryDead, Start, Retryable, SetStep, SetRun,
    Requests, ByOperator
<1>13. ASSUME NEW s \in Steps, CancelDead(s)
      PROVE  TypeOK'
  BY <1>13, <1>a, <1>b DEF CancelDead, Start, SetStep, SetRun, ByOperator
<1>14. ASSUME NEW s \in Steps, Report(s)
      PROVE  TypeOK'
  <2>1. device' \in [Steps -> DeviceStates]
    BY <1>14 DEF Report, DeviceStates
  <2> QED
    BY <1>14, <2>1, <1>a, <1>b DEF Report, Elsewhere
<1>15. ASSUME NEW s \in Steps, Tick(s)
      PROVE  TypeOK'
  BY <1>15, <1>a, <1>b DEF Tick, Elsewhere
<1>16. ASSUME NEW r \in Resumers, ResumeRun(r)
      PROVE  TypeOK'
  BY <1>16, <1>a, <1>b DEF ResumeRun, Elsewhere
<1>17. ASSUME NEW r \in Resumers, ResumeGiveUp(r)
      PROVE  TypeOK'
  BY <1>17, <1>a, <1>b DEF ResumeGiveUp, IdleResumer, Elsewhere
<1>18. ASSUME NEW r \in Resumers, ResumeSend(r)
      PROVE  TypeOK'
  BY <1>18, <1>a, <1>b DEF ResumeSend, Enqueue, IdleResumer, Elsewhere
<1>19. CASE OverruleRead
  BY <1>19, <1>a, <1>b DEF OverruleRead, Start, Requests, ByOperator
<1>20. CASE OverruleRun
  BY <1>20, <1>a, <1>b DEF OverruleRun, Requests, ByOperator
<1> QED
  BY <1>1, <1>2, <1>3, <1>4, <1>5, <1>6, <1>7, <1>8, <1>9, <1>10, <1>11,
    <1>12, <1>13, <1>14, <1>15, <1>16, <1>17, <1>18, <1>19, <1>20 DEF ApiStep,
    OperatorStep, ResumerStep

\* A step of a request by hand.
LEMMA HandStepType ==
    ASSUME TypeOK, NEW h \in Hands, HandStart(h) \/ HandStep(h) \/ HandCrash(h)
    PROVE  TypeOK'
<1>a. 1 \in Steps /\ 0 \in 0..(MaxAttempts - 1)
  BY StepsAssumption, AttemptsAssumption DEF Steps
<1>b. hand[h].step \in Steps /\ approval.step \in Steps
  BY DEF TypeOK, HandStates
<1>c. [queue EXCEPT ![<<hand[h].step, 0>>] = @ + 1] \in [Messages -> Nat]
  BY <1>a, <1>b, QueueAdd DEF TypeOK
<1> USE DEF TypeOK, RunStatuses, StepStatuses, HandStates
<1>1. CASE ContinueRead(h)
  BY <1>1, <1>a DEF ContinueRead, ByHand
<1>2. CASE RetryRunRead(h)
  BY <1>2, <1>a DEF RetryRunRead, ByHand
<1>3. CASE ApproveRunRead(h)
  BY <1>3, <1>b DEF ApproveRunRead, ByHand
<1>4. ASSUME NEW s \in Steps, RetryFailed(h, s)
      PROVE  TypeOK'
  BY <1>4 DEF RetryFailed, ByHand, SetStep, SetRun
<1>5. CASE Pick(h)
  BY <1>5, <1>b DEF Pick, HandGoes, InHand
<1>6. CASE Requeue(h)
  BY <1>6, <1>b DEF Requeue, HandGoes, SetRun, InHand
<1>7. CASE Reset(h)
  BY <1>7, <1>b DEF Reset, HandGoes, InHand
<1>8. CASE Send(h)
  BY <1>8, <1>b, <1>c DEF Send, HandGoes, InHand
<1>9. CASE HandJobId(h)
  BY <1>9, <1>b DEF HandJobId, HandGoes, InHand
<1>10. CASE HandCrash(h)
  BY <1>10, <1>b DEF HandCrash, HandGoes
<1> QED
  BY <1>1, <1>2, <1>3, <1>4, <1>5, <1>6, <1>7, <1>8, <1>9, <1>10 DEF HandStart, HandStep

\* Only a worker that takes a message starts to park, having just read the status
\* of the run; a worker becomes idle together with giving its message up.
LEMMA ConsistentStep ==
    ASSUME TypeInv, NEW w \in Workers, WorkerStep(w) \/ Fault(w)
    PROVE  WorkersConsistent'
<1>a. worker \in [Workers -> [pc : WorkerPCs, step : Steps, made : 0..(MaxAttempts - 1),
                             own : BOOLEAN, note : Notes, next : Steps]]
  BY DEF TypeInv, TypeOK, WorkerStates
<1>b. \A v \in Workers : Consistent(worker[v])
  BY DEF TypeInv, WorkersConsistent
<1> SUFFICES \A v \in Workers : Consistent(worker'[v])
  BY DEF WorkersConsistent, Consistent
<1> DEFINE Goal == \A v \in Workers : Consistent(worker'[v])
<1> USE DEF Consistent, At
<1>1. ASSUME NEW s \in Steps, NEW made \in 0..(MaxAttempts - 1), Fetch(w, s, made)
      PROVE  Goal
  BY <1>1, <1>a, <1>b DEF Fetch, Become, Entry
<1>2. CASE Park(w)
  BY <1>2, <1>a, <1>b DEF Park, Returned, Become, IdleWorker
<1>3. CASE Drop(w)
  BY <1>3, <1>a, <1>b DEF Drop, Returned, Become, IdleWorker
<1>4. CASE Begin(w)
  BY <1>4, <1>a, <1>b DEF Begin, Goto
<1>5. CASE Mark(w)
  BY <1>5, <1>a, <1>b DEF Mark, Goto
<1>6. CASE ToolEnds(w)
  BY <1>6, <1>a, <1>b DEF ToolEnds, Verify, Goto
<1>7. CASE ToolFails(w)
  BY <1>7, <1>a, <1>b DEF ToolFails, Become
<1>8. CASE FindAnswer(w)
  BY <1>8, <1>a, <1>b DEF FindAnswer, Verify, Goto, Become
<1>30. CASE FindOpen(w)
  BY <1>30, <1>a, <1>b DEF FindOpen, Goto
<1>31. CASE CreateExecution(w)
  BY <1>31, <1>a, <1>b DEF CreateExecution, Goto
<1>9. CASE CancelTail(w)
  BY <1>9, <1>a, <1>b DEF CancelTail, Returned, Become, IdleWorker
<1>10. CASE Succeed(w)
  BY <1>10, <1>a, <1>b DEF Succeed, Become
<1>11. CASE Count(w)
  BY <1>11, <1>a, <1>b DEF Count, Become
<1>12. CASE Conclude(w)
  BY <1>12, <1>a, <1>b DEF Conclude, Returned, Become, IdleWorker
<1>13. CASE Fail(w)
  BY <1>13, <1>a, <1>b DEF Fail, Goto
<1>14. CASE FailRun(w)
  <2>1. Goto(w, "throw") \/ Returned(w)
    BY <1>14 DEF FailRun
  <2>2. CASE Goto(w, "throw")
    BY <2>2, <1>a, <1>b DEF Goto
  <2>3. CASE Returned(w)
    BY <2>3, <1>a, <1>b DEF Returned, Become, IdleWorker
  <2> QED
    BY <2>1, <2>2, <2>3
<1>15. CASE Suspend(w)
  BY <1>15, <1>a, <1>b DEF Suspend, Returned, Become, IdleWorker
<1>16. CASE Throw(w)
  BY <1>16, <1>a, <1>b DEF Throw, Goto, Become, IdleWorker
<1>17. CASE Dead(w)
  BY <1>17, <1>a, <1>b DEF Dead, Become, IdleWorker
<1>18. CASE Schedule(w)
  BY <1>18, <1>a, <1>b DEF Schedule, Move, Become
<1>19. CASE ScheduleNothing(w)
  BY <1>19, <1>a, <1>b DEF ScheduleNothing, Goto
<1>20. CASE Ask(w)
  BY <1>20, <1>a, <1>b DEF Ask, Goto
<1>21. CASE AskRun(w)
  BY <1>21, <1>a, <1>b DEF AskRun, Goto
<1>22. CASE EnqueueNext(w)
  BY <1>22, <1>a, <1>b DEF EnqueueNext, Goto
<1>23. CASE Stop(w)
  BY <1>23, <1>a, <1>b DEF Stop, Goto
<1>24. CASE Stall(w)
  BY <1>24, <1>a, <1>b DEF Stall, Become
<1>25. CASE Crash(w)
  BY <1>25, <1>a, <1>b DEF Crash, Become, IdleWorker
<1>26. CASE OutOfTime(w)
  BY <1>26, <1>a, <1>b DEF OutOfTime, Goto
<1>27. CASE SetJobId(w)
  BY <1>27, <1>a, <1>b DEF SetJobId, Goto
<1>28. CASE Done(w)
  BY <1>28, <1>a, <1>b DEF Done, Become, IdleWorker
<1>29. CASE QueryFails(w)
  BY <1>29, <1>a, <1>b DEF QueryFails, Recovery, Become
<1> QED
  BY <1>1, <1>2, <1>3, <1>4, <1>5, <1>6, <1>7, <1>8, <1>9, <1>10, <1>11, <1>12,
     <1>13, <1>14, <1>15, <1>16, <1>17, <1>18, <1>19, <1>20, <1>21, <1>22,
     <1>23, <1>24, <1>25, <1>26, <1>27, <1>28, <1>29, <1>30, <1>31
     DEF WorkerStep, Fault

\* The other processes leave the workers alone.
LEMMA OthersLeaveWorkers ==
    ASSUME \/ ApiStep \/ OperatorStep
           \/ \E s \in Steps : Report(s) \/ Tick(s)
           \/ \E r \in Resumers : ResumerStep(r)
    PROVE  worker' = worker
<1>1. ApiStep => worker' = worker
  BY DEF ApiStep, Submit, CancelRun, OverruleRun, CancelRest, ApproveSend, ApproveCommit,
         RetrySend, ByOperator
<1>2. OperatorStep => worker' = worker
  BY DEF OperatorStep, CancelRead, OverruleRead, ApproveCheck, ApproveRollback, Reject, RetryDead,
         CancelDead, RetryCrash, ByOperator
<1>3. ASSUME NEW s \in Steps, Report(s) \/ Tick(s)
      PROVE  worker' = worker
  BY <1>3 DEF Report, Tick, Elsewhere
<1>4. ASSUME NEW r \in Resumers, ResumerStep(r)
      PROVE  worker' = worker
  BY <1>4 DEF ResumerStep, ResumeRun, ResumeGiveUp, ResumeSend, Elsewhere
<1> QED
  BY <1>1, <1>2, <1>3, <1>4

LEMMA HandsLeaveWorkers ==
    ASSUME NEW h \in Hands, HandStart(h) \/ HandStep(h) \/ HandCrash(h)
    PROVE  worker' = worker
BY DEF HandStart, ContinueRead, RetryRunRead, ApproveRunRead, RetryFailed, ByHand, HandStep,
       Pick, Requeue, Reset, Send, HandJobId, InHand, HandCrash

LEMMA TypeInvInductive == TypeInv /\ [Next]_vars => TypeInv'
<1> SUFFICES ASSUME TypeInv, [Next]_vars
             PROVE  TypeInv'
  OBVIOUS
<1>1. CASE UNCHANGED vars
  BY <1>1 DEF vars, TypeInv, TypeOK, WorkersConsistent, Consistent
<1>2. ASSUME NEW w \in Workers, WorkerStep(w) \/ Fault(w)
      PROVE  TypeInv'
  BY <1>2, WorkerStepType, ConsistentStep DEF TypeInv
<1>3. CASE \/ ApiStep \/ OperatorStep
           \/ \E s \in Steps : Report(s) \/ Tick(s)
           \/ \E r \in Resumers : ResumerStep(r)
  <2>1. TypeOK'
    BY <1>3, OtherStepType DEF TypeInv
  <2>2. worker' = worker
    BY <1>3, OthersLeaveWorkers
  <2> QED
    BY <2>1, <2>2 DEF TypeInv, WorkersConsistent, Consistent
<1>4. ASSUME NEW h \in Hands, HandStart(h) \/ HandStep(h) \/ HandCrash(h)
      PROVE  TypeInv'
  BY <1>4, HandStepType, HandsLeaveWorkers DEF TypeInv, WorkersConsistent, Consistent
<1> QED
  BY <1>1, <1>2, <1>3, <1>4 DEF Next

\* Every variable keeps its type, whatever the workers, operators, devices and
\* faults do.
THEOREM TypeCorrect == Spec => []TypeOK
<1>1. Init => TypeInv
  BY InitType
<1>2. TypeInv /\ [Next]_vars => TypeInv'
  BY TypeInvInductive
<1>3. TypeInv => TypeOK
  BY DEF TypeInv
<1> QED
  BY <1>1, <1>2, <1>3, PTL DEF Spec

-----------------------------------------------------------------------------
(* The approval gate.  That a risky step takes effect only when an         *)
(* operator has asked for it is not inductive: it rests on every place     *)
(* from which a step could be taken up.  As long as no operator has        *)
(* approved or continued a risky step, nothing refers to it: no message,   *)
(* no worker, no device execution, no failure or dead letter, no request   *)
(* and no resumption.  So the only ways to its first message lead through  *)
(* ApproveCheck, ApproveRunRead and Pick.  The retry of a run sends step 1 *)
(* unasked: if that step is risky and nobody has asked for it, the run has *)
(* not started at all, so it has not failed.                               *)

Asked == granted \cup continued

\* Nothing has taken the step up, and nothing is about to.
Untouched(s) ==
    /\ effects[s] = 0
    /\ device[s] = NoExecution
    /\ step[s] \notin {"failed", "deadletter"}
    /\ \A made \in 0..(MaxAttempts - 1) : queue[<<s, made>>] = 0
    /\ \A w \in Workers : /\ worker[w].pc # "idle" => worker[w].step # s
                          /\ worker[w].pc = "enqueue" => worker[w].next # s
    /\ api.pc \in {"checked", "sent", "retry"} => api.step # s
    /\ \A h \in Hands : hand[h].pc \notin {"idle", "pick"} => hand[h].step # s
    /\ \A r \in Resumers : resumer[r].pc # "idle" => resumer[r].step # s

\* The run waits for the approval of step 1, or has been canceled while it waited.
Unstarted ==
    /\ run \in {"created", "needs_approval", "canceled"}
    /\ approval.step = 1
    /\ \A s \in Steps : step[s] \in {"pending", "canceled"} /\ device[s] = NoExecution
    /\ \A m \in Messages : queue[m] = 0
    /\ \A w \in Workers : worker[w].pc = "idle"
    /\ api.pc \in {"idle", "cancelRun", "overrule", "cancelSteps"}
    /\ \A h \in Hands : hand[h].pc = "idle"
    /\ \A r \in Resumers : resumer[r].pc = "idle"

GateInv ==
    /\ \A s \in Risky \ Asked : Untouched(s)
    /\ 1 \in Risky \ Asked => Unstarted

LEMMA InitGate == Init => GateInv
<1> SUFFICES ASSUME Init
             PROVE  GateInv
  OBVIOUS
<1>1. \A s \in Steps, made \in 0..(MaxAttempts - 1) : <<s, made>> \in Messages
  BY DEF Messages
<1>2. \A w \in Workers : worker[w].pc = "idle"
  BY DEF Init, IdleWorker
<1>3. /\ \A r \in Resumers : resumer[r].pc = "idle"
      /\ \A h \in Hands : hand[h].pc = "idle"
  BY DEF Init, IdleResumer, IdleHand
<1>4. \A s \in Risky : Untouched(s)
  <2> SUFFICES ASSUME NEW s \in Risky
               PROVE  Untouched(s)
    OBVIOUS
  <2>1. /\ s \in Steps /\ effects[s] = 0 /\ device[s] = NoExecution /\ step[s] = "pending"
        /\ api.pc = "idle"
    BY SubsetsAssumption DEF Init, IdleApi
  <2> QED
    BY <1>1, <1>2, <1>3, <2>1 DEF Untouched, Init
<1>5. Unstarted
  BY <1>2, <1>3 DEF Unstarted, Init, IdleApi
<1> QED
  BY <1>4, <1>5 DEF GateInv

\* A step of a worker, or a fault that befalls it.
LEMMA WorkerGate ==
    ASSUME TypeInv, GateInv, NEW w \in Workers, WorkerStep(w) \/ Fault(w),
           NEW s \in Risky \ Asked
    PROVE  Untouched(s)'
<1>a. worker \in [Workers -> [pc : WorkerPCs, step : Steps, made : 0..(MaxAttempts - 1),
                             own : BOOLEAN, note : Notes, next : Steps]]
  BY DEF TypeInv, TypeOK, WorkerStates
<1>b. /\ queue \in [Messages -> Nat] /\ effects \in [Steps -> Nat]
      /\ step \in [Steps -> StepStatuses] /\ device \in [Steps -> DeviceStates]
  BY DEF TypeInv, TypeOK
<1>c. Untouched(s) /\ s \in Steps
  BY SubsetsAssumption DEF GateInv
<1>d. worker[w].own => worker[w].pc # "idle"
  BY DEF TypeInv, WorkersConsistent, Consistent
<1> USE DEF At, Messages, Untouched
<1>1. ASSUME NEW t \in Steps, NEW made \in 0..(MaxAttempts - 1), Fetch(w, t, made)
      PROVE  Untouched(s)'
  BY <1>1, <1>a, <1>b, <1>c DEF Fetch, Become, ElseUnchanged
<1>2. CASE Park(w)
  BY <1>2, <1>a, <1>b, <1>c DEF Park, SetStep, Returned, Become, IdleWorker,
     ElseUnchanged
<1>3. CASE Drop(w)
  BY <1>3, <1>a, <1>b, <1>c DEF Drop, SetStep, Returned, Become, IdleWorker,
     ElseUnchanged
<1>4. CASE Begin(w)
  BY <1>4, <1>a, <1>b, <1>c DEF Begin, Goto, ElseUnchanged
<1>5. CASE Mark(w)
  BY <1>5, <1>a, <1>b, <1>c DEF Mark, SetStep, Goto, ElseUnchanged
<1>6. CASE ToolEnds(w)
  BY <1>6, <1>a, <1>b, <1>c DEF ToolEnds, Verify, Goto, ElseUnchanged
<1>7. CASE ToolFails(w)
  BY <1>7, <1>a, <1>b, <1>c DEF ToolFails, Become, ElseUnchanged
<1>8. CASE FindAnswer(w)
  <2>1. \/ Verify(w) \/ Goto(w, "lookup")
        \/ Become(w, [worker[w] EXCEPT !.pc = "fail", !.note = "retry"])
    BY <1>8 DEF FindAnswer
  <2>2. \A v \in Workers : /\ worker'[v].pc # "idle" => worker'[v].step # s
                           /\ worker'[v].pc = "enqueue" => worker'[v].next # s
    <3>1. worker[w].step # s
      BY <1>8, <1>c DEF FindAnswer
    <3>2. CASE Verify(w)
      BY <3>1, <3>2, <1>a, <1>c DEF Verify, Goto
    <3>3. CASE Goto(w, "lookup")
      BY <3>1, <3>3, <1>a, <1>c DEF Goto
    <3>4. CASE Become(w, [worker[w] EXCEPT !.pc = "fail", !.note = "retry"])
      BY <3>1, <3>4, <1>a, <1>c DEF Become
    <3> QED
      BY <2>1, <3>2, <3>3, <3>4
  <2> QED
    BY <1>8, <2>2, <1>c DEF FindAnswer, ElseUnchanged
<1>30. CASE FindOpen(w)
  BY <1>30, <1>a, <1>b, <1>c DEF FindOpen, Goto, ElseUnchanged
<1>31. CASE CreateExecution(w)
  BY <1>31, <1>a, <1>b, <1>c DEF CreateExecution, Goto, ElseUnchanged
<1>9. CASE CancelTail(w)
  BY <1>9, <1>a, <1>b, <1>c DEF CancelTail, SetStep, Returned, Become,
     IdleWorker, ElseUnchanged
<1>10. CASE Succeed(w)
  BY <1>10, <1>a, <1>b, <1>c DEF Succeed, SetStep, Become, ElseUnchanged
<1>11. CASE Count(w)
  BY <1>11, <1>a, <1>b, <1>c DEF Count, Become, ElseUnchanged
<1>12. CASE Conclude(w)
  BY <1>12, <1>a, <1>b, <1>c DEF Conclude, Returned, Become, IdleWorker,
     ElseUnchanged
<1>13. CASE Fail(w)
  BY <1>13, <1>a, <1>b, <1>c DEF Fail, SetStep, Goto, ElseUnchanged
<1>14. CASE FailRun(w)
  <2>1. Goto(w, "throw") \/ Returned(w)
    BY <1>14 DEF FailRun
  <2>2. CASE Goto(w, "throw")
    BY <1>14, <2>2, <1>a, <1>c DEF FailRun, Goto, ElseUnchanged
  <2>3. CASE Returned(w)
    BY <1>14, <2>3, <1>a, <1>c DEF FailRun, Returned, Become, IdleWorker, ElseUnchanged
  <2> QED
    BY <2>1, <2>2, <2>3
<1>15. CASE Suspend(w)
  BY <1>15, <1>a, <1>b, <1>c DEF Suspend, SetStep, Returned, Become, IdleWorker,
     ElseUnchanged
<1>16. CASE Throw(w)
  BY <1>16, <1>a, <1>b, <1>c DEF Throw, Goto, Become, IdleWorker, ElseUnchanged
<1>17. CASE Dead(w)
  BY <1>17, <1>a, <1>b, <1>c DEF Dead, SetStep, Become, IdleWorker,
     ElseUnchanged
<1>18. CASE Schedule(w)
  BY <1>18, <1>a, <1>b, <1>c DEF Schedule, Move, Become, ElseUnchanged
<1>19. CASE ScheduleNothing(w)
  BY <1>19, <1>a, <1>b, <1>c DEF ScheduleNothing, Goto, ElseUnchanged
<1>20. CASE Ask(w)
  BY <1>20, <1>a, <1>b, <1>c DEF Ask, Goto, ElseUnchanged
<1>21. CASE AskRun(w)
  BY <1>21, <1>a, <1>b, <1>c DEF AskRun, Goto, ElseUnchanged
<1>22. CASE EnqueueNext(w)
  BY <1>22, <1>a, <1>b, <1>c DEF EnqueueNext, Goto, ElseUnchanged
<1>23. CASE Stop(w)
  BY <1>23, <1>a, <1>b, <1>c DEF Stop, CancelSteps, Goto, ElseUnchanged
<1>24. CASE Stall(w)
  BY <1>24, <1>a, <1>b, <1>c, <1>d DEF Stall, Stalled, Become
<1>25. CASE Crash(w)
  BY <1>25, <1>a, <1>b, <1>c, <1>d DEF Crash, Stalled, Become, IdleWorker
<1>26. CASE OutOfTime(w)
  BY <1>26, <1>a, <1>b, <1>c DEF OutOfTime, Goto, ElseUnchanged
<1>27. CASE SetJobId(w)
  BY <1>27, <1>a, <1>b, <1>c DEF SetJobId, Goto, ElseUnchanged
<1>28. CASE Done(w)
  BY <1>28, <1>a, <1>b, <1>c DEF Done, Become, IdleWorker, ElseUnchanged
<1>29. CASE QueryFails(w)
  BY <1>29, <1>a, <1>b, <1>c DEF QueryFails, Recovery, Become
<1> QED
  BY <1>1, <1>2, <1>3, <1>4, <1>5, <1>6, <1>7, <1>8, <1>9, <1>10, <1>11, <1>12,
     <1>13, <1>14, <1>15, <1>16, <1>17, <1>18, <1>19, <1>20, <1>21, <1>22,
     <1>23, <1>24, <1>25, <1>26, <1>27, <1>28, <1>29, <1>30, <1>31
     DEF WorkerStep, Fault

\* A step of the API, of an operator, of a device or of a resumption.  Only
\* ApproveCheck refers to a step for the first time, and it grants it.
LEMMA OtherGate ==
    ASSUME TypeInv, GateInv,
           \/ ApiStep \/ OperatorStep
           \/ \E s \in Steps : Report(s) \/ Tick(s)
           \/ \E r \in Resumers : ResumerStep(r),
           NEW s \in Risky \ Asked, s \notin Asked'
    PROVE  Untouched(s)'
<1>a. /\ api \in [pc : {"idle", "cancelRun", "overrule", "cancelSteps", "checked", "sent",
                       "retry"}, step : Steps]
      /\ resumer \in [Resumers -> [pc : {"idle", "cas", "send"}, step : Steps]]
  BY DEF TypeInv, TypeOK, ApiStates, ResumerStates
<1>b. /\ queue \in [Messages -> Nat] /\ effects \in [Steps -> Nat]
      /\ step \in [Steps -> StepStatuses] /\ device \in [Steps -> DeviceStates]
  BY DEF TypeInv, TypeOK
<1>c. Untouched(s) /\ s \in Steps
  BY SubsetsAssumption DEF GateInv
<1>d. worker' = worker
  BY OthersLeaveWorkers
<1> USE DEF Messages, Untouched, Asked, NoExecution
<1>1. CASE Submit
  BY <1>1, <1>a, <1>b, <1>c, <1>d DEF Submit, SetRun, Enqueue, ElseUnchanged
<1>2. CASE CancelRun
  BY <1>2, <1>a, <1>b, <1>c, <1>d DEF CancelRun, Requests, ByOperator
<1>3. CASE CancelRest
  BY <1>3, <1>a, <1>b, <1>c, <1>d DEF CancelRest, CancelSteps, IdleApi,
     ByOperator
<1>4. CASE ApproveSend
  BY <1>4, <1>a, <1>b, <1>c, <1>d DEF ApproveSend, Requests, ByOperator
<1>5. CASE ApproveCommit
  BY <1>5, <1>a, <1>b, <1>c, <1>d DEF ApproveCommit, IdleApi, ByOperator
<1>6. CASE RetrySend
  BY <1>6, <1>a, <1>b, <1>c, <1>d DEF RetrySend, Enqueue, IdleApi, ByOperator
<1>7. CASE CancelRead
  BY <1>7, <1>a, <1>b, <1>c, <1>d DEF CancelRead, Start, Requests, ByOperator
<1>8. CASE ApproveCheck
  BY <1>8, <1>a, <1>b, <1>c, <1>d DEF ApproveCheck, Start, Requests, ByOperator
<1>9. CASE ApproveRollback
  BY <1>9, <1>a, <1>b, <1>c, <1>d DEF ApproveRollback, IdleApi, ByOperator
<1>10. CASE Reject
  BY <1>10, <1>a, <1>b, <1>c, <1>d DEF Reject, CancelSteps, ByOperator
<1>11. CASE RetryCrash
  BY <1>11, <1>a, <1>b, <1>c, <1>d DEF RetryCrash, IdleApi, ByOperator
<1>12. ASSUME NEW t \in Steps, RetryDead(t)
       PROVE  Untouched(s)'
  BY <1>12, <1>a, <1>b, <1>c, <1>d DEF RetryDead, Start, Retryable, SetStep,
     Requests, ByOperator
<1>13. ASSUME NEW t \in Steps, CancelDead(t)
       PROVE  Untouched(s)'
  BY <1>13, <1>a, <1>b, <1>c, <1>d DEF CancelDead, Start, SetStep, ByOperator
<1>14. ASSUME NEW t \in Steps, Report(t)
       PROVE  Untouched(s)'
  BY <1>14, <1>a, <1>b, <1>c, <1>d DEF Report, Elsewhere
<1>15. ASSUME NEW t \in Steps, Tick(t)
       PROVE  Untouched(s)'
  BY <1>15, <1>a, <1>b, <1>c, <1>d DEF Tick, Answered, Elsewhere
<1>16. ASSUME NEW r \in Resumers, ResumeRun(r)
       PROVE  Untouched(s)'
  BY <1>16, <1>a, <1>b, <1>c, <1>d DEF ResumeRun, Elsewhere
<1>17. ASSUME NEW r \in Resumers, ResumeGiveUp(r)
       PROVE  Untouched(s)'
  BY <1>17, <1>a, <1>b, <1>c, <1>d DEF ResumeGiveUp, IdleResumer, Elsewhere
<1>18. ASSUME NEW r \in Resumers, ResumeSend(r)
       PROVE  Untouched(s)'
  BY <1>18, <1>a, <1>b, <1>c, <1>d DEF ResumeSend, Enqueue, IdleResumer,
     Elsewhere
<1>19. CASE OverruleRead
  BY <1>19, <1>a, <1>b, <1>c, <1>d DEF OverruleRead, Start, Requests, ByOperator
<1>20. CASE OverruleRun
  BY <1>20, <1>a, <1>b, <1>c, <1>d DEF OverruleRun, Requests, ByOperator
<1> QED
  BY <1>1, <1>2, <1>3, <1>4, <1>5, <1>6, <1>7, <1>8, <1>9, <1>10, <1>11, <1>12,
     <1>13, <1>14, <1>15, <1>16, <1>17, <1>18, <1>19, <1>20
     DEF ApiStep, OperatorStep, ResumerStep

\* A step of a request by hand.  The approve of a run and the pick of a continue
\* refer to a step for the first time, and it counts as asked for; the retry of a
\* run takes step 1, which is asked for or not risky, since the run has failed.
LEMMA HandGate ==
    ASSUME TypeInv, GateInv,
           NEW h \in Hands, HandStart(h) \/ HandStep(h) \/ HandCrash(h),
           NEW s \in Risky \ Asked, s \notin Asked'
    PROVE  Untouched(s)'
<1>a. hand \in [Hands -> [pc : {"idle", "pick", "requeue", "reset", "resend", "release",
                               "send", "jobId"}, step : Steps]]
  BY DEF TypeInv, TypeOK, HandStates
<1>b. /\ queue \in [Messages -> Nat] /\ step \in [Steps -> StepStatuses]
  BY DEF TypeInv, TypeOK
<1>c. Untouched(s) /\ s \in Steps
  BY SubsetsAssumption DEF GateInv
<1>d. run = "failed" => s # 1
  BY DEF GateInv, Unstarted
<1>e. worker' = worker
  BY HandsLeaveWorkers
<1> USE DEF Messages, Untouched
<1>1. CASE ContinueRead(h)
  BY <1>1, <1>a, <1>c, <1>e DEF ContinueRead, ByHand
<1>2. CASE RetryRunRead(h)
  BY <1>2, <1>a, <1>c, <1>d, <1>e DEF RetryRunRead, ByHand
<1>3. CASE ApproveRunRead(h)
  <2>1. approval.step # s
    BY <1>3 DEF ApproveRunRead, Asked
  <2> QED
    BY <1>3, <2>1, <1>a, <1>c, <1>e DEF ApproveRunRead, ByHand
<1>4. ASSUME NEW t \in Steps, RetryFailed(h, t)
      PROVE  Untouched(s)'
  <2>1. t # s
    BY <1>4, <1>c DEF RetryFailed
  <2> QED
    BY <1>4, <2>1, <1>a, <1>b, <1>c, <1>e DEF RetryFailed, ByHand, SetStep
<1>5. CASE Pick(h)
  <2>1. \A i \in Hands : hand'[i].pc \notin {"idle", "pick"} => hand'[i].step # s
    BY <1>5, <1>a, <1>c DEF Pick, HandGoes, Asked
  <2> QED
    BY <1>5, <2>1, <1>c, <1>e DEF Pick, InHand
<1>6. CASE Requeue(h)
  BY <1>6, <1>a, <1>c, <1>e DEF Requeue, HandGoes, InHand
<1>7. CASE Reset(h)
  BY <1>7, <1>a, <1>b, <1>c, <1>e DEF Reset, HandGoes, InHand
<1>8. CASE Send(h)
  BY <1>8, <1>a, <1>b, <1>c, <1>e DEF Send, HandGoes, InHand
<1>9. CASE HandJobId(h)
  BY <1>9, <1>a, <1>c, <1>e DEF HandJobId, HandGoes, InHand
<1>10. CASE HandCrash(h)
  BY <1>10, <1>a, <1>c, <1>e DEF HandCrash, HandGoes
<1> QED
  BY <1>1, <1>2, <1>3, <1>4, <1>5, <1>6, <1>7, <1>8, <1>9, <1>10 DEF HandStart, HandStep

\* What operators have asked for is not taken back.
LEMMA AskedGrows == [Next]_vars => Asked \subseteq Asked'
<1> USE DEF Asked
<1>1. ASSUME NEW w \in Workers, WorkerStep(w)
      PROVE  UNCHANGED <<granted, continued>>
  BY <1>1 DEF WorkerStep, Fetch, Park, Drop, Begin, Mark, ToolEnds, ToolFails, FindAnswer,
     FindOpen, CreateExecution, CancelTail, Succeed, Count, Conclude, Fail, FailRun, Suspend,
     Throw, Dead, Schedule, OutOfTime, ScheduleNothing, Ask, AskRun, EnqueueNext, SetJobId,
     Stop, Done, ElseUnchanged
<1>2. ASSUME NEW w \in Workers, Fault(w)
      PROVE  UNCHANGED <<granted, continued>>
  BY <1>2 DEF Fault, Stall, Crash, QueryFails
<1>3. ApiStep => UNCHANGED <<granted, continued>>
  BY DEF ApiStep, Submit, CancelRun, OverruleRun, CancelRest, ApproveSend, ApproveCommit,
     RetrySend, ElseUnchanged, ByOperator
<1>4. OperatorStep => granted \subseteq granted' /\ UNCHANGED continued
  BY DEF OperatorStep, CancelRead, OverruleRead, ApproveCheck, ApproveRollback, Reject,
     RetryDead, CancelDead, RetryCrash, ByOperator
<1>5. ASSUME NEW s \in Steps, Report(s) \/ Tick(s)
      PROVE  UNCHANGED <<granted, continued>>
  BY <1>5 DEF Report, Tick, Elsewhere
<1>6. ASSUME NEW r \in Resumers, ResumerStep(r)
      PROVE  UNCHANGED <<granted, continued>>
  BY <1>6 DEF ResumerStep, ResumeRun, ResumeGiveUp, ResumeSend, Elsewhere
<1>7. ASSUME NEW h \in Hands, HandStart(h) \/ HandStep(h) \/ HandCrash(h)
      PROVE  granted \subseteq granted' /\ continued \subseteq continued'
  <2>1. HandStart(h) => granted \subseteq granted' /\ continued \subseteq continued'
    BY DEF HandStart, ContinueRead, RetryRunRead, ApproveRunRead, RetryFailed, ByHand
  <2>2. HandStep(h) \/ HandCrash(h) => granted \subseteq granted' /\ continued \subseteq continued'
    BY DEF HandStep, Pick, Requeue, Reset, Send, HandJobId, InHand, HandCrash
  <2> QED
    BY <1>7, <2>1, <2>2
<1> QED
  BY <1>1, <1>2, <1>3, <1>4, <1>5, <1>6, <1>7 DEF Next, vars

\* As long as nobody asks for step 1, a run that has not started does not start:
\* there is nothing to take up, and what operators may do is to cancel it.
LEMMA UnstartedStep ==
    ASSUME TypeInv, Unstarted, 1 \in Risky, 1 \notin Asked', [Next]_vars
    PROVE  Unstarted'
<1>a. /\ queue \in [Messages -> Nat] /\ step \in [Steps -> StepStatuses]
      /\ \A s \in Steps, made \in 0..(MaxAttempts - 1) : <<s, made>> \in Messages
  BY DEF TypeInv, TypeOK, Messages
<1>b. \A w \in Workers : worker[w].pc = "idle" /\ ~worker[w].own
  BY DEF Unstarted, TypeInv, WorkersConsistent, Consistent, TypeOK, WorkerStates
<1>c. \A s \in Steps : step[s] \in {"pending", "canceled"} /\ device[s].open = 0
  BY DEF Unstarted, NoExecution
<1>1. CASE UNCHANGED vars
  BY <1>1 DEF vars, Unstarted
<1>2. ASSUME NEW w \in Workers, WorkerStep(w) \/ Fault(w)
      PROVE  FALSE
  <2>1. ASSUME NEW s \in Steps, NEW made \in 0..(MaxAttempts - 1), Fetch(w, s, made)
        PROVE  FALSE
    BY <2>1, <1>a DEF Fetch, Unstarted
  <2>2. CASE \/ Park(w) \/ Drop(w) \/ Begin(w) \/ Mark(w)
             \/ ToolEnds(w) \/ ToolFails(w)
             \/ FindAnswer(w) \/ FindOpen(w) \/ CreateExecution(w)
             \/ CancelTail(w) \/ Succeed(w) \/ Count(w) \/ Conclude(w)
             \/ Fail(w) \/ FailRun(w) \/ Suspend(w) \/ Throw(w) \/ Dead(w)
    BY <2>2, <1>b DEF Park, Drop, Begin, Mark, ToolEnds, ToolFails, FindAnswer, FindOpen,
       CreateExecution, CancelTail, Succeed, Count, Conclude, Fail, FailRun, Suspend, Throw,
       Dead, At
  <2>3. CASE \/ Schedule(w) \/ OutOfTime(w) \/ ScheduleNothing(w) \/ Ask(w) \/ AskRun(w)
             \/ EnqueueNext(w) \/ SetJobId(w) \/ Stop(w) \/ Done(w)
    BY <2>3, <1>b DEF Schedule, OutOfTime, ScheduleNothing, Ask, AskRun, EnqueueNext,
       SetJobId, Stop, Done, At
  <2>4. CASE Fault(w)
    BY <2>4, <1>b DEF Fault, Stall, Crash, QueryFails, Recovery
  <2> QED
    BY <1>2, <2>1, <2>2, <2>3, <2>4 DEF WorkerStep
<1>3. CASE Submit
  BY <1>3 DEF Submit, SetRun, ElseUnchanged, Unstarted
<1>4. CASE CancelRun \/ OverruleRun
  BY <1>4 DEF CancelRun, OverruleRun, Requests, ByOperator, Unstarted
<1>5. CASE CancelRest
  BY <1>5, <1>a DEF CancelRest, CancelSteps, IdleApi, ByOperator, Unstarted
<1>6. CASE \/ ApproveSend \/ ApproveCommit \/ RetrySend \/ ApproveRollback \/ RetryCrash
           \/ \E s \in Steps : RetryDead(s) \/ CancelDead(s)
  BY <1>6, <1>c DEF ApproveSend, ApproveCommit, RetrySend, ApproveRollback, RetryCrash,
     RetryDead, Retryable, CancelDead, Unstarted
<1>7. CASE CancelRead \/ OverruleRead
  BY <1>7 DEF CancelRead, OverruleRead, Requests, ByOperator, Unstarted
<1>8. CASE ApproveCheck
  BY <1>8 DEF ApproveCheck, Unstarted, Asked
<1>9. CASE Reject
  BY <1>9, <1>a DEF Reject, CancelSteps, SetRun, ByOperator, Unstarted
<1>10. ASSUME NEW h \in Hands, HandStart(h) \/ HandStep(h) \/ HandCrash(h)
       PROVE  FALSE
  <2>1. ~ApproveRunRead(h)
    BY DEF ApproveRunRead, Unstarted, Asked
  <2>2. ~ContinueRead(h) /\ ~RetryRunRead(h) /\ \A s \in Steps : ~RetryFailed(h, s)
    BY <1>c DEF ContinueRead, RetryRunRead, RetryFailed, Unstarted, Finished
  <2>3. ~HandStep(h) /\ ~HandCrash(h)
    BY DEF HandStep, Pick, Requeue, Reset, Send, HandJobId, HandCrash, Unstarted
  <2> QED
    BY <1>10, <2>1, <2>2, <2>3 DEF HandStart
<1>11. ASSUME NEW s \in Steps, Report(s) \/ Tick(s)
       PROVE  FALSE
  BY <1>11, <1>c DEF Report, Tick, Unstarted
<1>12. ASSUME NEW r \in Resumers, ResumerStep(r)
       PROVE  FALSE
  BY <1>12 DEF ResumerStep, ResumeRun, ResumeGiveUp, ResumeSend, Unstarted
<1> QED
  BY <1>1, <1>2, <1>3, <1>4, <1>5, <1>6, <1>7, <1>8, <1>9, <1>10, <1>11, <1>12
     DEF Next, ApiStep, OperatorStep

LEMMA GateInvInductive == TypeInv /\ GateInv /\ [Next]_vars => GateInv'
<1> SUFFICES ASSUME TypeInv, GateInv, [Next]_vars
             PROVE  GateInv'
  OBVIOUS
<1>1. ASSUME NEW s \in Risky, s \notin Asked'
      PROVE  Untouched(s)'
  <2>1. s \notin Asked /\ Untouched(s)
    BY <1>1, AskedGrows DEF GateInv
  <2>2. CASE UNCHANGED vars
    BY <2>1, <2>2 DEF vars, Untouched
  <2>3. ASSUME NEW w \in Workers, WorkerStep(w) \/ Fault(w)
        PROVE  Untouched(s)'
    BY <2>1, <2>3, WorkerGate
  <2>4. CASE \/ ApiStep \/ OperatorStep
             \/ \E t \in Steps : Report(t) \/ Tick(t)
             \/ \E r \in Resumers : ResumerStep(r)
    BY <1>1, <2>1, <2>4, OtherGate
  <2>5. ASSUME NEW h \in Hands, HandStart(h) \/ HandStep(h) \/ HandCrash(h)
        PROVE  Untouched(s)'
    BY <1>1, <2>1, <2>5, HandGate
  <2> QED
    BY <2>2, <2>3, <2>4, <2>5 DEF Next
<1>2. ASSUME 1 \in Risky, 1 \notin Asked'
      PROVE  Unstarted'
  BY <1>2, AskedGrows, UnstartedStep DEF GateInv
<1> QED
  BY <1>1, <1>2 DEF GateInv

\* The tool of a step that asks for an approval takes effect only after an
\* operator has decided to approve this step or a continue has picked it: for every
\* plan, any number of workers and attempts, and whatever stalls, crashes, rolls
\* back, is canceled, retried or enqueued by hand.
THEOREM ApprovalGateHolds == Spec => []ApprovalGate
<1>1. Init => TypeInv /\ GateInv
  BY InitType, InitGate
<1>2. (TypeInv /\ GateInv) /\ [Next]_vars => (TypeInv /\ GateInv)'
  BY TypeInvInductive, GateInvInductive
<1>3. TypeInv /\ GateInv => ApprovalGate
  BY DEF GateInv, Untouched, Asked, ApprovalGate
<1> QED
  BY <1>1, <1>2, <1>3, PTL DEF Spec

-----------------------------------------------------------------------------
(* Until an operator enqueues a step by hand, the hands are idle and the   *)
(* other actors are the only ones that act.                                *)

CalmNext ==
    \/ \E w \in Workers : WorkerStep(w) \/ Fault(w)
    \/ ApiStep \/ OperatorStep
    \/ \E s \in Steps : Report(s) \/ Tick(s)
    \/ \E r \in Resumers : ResumerStep(r)

HandsIdle == forced \/ \A h \in Hands : hand[h].pc = "idle"

LEMMA InitHands == Init => HandsIdle /\ ~forced
BY DEF Init, IdleHand, HandsIdle

\* The actors of CalmNext leave the requests by hand alone.
LEMMA CalmLeavesHands == CalmNext => UNCHANGED <<hand, forced, continued>>
<1>1. ASSUME NEW w \in Workers, WorkerStep(w)
      PROVE  UNCHANGED <<hand, forced, continued>>
  BY <1>1 DEF WorkerStep, Fetch, Park, Drop, Begin, Mark, ToolEnds, ToolFails, FindAnswer,
     FindOpen, CreateExecution, CancelTail, Succeed, Count, Conclude, Fail, FailRun, Suspend,
     Throw, Dead, Schedule, OutOfTime, ScheduleNothing, Ask, AskRun, EnqueueNext, SetJobId,
     Stop, Done, ElseUnchanged
<1>2. ASSUME NEW w \in Workers, Fault(w)
      PROVE  UNCHANGED <<hand, forced, continued>>
  BY <1>2 DEF Fault, Stall, Crash, QueryFails
<1>3. ApiStep => UNCHANGED <<hand, forced, continued>>
  BY DEF ApiStep, Submit, CancelRun, OverruleRun, CancelRest, ApproveSend, ApproveCommit,
     RetrySend, ElseUnchanged, ByOperator
<1>4. OperatorStep => UNCHANGED <<hand, forced, continued>>
  BY DEF OperatorStep, CancelRead, OverruleRead, ApproveCheck, ApproveRollback, Reject,
     RetryDead, CancelDead, RetryCrash, ByOperator
<1>5. ASSUME NEW s \in Steps, Report(s) \/ Tick(s)
      PROVE  UNCHANGED <<hand, forced, continued>>
  BY <1>5 DEF Report, Tick, Elsewhere
<1>6. ASSUME NEW r \in Resumers, ResumerStep(r)
      PROVE  UNCHANGED <<hand, forced, continued>>
  BY <1>6 DEF ResumerStep, ResumeRun, ResumeGiveUp, ResumeSend, Elsewhere
<1> QED
  BY <1>1, <1>2, <1>3, <1>4, <1>5, <1>6 DEF CalmNext

\* A request by hand that is made stays made; as long as there is none, every step
\* is one of CalmNext.
LEMMA CalmStep ==
    ASSUME HandsIdle, [Next]_vars
    PROVE  /\ HandsIdle'
           /\ forced => forced'
           /\ ~forced' => ~forced /\ [CalmNext]_vars /\ UNCHANGED <<hand, continued>>
<1>1. CASE UNCHANGED vars
  BY <1>1 DEF vars, HandsIdle
<1>2. CASE CalmNext
  BY <1>2, CalmLeavesHands DEF HandsIdle
<1>3. ASSUME NEW h \in Hands, HandStart(h)
      PROVE  forced'
  BY <1>3 DEF HandStart, ContinueRead, RetryRunRead, ApproveRunRead, RetryFailed, ByHand
<1>4. ASSUME NEW h \in Hands, HandStep(h) \/ HandCrash(h)
      PROVE  forced /\ forced'
  BY <1>4 DEF HandStep, Pick, Requeue, Reset, Send, HandJobId, InHand, HandCrash, HandsIdle
<1> QED
  BY <1>1, <1>2, <1>3, <1>4 DEF Next, CalmNext, HandsIdle
=============================================================================
