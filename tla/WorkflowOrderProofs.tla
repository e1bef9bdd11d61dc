------------------------- MODULE WorkflowOrderProofs -------------------------
(* What the one token carries through the plan: the steps before it have   *)
(* succeeded, those after it have not begun.  From that follow the order   *)
(* of effects (the run implements PlanExecution) and, for runs that nobody *)
(* cancels and no fault befalls, that none is forgotten, that run and job  *)
(* agree and that success means that all is done.                          *)
EXTENDS WorkflowTokenProofs

-----------------------------------------------------------------------------
(* The position of the token in the plan.                                  *)

Later(s) == {t \in Steps : t > s}

\* The steps after s can still be scheduled, all of them, or have been canceled, all.
Fresh(s) == \A t \in Later(s) : step[t] = "pending" /\ ~hasJobId[t]
Gone(s) == \A t \in Later(s) : step[t] = "canceled"

\* The plan has come to step s.  The last conjunct is about workers that have passed the
\* token on and are late to write queue_job_id: they will not hide a step from the
\* scheduler that it has still to find.
Front(s) ==
    /\ \A t \in Steps : t < s => step[t] = "succeeded" /\ effects[t] > 0
    /\ \A t \in Later(s) : effects[t] = 0
    /\ Fresh(s) \/ Gone(s)
    /\ \A w \in Workers : worker[w].pc = "jobId" => worker[w].next <= s

\* A risky step that has not taken effect and will be asked for again when its message
\* meets a run that is still blocked.
Unasked(s) ==
    /\ s \in Risky
    /\ effects[s] = 0 /\ ~hasJobId[s]
    /\ step[s] = "pending" \/ (step[s] = "canceled" /\ Gone(s))

JobIdPlain ==
    \A w \in Workers : worker[w].pc = "jobId" => worker[w].next \notin Risky

MessageFront ==
    \A s \in Steps, made \in 0..(MaxAttempts - 1) :
        queue[<<s, made>>] > 0 =>
            Front(s) /\ (api.pc = "sent" => s = api.step /\ Unasked(s))

\* What a worker that holds the token knows at each of its program counters.
HolderAt(w) ==
    LET x == worker[w] IN
    /\ x.pc \notin {"ask", "askRun", "enqueue", "stop"} => Front(x.step)
    /\ x.pc \in {"ask", "enqueue"} => Front(x.next) /\ effects[x.next] = 0
    /\ x.pc = "ask" => Unasked(x.next)
    /\ x.pc = "enqueue" => x.next \notin Risky
    /\ x.pc = "park" => Unasked(x.step)
    /\ api.pc = "sent" => x.step = api.step /\ (x.pc # "dead" => Unasked(x.step))
    /\ x.pc \in {"drop", "cancelTail"} => run = "canceled"
    /\ x.pc = "succeed" => effects[x.step] > 0
    /\ x.pc \in {"count", "conclude"} => step[x.step] = "succeeded" /\ effects[x.step] > 0
    /\ x.pc = "schedule" => \/ run \in NotScheduled
                            \/ step[x.step] = "succeeded" /\ effects[x.step] > 0
                            \/ Unasked(x.step)

HolderFront == \A w \in Workers : Holds(w) => HolderAt(w)

ApprovalFront ==
    /\ Awaiting => Front(approval.step) /\ Unasked(approval.step)
    /\ api.pc \in {"checked", "sent"} => api.step = approval.step

RetryFront == api.pc = "retry" => Front(api.step)

DeadFront == \A s \in Steps : step[s] = "deadletter" => Front(s)

CreatedFront ==
    run = "created" =>
        /\ Front(1) /\ effects[1] = 0 /\ step[1] = "pending" /\ ~hasJobId[1]
        /\ \A w \in Workers : worker[w].pc = "idle"

OrderInv ==
    /\ JobIdPlain /\ MessageFront /\ HolderFront /\ ApprovalFront /\ RetryFront
    /\ DeadFront /\ CreatedFront

\* At the start the plan has come to its first step.
LEMMA InitOrder == Init => OrderInv
<1> SUFFICES ASSUME Init PROVE OrderInv
  OBVIOUS
<1>1. /\ \A m \in Messages : queue[m] = 0
      /\ \A w \in Workers : worker[w].pc = "idle"
      /\ \A s \in Steps : step[s] = "pending" /\ ~hasJobId[s] /\ effects[s] = 0
      /\ approval.status = "none" /\ api.pc = "idle"
      /\ 1 \in Steps
  BY StepsAssumption DEF Init, IdleWorker, IdleApi, Steps
<1>2. Front(1)
  BY <1>1 DEF Front, Fresh, Later, Steps
<1>3. JobIdPlain /\ MessageFront /\ HolderFront
  BY <1>1 DEF JobIdPlain, MessageFront, HolderFront, Messages, Holds, Resting
<1> QED
  BY <1>1, <1>2, <1>3 DEF OrderInv, ApprovalFront, Awaiting, RetryFront, DeadFront,
     CreatedFront

\* Whoever works on step s leaves the other steps alone.
LEMMA FrontKept ==
    ASSUME NEW s \in Steps, Front(s),
           \A t \in Steps : t # s => /\ step'[t] = step[t] /\ hasJobId'[t] = hasJobId[t]
                                     /\ effects'[t] = effects[t],
           \A w \in Workers : worker'[w].pc = "jobId" =>
                                 worker[w].pc = "jobId" /\ worker'[w].next = worker[w].next
    PROVE  Front(s)'
<1>1. \A t \in Later(s) : t \in Steps /\ t # s
  BY DEF Later, Steps
<1>2. Fresh(s) => Fresh(s)'
  BY <1>1 DEF Fresh, Later
<1>3. Gone(s) => Gone(s)'
  BY <1>1 DEF Gone, Later
<1>4. \A t \in Steps : t < s => t # s
  BY DEF Steps
<1> QED
  BY <1>1, <1>2, <1>3, <1>4 DEF Front, Later

\* A cancel takes all steps after s, or finds them canceled.
LEMMA FrontCanceled ==
    ASSUME TypeOK, NEW s \in Steps, Front(s), NEW S, "pending" \in S,
           S \subseteq {"pending", "running"}, CancelSteps(S),
           UNCHANGED <<hasJobId, effects, worker>>
    PROVE  /\ Front(s)'
           /\ Unasked(s) => Unasked(s)'
<1>1. Gone(s)'
  BY DEF Front, Fresh, Gone, Later, CancelSteps
<1>2. Front(s)'
  BY <1>1 DEF Front, Later, CancelSteps
<1>3. Unasked(s) => Unasked(s)'
  BY <1>1 DEF Unasked, CancelSteps
<1> QED
  BY <1>2, <1>3

\* The holder goes on, as in HolderMoves, and what it knows is true of the state it
\* leaves.
LEMMA HolderMovesOrder ==
    ASSUME TypeInv, TokenInv, TokenInv', OrderInv, NEW w \in Workers, HolderMoves(w),
           worker'[w].pc # "jobId",
           Awaiting => UNCHANGED <<step, hasJobId, effects>>,
           Holds(w)' => HolderAt(w)',
           \A s \in Steps : step'[s] = "deadletter" => Front(s)'
    PROVE  OrderInv'
<1> USE DEF HolderMoves
<1>1. NoMessage'
  BY DEF TokenInv, MessageOrHolder, NobodyHolds, NoMessage
<1>2. \A v \in Workers : v # w => ~Holds(v)'
  BY DEF TokenInv, OneHolder, Holds
<1>3. JobIdPlain'
  BY DEF OrderInv, JobIdPlain
<1>4. MessageFront'
  BY <1>1 DEF NoMessage, MessageFront, Messages
<1>5. HolderFront'
  BY <1>2 DEF HolderFront
<1>6. api.pc # "retry"
  BY DEF TokenInv, RetryAlone, NobodyHolds
<1>7. ApprovalFront'
  <2>1. CASE Awaiting
    <3>1. approval.step \in Steps
      BY DEF TypeInv, TypeOK
    <3>2. Front(approval.step) /\ Unasked(approval.step)
      BY <2>1 DEF OrderInv, ApprovalFront
    <3>3. Front(approval.step)'
      BY <2>1, <3>1, <3>2, FrontKept
    <3>4. Unasked(approval.step)'
      BY <2>1, <3>2 DEF Unasked, Gone, Later
    <3> QED
      BY <3>3, <3>4 DEF OrderInv, ApprovalFront
  <2>2. CASE ~Awaiting
    BY <2>2 DEF OrderInv, ApprovalFront, Awaiting
  <2> QED
    BY <2>1, <2>2
<1> QED
  BY <1>3, <1>4, <1>5, <1>6, <1>7 DEF OrderInv, RetryFront, DeadFront, CreatedFront

\* The holder passes the token on in a message, as in HolderSends.
LEMMA HolderSendsOrder ==
    ASSUME TypeInv, TokenInv, TokenInv', OrderInv, NEW w \in Workers,
           NEW s \in Steps, NEW made \in 0..(MaxAttempts - 1),
           HolderSends(w, <<s, made>>), UNCHANGED <<hasJobId, effects>>,
           worker'[w].pc = "jobId" => s \notin Risky /\ worker'[w].next = s,
           Front(s), api.pc = "sent" => s = api.step /\ Unasked(s)
    PROVE  OrderInv'
<1> USE DEF HolderSends
<1>0. <<s, made>> \in Messages
  BY DEF Messages
<1>1. \A t \in Steps, n \in 0..(MaxAttempts - 1) :
         queue'[<<t, n>>] > 0 => t = s /\ n = made
  <2>1. NoMessage
    BY DEF TokenInv, MessageOrHolder, NobodyHolds
  <2> QED
    BY <2>1, <1>0 DEF TypeInv, TypeOK, NoMessage, Messages
<1>2. NobodyHolds'
  BY DEF TokenInv, OneHolder, NobodyHolds, Holds
<1>3. JobIdPlain'
  BY DEF OrderInv, JobIdPlain
<1>4. Front(s)'
  <2>1. s <= s
    BY DEF Steps
  <2> QED
    BY <2>1 DEF Front, Fresh, Gone, Later
<1>5. Unasked(s) => Unasked(s)'
  BY DEF Unasked, Gone, Later
<1>6. MessageFront'
  BY <1>1, <1>4, <1>5 DEF MessageFront
<1>7. HolderFront'
  BY <1>2 DEF HolderFront, NobodyHolds
<1>8. /\ api.pc # "retry" /\ ~Awaiting /\ run # "created"
      /\ \A t \in Steps : step[t] # "deadletter"
  BY DEF TokenInv, RetryAlone, AwaitingAlone, CreatedAlone, DeadAlone, NobodyHolds
<1>9. ApprovalFront'
  BY <1>8 DEF OrderInv, ApprovalFront, Awaiting
<1> QED
  BY <1>3, <1>6, <1>7, <1>8, <1>9 DEF OrderInv, RetryFront, DeadFront, CreatedFront

\* The first candidate is the front of the plan, and nothing of it has happened.
LEMMA FirstIsFront ==
    ASSUME TypeOK, NEW s \in Steps, NEW c \in Steps, Front(s), First(c),
           (step[s] = "succeeded" /\ effects[s] > 0) \/ Unasked(s)
    PROVE  Front(c) /\ effects[c] = 0 /\ (c \in Risky => Unasked(c))
<1>1. c \in Candidates /\ step[c] = "pending" /\ ~hasJobId[c]
  BY DEF First, Candidates
<1>2. s \in Nat /\ c \in Nat
  BY StepsAssumption DEF Steps
<1>3. c >= s
  BY <1>1, <1>2 DEF Front
<1>4. CASE c = s
  BY <1>1, <1>4 DEF Unasked
<1>5. CASE c > s
  <2>1. c \in Later(s)
    BY <1>5 DEF Later
  <2>2. Fresh(s) /\ effects[c] = 0
    BY <1>1, <2>1 DEF Front, Gone
  <2>3. step[s] = "succeeded" /\ effects[s] > 0
    <3>1. ASSUME Unasked(s) PROVE FALSE
      <4>1. s \in Candidates
        BY <1>1, <2>1, <3>1 DEF Unasked, Candidates, Gone
      <4> QED
        BY <4>1, <1>2, <1>5 DEF First
    <3> QED
      BY <3>1
  <2>4. c = s + 1
    <3>1. ASSUME s + 1 < c PROVE FALSE
      <4>1. s + 1 \in Later(s)
        BY <1>2, <3>1, StepsAssumption DEF Later, Steps
      <4>2. s + 1 \in Candidates
        BY <4>1, <2>2 DEF Fresh, Candidates, Later
      <4> QED
        BY <4>2, <3>1, <1>2 DEF First
    <3> QED
      BY <3>1, <1>2, <1>5
  <2>5. \A t \in Steps : t < c => t < s \/ t = s
    BY <2>4, <1>2 DEF Steps
  <2>6. Later(c) \subseteq Later(s)
    BY <2>4, <1>2 DEF Later, Steps
  <2>7. \A w \in Workers : worker[w].pc = "jobId" => worker[w].next <= c
    <3>1. ASSUME NEW w \in Workers, worker[w].pc = "jobId" PROVE worker[w].next <= c
      <4>1. worker[w].next \in Nat
        BY StepsAssumption DEF TypeOK, WorkerStates, Steps
      <4>2. worker[w].next <= s
        BY <3>1 DEF Front
      <4> QED
        BY <4>1, <4>2, <2>4, <1>2
    <3> QED
      BY <3>1
  <2>8. Front(c)
    BY <2>2, <2>3, <2>5, <2>6, <2>7 DEF Front, Fresh
  <2> QED
    BY <2>2, <2>8, <1>1 DEF Unasked
<1> QED
  BY <1>2, <1>3, <1>4, <1>5

\* A worker that does not hold the token goes on without it, as in RestMovesToken.
LEMMA RestMovesOrder ==
    ASSUME OrderInv, NEW w \in Workers, ~Holds(w), ~Holds(w)',
           \A v \in Workers : v # w => worker'[v] = worker[v],
           UNCHANGED <<run, step, queue, api, approval, effects>>,
           worker'[w].pc # "jobId", run # "created",
           \A s \in Steps : (Front(s) => Front(s)') /\ (Unasked(s) => Unasked(s)'),
           approval.step \in Steps, api.step \in Steps,
           worker \in [Workers -> WorkerStates], step \in [Steps -> StepStatuses]
    PROVE  OrderInv'
<1>1. JobIdPlain'
  BY DEF OrderInv, JobIdPlain
<1>2. MessageFront'
  BY DEF OrderInv, MessageFront
<1>3. HolderFront'
  <2>1. SUFFICES ASSUME NEW v \in Workers, Holds(v)'
                 PROVE  HolderAt(v)'
    BY DEF HolderFront
  <2>2. Holds(v) /\ worker'[v] = worker[v]
    BY <2>1 DEF Holds
  <2>3. PICK s \in Steps, n \in Steps : worker[v].step = s /\ worker[v].next = n
    BY DEF WorkerStates
  <2>4. HolderAt(v)
    BY <2>2 DEF OrderInv, HolderFront
  <2> QED
    BY <2>2, <2>3, <2>4 DEF HolderAt
<1>4. ApprovalFront'
  <2>1. PICK s \in Steps : approval.step = s
    OBVIOUS
  <2> QED
    BY <2>1 DEF OrderInv, ApprovalFront, Awaiting
<1>5. RetryFront'
  <2>1. PICK s \in Steps : api.step = s
    OBVIOUS
  <2> QED
    BY <2>1 DEF OrderInv, RetryFront
<1>6. DeadFront' /\ CreatedFront'
  BY DEF OrderInv, DeadFront, CreatedFront
<1> QED
  BY <1>1, <1>2, <1>3, <1>4, <1>5, <1>6 DEF OrderInv

\* A step of a worker, or a fault that befalls it.
LEMMA WorkerOrder ==
    ASSUME Unduplicated, TypeInv, TokenInv, TokenInv', OrderInv,
           NEW w \in Workers, WorkerStep(w) \/ Fault(w)
    PROVE  OrderInv'
<1>a. worker \in [Workers -> [pc : WorkerPCs, step : Steps, made : 0..(MaxAttempts - 1),
                             own : BOOLEAN, note : Notes, next : Steps]]
  BY HolderFacts
<1>s. PICK s \in Steps : worker[w].step = s
  BY <1>a
<1>b. /\ \A v \in Workers : v # w => worker'[v] = worker[v]
      /\ api' = api
  BY OnlyOneWorker
<1>c. /\ Holds(w) /\ api.pc = "sent" => worker[w].pc \in {"park", "throw", "dead"}
      /\ Holds(w) /\ Awaiting => worker[w].pc = "askRun"
      /\ worker[w].pc \notin {"lookup", "create", "suspend"}
      /\ worker[w].pc \in Scheduling => AgentRun
      /\ AgentRun => Resting = {"idle", "jobId", "done"}
      /\ ~AgentRun => Resting = {"idle"}
      /\ AgentRun \in BOOLEAN
  BY HolderFacts
<1>d. /\ step \in [Steps -> StepStatuses] /\ effects \in [Steps -> Nat]
      /\ hasJobId \in [Steps -> BOOLEAN]
  BY DEF TypeInv, TypeOK
<1>e. Holds(w) => HolderAt(w)
  BY DEF OrderInv, HolderFront
<1>f. Holds(w) => \A t \in Steps : step[t] # "deadletter"
  BY DEF TokenInv, DeadAlone, NobodyHolds
<1>g. ASSUME Front(s), worker'[w].pc # "jobId",
             \A t \in Steps : t # s => /\ step'[t] = step[t] /\ hasJobId'[t] = hasJobId[t]
                                       /\ effects'[t] = effects[t]
      PROVE  Front(s)'
  <2>1. \A v \in Workers : worker'[v].pc = "jobId" =>
                              worker[v].pc = "jobId" /\ worker'[v].next = worker[v].next
    BY <1>g, <1>b
  <2> QED
    BY <1>g, <2>1, FrontKept
<1>h. ASSUME HolderAction(w), worker'[w].pc # "jobId",
             Awaiting => UNCHANGED <<step, hasJobId, effects>>,
             Holds(w)' => HolderAt(w)',
             \A t \in Steps : step'[t] = "deadletter" => Front(t)'
      PROVE  OrderInv'
  <2>1. HolderMoves(w)
    BY <1>h, HolderActionMoves
  <2> QED
    BY <1>h, <2>1, HolderMovesOrder
<1>i. /\ approval.step \in Steps /\ api.step \in Steps
      /\ worker \in [Workers -> WorkerStates] /\ step \in [Steps -> StepStatuses]
  BY DEF TypeInv, TypeOK, ApiStates
<1> USE DEF At
<1>1. CASE Park(w)
  <2>1. /\ Holds(w) /\ ~Awaiting /\ api.pc # "sent" /\ Front(s) /\ Unasked(s)
        /\ worker'[w] = [worker[w] EXCEPT !.pc = IF AgentRun THEN "schedule" ELSE "done",
                                          !.note = "none"]
    BY <1>1, <1>a, <1>s, <1>c, <1>e DEF Park, RowsFree, Holds, HolderAt, Returned, Become
  <2>2. worker'[w].pc \in {"schedule", "done"} /\ worker'[w].step = s
    BY <2>1, <1>a, <1>s
  <2>3. /\ \A t \in Steps : t # s => step'[t] = step[t]
        /\ step'[s] = "pending" /\ UNCHANGED <<hasJobId, effects>>
    BY <1>1, <1>d, <1>s, <2>1 DEF Park, SetStep, Unasked
  <2>4. Front(s)'
    BY <1>g, <2>1, <2>2, <2>3
  <2>5. Unasked(s)'
    BY <2>1, <2>3 DEF Unasked
  <2>6. HolderAt(w)'
    BY <2>1, <2>2, <2>4, <2>5, <1>b DEF HolderAt
  <2> QED
    BY <1>1, <1>f, <1>h, <2>1, <2>2, <2>3, <2>6 DEF HolderAction
<1>2. CASE Drop(w)
  <2>1. /\ Holds(w) /\ ~Awaiting /\ api.pc # "sent" /\ Front(s) /\ run = "canceled"
        /\ worker'[w] = [worker[w] EXCEPT !.pc = IF AgentRun THEN "schedule" ELSE "done",
                                          !.note = "none"]
    BY <1>2, <1>a, <1>s, <1>c, <1>e DEF Drop, RowsFree, Holds, HolderAt, Returned, Become
  <2>2. worker'[w].pc \in {"schedule", "done"} /\ worker'[w].step = s
    BY <2>1, <1>a, <1>s
  <2>3. /\ \A t \in Steps : t # s => step'[t] = step[t]
        /\ step'[s] = "canceled" /\ UNCHANGED <<run, hasJobId, effects>>
    BY <1>2, <1>d, <1>s DEF Drop, SetStep
  <2>4. Front(s)'
    BY <1>g, <2>1, <2>2, <2>3
  <2>5. HolderAt(w)'
    BY <2>1, <2>2, <2>3, <2>4, <1>b DEF HolderAt, NotScheduled, Finished
  <2> QED
    BY <1>2, <1>f, <1>h, <2>1, <2>2, <2>3, <2>5 DEF HolderAction
<1>3. CASE Begin(w) \/ Mark(w)
  <2>1. /\ Holds(w) /\ ~Awaiting /\ api.pc # "sent" /\ Front(s)
        /\ worker'[w].pc \in {"mark", "tool"} /\ worker'[w].step = s
    BY <1>3, <1>a, <1>s, <1>c, <1>e DEF Begin, Mark, Holds, HolderAt, Goto
  <2>2. /\ \A t \in Steps : t # s => step'[t] = step[t]
        /\ \A t \in Steps : step'[t] = "deadletter" => step[t] = "deadletter"
        /\ UNCHANGED <<hasJobId, effects>>
    BY <1>3, <1>d, <1>s DEF Begin, Mark, SetStep
  <2>3. Front(s)'
    BY <1>g, <2>1, <2>2
  <2>4. HolderAt(w)'
    BY <2>1, <2>3, <1>b DEF HolderAt
  <2> QED
    BY <1>3, <1>f, <1>h, <2>1, <2>2, <2>4 DEF HolderAction
<1>4. CASE ToolEnds(w)
  <2>1. /\ Holds(w) /\ ~Awaiting /\ api.pc # "sent" /\ Front(s)
        /\ worker'[w].pc = (IF run = "canceled" THEN "cancelTail" ELSE "succeed")
        /\ worker'[w].step = s
    BY <1>4, <1>a, <1>s, <1>c, <1>e DEF ToolEnds, Verify, Holds, HolderAt, Goto
  <2>2. /\ \A t \in Steps : t # s => effects'[t] = effects[t]
        /\ effects'[s] > 0 /\ UNCHANGED <<run, step, hasJobId>>
    BY <1>4, <1>d, <1>s DEF ToolEnds
  <2>3. Front(s)'
    BY <1>g, <2>1, <2>2
  <2>4. HolderAt(w)'
    BY <2>1, <2>2, <2>3, <1>b DEF HolderAt
  <2> QED
    BY <1>4, <1>f, <1>h, <2>1, <2>2, <2>4 DEF HolderAction
<1>5. CASE ToolFails(w)
  <2>1. /\ Holds(w) /\ ~Awaiting /\ api.pc # "sent" /\ Front(s)
        /\ worker'[w].pc = "fail" /\ worker'[w].step = s
    BY <1>5, <1>a, <1>s, <1>c, <1>e DEF ToolFails, Holds, HolderAt, Become
  <2>2. /\ \A t \in Steps : t # s => effects'[t] = effects[t]
        /\ UNCHANGED <<run, step, hasJobId>>
    BY <1>5, <1>d, <1>s DEF ToolFails
  <2>3. Front(s)'
    BY <1>g, <2>1, <2>2
  <2>4. HolderAt(w)'
    BY <2>1, <2>3, <1>b DEF HolderAt
  <2> QED
    BY <1>5, <1>f, <1>h, <2>1, <2>2, <2>4 DEF HolderAction
<1>6. CASE CancelTail(w)
  <2>1. /\ Holds(w) /\ ~Awaiting /\ api.pc # "sent" /\ Front(s)
        /\ worker'[w] = [worker[w] EXCEPT !.pc = IF AgentRun THEN "schedule" ELSE "done",
                                          !.note = "none"]
    BY <1>6, <1>a, <1>s, <1>c, <1>e DEF CancelTail, Holds, HolderAt, Returned, Become
  <2>2. worker'[w].pc \in {"schedule", "done"} /\ worker'[w].step = s
    BY <2>1, <1>a, <1>s
  <2>3. /\ \A t \in Steps : t # s => step'[t] = step[t]
        /\ step'[s] = "canceled" /\ run' = "canceled" /\ UNCHANGED <<hasJobId, effects>>
    BY <1>6, <1>d, <1>s DEF CancelTail, SetStep, SetRun
  <2>4. Front(s)'
    BY <1>g, <2>1, <2>2, <2>3
  <2>5. HolderAt(w)'
    BY <2>1, <2>2, <2>3, <2>4, <1>b DEF HolderAt, NotScheduled, Finished
  <2> QED
    BY <1>6, <1>f, <1>h, <2>1, <2>2, <2>3, <2>5 DEF HolderAction
<1>7. CASE Succeed(w)
  <2>1. /\ Holds(w) /\ ~Awaiting /\ api.pc # "sent" /\ Front(s) /\ effects[s] > 0
        /\ worker'[w].pc \in {"count", "conclude"} /\ worker'[w].step = s
    BY <1>7, <1>a, <1>s, <1>c, <1>e DEF Succeed, Holds, HolderAt, Become
  <2>2. /\ \A t \in Steps : t # s => step'[t] = step[t]
        /\ step'[s] = "succeeded" /\ UNCHANGED <<run, hasJobId, effects>>
    BY <1>7, <1>d, <1>s DEF Succeed, SetStep
  <2>3. Front(s)'
    BY <1>g, <2>1, <2>2
  <2>4. HolderAt(w)'
    BY <2>1, <2>2, <2>3, <1>b DEF HolderAt
  <2> QED
    BY <1>7, <1>f, <1>h, <2>1, <2>2, <2>4 DEF HolderAction
<1>8. CASE Count(w) \/ Conclude(w)
  <2>1. /\ Holds(w) /\ ~Awaiting /\ api.pc # "sent" /\ Front(s)
        /\ step[s] = "succeeded" /\ effects[s] > 0
    BY <1>8, <1>a, <1>s, <1>c, <1>e DEF Count, Conclude, Holds, HolderAt
  <2>2. worker'[w].pc \in {"conclude", "schedule", "done"} /\ worker'[w].step = s
    BY <1>8, <1>a, <1>s DEF Count, Conclude, Returned, Become
  <2>3. UNCHANGED <<step, hasJobId, effects>>
    BY <1>8 DEF Count, Conclude
  <2>4. Front(s)'
    BY <1>g, <2>1, <2>2, <2>3
  <2>5. HolderAt(w)'
    BY <2>1, <2>2, <2>3, <2>4, <1>b DEF HolderAt
  <2> QED
    BY <1>8, <1>f, <1>h, <2>1, <2>2, <2>3, <2>5 DEF HolderAction
<1>9. CASE Fail(w) \/ FailRun(w)
  <2>1. /\ Holds(w) /\ ~Awaiting /\ api.pc # "sent" /\ Front(s)
    BY <1>9, <1>a, <1>s, <1>c, <1>e DEF Fail, FailRun, Holds, HolderAt
  <2>2. /\ worker'[w].step = s
        /\ worker'[w].pc \in {"failRun", "throw", "schedule", "done"}
        /\ worker'[w].pc = "schedule" => run' = "failed"
    <3>1. CASE Goto(w, "failRun") \/ Goto(w, "throw")
      BY <3>1, <1>a, <1>s DEF Goto
    <3>2. CASE FailRun(w) /\ Returned(w)
      BY <3>2, <1>a, <1>s DEF FailRun, SetRun, Returned, Become
    <3> QED
      BY <1>9, <3>1, <3>2 DEF Fail, FailRun
  <2>3. /\ \A t \in Steps : t # s => step'[t] = step[t]
        /\ \A t \in Steps : step'[t] = "deadletter" => step[t] = "deadletter"
        /\ UNCHANGED <<hasJobId, effects>>
    BY <1>9, <1>d, <1>s DEF Fail, FailRun, SetStep
  <2>4. Front(s)'
    BY <1>g, <2>1, <2>2, <2>3
  <2>5. HolderAt(w)'
    BY <2>1, <2>2, <2>3, <2>4, <1>b DEF HolderAt, NotScheduled, Finished
  <2> QED
    BY <1>9, <1>f, <1>h, <2>1, <2>2, <2>3, <2>5 DEF HolderAction
<1>10. CASE Dead(w)
  <2>1. /\ Holds(w) /\ ~Awaiting /\ Front(s)
        /\ worker'[w].pc = "idle" /\ ~Holds(w)'
    BY <1>10, <1>a, <1>s, <1>c, <1>e DEF Dead, Holds, HolderAt, Become, IdleWorker
  <2>2. /\ \A t \in Steps : t # s => step'[t] = step[t] /\ hasJobId'[t] = hasJobId[t]
        /\ UNCHANGED effects
    BY <1>10, <1>d, <1>s DEF Dead, SetStep
  <2>3. Front(s)'
    BY <1>g, <2>1, <2>2
  <2> QED
    BY <1>10, <1>f, <1>h, <2>1, <2>2, <2>3 DEF HolderAction
<1>11. CASE Throw(w) /\ ~(worker[w].own /\ worker[w].made + 1 < MaxAttempts)
  <2>1. /\ Holds(w) /\ ~Awaiting /\ Front(s) /\ (api.pc = "sent" => s = api.step)
    BY <1>11, <1>a, <1>s, <1>c, <1>e DEF Throw, Holds, HolderAt
  <2>2. /\ worker'[w].pc \in {"idle", "dead"}
        /\ worker'[w].pc = "dead" => worker'[w].step = s
    BY <1>11, <1>a, <1>s DEF Throw, Become, Goto, IdleWorker
  <2>3. UNCHANGED <<step, hasJobId, effects>>
    BY <1>11 DEF Throw
  <2>4. Front(s)'
    BY <1>g, <2>1, <2>2, <2>3
  <2>5. Holds(w)' => HolderAt(w)'
    BY <2>1, <2>2, <2>4, <1>b, <1>c DEF HolderAt, Holds
  <2> QED
    BY <1>11, <1>f, <1>h, <2>1, <2>2, <2>3, <2>5 DEF HolderAction
<1>12. CASE Throw(w) /\ worker[w].own /\ worker[w].made + 1 < MaxAttempts
  <2>1. /\ HolderSends(w, <<s, worker[w].made + 1>>)
        /\ worker[w].made + 1 \in 0..(MaxAttempts - 1)
        /\ worker'[w].pc = "idle"
    BY <1>12, <1>s, HolderActionSends
  <2>2. Front(s) /\ (api.pc = "sent" => s = api.step /\ Unasked(s))
    BY <1>12, <2>1, <1>s, <1>e DEF HolderSends, Throw, HolderAt
  <2> QED
    BY <1>12, <2>1, <2>2, HolderSendsOrder DEF Throw
<1>13. CASE Schedule(w)
  <2>1. PICK c \in Steps :
           /\ First(c) /\ run \notin NotScheduled
           /\ Become(w, [worker[w] EXCEPT !.pc = Move(c), !.next = c])
    BY <1>13 DEF Schedule
  <2>2. /\ Holds(w) /\ ~Awaiting /\ api.pc # "sent" /\ Front(s)
        /\ (step[s] = "succeeded" /\ effects[s] > 0) \/ Unasked(s)
    BY <1>13, <2>1, <1>a, <1>s, <1>c, <1>e DEF Schedule, Holds, HolderAt
  <2>3. Front(c) /\ effects[c] = 0 /\ (c \in Risky => Unasked(c))
    BY <2>1, <2>2, FirstIsFront DEF TypeInv
  <2>4. /\ worker'[w].pc \in {"stop", "ask", "enqueue"} /\ worker'[w].next = c
        /\ worker'[w].pc = "ask" => c \in Risky
        /\ worker'[w].pc = "enqueue" => c \notin Risky
    BY <2>1, <1>a DEF Become, Move
  <2>5. UNCHANGED <<step, hasJobId, effects>>
    BY <1>13 DEF Schedule
  <2>6. Front(c)' /\ (Unasked(c) => Unasked(c)')
    <3>1. \A v \in Workers : worker'[v].pc = "jobId" =>
                                worker[v].pc = "jobId" /\ worker'[v].next = worker[v].next
      BY <2>4, <1>b
    <3>2. Front(c)'
      BY <2>3, <2>5, <3>1, FrontKept
    <3> QED
      BY <2>5, <3>2 DEF Unasked, Gone, Later
  <2>7. HolderAt(w)'
    BY <2>2, <2>3, <2>4, <2>5, <2>6, <1>b DEF HolderAt
  <2> QED
    BY <1>13, <1>f, <1>h, <2>2, <2>4, <2>5, <2>7 DEF HolderAction
<1>14. CASE OutOfTime(w) \/ ScheduleNothing(w) \/ AskRun(w) \/ Stop(w)
  <2>1. /\ Holds(w) /\ AgentRun
        /\ worker'[w].pc \in {"stop", "done"}
    BY <1>14, <1>a, <1>c DEF OutOfTime, ScheduleNothing, AskRun, Stop, Goto, Holds, Scheduling
  <2>2. /\ Awaiting => UNCHANGED <<step, hasJobId, effects>>
        /\ \A t \in Steps : step'[t] = "deadletter" => step[t] = "deadletter"
    BY <1>14, <1>d, <2>1, <1>c DEF OutOfTime, ScheduleNothing, AskRun, Stop, CancelSteps
  <2>3. worker'[w].pc = "stop" => api.pc # "sent"
    BY <1>14, <2>1, <1>a, <1>c DEF OutOfTime, ScheduleNothing, AskRun, Stop, Goto
  <2>4. Holds(w)' => HolderAt(w)'
    BY <2>1, <2>3, <1>b, <1>c DEF HolderAt, Holds
  <2> QED
    BY <1>14, <1>f, <1>h, <2>1, <2>2, <2>4 DEF HolderAction
<1>15. CASE \/ Holds(w) /\ Done(w)
            \/ Crash(w) /\ (At(w, "dead") \/ queue' = queue)
  <2>1. worker'[w].pc = "idle" /\ ~Holds(w)' /\ UNCHANGED <<step, hasJobId, effects>>
    BY <1>15, <1>a, <1>c DEF Done, Crash, Become, IdleWorker, Holds
  <2>2. Holds(w)
    BY <1>15, <1>c DEF Holds, Crash, Unduplicated, TypeInv, WorkersConsistent, Consistent
  <2> QED
    BY <1>15, <2>1, <2>2, <1>f, <1>h DEF HolderAction
<1>16. CASE Holds(w) /\ QueryFails(w)
  <2>1. worker'[w].pc = Recovery(worker[w].pc) /\ worker'[w].step = s
    BY <1>16, <1>a, <1>s DEF QueryFails, Become
  <2>2. /\ worker'[w].pc \in {"fail", "throw", "done"}
        /\ worker'[w].pc = "done" => worker[w].pc \in Scheduling
        /\ worker'[w].pc # "done" => worker[w].pc \notin {"ask", "askRun", "enqueue", "stop"}
        /\ worker[w].pc # "dead"
    BY <1>16, <2>1 DEF QueryFails, Recovery, Scheduling
  <2>3. UNCHANGED <<step, hasJobId, effects>>
    BY <1>16 DEF QueryFails
  <2>4. worker'[w].pc = "done" => ~Holds(w)'
    BY <2>2, <1>c DEF Holds
  <2>5. worker'[w].pc # "done" =>
           Front(s) /\ (api.pc = "sent" => s = api.step /\ Unasked(s))
    BY <1>16, <2>2, <1>e, <1>s DEF HolderAt
  <2>6. worker'[w].pc # "done" => Front(s)'
    BY <2>2, <2>3, <2>5, <1>g
  <2>7. Unasked(s) => Unasked(s)'
    BY <2>3 DEF Unasked, Gone, Later
  <2>8. Holds(w)' => HolderAt(w)'
    BY <2>1, <2>2, <2>4, <2>5, <2>6, <2>7, <1>b DEF HolderAt
  <2> QED
    BY <1>16, <1>f, <1>h, <2>2, <2>3, <2>8 DEF HolderAction
<1>17. ASSUME NEW t \in Steps, NEW made \in 0..(MaxAttempts - 1), Fetch(w, t, made)
       PROVE  OrderInv'
  <2>1. <<t, made>> \in Messages /\ queue[<<t, made>>] > 0
    BY <1>17 DEF Fetch, Messages
  <2>2. /\ NobodyHolds /\ ~Awaiting /\ api.pc # "retry" /\ run # "created"
        /\ \A u \in Steps : step[u] # "deadletter"
        /\ run = "needs_approval" => api.pc = "sent"
        /\ api.pc = "sent" => run = "needs_approval"
        /\ run # "needs_device"
    BY <2>1 DEF TokenInv, MessageOrHolder, NoMessage, RetryAlone, AwaitingAlone, DeadAlone,
       CreatedAlone, Deciding, PlainPaths
  <2>3. /\ UNCHANGED <<run, step, hasJobId, approval, effects>>
        /\ worker'[w].pc = Entry(run) /\ worker'[w].step = t
    BY <1>17, <1>a DEF Fetch, Become
  <2>4. /\ Entry(run) \in {"park", "drop", "begin"}
        /\ Entry(run) = "park" => run = "needs_approval"
        /\ Entry(run) = "drop" => run = "canceled"
    BY <2>2 DEF Entry, Blocked
  <2>5. Front(t) /\ (api.pc = "sent" => t = api.step /\ Unasked(t))
    BY <2>1 DEF OrderInv, MessageFront
  <2>6. Front(t)'
    <3>1. \A v \in Workers : worker'[v].pc = "jobId" =>
                                worker[v].pc = "jobId" /\ worker'[v].next = worker[v].next
      BY <2>3, <2>4, <1>b
    <3> QED
      BY <2>3, <2>5, <3>1, FrontKept
  <2>7. Unasked(t) => Unasked(t)'
    BY <2>3 DEF Unasked, Gone, Later
  <2>8. HolderAt(w)'
    BY <2>2, <2>3, <2>4, <2>5, <2>6, <2>7, <1>b DEF HolderAt
  <2>9. \A v \in Workers : Holds(v)' => v = w
    BY <2>2, <1>b DEF NobodyHolds, Holds
  <2>10. NoMessage'
    <3>1. Holds(w)'
      BY <2>3, <2>4 DEF Holds, Resting
    <3> QED
      BY <3>1 DEF TokenInv, MessageOrHolder, NobodyHolds
  <2>11. JobIdPlain'
    BY <2>3, <2>4, <1>b DEF OrderInv, JobIdPlain
  <2>12. ApprovalFront'
    BY <2>2, <2>3, <1>b DEF OrderInv, ApprovalFront, Awaiting
  <2>13. MessageFront' /\ HolderFront'
    BY <2>8, <2>9, <2>10 DEF MessageFront, HolderFront, NoMessage, Messages
  <2> QED
    BY <2>2, <2>3, <2>11, <2>12, <2>13, <1>b DEF OrderInv, RetryFront, DeadFront, CreatedFront
<1>18. CASE Ask(w)
  <2>1. PICK n \in Steps : worker[w].next = n
    BY <1>a
  <2>2. /\ Holds(w) /\ api.pc # "sent" /\ Front(n) /\ Unasked(n)
        /\ worker'[w].pc = "askRun"
    BY <1>18, <2>1, <1>a, <1>c, <1>e DEF Ask, RowsFree, Holds, HolderAt, Goto
  <2>3. /\ approval' = [status |-> "pending", step |-> n]
        /\ UNCHANGED <<run, step, hasJobId, queue, effects>>
    BY <1>18, <2>1 DEF Ask
  <2>4. Front(n)'
    <3>1. \A v \in Workers : worker'[v].pc = "jobId" =>
                                worker[v].pc = "jobId" /\ worker'[v].next = worker[v].next
      BY <2>2, <1>b
    <3> QED
      BY <2>2, <2>3, <3>1, FrontKept
  <2>5. Unasked(n)'
    BY <2>2, <2>3 DEF Unasked, Gone, Later
  <2>6. /\ NoMessage' /\ api.pc \notin {"checked", "sent", "retry"} /\ run # "created"
        /\ \A v \in Workers : Holds(v)' => v = w
    BY <2>2, <2>3, <1>b DEF TokenInv, MessageOrHolder, NobodyHolds, NoMessage, RetryAlone,
       CreatedAlone, Deciding, OneHolder, Holds
  <2>7. HolderFront' /\ MessageFront'
    BY <2>2, <2>6, <1>b DEF HolderFront, HolderAt, MessageFront, NoMessage, Messages
  <2>8. ApprovalFront'
    BY <2>3, <2>4, <2>5, <2>6, <1>b DEF ApprovalFront
  <2>9. JobIdPlain'
    BY <2>2, <1>b DEF OrderInv, JobIdPlain
  <2> QED
    BY <2>3, <2>6, <2>7, <2>8, <2>9, <1>b, <1>f, <2>2
       DEF OrderInv, RetryFront, DeadFront, CreatedFront
<1>19. CASE EnqueueNext(w)
  <2>1. PICK n \in Steps : worker[w].next = n
    BY <1>a
  <2>2. 0 \in 0..(MaxAttempts - 1)
    BY AttemptsAssumption
  <2>3. /\ HolderSends(w, <<n, 0>>)
        /\ worker'[w] = [worker[w] EXCEPT !.pc = "jobId"]
    BY <1>19, <2>1, HolderActionSends
  <2>4. worker'[w].next = n
    BY <2>1, <2>3, <1>a
  <2>5. n \notin Risky /\ Front(n) /\ api.pc # "sent"
    BY <1>19, <2>1, <2>3, <1>c, <1>e DEF HolderSends, EnqueueNext, HolderAt
  <2> QED
    BY <1>19, <2>2, <2>3, <2>4, <2>5, HolderSendsOrder DEF EnqueueNext
<1>20. CASE Crash(w) /\ ~At(w, "dead") /\ queue' # queue
  <2>1. /\ HolderSends(w, <<s, worker[w].made>>)
        /\ worker'[w].pc = "idle" /\ worker[w].made \in 0..(MaxAttempts - 1)
    BY <1>20, <1>s, HolderActionSends, HolderFacts
  <2>2. Front(s) /\ (api.pc = "sent" => s = api.step /\ Unasked(s))
    BY <1>20, <2>1, <1>s, <1>c, <1>e DEF HolderSends, HolderAt, Crash, Unduplicated, Scheduling
  <2> QED
    BY <1>20, <2>1, <2>2, HolderSendsOrder DEF Crash
<1>21. CASE SetJobId(w)
  <2>1. PICK n \in Steps : worker[w].next = n
    BY <1>a
  <2>2. /\ AgentRun /\ ~Holds(w) /\ ~Holds(w)' /\ worker'[w].pc = "done"
        /\ n \notin Risky
    BY <1>21, <2>1, <1>a, <1>c DEF SetJobId, Goto, Holds, Scheduling, OrderInv, JobIdPlain
  <2>3. /\ hasJobId' = [hasJobId EXCEPT ![n] = TRUE]
        /\ UNCHANGED <<run, step, queue, approval, effects>>
    BY <1>21, <2>1 DEF SetJobId
  <2>4. ASSUME NEW t \in Steps, Front(t)
        PROVE  Front(t)'
    <3>1. n <= t
      BY <1>21, <2>1, <2>4 DEF SetJobId, Front
    <3>2. \A u \in Later(t) : hasJobId'[u] = hasJobId[u]
      <4>1. \A u \in Later(t) : u \in Steps /\ u # n
        BY <3>1, StepsAssumption DEF Later, Steps
      <4> QED
        BY <2>3, <4>1, <1>d
    <3>3. Fresh(t) \/ Gone(t) => (Fresh(t) \/ Gone(t))'
      BY <2>3, <3>2 DEF Fresh, Gone, Later
    <3>4. \A v \in Workers : worker'[v].pc = "jobId" =>
                                worker[v].pc = "jobId" /\ worker'[v].next = worker[v].next
      BY <2>2, <1>b
    <3> QED
      BY <2>3, <2>4, <3>3, <3>4 DEF Front, Later
  <2>5. \A t \in Steps : Unasked(t) => Unasked(t)'
    BY <2>2, <2>3, <1>d DEF Unasked, Gone, Later
  <2>6. run # "created"
    BY <1>21 DEF OrderInv, CreatedFront, SetJobId
  <2> QED
    BY <2>2, <2>3, <2>4, <2>5, <2>6, <1>b, <1>i, RestMovesOrder
<1>22. CASE ~Holds(w) /\ (Done(w) \/ QueryFails(w))
  <2>1. /\ worker'[w].pc \in {"idle", "done"} /\ ~Holds(w)'
        /\ UNCHANGED <<run, step, hasJobId, queue, approval, effects>>
        /\ worker[w].pc # "idle"
    <3>1. CASE Done(w)
      BY <1>22, <3>1, <1>a, <1>c DEF Done, Become, IdleWorker, Holds
    <3>2. CASE QueryFails(w)
      <4>1. worker'[w].pc = Recovery(worker[w].pc)
        BY <3>2, <1>a DEF QueryFails, Become
      <4>2. AgentRun /\ worker[w].pc = "jobId" /\ worker'[w].pc = "done"
        BY <1>22, <3>2, <4>1, <1>c DEF QueryFails, Recovery, Holds
      <4> QED
        BY <3>2, <4>2, <1>c DEF QueryFails, KeepRun, Holds
    <3> QED
      BY <1>22, <3>1, <3>2
  <2>2. ASSUME NEW t \in Steps, Front(t)
        PROVE  Front(t)'
    <3>1. \A v \in Workers : worker'[v].pc = "jobId" =>
                                worker[v].pc = "jobId" /\ worker'[v].next = worker[v].next
      BY <2>1, <1>b
    <3> QED
      BY <2>1, <2>2, <3>1, FrontKept
  <2>3. \A t \in Steps : Unasked(t) => Unasked(t)'
    BY <2>1 DEF Unasked, Gone, Later
  <2>4. run # "created"
    BY <2>1 DEF OrderInv, CreatedFront
  <2> QED
    BY <1>22, <2>1, <2>2, <2>3, <2>4, <1>b, <1>i, RestMovesOrder
<1>23. CASE FindAnswer(w) \/ FindOpen(w) \/ CreateExecution(w) \/ Suspend(w) \/ Stall(w)
  BY <1>23, <1>c DEF FindAnswer, FindOpen, CreateExecution, Suspend, Stall, Unduplicated
<1> HIDE DEF At
<1>24. CASE Throw(w)
  BY <1>11, <1>12, <1>24
<1>25. CASE Crash(w)
  BY <1>15, <1>20, <1>25
<1>26. CASE Done(w)
  <2>1. CASE Holds(w)
    BY <1>15, <1>26, <2>1
  <2>2. CASE ~Holds(w)
    BY <1>22, <1>26, <2>2
  <2> QED
    BY <2>1, <2>2
<1>27. CASE QueryFails(w)
  <2>1. CASE Holds(w)
    BY <1>16, <1>27, <2>1
  <2>2. CASE ~Holds(w)
    BY <1>22, <1>27, <2>2
  <2> QED
    BY <2>1, <2>2
<1> QED
  BY <1>1, <1>2, <1>3, <1>4, <1>5, <1>6, <1>7, <1>8, <1>9, <1>10, <1>13, <1>14, <1>17,
     <1>18, <1>19, <1>21, <1>23, <1>24, <1>25, <1>26, <1>27 DEF WorkerStep, Fault

-----------------------------------------------------------------------------
(* Steps of requests.                                                      *)

\* Requests that leave the token where it is.
LEMMA KeepOrder ==
    ASSUME TypeInv, OrderInv, UNCHANGED <<worker, queue, effects>>,
           \A s \in Steps : /\ Front(s) => Front(s)'
                            /\ Front(s) /\ Unasked(s) => Unasked(s)'
                            /\ step[s] = "succeeded" => step'[s] = "succeeded"
                            /\ step'[s] = "deadletter" => step[s] = "deadletter",
           api'.pc \notin {"sent", "retry"}, run' # "created",
           \/ run' = run \/ run' = "canceled"
           \/ \A w \in Workers : Holds(w) => worker[w].pc \in {"park", "throw", "dead"},
           Awaiting' => Awaiting /\ approval' = approval,
           api'.pc = "checked" => api'.step = approval.step /\ approval' = approval
    PROVE  OrderInv'
<1>1. JobIdPlain' /\ RetryFront' /\ CreatedFront'
  BY DEF OrderInv, JobIdPlain, RetryFront, CreatedFront
<1>2. MessageFront'
  BY DEF OrderInv, MessageFront
<1>3. HolderFront'
  <2> SUFFICES ASSUME NEW w \in Workers, Holds(w)
               PROVE  HolderAt(w)'
    BY DEF HolderFront, Holds
  <2>1. PICK s \in Steps, n \in Steps : worker[w].step = s /\ worker[w].next = n
    BY DEF TypeInv, TypeOK, WorkerStates
  <2>2. HolderAt(w)
    BY DEF OrderInv, HolderFront
  <2>3. /\ worker[w].pc \in {"drop", "cancelTail"} => run' = "canceled"
        /\ worker[w].pc = "schedule" /\ run \in NotScheduled => run' \in NotScheduled
    BY <2>2 DEF HolderAt, NotScheduled, Finished
  <2> QED
    BY <2>1, <2>2, <2>3 DEF HolderAt
<1>4. ApprovalFront'
  <2>1. PICK s \in Steps : approval.step = s
    BY DEF TypeInv, TypeOK
  <2> QED
    BY <2>1 DEF OrderInv, ApprovalFront
<1>5. DeadFront'
  BY DEF OrderInv, DeadFront
<1> QED
  BY <1>1, <1>2, <1>3, <1>4, <1>5 DEF OrderInv

\* Requests that put the token into a message.
LEMMA SendOrder ==
    ASSUME TypeInv, OrderInv, NoMessage, NobodyHolds, NEW s \in Steps,
           queue' = [queue EXCEPT ![<<s, 0>>] = @ + 1], worker' = worker,
           Front(s)', api'.pc = "sent" => s = api'.step /\ Unasked(s)',
           api'.pc # "retry", run' # "created", ~Awaiting',
           api'.pc \in {"checked", "sent"} => api'.step = approval'.step,
           \A t \in Steps : step'[t] # "deadletter"
    PROVE  OrderInv'
<1>1. <<s, 0>> \in Messages
  BY AttemptsAssumption DEF Messages
<1>2. \A t \in Steps, n \in 0..(MaxAttempts - 1) : queue'[<<t, n>>] > 0 => t = s
  BY <1>1 DEF TypeInv, TypeOK, NoMessage, Messages
<1>3. MessageFront' /\ JobIdPlain'
  BY <1>2 DEF OrderInv, MessageFront, JobIdPlain
<1>4. HolderFront'
  BY DEF HolderFront, NobodyHolds, Holds
<1> QED
  BY <1>3, <1>4 DEF OrderInv, ApprovalFront, RetryFront, DeadFront, CreatedFront

\* A request finds the front of the plan in the approval or the dead letter it is about.
LEMMA OtherOrder ==
    ASSUME Unduplicated, TypeInv, TokenInv, TokenInv', OrderInv,
           \/ ApiStep \/ OperatorStep
           \/ \E s \in Steps : Report(s) \/ Tick(s)
           \/ \E r \in Resumers : ResumerStep(r)
    PROVE  OrderInv'
<1>a. worker' = worker
  BY OthersLeaveWorkers
<1>b. /\ queue \in [Messages -> Nat] /\ step \in [Steps -> StepStatuses]
      /\ hasJobId \in [Steps -> BOOLEAN]
      /\ api.step \in Steps /\ 1 \in Steps /\ approval.step \in Steps
  BY StepsAssumption DEF TypeInv, TypeOK, ApiStates, Steps
<1>c. /\ RetryAlone /\ AwaitingAlone /\ DeadAlone /\ CreatedAlone /\ Deciding /\ PlainPaths
  BY DEF TokenInv
<1>d. /\ MessageFront /\ HolderFront /\ ApprovalFront /\ RetryFront /\ DeadFront
      /\ CreatedFront
  BY DEF OrderInv
<1>e. ASSUME UNCHANGED <<step, hasJobId, effects>>
      PROVE  \A s \in Steps : /\ Front(s) => Front(s)'
                              /\ Unasked(s) => Unasked(s)'
  BY <1>e, <1>a DEF Front, Fresh, Unasked, Gone, Later
<1>1. CASE Submit
  <2>1. /\ Front(1) /\ effects[1] = 0 /\ step[1] = "pending" /\ ~hasJobId[1]
        /\ \A w \in Workers : worker[w].pc = "idle"
        /\ NoMessage /\ NobodyHolds /\ api.pc = "idle"
        /\ \A s \in Steps : step[s] # "deadletter"
        /\ UNCHANGED <<step, api, effects>>
    BY <1>1, <1>c, <1>d DEF Submit, ElseUnchanged, CreatedAlone, CreatedFront
  <2>2. CASE 1 \in Risky
    <3>1. /\ approval' = [status |-> "pending", step |-> 1] /\ run' = "needs_approval"
          /\ UNCHANGED <<queue, hasJobId>>
      BY <1>1, <2>2 DEF Submit, SetRun
    <3>2. Front(1)' /\ Unasked(1)'
      <4>1. Unasked(1)
        BY <2>1, <2>2 DEF Unasked
      <4> QED
        BY <1>b, <1>e, <2>1, <3>1, <4>1
    <3> QED
      BY <2>1, <3>1, <3>2, <1>a DEF OrderInv, JobIdPlain, MessageFront, NoMessage, Messages,
         HolderFront, NobodyHolds, Holds, ApprovalFront, RetryFront, DeadFront, CreatedFront
  <2>3. CASE 1 \notin Risky
    <3>1. /\ queue' = [queue EXCEPT ![<<1, 0>>] = @ + 1] /\ run' = "queued"
          /\ hasJobId' = [hasJobId EXCEPT ![1] = TRUE]
          /\ approval' = approval
      BY <1>1, <2>3 DEF Submit, SetRun, Enqueue
    <3>2. Front(1)'
      BY <2>1, <3>1, <1>a, <1>b, FrontKept
    <3>3. ~Awaiting'
      BY <1>1, <2>1, <3>1, <1>c DEF Submit, CreatedAlone, Awaiting
    <3> QED
      BY <2>1, <3>1, <3>2, <3>3, <1>a, <1>b, SendOrder
  <2> QED
    BY <2>2, <2>3
<1>2. CASE CancelRun \/ CancelRead \/ OverruleRun \/ OverruleRead
  <2>1. /\ UNCHANGED <<step, hasJobId, effects, queue, approval>>
        /\ run' = run \/ run' = "canceled"
        /\ run # "created"
        /\ api.pc # "sent" /\ api'.pc \in {"cancelRun", "overrule", "cancelSteps"}
    BY <1>2, <1>c DEF CancelRun, CancelRead, OverruleRun, OverruleRead, Start, Requests,
       ByOperator, CreatedAlone
  <2>2. Awaiting' => Awaiting
    BY <2>1 DEF Awaiting
  <2> QED
    BY <2>1, <2>2, <1>a, <1>e, KeepOrder
<1>3. CASE CancelRest \/ Reject
  <2>1. /\ CancelSteps({"pending", "running"})
        /\ UNCHANGED <<hasJobId, effects, queue>>
        /\ run' = run \/ run' = "canceled"
        /\ run' # "created"
        /\ api.pc # "sent" /\ api'.pc = "idle"
        /\ approval' = approval \/ approval'.status = "rejected"
    BY <1>3, <1>b, <1>c DEF CancelRest, Reject, Start, SetRun, ByOperator, CreatedAlone,
       IdleApi, TypeInv, TypeOK
  <2>2. \A s \in Steps : Front(s) => Front(s)' /\ (Unasked(s) => Unasked(s)')
    BY <2>1, <1>a, FrontCanceled DEF TypeInv
  <2>3. Awaiting' => Awaiting /\ approval' = approval
    BY <2>1 DEF Awaiting
  <2>4. \A s \in Steps : /\ step[s] = "succeeded" => step'[s] = "succeeded"
                         /\ step'[s] = "deadletter" => step[s] = "deadletter"
    BY <2>1 DEF CancelSteps
  <2> QED
    BY <2>1, <2>2, <2>3, <2>4, <1>a, KeepOrder
<1>4. CASE ApproveCheck
  <2>1. /\ UNCHANGED <<run, step, hasJobId, effects, queue, approval>>
        /\ run # "created" /\ api.pc = "idle"
        /\ api'.pc = "checked" /\ api'.step = approval.step
    BY <1>4 DEF ApproveCheck, Start, Requests, ByOperator
  <2>2. Awaiting' => Awaiting
    BY <2>1 DEF Awaiting
  <2> QED
    BY <2>1, <2>2, <1>a, <1>e, KeepOrder
<1>5. CASE ApproveSend
  <2>1. /\ api.pc = "checked" /\ run = "needs_approval"
        /\ NoMessage /\ NobodyHolds /\ Awaiting /\ api.step = approval.step
        /\ \A s \in Steps : step[s] # "deadletter"
        /\ api' = [pc |-> "sent", step |-> api.step]
        /\ UNCHANGED <<run, step, hasJobId, approval, effects>>
    BY <1>5, <1>c, <1>d DEF ApproveSend, Requests, ByOperator, Deciding, DeadAlone, Awaiting,
       ApprovalFront
  <2>2. PICK s \in Steps : api.step = s
    BY <1>b
  <2>3. Front(s)' /\ Unasked(s)'
    BY <2>1, <2>2, <1>d, <1>e DEF ApprovalFront
  <2>4. ~Awaiting'
    BY <2>1 DEF Awaiting
  <2> QED
    BY <1>5, <2>1, <2>2, <2>3, <2>4, <1>a, SendOrder DEF ApproveSend
<1>6. CASE ApproveCommit
  <2>1. /\ \A w \in Workers : Holds(w) => worker[w].pc \in {"park", "throw", "dead"}
        /\ UNCHANGED <<step, hasJobId, effects, queue>>
        /\ run' = "queued" /\ api'.pc = "idle"
    BY <1>6, <1>c DEF ApproveCommit, IdleApi, ByOperator, Deciding
  <2>2. ~Awaiting'
    BY <1>6, <1>b DEF ApproveCommit, Awaiting, TypeInv, TypeOK
  <2> QED
    BY <2>1, <2>2, <1>a, <1>e, KeepOrder
<1>7. CASE RetrySend
  <2>1. /\ api.pc = "retry" /\ approval.status # "pending"
        /\ NoMessage /\ NobodyHolds /\ run # "created"
        /\ \A s \in Steps : step[s] # "deadletter"
        /\ api'.pc = "idle"
        /\ UNCHANGED <<run, step, approval, effects>>
    BY <1>7, <1>c DEF RetrySend, IdleApi, ByOperator, RetryAlone, CreatedAlone
  <2>2. PICK s \in Steps : api.step = s
    BY <1>b
  <2>3. /\ queue' = [queue EXCEPT ![<<s, 0>>] = @ + 1]
        /\ hasJobId' = [hasJobId EXCEPT ![s] = TRUE]
    BY <1>7, <2>2 DEF RetrySend, Enqueue
  <2>4. Front(s)'
    <3>1. Front(s)
      BY <2>1, <2>2, <1>d DEF RetryFront
    <3> QED
      BY <2>1, <2>3, <3>1, <1>a, <1>b, FrontKept
  <2>5. ~Awaiting'
    BY <2>1 DEF Awaiting
  <2> QED
    BY <2>1, <2>3, <2>4, <2>5, <1>a, SendOrder
<1>8. CASE ApproveRollback
  BY <1>8, <1>c DEF ApproveRollback, Deciding, Unduplicated
<1>9. CASE RetryCrash
  <2>1. /\ UNCHANGED <<run, step, hasJobId, effects, queue, approval>>
        /\ run # "created" /\ api.pc = "retry" /\ api'.pc = "idle"
    BY <1>9, <1>c DEF RetryCrash, IdleApi, ByOperator, CreatedAlone
  <2>2. Awaiting' => Awaiting
    BY <2>1 DEF Awaiting
  <2> QED
    BY <2>1, <2>2, <1>a, <1>e, KeepOrder
<1>10. ASSUME NEW s \in Steps, RetryDead(s)
       PROVE  OrderInv'
  <2>1. /\ Front(s) /\ NoMessage /\ NobodyHolds /\ ~Awaiting
        /\ \A t \in Steps : t # s => step[t] # "deadletter"
        /\ api'.pc = "retry" /\ api'.step = s /\ run' = "queued"
        /\ api.pc = "idle"
        /\ UNCHANGED <<effects, queue, approval>>
    BY <1>10, <1>c, <1>d DEF RetryDead, Retryable, Start, Requests, SetRun, ByOperator,
       DeadAlone, DeadFront
  <2>2. \A t \in Steps : t # s => step'[t] = step[t] /\ hasJobId'[t] = hasJobId[t]
    BY <1>10, <1>b DEF RetryDead, SetStep
  <2>3. Front(s)'
    BY <2>1, <2>2, <1>a, FrontKept
  <2>4. \A t \in Steps : step'[t] # "deadletter"
    BY <1>10, <2>1, <2>2, <1>b DEF RetryDead, SetStep
  <2> QED
    BY <2>1, <2>3, <2>4, <1>a DEF OrderInv, JobIdPlain, MessageFront, NoMessage, Messages,
       HolderFront, NobodyHolds, Holds, ApprovalFront, Awaiting, RetryFront, DeadFront,
       CreatedFront
<1>11. ASSUME NEW s \in Steps, CancelDead(s)
       PROVE  OrderInv'
  <2>1. /\ NoMessage /\ NobodyHolds /\ ~Awaiting
        /\ \A t \in Steps : t # s => step[t] # "deadletter"
        /\ run' = "canceled" /\ api.pc = "idle"
        /\ UNCHANGED <<api, effects, queue, approval>>
    BY <1>11, <1>c DEF CancelDead, Start, SetRun, ByOperator, DeadAlone
  <2>2. \A t \in Steps : step'[t] # "deadletter"
    BY <1>11, <2>1, <1>b DEF CancelDead, SetStep
  <2> QED
    BY <2>1, <2>2, <1>a DEF OrderInv, JobIdPlain, MessageFront, NoMessage, Messages,
       HolderFront, NobodyHolds, Holds, ApprovalFront, Awaiting, RetryFront, DeadFront,
       CreatedFront
<1>12. ASSUME NEW s \in Steps, Report(s) \/ Tick(s)
       PROVE  OrderInv'
  BY <1>12, <1>c DEF Report, Tick, Answered, NoExecution, PlainPaths
<1>13. ASSUME NEW r \in Resumers, ResumerStep(r)
       PROVE  OrderInv'
  BY <1>13, <1>c DEF ResumerStep, ResumeRun, ResumeGiveUp, ResumeSend, PlainPaths
<1> QED
  BY <1>1, <1>2, <1>3, <1>4, <1>5, <1>6, <1>7, <1>8, <1>9, <1>10, <1>11, <1>12, <1>13
     DEF ApiStep, OperatorStep

\* Every step of the run preserves the order.
LEMMA OrderInvInductive ==
    ASSUME Unduplicated
    PROVE  TypeInv /\ TokenInv /\ OrderInv /\ [CalmNext]_vars => OrderInv'
<1> SUFFICES ASSUME TypeInv, TokenInv, OrderInv, [CalmNext]_vars PROVE OrderInv'
  OBVIOUS
<1>1. CASE UNCHANGED vars
  <2>1. \A s \in Steps : Front(s)' = Front(s) /\ Unasked(s)' = Unasked(s)
    BY <1>1 DEF vars, Front, Fresh, Gone, Later, Unasked
  <2>2. \A w \in Workers : Holds(w)' = Holds(w) /\ HolderAt(w)' = HolderAt(w)
    BY <1>1 DEF vars, Holds, HolderAt, Front, Fresh, Gone, Later, Unasked
  <2>3. ApprovalFront' = ApprovalFront /\ RetryFront' = RetryFront
    BY <1>1 DEF vars, ApprovalFront, Awaiting, RetryFront, Front, Fresh, Gone, Later, Unasked
  <2>4. CreatedFront'
    BY <1>1 DEF vars, OrderInv, CreatedFront, Front, Fresh, Gone, Later
  <2> QED
    BY <1>1, <2>1, <2>2, <2>3, <2>4 DEF vars, OrderInv, JobIdPlain, MessageFront, HolderFront,
       DeadFront
<1>2. TokenInv'
  BY TokenInvInductive
<1>3. ASSUME NEW w \in Workers, WorkerStep(w) \/ Fault(w)
      PROVE  OrderInv'
  BY <1>2, <1>3, WorkerOrder
<1>4. CASE \/ ApiStep \/ OperatorStep
           \/ \E s \in Steps : Report(s) \/ Tick(s)
           \/ \E r \in Resumers : ResumerStep(r)
  BY <1>2, <1>4, OtherOrder
<1> QED
  BY <1>1, <1>3, <1>4 DEF CalmNext

-----------------------------------------------------------------------------
(* How often a step may take effect: once per attempt of a message, and a  *)
(* new message only by an operator's request or after a crash.             *)

\* The faults that repeat an attempt.
Crashes == IF "crash" \in Faults THEN faults ELSE 0

\* n attempts of the messages since the last request are spent.
Spent(s, n) == effects[s] <= MaxAttempts * ops + n + Crashes

\* Before the tool, and where the step is not that of the message any more.
Before == {"park", "drop", "begin", "mark", "tool"}
Moving == {"ask", "askRun", "enqueue", "stop"}

Bounded ==
    /\ ops <= MaxOps
    /\ \A s \in Steps : Spent(s, MaxAttempts)

MessageSpent ==
    \A s \in Steps, made \in 0..(MaxAttempts - 1) :
        queue[<<s, made>>] > 0 => Spent(s, made)

HolderSpent ==
    \A w \in Workers : Holds(w) =>
        /\ worker[w].pc \in Before => Spent(worker[w].step, worker[w].made)
        /\ worker[w].pc \notin Moving => Spent(worker[w].step, worker[w].made + 1)

RetrySpent == api.pc = "retry" => Spent(api.step, 0)

AttemptsInv == Bounded /\ MessageSpent /\ HolderSpent /\ RetrySpent

\* How the bound on attempts grows with requests and deaths.
LEMMA Products ==
    ASSUME NEW a \in Nat, NEW b \in Nat
    PROVE  a * b \in Nat /\ a * (b + 1) = a * b + a
  OBVIOUS

\* What the counters of requests and faults do.
LEMMA CountersGrow ==
    ASSUME TypeOK, Next
    PROVE  ops' \in {ops, ops + 1} /\ faults' \in {faults, faults + 1}
<1>1. ASSUME NEW w \in Workers, WorkerStep(w)
      PROVE  UNCHANGED <<ops, faults>>
  BY <1>1 DEF WorkerStep, Fetch, Park, Drop, Begin, Mark, ToolEnds, ToolFails, FindAnswer,
     FindOpen, CreateExecution, CancelTail, Succeed, Count, Conclude, Fail, FailRun, Suspend, Throw, Dead,
     Schedule, OutOfTime, ScheduleNothing, Ask, AskRun, EnqueueNext, SetJobId, Stop, Done,
     ElseUnchanged
<1>2. ASSUME NEW w \in Workers, Fault(w)
      PROVE  ops' = ops /\ faults' = faults + 1
  BY <1>2 DEF Fault, Stall, Crash, QueryFails
<1>3. ApiStep => UNCHANGED <<ops, faults>>
  BY DEF ApiStep, Submit, CancelRun, OverruleRun, CancelRest, ApproveSend, ApproveCommit,
     RetrySend, ElseUnchanged
<1>4. OperatorStep => ops' \in {ops, ops + 1} /\ faults' \in {faults, faults + 1}
  BY DEF OperatorStep, CancelRead, OverruleRead, ApproveCheck, ApproveRollback, Reject, RetryDead,
     CancelDead, RetryCrash, Start
<1>5. ASSUME NEW s \in Steps, Report(s) \/ Tick(s)
      PROVE  UNCHANGED <<ops, faults>>
  BY <1>5 DEF Report, Tick, Elsewhere
<1>6. ASSUME NEW r \in Resumers, ResumerStep(r)
      PROVE  UNCHANGED <<ops, faults>>
  BY <1>6 DEF ResumerStep, ResumeRun, ResumeGiveUp, ResumeSend, Elsewhere
<1>7. ASSUME NEW h \in Hands, HandStart(h) \/ HandStep(h) \/ HandCrash(h)
      PROVE  ops' \in {ops, ops + 1} /\ faults' \in {faults, faults + 1}
  BY <1>7 DEF HandStart, ContinueRead, RetryRunRead, ApproveRunRead, RetryFailed, ByHand,
     HandStep, Pick, Requeue, Reset, Send, HandJobId, InHand, HandCrash
<1> QED
  BY <1>1, <1>2, <1>3, <1>4, <1>5, <1>6, <1>7 DEF Next

\* Requests and faults only give more room.
LEMMA SpentKept ==
    ASSUME TypeOK, NEW s \in Steps, NEW n \in Nat, NEW k \in Nat, n <= k, Spent(s, n),
           effects'[s] = effects[s],
           ops' \in {ops, ops + 1}, faults' \in {faults, faults + 1}
    PROVE  Spent(s, k)'
<1>1. MaxAttempts \in Nat /\ ops \in Nat /\ faults \in Nat /\ effects[s] \in Nat
  BY AttemptsAssumption DEF TypeOK
<1>2. PICK p \in Nat : p = MaxAttempts * ops
  BY <1>1, Products
<1>3. PICK q \in Nat : q = MaxAttempts * ops' /\ p <= q
  <2>1. MaxAttempts * (ops + 1) = p + MaxAttempts
    BY <1>1, <1>2, Products
  <2>2. CASE ops' = ops
    BY <1>2, <2>2
  <2>3. CASE ops' = ops + 1
    BY <2>1, <2>3, <1>1, <1>2
  <2> QED
    BY <2>2, <2>3
<1>4. Crashes \in Nat /\ Crashes' \in Nat /\ Crashes <= Crashes'
  BY <1>1 DEF Crashes
<1>5. effects[s] <= p + n + Crashes
  BY <1>2 DEF Spent
<1>6. effects'[s] <= q + k + Crashes'
  <2>1. PICK e \in Nat, c \in Nat, d \in Nat :
           e = effects[s] /\ c = Crashes /\ d = Crashes' /\ c <= d
    BY <1>1, <1>4
  <2>2. e <= p + n + c
    BY <1>5, <2>1
  <2>3. e <= q + k + d
    BY <1>3, <2>1, <2>2
  <2> QED
    BY <2>1, <2>3
<1> QED
  BY <1>3, <1>6 DEF Spent

\* What has not taken effect is always within the bound.
LEMMA SpentNothing ==
    ASSUME TypeOK, NEW s \in Steps, NEW n \in Nat, effects[s] = 0
    PROVE  Spent(s, n)
<1>1. MaxAttempts \in Nat /\ ops \in Nat /\ Crashes \in Nat
  BY AttemptsAssumption DEF TypeOK, Crashes
<1>2. PICK p \in Nat : p = MaxAttempts * ops
  BY <1>1, Products
<1>3. effects[s] <= p + n + Crashes
  BY <1>1
<1> QED
  BY <1>2, <1>3 DEF Spent

\* Nothing has been spent at the start.
LEMMA InitAttempts == Init => AttemptsInv
<1> SUFFICES ASSUME Init PROVE AttemptsInv
  OBVIOUS
<1>1. TypeOK /\ MaxAttempts \in Nat /\ MaxOps \in Nat
  BY InitType, AttemptsAssumption, BoundsAssumption DEF TypeInv
<1>2. \A s \in Steps : Spent(s, MaxAttempts)
  BY <1>1, SpentNothing DEF Init
<1>3. /\ ops = 0 /\ api.pc = "idle"
      /\ \A m \in Messages : queue[m] = 0
      /\ \A w \in Workers : worker[w].pc = "idle"
  BY DEF Init, IdleApi, IdleWorker
<1>4. MessageSpent /\ HolderSpent
  BY <1>3 DEF MessageSpent, Messages, HolderSpent, Holds, Resting
<1> QED
  BY <1>1, <1>2, <1>3, <1>4 DEF AttemptsInv, Bounded, RetrySpent

\* A step of a worker, or a fault that befalls it.
LEMMA WorkerAttempts ==
    ASSUME Unduplicated, TypeInv, TokenInv, TokenInv', OrderInv, AttemptsInv,
           NEW w \in Workers, WorkerStep(w) \/ Fault(w)
    PROVE  AttemptsInv'
<1>a. worker \in [Workers -> [pc : WorkerPCs, step : Steps, made : 0..(MaxAttempts - 1),
                             own : BOOLEAN, note : Notes, next : Steps]]
  BY HolderFacts
<1>s. PICK s \in Steps, made \in 0..(MaxAttempts - 1) :
         worker[w].step = s /\ worker[w].made = made
  BY <1>a
<1>b. /\ \A v \in Workers : v # w => worker'[v] = worker[v]
      /\ api' = api
  BY OnlyOneWorker
<1>c. /\ worker[w].pc \notin {"lookup", "create", "suspend"}
      /\ worker[w].pc \in Scheduling => AgentRun
      /\ AgentRun => Resting = {"idle", "jobId", "done"}
      /\ ~AgentRun => Resting = {"idle"}
      /\ AgentRun \in BOOLEAN
  BY HolderFacts
<1>d. /\ TypeOK /\ MaxAttempts \in Nat /\ effects \in [Steps -> Nat]
      /\ ops \in Nat /\ faults \in Nat /\ MaxOps \in Nat
      /\ made \in Nat /\ made + 1 \in Nat /\ made + 1 <= MaxAttempts
      /\ \A n \in 0..(MaxAttempts - 1) : n \in Nat
  BY AttemptsAssumption, BoundsAssumption DEF TypeInv, TypeOK
<1>e. ops' = ops /\ faults' \in {faults, faults + 1}
  <2>1. Next
    BY DEF Next
  <2>2. ops' = ops
    BY DEF WorkerStep, Fetch, Park, Drop, Begin, Mark, ToolEnds, ToolFails, FindAnswer,
     FindOpen, CreateExecution, CancelTail, Succeed, Count, Conclude, Fail, FailRun, Suspend, Throw, Dead,
     Schedule, OutOfTime, ScheduleNothing, Ask, AskRun, EnqueueNext, SetJobId, Stop, Done,
     ElseUnchanged, Fault, Stall, Crash, QueryFails
  <2> QED
    BY <2>1, <2>2, <1>d, CountersGrow
<1>f. ASSUME effects' = effects, NEW t \in Steps, NEW n \in Nat, NEW k \in Nat, n <= k,
             Spent(t, n)
      PROVE  Spent(t, k)'
  BY <1>d, <1>e, <1>f, SpentKept
<1>g. effects' = effects => Bounded'
  <2> SUFFICES ASSUME effects' = effects PROVE Bounded'
    OBVIOUS
  <2> QED
    BY <1>d, <1>e, <1>f DEF AttemptsInv, Bounded
<1>h. Holds(w) =>
         /\ worker[w].pc \in Before => Spent(s, made)
         /\ worker[w].pc \notin Moving => Spent(s, made + 1)
  BY <1>s DEF AttemptsInv, HolderSpent
<1>i. HolderMoves(w) =>
         /\ MessageSpent' /\ RetrySpent'
         /\ \A v \in Workers : v # w => ~Holds(v)'
  <2> SUFFICES ASSUME HolderMoves(w)
               PROVE  /\ MessageSpent' /\ RetrySpent'
                      /\ \A v \in Workers : v # w => ~Holds(v)'
    OBVIOUS
  <2>1. Holds(w) /\ queue' = queue
    BY DEF HolderMoves
  <2>2. NoMessage'
    BY <2>1 DEF TokenInv, MessageOrHolder, NobodyHolds, NoMessage
  <2>3. api.pc # "retry"
    BY <2>1 DEF TokenInv, RetryAlone, NobodyHolds
  <2>4. \A v \in Workers : v # w => ~Holds(v)'
    BY <2>1, <1>b DEF TokenInv, OneHolder, Holds
  <2> QED
    BY <2>2, <2>3, <2>4, <1>b DEF MessageSpent, NoMessage, Messages, RetrySpent
<1>j. ASSUME NEW t \in Steps, NEW n \in 0..(MaxAttempts - 1),
             HolderSends(w, <<t, n>>), effects' = effects, Spent(t, n)'
      PROVE  AttemptsInv'
  <2>1. <<t, n>> \in Messages
    BY DEF Messages
  <2>2. NoMessage /\ NobodyHolds' /\ api.pc # "retry"
    BY <1>j DEF HolderSends, TokenInv, MessageOrHolder, NobodyHolds, OneHolder, Holds,
       RetryAlone
  <2>3. \A u \in Steps, k \in 0..(MaxAttempts - 1) :
           queue'[<<u, k>>] > 0 => u = t /\ k = n
    BY <1>j, <1>d, <2>1, <2>2 DEF HolderSends, NoMessage, Messages, TypeOK
  <2> QED
    BY <1>b, <1>g, <1>j, <2>2, <2>3
       DEF AttemptsInv, MessageSpent, HolderSpent, NobodyHolds, RetrySpent
<1>k. ASSUME HolderMoves(w), effects' = effects,
             Holds(w)' => /\ worker'[w].step = s /\ worker'[w].made = made
                          /\ worker'[w].pc \in Before => worker[w].pc \in Before
                          /\ worker'[w].pc \notin Moving => worker[w].pc \notin Moving
      PROVE  AttemptsInv'
  <2>1. Holds(w)
    BY <1>k DEF HolderMoves
  <2>2. Holds(w)' /\ worker'[w].pc \in Before => Spent(s, made)'
    BY <2>1, <1>d, <1>f, <1>h, <1>k
  <2>3. Holds(w)' /\ worker'[w].pc \notin Moving => Spent(s, made + 1)'
    BY <2>1, <1>d, <1>f, <1>h, <1>k
  <2>4. HolderSpent'
    <3>1. SUFFICES ASSUME Holds(w)'
                   PROVE  /\ worker'[w].pc \in Before =>
                                Spent(worker[w].step, worker[w].made)'
                          /\ worker'[w].pc \notin Moving =>
                                Spent(worker[w].step, worker[w].made + 1)'
      BY <1>i, <1>k DEF HolderSpent
    <3>2. worker'[w].step = s /\ worker'[w].made = made
      BY <1>k, <3>1
    <3> QED
      BY <2>2, <2>3, <3>1, <3>2
  <2> QED
    BY <1>g, <1>i, <1>k, <2>4 DEF AttemptsInv
<1> USE DEF At
<1>1. CASE ToolEnds(w) \/ ToolFails(w)
  <2>1. HolderMoves(w)
    BY <1>1, HolderActionMoves DEF HolderAction
  <2>2. /\ worker'[w].step = s /\ worker'[w].made = made
        /\ worker'[w].pc \notin Before
    <3>1. CASE ToolEnds(w)
      BY <3>1, <1>a, <1>s DEF ToolEnds, Verify, Goto, Before
    <3>2. CASE ToolFails(w)
      BY <3>2, <1>a, <1>s DEF ToolFails, Become, Before
    <3> QED
      BY <1>1, <3>1, <3>2
  <2>3. Holds(w) /\ Spent(s, made) /\ faults' = faults
    BY <1>1, <1>c, <1>h, <2>1 DEF HolderMoves, ToolEnds, ToolFails, Before, ElseUnchanged
  <2>4. PICK p \in Nat : p = MaxAttempts * ops
    BY <1>d, Products
  <2>5. Crashes \in Nat /\ Crashes' = Crashes
    BY <1>d, <2>3 DEF Crashes
  <2>6. /\ effects[s] <= p + made + Crashes
        /\ \A t \in Steps : effects[t] <= p + MaxAttempts + Crashes
    BY <2>3, <2>4 DEF AttemptsInv, Bounded, Spent
  <2>7. /\ \A t \in Steps : t # s => effects'[t] = effects[t]
        /\ effects'[s] \in {effects[s], effects[s] + 1}
    BY <1>1, <1>s, <1>d DEF ToolEnds, ToolFails
  <2>8. effects'[s] <= p + (made + 1) + Crashes
    BY <1>d, <2>5, <2>6, <2>7
  <2>9. \A t \in Steps : effects'[t] <= p + MaxAttempts + Crashes
    BY <1>d, <2>5, <2>6, <2>7, <2>8
  <2>10. Bounded' /\ Spent(s, made + 1)'
    BY <1>e, <2>4, <2>5, <2>8, <2>9 DEF AttemptsInv, Bounded, Spent
  <2>11. HolderSpent'
    <3>1. SUFFICES ASSUME Holds(w)'
                   PROVE  /\ worker'[w].pc \in Before =>
                                Spent(worker[w].step, worker[w].made)'
                          /\ worker'[w].pc \notin Moving =>
                                Spent(worker[w].step, worker[w].made + 1)'
      BY <1>i, <2>1 DEF HolderSpent
    <3> QED
      BY <2>2, <2>10
  <2> QED
    BY <1>i, <2>1, <2>10, <2>11 DEF AttemptsInv
<1>2. CASE \/ Park(w) \/ Drop(w) \/ CancelTail(w) \/ Conclude(w)
  <2>1. HolderMoves(w) /\ effects' = effects /\ worker[w].pc \notin Moving
    BY <1>2, HolderActionMoves
       DEF HolderAction, Park, Drop, CancelTail, Conclude, Moving
  <2>2. /\ worker'[w].step = s /\ worker'[w].made = made
        /\ worker'[w].pc \in {"schedule", "done"}
    <3>1. Returned(w)
      BY <1>2 DEF Park, Drop, CancelTail, Conclude
    <3> QED
      BY <3>1, <1>a, <1>s DEF Returned, Become
  <2> QED
    BY <1>k, <2>1, <2>2 DEF Before
<1>3. CASE \/ Begin(w) \/ Mark(w) \/ Succeed(w) \/ Count(w) \/ Fail(w) \/ FailRun(w)
  <2>1. HolderMoves(w) /\ effects' = effects /\ worker[w].pc \notin Moving
    BY <1>3, HolderActionMoves
       DEF HolderAction, Begin, Mark, Succeed, Count, Fail, FailRun, Moving
  <2>2. /\ worker'[w].step = s /\ worker'[w].made = made
        /\ worker'[w].pc \in Before => worker[w].pc \in Before
    <3>1. CASE Begin(w) \/ Mark(w)
      BY <3>1, <1>a, <1>s DEF Begin, Mark, Goto, Before
    <3>2. CASE Succeed(w) \/ Count(w)
      BY <3>2, <1>a, <1>s DEF Succeed, Count, Become, Before
    <3>3. CASE Goto(w, "failRun") \/ Goto(w, "throw")
      BY <3>3, <1>a, <1>s DEF Goto, Before
    <3>4. CASE Returned(w)
      BY <3>4, <1>a, <1>s DEF Returned, Become, Before
    <3> QED
      BY <1>3, <3>1, <3>2, <3>3, <3>4 DEF Fail, FailRun
  <2> QED
    BY <1>k, <2>1, <2>2
<1>4. CASE \/ Dead(w) \/ (Throw(w) /\ ~(worker[w].own /\ worker[w].made + 1 < MaxAttempts))
           \/ (Holds(w) /\ Done(w)) \/ (Crash(w) /\ (At(w, "dead") \/ queue' = queue))
  <2>1. HolderMoves(w) /\ effects' = effects
    BY <1>4, HolderActionMoves DEF HolderAction, Dead, Throw, Done, Crash
  <2>2. \/ worker'[w].pc = "idle"
        \/ /\ worker'[w].step = s /\ worker'[w].made = made
           /\ worker'[w].pc = "dead" /\ worker[w].pc = "throw"
    BY <1>4, <1>a, <1>s DEF Dead, Throw, Done, Crash, Become, Goto, IdleWorker
  <2>3. worker'[w].pc = "idle" => ~Holds(w)'
    BY <1>c DEF Holds
  <2> QED
    BY <1>k, <2>1, <2>2, <2>3 DEF Before, Moving
<1>5. CASE \/ Schedule(w) \/ OutOfTime(w) \/ ScheduleNothing(w) \/ AskRun(w) \/ Stop(w)
  <2>1. HolderMoves(w) /\ effects' = effects /\ AgentRun
    BY <1>5, <1>c, HolderActionMoves
       DEF HolderAction, Schedule, OutOfTime, ScheduleNothing, AskRun, Stop, Scheduling
  <2>2. /\ worker'[w].step = s /\ worker'[w].made = made
        /\ worker'[w].pc \in {"stop", "ask", "enqueue", "done"}
    <3>1. CASE Schedule(w)
      BY <3>1, <1>a, <1>s DEF Schedule, Become, Move
    <3>2. CASE Goto(w, "stop") \/ Goto(w, "done")
      BY <3>2, <1>a, <1>s DEF Goto
    <3> QED
      BY <1>5, <3>1, <3>2 DEF OutOfTime, ScheduleNothing, AskRun, Stop
  <2>3. worker'[w].pc = "done" => ~Holds(w)'
    BY <2>1, <1>c DEF Holds
  <2> QED
    BY <1>k, <2>1, <2>2, <2>3 DEF Before, Moving
<1>6. CASE Holds(w) /\ QueryFails(w)
  <2>1. HolderMoves(w) /\ effects' = effects
    BY <1>6, HolderActionMoves DEF HolderAction, QueryFails
  <2>2. /\ worker'[w].pc = Recovery(worker[w].pc)
        /\ worker'[w].step = s /\ worker'[w].made = made
    BY <1>6, <1>a, <1>s DEF QueryFails, Become
  <2>3. \/ worker'[w].pc \in {"fail", "throw"} /\ worker[w].pc \notin Moving
        \/ worker'[w].pc = "done" /\ worker[w].pc \in Scheduling
    BY <1>6, <2>2 DEF QueryFails, Recovery, Moving, Scheduling
  <2>4. worker'[w].pc = "done" => ~Holds(w)'
    BY <2>3, <1>c DEF Holds
  <2> QED
    BY <1>k, <2>1, <2>2, <2>3, <2>4 DEF Before, Moving
<1>7. CASE Throw(w) /\ worker[w].own /\ worker[w].made + 1 < MaxAttempts
  <2>1. /\ HolderSends(w, <<s, made + 1>>) /\ made + 1 \in 0..(MaxAttempts - 1)
        /\ effects' = effects
    BY <1>7, <1>s, HolderActionSends DEF Throw
  <2>2. Spent(s, made + 1)'
    BY <1>7, <2>1, <1>d, <1>f, <1>h DEF HolderSends, Throw, Moving
  <2> QED
    BY <1>j, <2>1, <2>2
<1>8. CASE EnqueueNext(w)
  <2>1. PICK n \in Steps : worker[w].next = n
    BY <1>a
  <2>2. 0 \in 0..(MaxAttempts - 1) /\ 0 \in Nat /\ 0 <= 0
    BY AttemptsAssumption
  <2>3. HolderSends(w, <<n, 0>>) /\ effects' = effects
    BY <1>8, <2>1, HolderActionSends DEF EnqueueNext
  <2>4. effects[n] = 0
    BY <1>8, <2>1, <2>3 DEF HolderSends, EnqueueNext, OrderInv, HolderFront, HolderAt
  <2>5. Spent(n, 0)'
    BY <2>2, <2>3, <2>4, <1>d, <1>f, SpentNothing
  <2> QED
    BY <1>j, <2>2, <2>3, <2>5
<1>9. CASE Crash(w) /\ ~At(w, "dead") /\ queue' # queue
  <2>1. /\ HolderSends(w, <<s, made>>) /\ effects' = effects
        /\ ~AgentRun /\ "crash" \in Faults /\ faults' = faults + 1
    BY <1>9, <1>s, <1>c, HolderActionSends DEF Crash, Unduplicated
  <2>2. Spent(s, made + 1)
    BY <2>1, <1>c, <1>h DEF HolderSends, Scheduling, Moving
  <2>3. Spent(s, made)'
    <3>1. PICK p \in Nat : p = MaxAttempts * ops
      BY <1>d, Products
    <3>2. Crashes = faults /\ Crashes' = faults + 1
      BY <2>1 DEF Crashes
    <3>3. effects[s] <= p + (made + 1) + faults
      BY <2>2, <3>1, <3>2 DEF Spent
    <3>4. effects[s] <= p + made + (faults + 1)
      BY <3>3, <1>d
    <3> QED
      BY <2>1, <3>1, <3>2, <3>4, <1>e DEF Spent
  <2> QED
    BY <1>j, <2>1, <2>3
<1>10. ASSUME NEW t \in Steps, NEW n \in 0..(MaxAttempts - 1), Fetch(w, t, n)
       PROVE  AttemptsInv'
  <2>1. <<t, n>> \in Messages /\ queue[<<t, n>>] > 0 /\ effects' = effects
    BY <1>10 DEF Fetch, Messages
  <2>2. Spent(t, n)
    BY <2>1 DEF AttemptsInv, MessageSpent
  <2>3. NobodyHolds /\ api.pc # "retry"
    BY <2>1 DEF TokenInv, MessageOrHolder, RetryAlone, NoMessage
  <2>4. Spent(t, n)' /\ Spent(t, n + 1)'
    BY <2>1, <2>2, <1>d, <1>f
  <2>5. worker'[w].step = t /\ worker'[w].made = n /\ worker'[w].pc = Entry(run)
    BY <1>10, <1>a DEF Fetch, Become
  <2>6. HolderSpent'
    <3>1. \A v \in Workers : Holds(v)' => v = w
      BY <2>3, <1>b DEF NobodyHolds, Holds
    <3> QED
      BY <2>4, <2>5, <3>1 DEF HolderSpent
  <2>7. NoMessage'
    <3>1. Holds(w)'
      BY <2>5, <1>c DEF Entry, Holds
    <3> QED
      BY <3>1 DEF TokenInv, MessageOrHolder, NobodyHolds
  <2> QED
    BY <1>b, <1>g, <2>1, <2>3, <2>6, <2>7
       DEF AttemptsInv, MessageSpent, NoMessage, Messages, RetrySpent
<1>11. CASE Ask(w)
  <2>1. Holds(w) /\ worker'[w].pc = "askRun" /\ effects' = effects
    BY <1>11, <1>a, <1>c DEF Ask, Goto, Holds
  <2>2. NoMessage' /\ api.pc # "retry"
    BY <1>11, <2>1 DEF Ask, TokenInv, MessageOrHolder, NobodyHolds, NoMessage, RetryAlone
  <2>3. \A v \in Workers : v # w => ~Holds(v)'
    BY <2>1, <1>b DEF TokenInv, OneHolder, Holds
  <2>4. HolderSpent'
    BY <2>1, <2>3 DEF HolderSpent, Before, Moving
  <2> QED
    BY <1>b, <1>g, <2>1, <2>2, <2>4
       DEF AttemptsInv, MessageSpent, NoMessage, Messages, RetrySpent
<1>12. CASE SetJobId(w) \/ (~Holds(w) /\ (Done(w) \/ QueryFails(w)))
  <2>1. /\ effects' = effects /\ queue' = queue /\ ~Holds(w)
        /\ worker'[w].pc \in {"idle", "done"} /\ (worker'[w].pc = "done" => AgentRun)
    <3>1. CASE SetJobId(w)
      BY <3>1, <1>a, <1>c DEF SetJobId, Goto, Holds, Scheduling
    <3>2. CASE ~Holds(w) /\ Done(w)
      BY <3>2, <1>a DEF Done, Become, IdleWorker
    <3>3. CASE ~Holds(w) /\ QueryFails(w)
      <4>1. worker'[w].pc = Recovery(worker[w].pc)
        BY <3>3, <1>a DEF QueryFails, Become
      <4> QED
        BY <3>3, <4>1, <1>c DEF QueryFails, Recovery, Holds
    <3> QED
      BY <1>12, <3>1, <3>2, <3>3
  <2>2. ~Holds(w)'
    BY <2>1, <1>c DEF Holds
  <2>3. MessageSpent'
    BY <1>d, <1>f, <2>1 DEF AttemptsInv, MessageSpent
  <2>4. HolderSpent'
    <3>1. SUFFICES ASSUME NEW v \in Workers, Holds(v)'
                   PROVE  /\ worker'[v].pc \in Before =>
                                Spent(worker[v].step, worker[v].made)'
                          /\ worker'[v].pc \notin Moving =>
                                Spent(worker[v].step, worker[v].made + 1)'
      BY DEF HolderSpent
    <3>2. v # w /\ worker'[v] = worker[v] /\ Holds(v)
      BY <2>2, <3>1, <1>b DEF Holds
    <3>3. PICK t \in Steps, n \in 0..(MaxAttempts - 1) :
             worker[v].step = t /\ worker[v].made = n
      BY <1>a
    <3>4. /\ worker[v].pc \in Before => Spent(t, n)
          /\ worker[v].pc \notin Moving => Spent(t, n + 1)
      BY <3>2, <3>3 DEF AttemptsInv, HolderSpent
    <3>5. n \in Nat /\ n + 1 \in Nat
      BY <1>d
    <3> QED
      BY <2>1, <3>2, <3>3, <3>4, <3>5, <1>f
  <2>5. RetrySpent'
    <3>1. PICK t \in Steps : api.step = t
      BY DEF TypeInv, TypeOK, ApiStates
    <3> QED
      BY <2>1, <3>1, <1>b, <1>d, <1>f DEF AttemptsInv, RetrySpent
  <2> QED
    BY <1>g, <2>1, <2>3, <2>4, <2>5 DEF AttemptsInv
<1>13. CASE FindAnswer(w) \/ FindOpen(w) \/ CreateExecution(w) \/ Suspend(w) \/ Stall(w)
  BY <1>13, <1>c DEF FindAnswer, FindOpen, CreateExecution, Suspend, Stall, Unduplicated
<1> HIDE DEF At
<1>14. CASE Throw(w)
  BY <1>4, <1>7, <1>14
<1>15. CASE Crash(w)
  BY <1>4, <1>9, <1>15
<1>16. CASE Done(w)
  BY <1>4, <1>12, <1>16
<1>17. CASE QueryFails(w)
  BY <1>6, <1>12, <1>17
<1> QED
  BY <1>1, <1>2, <1>3, <1>4, <1>5, <1>8, <1>10, <1>11, <1>12, <1>13, <1>14, <1>15,
     <1>16, <1>17 DEF WorkerStep, Fault

LEMMA CalmIsNext == CalmNext => Next
  BY DEF CalmNext, Next

\* A step of a request.  The operator who retries a dead letter has MaxAttempts more.
LEMMA OtherAttempts ==
    ASSUME Unduplicated, TypeInv, TokenInv, OrderInv, AttemptsInv, Next,
           \/ ApiStep \/ OperatorStep
           \/ \E s \in Steps : Report(s) \/ Tick(s)
           \/ \E r \in Resumers : ResumerStep(r)
    PROVE  AttemptsInv'
<1>a. /\ TypeOK /\ MaxAttempts \in Nat /\ ops \in Nat /\ faults \in Nat /\ MaxOps \in Nat
      /\ \A n \in 0..(MaxAttempts - 1) : n \in Nat /\ n + 1 \in Nat
      /\ 1 \in Steps /\ api.step \in Steps /\ approval.step \in Steps
      /\ 0 \in Nat /\ 0 \in 0..(MaxAttempts - 1)
  BY AttemptsAssumption, BoundsAssumption, StepsAssumption
     DEF TypeInv, TypeOK, ApiStates, Steps
<1>b. ops' \in {ops, ops + 1} /\ faults' \in {faults, faults + 1}
  BY <1>a, CountersGrow
<1>c. worker' = worker
  BY OthersLeaveWorkers
<1>d. \/ ApiStep
      \/ OperatorStep
  <2>1. ASSUME NEW s \in Steps
        PROVE  ~Report(s) /\ ~Tick(s)
    BY DEF TokenInv, PlainPaths, NoExecution, Report, Tick, Answered
  <2>2. ASSUME NEW r \in Resumers
        PROVE  ~ResumerStep(r)
    BY DEF TokenInv, PlainPaths, ResumerStep, ResumeRun, ResumeGiveUp, ResumeSend
  <2> QED
    BY <2>1, <2>2
<1>e. effects' = effects /\ (ops' # ops => ops < MaxOps)
  BY <1>d DEF ApiStep, Submit, CancelRun, OverruleRun, CancelRest, ApproveSend,
     ApproveCommit, RetrySend, OperatorStep, CancelRead, OverruleRead, ApproveCheck, ApproveRollback, Reject, RetryDead, CancelDead,
     RetryCrash, Start, ElseUnchanged, ByOperator
<1>f. ASSUME NEW t \in Steps, NEW n \in Nat, Spent(t, n)
      PROVE  Spent(t, n)'
  BY <1>a, <1>b, <1>e, <1>f, SpentKept
<1>g. Bounded'
  <2>1. ops' <= MaxOps
    BY <1>a, <1>b, <1>e DEF AttemptsInv, Bounded
  <2>2. \A t \in Steps : Spent(t, MaxAttempts)'
    BY <1>a, <1>f DEF AttemptsInv, Bounded
  <2> QED
    BY <2>1, <2>2 DEF Bounded
<1>h. HolderSpent'
  <2>1. SUFFICES ASSUME NEW v \in Workers, Holds(v)'
                 PROVE  /\ worker'[v].pc \in Before =>
                              Spent(worker[v].step, worker[v].made)'
                        /\ worker'[v].pc \notin Moving =>
                              Spent(worker[v].step, worker[v].made + 1)'
    BY DEF HolderSpent
  <2>2. PICK t \in Steps, n \in 0..(MaxAttempts - 1) :
           worker[v].step = t /\ worker[v].made = n
    BY DEF TypeInv, TypeOK, WorkerStates
  <2>3. Holds(v)
    BY <2>1, <1>c DEF Holds
  <2>4. /\ worker[v].pc \in Before => Spent(t, n)
        /\ worker[v].pc \notin Moving => Spent(t, n + 1)
    BY <2>2, <2>3 DEF AttemptsInv, HolderSpent
  <2>5. n \in Nat /\ n + 1 \in Nat
    BY <1>a
  <2> QED
    BY <1>c, <1>f, <2>2, <2>4, <2>5
<1>i. queue' = queue => MessageSpent'
  BY <1>a, <1>f DEF AttemptsInv, MessageSpent
<1>j. ASSUME NEW s \in Steps, queue' = [queue EXCEPT ![<<s, 0>>] = @ + 1], NoMessage,
             Spent(s, 0)
      PROVE  MessageSpent'
  <2>1. <<s, 0>> \in Messages
    BY <1>a DEF Messages
  <2>2. \A t \in Steps, n \in 0..(MaxAttempts - 1) : queue'[<<t, n>>] > 0 => t = s /\ n = 0
    BY <1>j, <2>1 DEF TypeInv, TypeOK, NoMessage, Messages
  <2>3. Spent(s, 0)'
    BY <1>a, <1>f, <1>j
  <2> QED
    BY <2>2, <2>3 DEF MessageSpent
<1>1. CASE Submit
  <2>1. NoMessage /\ effects[1] = 0 /\ api'.pc # "retry"
    BY <1>1 DEF Submit, ElseUnchanged, TokenInv, CreatedAlone, OrderInv, CreatedFront
  <2>2. MessageSpent'
    BY <1>1, <1>a, <1>i, <1>j, <2>1, SpentNothing DEF Submit, Enqueue
  <2> QED
    BY <1>g, <1>h, <2>1, <2>2 DEF AttemptsInv, RetrySpent
<1>2. CASE ApproveSend
  <2>1. PICK s \in Steps : api.step = s
    BY <1>a
  <2>2. NoMessage /\ effects[s] = 0
    BY <1>2, <2>1 DEF ApproveSend, TokenInv, Deciding, Awaiting, OrderInv, ApprovalFront,
       Unasked
  <2>3. MessageSpent'
    BY <1>2, <1>a, <1>j, <2>1, <2>2, SpentNothing DEF ApproveSend
  <2> QED
    BY <1>2, <1>g, <1>h, <2>3 DEF ApproveSend, Requests, AttemptsInv, RetrySpent
<1>3. CASE RetrySend
  <2>1. PICK s \in Steps : api.step = s
    BY <1>a
  <2>2. NoMessage /\ Spent(s, 0)
    BY <1>3, <2>1 DEF RetrySend, TokenInv, RetryAlone, AttemptsInv, RetrySpent
  <2>3. MessageSpent'
    BY <1>3, <1>j, <2>1, <2>2 DEF RetrySend, Enqueue
  <2> QED
    BY <1>3, <1>g, <1>h, <2>3 DEF RetrySend, IdleApi, AttemptsInv, RetrySpent
<1>4. ASSUME NEW s \in Steps, RetryDead(s)
      PROVE  AttemptsInv'
  <2>1. /\ ops' = ops + 1 /\ faults' = faults /\ queue' = queue
        /\ api' = [pc |-> "retry", step |-> s]
    BY <1>4 DEF RetryDead, Start, Requests
  <2>2. PICK p \in Nat : p = MaxAttempts * ops
    BY <1>a, Products
  <2>3. MaxAttempts * (ops + 1) = p + MaxAttempts
    BY <1>a, <2>2, Products
  <2>4. Crashes' = Crashes /\ Crashes \in Nat
    BY <1>a, <2>1 DEF Crashes
  <2>5. effects[s] <= p + MaxAttempts + Crashes
    BY <2>2 DEF AttemptsInv, Bounded, Spent
  <2>6. effects[s] <= (p + MaxAttempts) + 0 + Crashes
    BY <1>a, <2>4, <2>5
  <2>7. Spent(s, 0)'
    BY <1>e, <2>1, <2>3, <2>4, <2>6 DEF Spent
  <2> QED
    BY <1>g, <1>h, <1>i, <2>1, <2>7 DEF AttemptsInv, RetrySpent
<1>5. CASE \/ CancelRun \/ CancelRest \/ ApproveCommit \/ CancelRead \/ ApproveCheck
           \/ OverruleRun \/ OverruleRead \/ ApproveRollback \/ Reject \/ RetryCrash \/ \E s \in Steps : CancelDead(s)
  <2>1. queue' = queue /\ api'.pc # "retry"
    BY <1>5 DEF CancelRun, CancelRest, ApproveCommit, CancelRead, ApproveCheck,
       OverruleRun, OverruleRead,
       ApproveRollback, Reject, RetryCrash, CancelDead, Start, Requests, IdleApi
  <2> QED
    BY <1>g, <1>h, <1>i, <2>1 DEF AttemptsInv, RetrySpent
<1> QED
  BY <1>d, <1>1, <1>2, <1>3, <1>4, <1>5 DEF ApiStep, OperatorStep

\* Every step of the run keeps the account of attempts.
LEMMA AttemptsInvInductive ==
    ASSUME Unduplicated
    PROVE  TypeInv /\ TokenInv /\ OrderInv /\ AttemptsInv /\ [CalmNext]_vars
               => AttemptsInv'
<1> SUFFICES ASSUME TypeInv, TokenInv, OrderInv, AttemptsInv, [CalmNext]_vars
             PROVE  AttemptsInv'
  OBVIOUS
<1>1. CASE UNCHANGED vars
  BY <1>1 DEF vars, AttemptsInv, Bounded, MessageSpent, HolderSpent, Holds, RetrySpent,
     Spent, Crashes
<1>2. TokenInv'
  BY TokenInvInductive
<1>3. ASSUME NEW w \in Workers, WorkerStep(w) \/ Fault(w)
      PROVE  AttemptsInv'
  BY <1>2, <1>3, WorkerAttempts
<1>4. CASE CalmNext
  <2>1. Next
    BY <1>4, CalmIsNext
  <2>2. CASE ApiStep \/ OperatorStep
    BY <2>1, <2>2, OtherAttempts
  <2>3. ASSUME NEW s \in Steps, Report(s) \/ Tick(s)
        PROVE  AttemptsInv'
    BY <2>1, <2>3, OtherAttempts
  <2>4. ASSUME NEW r \in Resumers, ResumerStep(r)
        PROVE  AttemptsInv'
    BY <2>1, <2>4, OtherAttempts
  <2> QED
    BY <1>3, <1>4, <2>2, <2>3, <2>4 DEF CalmNext
<1> QED
  BY <1>1, <1>4

CalmPlan ==
    TypeInv /\ GateInv /\ HandsIdle /\ (forced \/ (TokenInv /\ OrderInv /\ AttemptsInv))

LEMMA CalmPlanInductive ==
    ASSUME Unduplicated
    PROVE  CalmPlan /\ [Next]_vars => CalmPlan'
BY CalmStep, TypeInvInductive, GateInvInductive, TokenInvInductive, OrderInvInductive,
   AttemptsInvInductive DEF CalmPlan

\* The invariants in every state, for the theorems that build on them.
LEMMA PlanAlways ==
    ASSUME Unduplicated
    PROVE  Spec => []CalmPlan
<1>1. Init => CalmPlan
  BY InitType, InitGate, InitHands, InitToken, InitOrder, InitAttempts DEF CalmPlan
<1>2. CalmPlan /\ [Next]_vars => CalmPlan'
  BY CalmPlanInductive
<1> QED
  BY <1>1, <1>2, PTL DEF Spec

\* However often statements fail, operators retry and workers of tool runs die, the
\* effect of a step is repeated at most once per attempt of a message and once per
\* crash, which is within the bound of RepeatsBounded, until an operator enqueues a
\* step by hand.
THEOREM RepeatsBoundedHolds ==
    ASSUME Unduplicated
    PROVE  Spec => []RepeatsBounded
<1>1. CalmPlan => RepeatsBounded
  <2> SUFFICES ASSUME TypeInv, AttemptsInv, NEW s \in Steps
               PROVE  effects[s] <= MaxAttempts * (1 + faults) * (1 + ops)
    BY DEF RepeatsBounded, CalmPlan
  <2>1. /\ MaxAttempts \in Nat /\ MaxAttempts >= 1 /\ ops \in Nat /\ faults \in Nat
        /\ effects[s] \in Nat /\ Crashes \in Nat /\ Crashes <= faults
    BY AttemptsAssumption DEF TypeInv, TypeOK, Crashes
  <2>2. effects[s] <= MaxAttempts * ops + MaxAttempts + faults
    <3>1. PICK p \in Nat : p = MaxAttempts * ops
      BY <2>1, Products
    <3>2. effects[s] <= p + MaxAttempts + Crashes
      BY <3>1 DEF AttemptsInv, Bounded, Spent
    <3>3. effects[s] <= p + MaxAttempts + faults
      BY <2>1, <3>2
    <3> QED
      BY <3>1, <3>3
  <2>3. ASSUME NEW m \in Nat, NEW f \in Nat, NEW o \in Nat, m >= 1
        PROVE  m * o + m + f <= m * (1 + f) * (1 + o)
    <3>1. PICK a \in Nat, b \in Nat, c \in Nat :
             a = m * o /\ b = m * f /\ c = m * f * o
      BY Products
    <3>2. m * (1 + f) * (1 + o) = m + a + b + c
      BY <3>1
    <3>3. b >= f
      BY <2>3, <3>1
    <3> QED
      BY <3>1, <3>2, <3>3
  <2> QED
    BY <2>1, <2>2, <2>3
<1> QED
  BY <1>1, PlanAlways, PTL

-----------------------------------------------------------------------------
(* The run implements the abstract plan.                                   *)

\* What the plan sees of a step that lets it loose, or that finds it loose.
Loose == forced \/ (DeviceSteps # {} /\ faults > 0)

LEMMA LoosePlan ==
    ASSUME Loose', effects' = effects, NEW s \in Steps, Asked' \in {Asked, Asked \cup {s}}
    PROVE  Promise!Next
<1>1. CASE Asked' = Asked \cup {s} /\ s \in Risky
  <2>1. Promise!Approve(s)
    BY <1>1 DEF Promise!Approve, Loose, Asked
  <2> QED
    BY <2>1 DEF Promise!Next
<1>2. CASE Asked' = Asked \/ s \notin Risky
  <2>1. Risky \cap Asked' = Risky \cap Asked
    BY <1>2
  <2>2. Promise!Loosen
    BY <2>1 DEF Promise!Loosen, Loose, Asked
  <2> QED
    BY <2>2 DEF Promise!Next
<1> QED
  BY <1>1, <1>2

\* A request by hand lets the plan loose.
LEMMA HandLoosens ==
    ASSUME TypeInv, HandsIdle, NEW h \in Hands, HandStart(h) \/ HandStep(h) \/ HandCrash(h)
    PROVE  Promise!Next
<1>1. effects' = effects /\ forced'
  BY DEF HandStart, ContinueRead, RetryRunRead, ApproveRunRead, RetryFailed, ByHand,
     HandStep, Pick, Requeue, Reset, Send, HandJobId, InHand, HandCrash, HandsIdle
<1>2. \E s \in Steps : Asked' \in {Asked, Asked \cup {s}}
  <2>1. CASE ApproveRunRead(h)
    BY <2>1 DEF ApproveRunRead, ByHand, TypeInv, TypeOK, Asked
  <2>2. CASE Pick(h)
    BY <2>2, StepsAssumption DEF Pick, InHand, Asked, Steps
  <2>3. CASE UNCHANGED <<granted, continued>>
    BY <2>3, StepsAssumption DEF Asked, Steps
  <2> QED
    BY <2>1, <2>2, <2>3 DEF HandStart, ContinueRead, RetryRunRead, RetryFailed, ByHand,
       HandStep, Requeue, Reset, Send, HandJobId, InHand, HandCrash
<1> QED
  BY <1>1, <1>2, LoosePlan DEF Loose

\* An effect that the plan allows, or that of a step that it does not look at any more.
LEMMA EffectExecutes ==
    ASSUME NEW s \in Steps, effects' = [effects EXCEPT ![s] = @ + 1],
           UNCHANGED <<granted, continued, forced, faults>>,
           s \in Risky => s \in Asked,
           Loose \/ (Promise!Current(s) /\ effects[s] < Tries[s])
    PROVE  Promise!Next
<1>1. Promise!Execute(s)
  BY DEF Promise!Execute, Loose, Asked
<1> QED
  BY <1>1 DEF Promise!Next

\* The effect of a tool is the next one of the plan, or that of its step once more.
LEMMA ToolExecutes ==
    ASSUME DeviceSteps = {}, "crash" \notin Faults, CalmPlan,
           NEW w \in Workers, worker[w].pc # "idle", forced \/ worker[w].pc = "tool",
           effects' = [effects EXCEPT ![worker[w].step] = @ + 1],
           UNCHANGED <<granted, continued, forced, faults>>
    PROVE  Promise!Next
<1> USE DEF CalmPlan
<1>1. PICK s \in Steps, made \in 0..(MaxAttempts - 1) :
         worker[w].step = s /\ worker[w].made = made
  BY DEF TypeInv, TypeOK, WorkerStates
<1>2. forced \/ (Front(s) /\ Spent(s, made))
  BY <1>1 DEF OrderInv, HolderFront, HolderAt, AttemptsInv, HolderSpent, Holds, Resting, Before
<1>3. forced \/ Promise!Current(s)
  BY <1>2 DEF Promise!Current, Front, Later
<1>4. ASSUME ~forced PROVE effects[s] < Tries[s]
  <2>1. /\ MaxAttempts \in Nat /\ ops \in Nat /\ MaxOps \in Nat /\ effects[s] \in Nat
        /\ made \in Nat /\ made < MaxAttempts
    BY AttemptsAssumption, BoundsAssumption DEF TypeInv, TypeOK
  <2>2. PICK k \in Nat : MaxOps = ops + k
    <3>1. ops <= MaxOps
      BY <1>4 DEF AttemptsInv, Bounded
    <3>2. MaxOps - ops \in Nat /\ MaxOps = ops + (MaxOps - ops)
      BY <2>1, <3>1
    <3> QED
      BY <3>2
  <2>3. PICK p \in Nat, q \in Nat : p = MaxAttempts * ops /\ q = MaxAttempts * k
    BY <2>1, Products
  <2>4. MaxAttempts * (1 + MaxOps) = MaxAttempts + p + q
    BY <2>1, <2>2, <2>3
  <2>5. effects[s] <= p + made
    BY <1>2, <1>4, <2>1, <2>3 DEF Spent, Crashes
  <2>6. effects[s] < MaxAttempts * (1 + MaxOps)
    BY <2>1, <2>4, <2>5
  <2> QED
    BY <1>1, <2>6 DEF Tries
<1>5. s \in Risky => s \in Asked
  BY <1>1 DEF GateInv, Untouched
<1> QED
  BY <1>1, <1>3, <1>4, <1>5, EffectExecutes DEF Loose

\* A step of the run is a step of the plan, or the plan does not see it.
LEMMA ImplementsPlan ==
    ASSUME Unduplicated, "crash" \notin Faults, CalmPlan, [Next]_vars
    PROVE  [Promise!Next]_(Promise!vars)
<1>a. DeviceSteps = {} /\ TypeInv
  BY DEF Unduplicated, CalmPlan
<1>1. CASE UNCHANGED <<effects, granted, continued, forced>>
  BY <1>1, <1>a DEF Promise!vars
<1>2. ASSUME NEW w \in Workers, WorkerStep(w) \/ Fault(w)
      PROVE  [Promise!Next]_(Promise!vars)
  <2>1. CASE ToolEnds(w) \/ ToolFails(w)
    <3>1. /\ UNCHANGED <<granted, continued, forced, faults>>
          /\ worker[w].pc \in {"tool", "create"}
          /\ \/ effects' = effects
             \/ effects' = [effects EXCEPT ![worker[w].step] = @ + 1]
      BY <2>1 DEF ToolEnds, ToolFails, At, ElseUnchanged
    <3>2. forced \/ worker[w].pc = "tool"
      BY <3>1 DEF CalmPlan, TokenInv, PlainPaths
    <3> QED
      BY <3>1, <3>2, <1>1, <1>a, ToolExecutes
  <2> QED
    BY <1>1, <1>2, <2>1 DEF WorkerStep, Fetch, Park, Drop, Begin, Mark, FindAnswer, FindOpen,
     CreateExecution, CancelTail, Succeed, Count, Conclude, Fail, FailRun, Suspend, Throw,
     Dead, Schedule, OutOfTime, ScheduleNothing, Ask, AskRun, EnqueueNext, SetJobId, Stop,
     Done, ElseUnchanged, Fault, Stall, Crash, QueryFails
<1>3. CASE ApproveCheck
  <2>1. PICK s \in Steps : approval.step = s
    BY <1>a DEF TypeInv, TypeOK
  <2>2. /\ granted' = granted \cup {s} /\ UNCHANGED <<effects, continued, forced, faults>>
        /\ Awaiting
    BY <1>3, <2>1 DEF ApproveCheck, Start, ByOperator, Awaiting
  <2>3. CASE forced
    BY <2>2, <2>3, LoosePlan DEF Loose, Asked
  <2>4. CASE ~forced /\ s \in Risky
    <3>1. Front(s) /\ Unasked(s)
      BY <2>1, <2>2, <2>4 DEF CalmPlan, OrderInv, ApprovalFront
    <3>2. Promise!Approve(s)
      BY <2>2, <2>4, <3>1 DEF Promise!Approve, Promise!Current, Front, Later, Unasked
    <3> QED
      BY <3>2 DEF Promise!Next
  <2>5. CASE s \notin Risky
    BY <2>2, <2>5 DEF Promise!vars
  <2> QED
    BY <2>3, <2>4, <2>5
<1>4. CASE ApiStep \/ OperatorStep
  BY <1>1, <1>3, <1>4 DEF ApiStep, Submit, CancelRun, OverruleRun, CancelRest, ApproveSend,
     ApproveCommit, RetrySend, OperatorStep, CancelRead, OverruleRead, ApproveRollback,
     Reject, RetryDead, CancelDead, RetryCrash, ElseUnchanged, ByOperator
<1>5. ASSUME NEW s \in Steps, Report(s) \/ Tick(s)
      PROVE  [Promise!Next]_(Promise!vars)
  <2>1. UNCHANGED <<granted, continued, forced, faults>>
    BY <1>5 DEF Report, Tick, Elsewhere
  <2>2. CASE effects' = effects
    BY <1>1, <2>1, <2>2
  <2>3. CASE effects' # effects
    <3>1. effects' = [effects EXCEPT ![s] = @ + 1] /\ device[s].open > 0
      BY <1>5, <2>3 DEF Report, Tick
    <3>2. forced /\ (s \in Risky => s \in Asked)
      BY <3>1 DEF CalmPlan, TokenInv, PlainPaths, GateInv, Untouched, NoExecution
    <3> QED
      BY <2>1, <3>1, <3>2, EffectExecutes DEF Loose
  <2> QED
    BY <2>2, <2>3
<1>6. ASSUME NEW r \in Resumers, ResumerStep(r)
      PROVE  [Promise!Next]_(Promise!vars)
  BY <1>1, <1>6 DEF ResumerStep, ResumeRun, ResumeGiveUp, ResumeSend, Elsewhere
<1>7. ASSUME NEW h \in Hands, HandStart(h) \/ HandStep(h) \/ HandCrash(h)
      PROVE  [Promise!Next]_(Promise!vars)
  BY <1>7, HandLoosens DEF CalmPlan
<1> QED
  BY <1>1, <1>2, <1>4, <1>5, <1>6, <1>7 DEF Next, vars

\* The effects of a run happen in the order of the plan, none of them again once a later
\* one has happened, each at most once per attempt of the messages that requests bring
\* about, whatever is canceled, rejected, retried or fails on the way, until an operator
\* enqueues a step by hand; and a risky one happens only after it was approved or
\* continued, also later on: the run implements PlanExecution.
THEOREM KeepsPromiseHolds ==
    ASSUME Unduplicated, "crash" \notin Faults
    PROVE  Spec => KeepsPromise
<1>1. Init => Promise!Init
  BY DEF Init, Promise!Init, Unduplicated
<1>2. CalmPlan /\ [Next]_vars => [Promise!Next]_(Promise!vars)
  BY ImplementsPlan
<1> QED
  BY <1>1, <1>2, PlanAlways, PTL DEF Spec, KeepsPromise, Promise!Spec

-----------------------------------------------------------------------------
(* The run of one step that a device executes.  Until the device has       *)
(* answered, the run has one token, like any run that no fault befalls; it *)
(* rests where an execution is open.  Afterwards both resumers may enqueue *)
(* the step, but whoever takes it up finds the answer.                     *)

OnDevice == ~AgentRun /\ DeviceSteps = Steps

\* Next to an open execution there is nothing that could insert another one.
OpenAlone ==
    device[1].open > 0 =>
        /\ NoMessage /\ ~Awaiting /\ run # "created"
        /\ api.pc \notin {"checked", "sent", "retry"}
        /\ step[1] # "deadletter"
        /\ \A w \in Workers : worker[w].pc \in {"idle", "suspend", "done"}

DevicePaths ==
    /\ \A w \in Workers : worker[w].pc \notin Scheduling \cup {"count"}
    /\ \A r \in Resumers : resumer[r].pc = "idle"
    /\ device[1].open <= 1 /\ effects[1] = 0

Unanswered ==
    /\ OneMessage /\ OneHolder /\ MessageOrHolder /\ RetryAlone /\ AwaitingAlone
    /\ DeadAlone /\ CreatedAlone /\ Deciding /\ OpenAlone /\ DevicePaths

\* Nobody is where it would still insert an execution.
AnsweredOnce ==
    /\ device[1].open = 0 /\ effects[1] <= 1
    /\ \A w \in Workers : worker[w].pc \notin {"lookup", "create"}

DeviceInv == IF Answered(1) THEN AnsweredOnce ELSE Unanswered

LEMMA InitDevice == Init => DeviceInv
<1> SUFFICES ASSUME Init PROVE DeviceInv
  OBVIOUS
<1>1. 1 \in Steps
  BY StepsAssumption DEF Steps
<1>2. /\ NoMessage
      /\ \A w \in Workers : worker[w].pc = "idle"
      /\ \A r \in Resumers : resumer[r].pc = "idle"
      /\ \A s \in Steps : step[s] = "pending"
      /\ device[1] = NoExecution /\ effects[1] = 0
      /\ run = "created" /\ approval.status = "none" /\ api.pc = "idle"
  BY <1>1 DEF Init, NoMessage, IdleWorker, IdleApi, IdleResumer
<1>3. NobodyHolds
  BY <1>2 DEF NobodyHolds, Holds, Resting
<1>4. OneMessage /\ OneHolder /\ MessageOrHolder
  BY <1>2, <1>3 DEF OneMessage, NoMessage, OneHolder, MessageOrHolder, NobodyHolds
<1>5. RetryAlone /\ AwaitingAlone /\ DeadAlone /\ CreatedAlone /\ Deciding
  BY <1>2, <1>3 DEF RetryAlone, AwaitingAlone, Awaiting, DeadAlone, CreatedAlone, Deciding
<1>6. ~Answered(1) /\ OpenAlone /\ DevicePaths
  BY <1>2 DEF Answered, OpenAlone, DevicePaths, NoExecution, Scheduling
<1> QED
  BY <1>4, <1>5, <1>6 DEF DeviceInv, Unanswered

\* The holder of the token goes on, or inserts the execution, or puts the token down.
MovesOnDevice(w) ==
    /\ Holds(w)
    /\ \A v \in Workers : v # w => worker'[v] = worker[v]
    /\ UNCHANGED <<queue, api, approval, resumer, effects>>
    /\ api.pc = "sent" => run' = run /\ worker'[w].pc \in {"park", "throw", "dead", "idle"}
    /\ run' = "needs_approval" => api.pc = "sent"
    /\ run' # "created"
    /\ worker'[w].pc \notin Scheduling \cup {"count"}
    /\ step'[1] = "deadletter" => worker'[w].pc = "idle" /\ device' = device
                                  /\ device[1].open = 0
    /\ \/ /\ device' = device
          /\ device[1].open > 0 => worker'[w].pc \in {"idle", "suspend", "done"}
       \/ device'[1].open = 1 /\ worker'[w].pc = "suspend" /\ api.pc # "sent"

LEMMA MovesKeepUnanswered ==
    ASSUME OnDevice, Unanswered, NEW w \in Workers, MovesOnDevice(w)
    PROVE  Unanswered'
<1> USE DEF MovesOnDevice
<1>a. Resting = {"idle"} /\ Steps = {1}
  BY AgentAssumption DEF OnDevice, Resting, Steps
<1>1. NoMessage /\ NoMessage' /\ OneMessage'
  BY DEF Unanswered, MessageOrHolder, NobodyHolds, NoMessage, OneMessage
<1>2. \A v \in Workers : v # w => ~Holds(v) /\ ~Holds(v)'
  BY DEF Unanswered, OneHolder, Holds
<1>3. OneHolder' /\ MessageOrHolder'
  BY <1>1, <1>2 DEF OneHolder, MessageOrHolder
<1>4. /\ api.pc \notin {"checked", "retry"} /\ ~Awaiting
      /\ step[1] # "deadletter"
      /\ api.pc = "sent" => run = "needs_approval" /\ approval.status = "pending"
  BY <1>a DEF Unanswered, Deciding, RetryAlone, DeadAlone, NobodyHolds, AwaitingAlone,
     DevicePaths, Scheduling
<1>5. worker'[w].pc \in Resting => NobodyHolds'
  BY <1>2 DEF NobodyHolds, Holds
<1>6. RetryAlone' /\ AwaitingAlone' /\ CreatedAlone'
  BY <1>4 DEF RetryAlone, AwaitingAlone, Awaiting, CreatedAlone
<1>7. DeadAlone'
  BY <1>a, <1>1, <1>4, <1>5 DEF DeadAlone, Awaiting
<1>8. Deciding'
  BY <1>a, <1>2, <1>4 DEF Deciding, Holds
<1>9. OpenAlone'
  BY <1>a, <1>1, <1>2, <1>4 DEF Unanswered, OpenAlone, Awaiting, Holds
<1>10. DevicePaths'
  BY DEF Unanswered, DevicePaths
<1> QED
  BY <1>1, <1>3, <1>6, <1>7, <1>8, <1>9, <1>10 DEF Unanswered

\* A step of a worker before the device has answered.
LEMMA WorkerUnanswered ==
    ASSUME OnDevice, TypeInv, Unanswered, ~Answered(1), NEW w \in Workers, WorkerStep(w)
    PROVE  Unanswered' /\ ~Answered(1)'
<1>a. /\ worker \in [Workers -> [pc : WorkerPCs, step : Steps, made : 0..(MaxAttempts - 1),
                                own : BOOLEAN, note : Notes, next : Steps]]
      /\ queue \in [Messages -> Nat] /\ step \in [Steps -> StepStatuses]
      /\ device \in [Steps -> [open : Nat, last : {"none", "succeeded", "failed"}]]
  BY DEF TypeInv, TypeOK, WorkerStates, DeviceStates
<1>b. /\ \A v \in Workers : v # w => worker'[v] = worker[v]
      /\ api' = api /\ resumer' = resumer
  BY OnlyOneWorker
<1>c. Resting = {"idle"} /\ Steps = {1} /\ worker[w].step = 1
  BY <1>a, AgentAssumption DEF OnDevice, Resting, Steps
<1>d. /\ Holds(w) /\ api.pc = "sent" => run = "needs_approval"
                                        /\ worker[w].pc \in {"park", "throw", "dead"}
      /\ Holds(w) /\ run = "needs_approval" => api.pc = "sent"
      /\ Holds(w) => run # "created" /\ step[1] # "deadletter" /\ ~Awaiting
      /\ worker[w].pc \notin Scheduling \cup {"count"}
      /\ device[1].open > 0 => worker[w].pc \in {"idle", "suspend", "done"}
      /\ device[1].open \in Nat /\ device[1].open <= 1 /\ device[1].last = "none"
  BY <1>a, <1>c DEF Unanswered, Deciding, AwaitingAlone, CreatedAlone, DeadAlone, NobodyHolds,
     DevicePaths, OpenAlone, Answered, Scheduling
<1>e. ASSUME MovesOnDevice(w), device'[1].last = "none"
      PROVE  Unanswered' /\ ~Answered(1)'
  BY <1>e, MovesKeepUnanswered DEF Answered
<1> USE DEF At
<1>1. ASSUME NEW s \in Steps, NEW made \in 0..(MaxAttempts - 1), Fetch(w, s, made)
      PROVE  Unanswered' /\ ~Answered(1)'
  <2>1. <<s, made>> \in Messages /\ queue[<<s, made>>] > 0
    BY <1>1 DEF Fetch, Messages
  <2>2. NobodyHolds /\ \A m \in Messages : m # <<s, made>> => queue[m] = 0
    BY <2>1, <1>a DEF Unanswered, MessageOrHolder, NoMessage, OneMessage
  <2>3. NoMessage'
    BY <1>1, <2>1, <2>2, <1>a DEF Fetch, Unanswered, OneMessage, NoMessage
  <2>4. \A v \in Workers : v # w => ~Holds(v)'
    BY <2>2, <1>b DEF NobodyHolds, Holds
  <2>5. /\ UNCHANGED <<run, step, approval, device, effects>>
        /\ worker'[w].pc = Entry(run)
    BY <1>1, <1>a DEF Fetch, Become
  <2>6. /\ api.pc \notin {"checked", "retry"} /\ ~Awaiting
        /\ step[1] # "deadletter" /\ device[1].open = 0
        /\ run # "created"
        /\ run = "needs_approval" => api.pc = "sent"
        /\ api.pc = "sent" => run = "needs_approval" /\ approval.status = "pending"
    BY <2>1, <1>c, <1>d DEF Unanswered, RetryAlone, AwaitingAlone, DeadAlone, CreatedAlone,
       Deciding, OpenAlone, NoMessage
  <2>7. /\ Entry(run) \in {"park", "drop", "begin"}
        /\ run = "needs_approval" => Entry(run) = "park"
    BY DEF Entry, Blocked
  <2>8. OneMessage' /\ OneHolder' /\ MessageOrHolder'
    BY <2>3, <2>4 DEF OneMessage, NoMessage, OneHolder, MessageOrHolder
  <2>9. RetryAlone' /\ AwaitingAlone' /\ DeadAlone' /\ CreatedAlone'
    BY <2>5, <2>6, <1>b, <1>c DEF RetryAlone, AwaitingAlone, Awaiting, DeadAlone, CreatedAlone
  <2>10. Deciding'
    BY <2>4, <2>5, <2>6, <2>7, <1>b DEF Deciding
  <2>11. OpenAlone' /\ DevicePaths' /\ ~Answered(1)'
    BY <2>5, <2>6, <2>7, <1>b DEF Unanswered, OpenAlone, DevicePaths, Scheduling, Answered
  <2> QED
    BY <2>8, <2>9, <2>10, <2>11 DEF Unanswered
<1>2. CASE Park(w) \/ Drop(w) \/ Begin(w) \/ Mark(w)
  <2>1. worker'[w].pc \in {"done", "mark", "tool"}
    <3>1. CASE Park(w) \/ Drop(w)
      BY <3>1, <1>a DEF Park, Drop, Returned, Become, OnDevice
    <3>2. CASE Begin(w) \/ Mark(w)
      BY <3>2, <1>a DEF Begin, Mark, Goto
    <3> QED
      BY <1>2, <3>1, <3>2
  <2>2. /\ Holds(w) /\ api.pc # "sent" /\ device[1].open = 0
        /\ UNCHANGED <<queue, approval, device, effects>> /\ run' \in {run, "running"}
    BY <1>2, <1>c, <1>d DEF Park, Drop, Begin, Mark, RowsFree, Holds
  <2>3. step'[1] # "deadletter"
    BY <1>2, <2>2, <1>a, <1>c, <1>d DEF Park, Drop, Begin, Mark, SetStep
  <2> QED
    BY <2>1, <2>2, <2>3, <1>b, <1>d, <1>e DEF MovesOnDevice, Scheduling
<1>3. CASE ToolFails(w) \/ FindAnswer(w) \/ FindOpen(w)
  <2>1. /\ worker'[w].pc \in {"fail", "lookup", "create"}
        /\ Holds(w) /\ api.pc # "sent" /\ device[1].open = 0
        /\ UNCHANGED <<run, step, queue, approval, device, effects>>
    <3>1. CASE ToolFails(w)
      BY <3>1, <1>a, <1>c, <1>d DEF ToolFails, Become, Holds, OnDevice
    <3>2. CASE FindAnswer(w)
      BY <3>2, <1>a, <1>c, <1>d DEF FindAnswer, Goto, Holds
    <3>3. CASE FindOpen(w)
      BY <3>3, <1>a, <1>c, <1>d DEF FindOpen, Goto, Holds
    <3> QED
      BY <1>3, <3>1, <3>2, <3>3
  <2> QED
    BY <2>1, <1>b, <1>d, <1>e DEF MovesOnDevice, Scheduling
<1>4. CASE CreateExecution(w)
  <2>1. /\ worker'[w].pc = "suspend"
        /\ Holds(w) /\ api.pc # "sent"
        /\ device'[1].open = 1 /\ device'[1].last = "none"
        /\ UNCHANGED <<run, step, queue, approval, effects>>
    BY <1>4, <1>a, <1>c, <1>d DEF CreateExecution, Goto, Holds
  <2> QED
    BY <2>1, <1>b, <1>d, <1>e DEF MovesOnDevice, Scheduling
<1>5. CASE CancelTail(w) \/ Conclude(w) \/ Suspend(w)
  <2>1. worker'[w].pc = "done"
    <3>1. Returned(w)
      BY <1>5 DEF CancelTail, Conclude, Suspend
    <3> QED
      BY <3>1, <1>a DEF Returned, Become, OnDevice
  <2>2. /\ Holds(w) /\ api.pc # "sent"
        /\ run' \in {"canceled", "queued", "succeeded", "needs_device"}
        /\ UNCHANGED <<queue, approval, device, effects>>
    BY <1>5, <1>c DEF CancelTail, Conclude, Suspend, SetRun, RowsFree, Holds
  <2>3. step'[1] # "deadletter"
    BY <1>5, <2>2, <1>a, <1>c, <1>d DEF CancelTail, Conclude, Suspend, SetStep
  <2> QED
    BY <2>1, <2>2, <2>3, <1>b, <1>d, <1>e DEF MovesOnDevice, Scheduling
<1>6. CASE Succeed(w) \/ Fail(w)
  <2>1. /\ worker'[w].pc \in {"conclude", "failRun"} /\ Holds(w) /\ api.pc # "sent"
        /\ step'[1] # "deadletter" /\ device[1].open = 0
        /\ UNCHANGED <<run, queue, approval, device, effects>>
    <3>1. CASE Succeed(w)
      BY <3>1, <1>a, <1>c, <1>d DEF Succeed, SetStep, Become, OnDevice, Holds
    <3>2. CASE Fail(w)
      BY <3>2, <1>a, <1>c, <1>d DEF Fail, SetStep, Goto, Holds
    <3> QED
      BY <1>6, <3>1, <3>2
  <2> QED
    BY <2>1, <1>b, <1>d, <1>e DEF MovesOnDevice, Scheduling
<1>7. CASE FailRun(w)
  <2>1. worker'[w].pc \in {"throw", "done"}
    <3>1. CASE Goto(w, "throw")
      BY <3>1, <1>a DEF Goto
    <3>2. CASE Returned(w)
      BY <3>2, <1>a DEF Returned, Become, OnDevice
    <3> QED
      BY <1>7, <3>1, <3>2 DEF FailRun
  <2>2. /\ Holds(w) /\ api.pc # "sent" /\ run' = "failed" /\ device[1].open = 0
        /\ UNCHANGED <<step, queue, approval, device, effects>>
    BY <1>7, <1>c, <1>d DEF FailRun, SetRun, RowsFree, Holds
  <2> QED
    BY <2>1, <2>2, <1>b, <1>d, <1>e DEF MovesOnDevice, Scheduling
<1>8. CASE Throw(w) /\ queue' = queue
  <2>1. /\ worker'[w].pc \in {"idle", "dead"} /\ Holds(w) /\ device[1].open = 0
        /\ UNCHANGED <<run, step, approval, device, effects>>
    BY <1>8, <1>a, <1>c, <1>d DEF Throw, Become, Goto, IdleWorker, Holds
  <2> QED
    BY <1>8, <2>1, <1>b, <1>d, <1>e DEF MovesOnDevice, Scheduling
<1>9. CASE Throw(w) /\ queue' # queue
  <2>1. PICK m \in Messages : queue' = [queue EXCEPT ![m] = @ + 1]
    <3>1. PICK made \in 0..(MaxAttempts - 1) : worker[w].made = made
      BY <1>a
    <3>2. made + 1 < MaxAttempts /\ queue' = [queue EXCEPT ![<<1, made + 1>>] = @ + 1]
      BY <1>9, <1>c, <3>1 DEF Throw
    <3>3. <<1, made + 1>> \in Messages
      BY <1>c, <3>2, AttemptsAssumption DEF Messages
    <3> QED
      BY <3>2, <3>3
  <2>2. /\ worker'[w].pc = "idle" /\ Holds(w) /\ device[1].open = 0
        /\ UNCHANGED <<run, step, approval, device, effects>>
    <3>1. Become(w, IdleWorker)
      <4>1. PICK made \in 0..(MaxAttempts - 1) : worker[w].made = made
        BY <1>a
      <4>2. made + 1 < MaxAttempts
        BY <1>9, <4>1 DEF Throw
      <4>3. ~GivenUp(made)
        BY <4>1, <4>2, AttemptsAssumption DEF GivenUp
      <4> QED
        BY <1>9, <4>1, <4>3 DEF Throw
    <3> QED
      BY <1>9, <3>1, <1>a, <1>c, <1>d DEF Throw, Become, IdleWorker, Holds
  <2>3. queue'[m] = 1 /\ \A n \in Messages : n # m => queue'[n] = 0
    BY <2>1, <2>2, <1>a DEF Unanswered, MessageOrHolder, NobodyHolds, NoMessage
  <2>4. OneMessage'
    BY <2>3 DEF OneMessage
  <2>5. NobodyHolds'
    BY <2>2, <1>b, <1>c DEF Unanswered, OneHolder, NobodyHolds, Holds
  <2>6. api.pc \notin {"checked", "retry"}
    BY <2>2 DEF Unanswered, Deciding, RetryAlone, NobodyHolds
  <2>7. OneHolder' /\ MessageOrHolder'
    BY <2>5 DEF OneHolder, MessageOrHolder, NobodyHolds
  <2>8. RetryAlone' /\ AwaitingAlone' /\ DeadAlone' /\ CreatedAlone'
    BY <2>2, <2>6, <1>b, <1>c, <1>d DEF RetryAlone, AwaitingAlone, Awaiting, DeadAlone,
       CreatedAlone
  <2>9. Deciding'
    BY <2>2, <2>5, <2>6, <1>b, <1>d DEF Unanswered, Deciding, NobodyHolds
  <2>10. OpenAlone' /\ DevicePaths' /\ ~Answered(1)'
    BY <2>2, <1>b DEF Unanswered, OpenAlone, DevicePaths, Scheduling, Answered
  <2> QED
    BY <2>4, <2>7, <2>8, <2>9, <2>10 DEF Unanswered
<1>10. CASE Dead(w) \/ Done(w)
  <2>1. /\ worker'[w].pc = "idle" /\ Holds(w)
        /\ step'[1] = "deadletter" => device[1].open = 0
        /\ UNCHANGED <<run, queue, approval, device, effects>>
    BY <1>10, <1>a, <1>c, <1>d DEF Dead, Done, SetStep, Become, IdleWorker, Holds
  <2> QED
    BY <2>1, <1>b, <1>d, <1>e DEF MovesOnDevice, Scheduling
<1>11. ~ToolEnds(w) /\ ~Count(w) /\ ~Schedule(w) /\ ~OutOfTime(w) /\ ~ScheduleNothing(w)
       /\ ~Ask(w) /\ ~AskRun(w) /\ ~EnqueueNext(w) /\ ~SetJobId(w) /\ ~Stop(w)
  BY <1>a, <1>d DEF ToolEnds, Count, Schedule, OutOfTime, ScheduleNothing, Ask, AskRun,
     EnqueueNext, SetJobId, Stop, Scheduling, OnDevice
<1> QED
  BY <1>1, <1>2, <1>3, <1>4, <1>5, <1>6, <1>7, <1>8, <1>9, <1>10, <1>11 DEF WorkerStep

\* A step of a request before the device has answered, and its answer.
LEMMA OtherUnanswered ==
    ASSUME OnDevice, TypeInv, Unanswered, ~Answered(1), faults' = faults,
           \/ ApiStep \/ OperatorStep
           \/ \E s \in Steps : Report(s) \/ Tick(s)
           \/ \E r \in Resumers : ResumerStep(r)
    PROVE  DeviceInv'
<1>a. /\ worker' = worker
      /\ NobodyHolds' = NobodyHolds /\ OneHolder' = OneHolder
      /\ \A w \in Workers : Holds(w)' = Holds(w)
  BY OthersLeaveWorkers DEF Holds, NobodyHolds, OneHolder
<1>b. /\ queue \in [Messages -> Nat] /\ step \in [Steps -> StepStatuses]
      /\ api.step \in Steps /\ Steps = {1} /\ api \in ApiStates
      /\ approval \in [status : {"none", "pending", "approved", "rejected"}, step : Steps]
      /\ device \in [Steps -> [open : Nat, last : {"none", "succeeded", "failed"}]]
      /\ effects \in [Steps -> Nat] /\ faults \in Nat
  BY AgentAssumption DEF TypeInv, TypeOK, ApiStates, Steps, OnDevice, DeviceStates
<1>c. /\ OneMessage /\ OneHolder /\ MessageOrHolder /\ RetryAlone /\ AwaitingAlone
      /\ DeadAlone /\ CreatedAlone /\ Deciding /\ OpenAlone /\ DevicePaths
  BY DEF Unanswered
<1>d. queue' = queue => /\ OneMessage' = OneMessage /\ NoMessage' = NoMessage
                        /\ MessageOrHolder' = MessageOrHolder
  BY <1>a DEF OneMessage, NoMessage, MessageOrHolder
<1>e. UNCHANGED <<device, resumer, effects>> => DevicePaths' /\ ~Answered(1)'
  BY <1>a, <1>c DEF DevicePaths, Answered
<1>f. Unanswered' /\ ~Answered(1)' => DeviceInv'
  BY DEF DeviceInv, Answered
<1>1. CASE Submit
  <2>1. /\ NoMessage /\ NobodyHolds /\ approval.status = "none" /\ api.pc = "idle"
        /\ step[1] # "deadletter" /\ device[1].open = 0
        /\ UNCHANGED <<step, api, device, resumer, effects>>
    BY <1>1, <1>b, <1>c DEF Submit, ElseUnchanged, CreatedAlone, OpenAlone
  <2>2. CASE 1 \in Risky
    <3>1. queue' = queue /\ run' = "needs_approval"
      BY <1>1, <2>2 DEF Submit, SetRun
    <3> QED
      BY <2>1, <3>1, <1>a, <1>b, <1>c, <1>d, <1>e, <1>f
         DEF Unanswered, NobodyHolds, RetryAlone, AwaitingAlone, Awaiting, DeadAlone,
         CreatedAlone, Deciding, OpenAlone
  <2>3. CASE 1 \notin Risky
    <3>1. OneMessage' /\ OneHolder' /\ MessageOrHolder' /\ NobodyHolds'
      BY <1>1, <2>1, <2>3, <1>a, <1>b, SendToken DEF Submit, Enqueue
    <3>2. run' = "queued" /\ approval' = approval
      BY <1>1, <2>3 DEF Submit, SetRun
    <3> QED
      BY <2>1, <3>1, <3>2, <1>b, <1>e, <1>f
         DEF Unanswered, RetryAlone, AwaitingAlone, Awaiting, DeadAlone, CreatedAlone,
         Deciding, OpenAlone
  <2> QED
    BY <2>2, <2>3
<1>2. CASE CancelRun \/ OverruleRun
  <2>1. CASE CancelRun
    BY <2>1, <1>a, <1>b, <1>c, <1>d, <1>e, <1>f
       DEF CancelRun, Requests, ByOperator, Unanswered, OpenAlone, RetryAlone,
       AwaitingAlone, Awaiting, DeadAlone, CreatedAlone, Deciding
  <2>2. CASE OverruleRun
    BY <2>2, <1>a, <1>b, <1>c, <1>d, <1>e, <1>f
       DEF OverruleRun, Requests, ByOperator, Unanswered, OpenAlone, RetryAlone,
       AwaitingAlone, Awaiting, DeadAlone, CreatedAlone, Deciding
  <2> QED
    BY <1>2, <2>1, <2>2
<1>3. CASE CancelRest
  BY <1>3, <1>a, <1>b, <1>c, <1>d, <1>e, <1>f
     DEF CancelRest, IdleApi, CancelSteps, ByOperator, Unanswered, OpenAlone, RetryAlone,
     AwaitingAlone, Awaiting, DeadAlone, CreatedAlone, Deciding
<1>4. CASE ApproveSend
  <2>1. /\ api.pc = "checked" /\ approval.status = "pending" /\ run = "needs_approval"
        /\ NoMessage /\ NobodyHolds
        /\ step[1] # "deadletter" /\ device[1].open = 0
        /\ api' = [pc |-> "sent", step |-> api.step]
        /\ UNCHANGED <<run, step, approval, device, resumer, effects>>
    BY <1>4, <1>b, <1>c DEF ApproveSend, Requests, ByOperator, Deciding, DeadAlone, Awaiting,
       OpenAlone, DevicePaths
  <2>2. OneMessage' /\ OneHolder' /\ MessageOrHolder' /\ NobodyHolds'
    BY <1>4, <2>1, <1>a, <1>b, SendToken DEF ApproveSend
  <2> QED
    BY <2>1, <2>2, <1>b, <1>e, <1>f
       DEF Unanswered, NobodyHolds, RetryAlone, AwaitingAlone, Awaiting, DeadAlone,
       CreatedAlone, Deciding, OpenAlone
<1>5. CASE ApproveCommit
  BY <1>5, <1>a, <1>b, <1>c, <1>d, <1>e, <1>f
     DEF ApproveCommit, IdleApi, ByOperator, Unanswered, OpenAlone, RetryAlone,
     AwaitingAlone, Awaiting, DeadAlone, CreatedAlone, Deciding
<1>6. CASE RetrySend
  <2>1. /\ api.pc = "retry" /\ approval.status # "pending"
        /\ NoMessage /\ NobodyHolds /\ device[1].open = 0
        /\ run # "created" /\ run # "needs_approval" /\ step[1] # "deadletter"
        /\ api'.pc = "idle"
        /\ UNCHANGED <<run, step, approval, device, resumer, effects>>
    BY <1>6, <1>b, <1>c DEF RetrySend, IdleApi, ByOperator, RetryAlone, CreatedAlone,
       OpenAlone, DevicePaths
  <2>2. OneMessage' /\ OneHolder' /\ MessageOrHolder' /\ NobodyHolds'
    BY <1>6, <2>1, <1>a, <1>b, SendToken DEF RetrySend, Enqueue
  <2> QED
    BY <2>1, <2>2, <1>b, <1>e, <1>f
       DEF Unanswered, RetryAlone, AwaitingAlone, Awaiting, DeadAlone, CreatedAlone, Deciding,
       OpenAlone
<1>7. CASE CancelRead \/ OverruleRead
  <2>1. CASE CancelRead
    BY <2>1, <1>a, <1>b, <1>c, <1>d, <1>e, <1>f
       DEF CancelRead, Start, Requests, ByOperator, Unanswered, OpenAlone, RetryAlone,
       AwaitingAlone, Awaiting, DeadAlone, CreatedAlone, Deciding
  <2>2. CASE OverruleRead
    BY <2>2, <1>a, <1>b, <1>c, <1>d, <1>e, <1>f
       DEF OverruleRead, Start, Requests, ByOperator, Unanswered, OpenAlone, RetryAlone,
       AwaitingAlone, Awaiting, DeadAlone, CreatedAlone, Deciding
  <2> QED
    BY <1>7, <2>1, <2>2
<1>8. CASE ApproveCheck
  BY <1>8, <1>a, <1>b, <1>c, <1>d, <1>e, <1>f
     DEF ApproveCheck, Start, Requests, ByOperator, Unanswered, OpenAlone, RetryAlone,
     AwaitingAlone, Awaiting, DeadAlone, CreatedAlone, Deciding
<1>9. CASE ApproveRollback
  <2>1. api.pc = "checked" /\ approval.status # "pending"
    BY <1>9, <1>b DEF ApproveRollback
  <2> QED
    BY <2>1, <1>c DEF Deciding
<1>10. CASE Reject
  BY <1>10, <1>a, <1>b, <1>c, <1>d, <1>e, <1>f
     DEF Reject, Start, SetRun, RowsFree, CancelSteps, ByOperator, Unanswered, OpenAlone,
     RetryAlone, AwaitingAlone, Awaiting, DeadAlone, CreatedAlone, Deciding
<1>11. ~RetryCrash
  BY <1>b DEF RetryCrash
<1>12. ASSUME NEW s \in Steps, RetryDead(s)
      PROVE  DeviceInv'
  BY <1>12, <1>a, <1>b, <1>c, <1>d, <1>e, <1>f
     DEF RetryDead, Start, Retryable, SetStep, SetRun, RowsFree, Requests, ByOperator,
     Unanswered, OpenAlone, RetryAlone, AwaitingAlone, Awaiting, DeadAlone, CreatedAlone,
     Deciding
<1>13. ASSUME NEW s \in Steps, CancelDead(s)
      PROVE  DeviceInv'
  BY <1>13, <1>a, <1>b, <1>c, <1>d, <1>e, <1>f
     DEF CancelDead, Start, SetStep, SetRun, RowsFree, ByOperator, Unanswered, OpenAlone,
     RetryAlone, AwaitingAlone, Awaiting, DeadAlone, CreatedAlone, Deciding
<1>14. ASSUME NEW s \in Steps, Report(s)
      PROVE  DeviceInv'
  <2>1. s = 1 /\ device[1].open = 1
    BY <1>14, <1>b, <1>c DEF Report, DevicePaths
  <2>2. /\ device'[1].open = 0 /\ device'[1].last # "none" /\ effects'[1] <= 1
    BY <1>14, <2>1, <1>b, <1>c DEF Report, DevicePaths
  <2>3. \A w \in Workers : worker'[w].pc \notin {"lookup", "create"}
    BY <2>1, <1>a, <1>c DEF OpenAlone
  <2> QED
    BY <2>2, <2>3 DEF DeviceInv, Answered, AnsweredOnce
<1>15. ASSUME NEW s \in Steps
      PROVE  ~Tick(s)
  BY <1>b DEF Tick, Answered
<1>16. ASSUME NEW r \in Resumers
      PROVE  ~ResumerStep(r)
  BY <1>c DEF ResumerStep, ResumeRun, ResumeGiveUp, ResumeSend, DevicePaths
<1> QED
  BY <1>1, <1>2, <1>3, <1>4, <1>5, <1>6, <1>7, <1>8, <1>9, <1>10, <1>11, <1>12,
     <1>13, <1>14, <1>15, <1>16 DEF ApiStep, OperatorStep

\* After the answer the lookup of finished executions protects the device.
LEMMA AnsweredStays ==
    ASSUME OnDevice, TypeInv, AnsweredOnce, Answered(1), CalmNext, faults' = faults
    PROVE  DeviceInv'
<1>a. /\ worker \in [Workers -> [pc : WorkerPCs, step : Steps, made : 0..(MaxAttempts - 1),
                                own : BOOLEAN, note : Notes, next : Steps]]
      /\ Steps = {1} /\ faults \in Nat
  BY AgentAssumption DEF TypeInv, TypeOK, WorkerStates, OnDevice, Steps
<1>1. ASSUME UNCHANGED <<device, effects>>,
             \A w \in Workers : worker'[w].pc \notin {"lookup", "create"}
      PROVE  DeviceInv'
  BY <1>1 DEF DeviceInv, Answered, AnsweredOnce
<1>2. ASSUME NEW w \in Workers, WorkerStep(w)
      PROVE  DeviceInv'
  <2>a. /\ \A v \in Workers : v # w => worker'[v] = worker[v]
        /\ worker[w].pc \notin {"lookup", "create"} /\ worker[w].step = 1
    BY <1>2, <1>a, OnlyOneWorker DEF AnsweredOnce
  <2>b. ASSUME UNCHANGED <<device, effects>>, worker'[w].pc \notin {"lookup", "create"}
        PROVE  DeviceInv'
    BY <1>1, <2>a, <2>b DEF AnsweredOnce
  <2> USE DEF At
  <2>1. CASE \E s \in Steps, made \in 0..(MaxAttempts - 1) : Fetch(w, s, made)
    BY <2>1, <2>b, <1>a DEF Fetch, Become, Entry
  <2>2. CASE Park(w) \/ Drop(w) \/ CancelTail(w) \/ Conclude(w) \/ Suspend(w)
    BY <2>2, <2>b, <1>a DEF Park, Drop, CancelTail, Conclude, Suspend, Returned, Become,
       OnDevice
  <2>3. CASE Begin(w) \/ Mark(w) \/ Fail(w) \/ OutOfTime(w) \/ ScheduleNothing(w) \/ Ask(w)
             \/ AskRun(w) \/ EnqueueNext(w) \/ SetJobId(w) \/ Stop(w)
    BY <2>3, <2>b, <1>a DEF Begin, Mark, Fail, OutOfTime, ScheduleNothing, Ask, AskRun,
       EnqueueNext, SetJobId, Stop, Goto
  <2>4. CASE Schedule(w)
    <3>1. PICK c \in Steps : Become(w, [worker[w] EXCEPT !.pc = Move(c), !.next = c])
      BY <2>4 DEF Schedule
    <3>2. worker'[w].pc \notin {"lookup", "create"}
      BY <3>1, <1>a DEF Become, Move
    <3> QED
      BY <2>4, <2>b, <3>2 DEF Schedule
  <2>5. CASE ToolFails(w)
    <3>1. worker'[w].pc = "fail"
      BY <2>5, <1>a DEF ToolFails, Become
    <3> QED
      BY <2>5, <2>a, <2>b, <3>1, <1>a DEF ToolFails, OnDevice
  <2>6. CASE FindAnswer(w)
    <3>1. Verify(w) \/ Become(w, [worker[w] EXCEPT !.pc = "fail", !.note = "retry"])
      <4>1. device[1].last \in {"succeeded", "failed"}
        BY <1>a DEF Answered, TypeInv, TypeOK, DeviceStates
      <4> QED
        BY <2>6, <2>a, <4>1 DEF FindAnswer
    <3>2. worker'[w].pc \in {"cancelTail", "succeed", "fail"}
      <4>1. CASE Verify(w)
        BY <4>1, <1>a DEF Verify, Goto
      <4>2. CASE Become(w, [worker[w] EXCEPT !.pc = "fail", !.note = "retry"])
        BY <4>2, <1>a DEF Become
      <4> QED
        BY <3>1, <4>1, <4>2
    <3> QED
      BY <2>6, <2>b, <3>2 DEF FindAnswer
  <2>7. CASE Succeed(w) \/ Count(w)
    <3>1. worker'[w].pc \in {"count", "conclude"}
      <4>1. CASE Succeed(w)
        BY <4>1, <1>a DEF Succeed, Become
      <4>2. CASE Count(w)
        BY <4>2, <1>a DEF Count, Become
      <4> QED
        BY <2>7, <4>1, <4>2
    <3> QED
      BY <2>7, <2>b, <3>1 DEF Succeed, Count
  <2>8. CASE FailRun(w) \/ Throw(w)
    <3>1. worker'[w].pc \in {"throw", "done", "dead", "idle"}
      <4>1. CASE Goto(w, "throw") \/ Goto(w, "dead")
        BY <4>1, <1>a DEF Goto
      <4>2. CASE Returned(w)
        BY <4>2, <1>a DEF Returned, Become, OnDevice
      <4>3. CASE Become(w, IdleWorker)
        BY <4>3, <1>a DEF Become, IdleWorker
      <4> QED
        BY <2>8, <4>1, <4>2, <4>3 DEF FailRun, Throw
    <3> QED
      BY <2>8, <2>b, <3>1 DEF FailRun, Throw
  <2>9. CASE Dead(w) \/ Done(w)
    BY <2>9, <2>b, <1>a DEF Dead, Done, Become, IdleWorker
  <2>10. ~ToolEnds(w) /\ ~FindOpen(w) /\ ~CreateExecution(w)
    BY <2>a, <1>a DEF ToolEnds, FindOpen, CreateExecution, OnDevice
  <2> QED
    BY <1>2, <2>1, <2>2, <2>3, <2>4, <2>5, <2>6, <2>7, <2>8, <2>9, <2>10 DEF WorkerStep
<1>3. ASSUME NEW w \in Workers
      PROVE  ~Fault(w)
  BY <1>a DEF Fault, Stall, Crash, QueryFails
<1>4. CASE ApiStep \/ OperatorStep
  <2>1. worker' = worker
    BY <1>4, OthersLeaveWorkers
  <2>2. UNCHANGED <<device, effects>>
    BY <1>4 DEF ApiStep, Submit, CancelRun, OverruleRun, CancelRest, ApproveSend,
       ApproveCommit, RetrySend, OperatorStep, CancelRead, OverruleRead, ApproveCheck,
       ApproveRollback, Reject, RetryDead, CancelDead, RetryCrash, ByOperator
  <2> QED
    BY <1>1, <2>1, <2>2 DEF AnsweredOnce
<1>5. ASSUME NEW s \in Steps, Report(s) \/ Tick(s)
      PROVE  DeviceInv'
  <2>1. worker' = worker
    BY <1>5, OthersLeaveWorkers
  <2>2. ~Report(s)
    BY <1>a DEF Report, AnsweredOnce
  <2> QED
    BY <1>1, <1>5, <2>1, <2>2 DEF AnsweredOnce, Tick
<1>6. ASSUME NEW r \in Resumers, ResumerStep(r)
      PROVE  DeviceInv'
  <2>1. worker' = worker
    BY <1>6, OthersLeaveWorkers
  <2> QED
    BY <1>1, <1>6, <2>1 DEF AnsweredOnce, ResumerStep, ResumeRun, ResumeGiveUp, ResumeSend
<1> QED
  BY <1>2, <1>3, <1>4, <1>5, <1>6 DEF CalmNext

CalmDevice ==
    TypeInv /\ GateInv /\ HandsIdle /\ (forced \/ faults > 0 \/ DeviceInv)

LEMMA CalmDeviceInductive ==
    ASSUME OnDevice
    PROVE  CalmDevice /\ [Next]_vars => CalmDevice'
<1> SUFFICES ASSUME CalmDevice, [Next]_vars PROVE CalmDevice'
  OBVIOUS
<1>1. TypeInv' /\ GateInv' /\ HandsIdle'
  BY TypeInvInductive, GateInvInductive, CalmStep DEF CalmDevice
<1>2. ASSUME ~forced', ~(faults' > 0) PROVE DeviceInv'
  <2>1. ~forced /\ [CalmNext]_vars
    BY <1>2, CalmStep DEF CalmDevice
  <2>2. faults \in Nat /\ (UNCHANGED vars \/ faults' \in {faults, faults + 1})
    BY CountersGrow DEF CalmDevice, TypeInv, TypeOK
  <2>3. ~(faults > 0) /\ faults' = faults
    <3>1. CASE UNCHANGED vars
      BY <1>2, <3>1 DEF vars
    <3>2. CASE faults' \in {faults, faults + 1}
      BY <1>2, <2>2, <3>2
    <3> QED
      BY <2>2, <3>1, <3>2
  <2>4. TypeInv /\ DeviceInv
    BY <2>1, <2>3 DEF CalmDevice
  <2>5. CASE UNCHANGED vars
    BY <2>4, <2>5 DEF vars, DeviceInv, Answered, AnsweredOnce, Unanswered, OneMessage,
       NoMessage, OneHolder, NobodyHolds, Holds, MessageOrHolder, RetryAlone, AwaitingAlone,
       Awaiting, DeadAlone, CreatedAlone, Deciding, OpenAlone, DevicePaths
  <2>6. CASE CalmNext /\ Answered(1)
    BY <2>3, <2>4, <2>6, AnsweredStays DEF DeviceInv
  <2>7. CASE CalmNext /\ ~Answered(1)
    <3>1. Unanswered
      BY <2>4, <2>7 DEF DeviceInv
    <3>2. ASSUME NEW w \in Workers, WorkerStep(w) PROVE DeviceInv'
      BY <2>4, <2>7, <3>1, <3>2, WorkerUnanswered DEF DeviceInv, Answered
    <3>3. ASSUME NEW w \in Workers PROVE ~Fault(w)
      BY <2>2, <2>3 DEF Fault, Stall, Crash, QueryFails
    <3>4. CASE \/ ApiStep \/ OperatorStep
               \/ \E s \in Steps : Report(s) \/ Tick(s)
               \/ \E r \in Resumers : ResumerStep(r)
      BY <2>3, <2>4, <2>7, <3>1, <3>4, OtherUnanswered
    <3> QED
      BY <2>7, <3>2, <3>3, <3>4 DEF CalmNext
  <2> QED
    BY <2>1, <2>5, <2>6, <2>7
<1> QED
  BY <1>1, <1>2 DEF CalmDevice

\* A report of the device is the one execution of the plan, an approval precedes it.
LEMMA DeviceImplementsPlan ==
    ASSUME OnDevice, CalmDevice, [Next]_vars
    PROVE  [Promise!Next]_(Promise!vars)
<1>a. /\ TypeInv /\ faults \in Nat /\ Steps = {1} /\ DeviceSteps = {1}
      /\ device \in [Steps -> DeviceStates] /\ effects \in [Steps -> Nat]
  BY AgentAssumption DEF CalmDevice, TypeInv, TypeOK, OnDevice, Steps
<1>b. Promise!Current(1)
  BY <1>a DEF Promise!Current
<1>1. CASE UNCHANGED <<effects, granted, continued, forced, faults>>
  BY <1>1 DEF Promise!vars
<1>2. ASSUME UNCHANGED <<effects, granted, continued, forced>>, faults' = faults + 1
      PROVE  [Promise!Next]_(Promise!vars)
  <2>1. Loose'
    BY <1>2, <1>a DEF Loose
  <2>2. Asked' = Asked
    BY <1>2 DEF Asked
  <2> QED
    BY <1>2, <1>a, <2>1, <2>2, LoosePlan
<1>3. ASSUME NEW w \in Workers, WorkerStep(w) \/ Fault(w)
      PROVE  [Promise!Next]_(Promise!vars)
  <2>1. CASE Fault(w)
    BY <2>1, <1>2 DEF Fault, Stall, Crash, QueryFails
  <2>2. worker[w].step = 1
    BY <1>a DEF TypeInv, TypeOK, WorkerStates
  <2>3. ~ToolEnds(w) /\ (ToolFails(w) => UNCHANGED <<effects, granted, continued, forced, faults>>)
    BY <1>a, <2>2 DEF ToolEnds, ToolFails, ElseUnchanged
  <2> QED
    BY <1>1, <1>3, <2>1, <2>3 DEF WorkerStep, Fetch, Park, Drop, Begin, Mark, FindAnswer,
       FindOpen, CreateExecution, CancelTail, Succeed, Count, Conclude, Fail, FailRun,
       Suspend, Throw, Dead, Schedule, OutOfTime, ScheduleNothing, Ask, AskRun, EnqueueNext,
       SetJobId, Stop, Done, ElseUnchanged
<1>4. CASE ApproveCheck
  <2>1. approval.step = 1
    BY <1>a DEF TypeInv, TypeOK
  <2>2. granted' = granted \cup {1} /\ UNCHANGED <<effects, continued, forced, faults>>
    BY <1>4, <2>1 DEF ApproveCheck, Start, ByOperator
  <2>3. CASE 1 \in Asked \/ 1 \notin Risky
    <3>1. Risky \cap (granted' \cup continued') = Risky \cap (granted \cup continued)
      BY <2>2, <2>3 DEF Asked
    <3> QED
      BY <2>2, <3>1 DEF Promise!vars
  <2>4. CASE 1 \notin Asked /\ 1 \in Risky
    <3>1. effects[1] = 0
      BY <2>4 DEF CalmDevice, GateInv, Untouched
    <3>2. Promise!Approve(1)
      BY <1>b, <2>2, <2>4, <3>1 DEF Promise!Approve
    <3> QED
      BY <1>a, <3>2 DEF Promise!Next
  <2> QED
    BY <2>3, <2>4
<1>5. CASE ApiStep \/ OperatorStep
  BY <1>1, <1>2, <1>4, <1>5 DEF ApiStep, Submit, CancelRun, OverruleRun, CancelRest,
     ApproveSend, ApproveCommit, RetrySend, OperatorStep, CancelRead, OverruleRead,
     ApproveRollback, Reject, RetryDead, CancelDead, RetryCrash, ElseUnchanged, ByOperator
<1>6. ASSUME NEW s \in Steps, Report(s) \/ Tick(s)
      PROVE  [Promise!Next]_(Promise!vars)
  <2>1. UNCHANGED <<granted, continued, forced, faults>>
    BY <1>6 DEF Report, Tick, Elsewhere
  <2>2. CASE effects' = effects
    BY <1>1, <2>1, <2>2
  <2>3. CASE effects' # effects
    <3>1. effects' = [effects EXCEPT ![s] = @ + 1] /\ device[s].open > 0 /\ s = 1
      BY <1>6, <1>a, <2>3 DEF Report, Tick
    <3>2. s \in Risky => s \in Asked
      BY <3>1 DEF CalmDevice, GateInv, Untouched, NoExecution
    <3>3. Loose \/ effects[1] = 0
      <4>1. ASSUME ~Loose PROVE effects[1] = 0
        <5>1. DeviceInv
          BY <4>1, <1>a DEF Loose, CalmDevice
        <5>2. Unanswered
          BY <5>1, <3>1 DEF DeviceInv, AnsweredOnce
        <5> QED
          BY <5>2 DEF Unanswered, DevicePaths
      <4> QED
        BY <4>1
    <3>4. Tries[1] = 1
      BY <1>a DEF Tries
    <3>5. Loose \/ (Promise!Current(s) /\ effects[s] < Tries[s])
      <4>1. effects[1] = 0 => effects[1] < Tries[1]
        BY <3>4
      <4> QED
        BY <1>b, <3>1, <3>3, <4>1
    <3>6. Promise!Next
      BY <2>1, <3>1, <3>2, <3>5, EffectExecutes
    <3> QED
      BY <3>6
  <2> QED
    BY <2>2, <2>3
<1>7. ASSUME NEW r \in Resumers, ResumerStep(r)
      PROVE  [Promise!Next]_(Promise!vars)
  BY <1>1, <1>7 DEF ResumerStep, ResumeRun, ResumeGiveUp, ResumeSend, Elsewhere
<1>8. ASSUME NEW h \in Hands, HandStart(h) \/ HandStep(h) \/ HandCrash(h)
      PROVE  [Promise!Next]_(Promise!vars)
  BY <1>8, HandLoosens DEF CalmDevice
<1>9. CASE UNCHANGED vars
  BY <1>1, <1>9 DEF vars
<1> QED
  BY <1>3, <1>5, <1>6, <1>7, <1>8, <1>9 DEF Next

\* A device executes the step of its run at most once although both resumers enqueue
\* the step and the message is tried again, while no worker dies, loses its lock or has
\* a statement fail and nobody enqueues the step by hand; and a risky step is executed
\* only after it was approved, also later on: the run implements PlanExecution.
THEOREM DeviceKeepsPromise ==
    ASSUME ~AgentRun, DeviceSteps = Steps
    PROVE  Spec => KeepsPromise
<1>1. Init => CalmDevice /\ Promise!Init
  <2>1. Init => Promise!Init
    BY DEF Init, Promise!Init
  <2> QED
    BY <2>1, InitType, InitGate, InitHands, InitDevice DEF CalmDevice
<1>2. CalmDevice /\ [Next]_vars => CalmDevice'
  BY CalmDeviceInductive DEF OnDevice
<1>3. CalmDevice /\ [Next]_vars => [Promise!Next]_(Promise!vars)
  BY DeviceImplementsPlan DEF OnDevice
<1> QED
  BY <1>1, <1>2, <1>3, PTL DEF Spec, KeepsPromise, Promise!Spec

-----------------------------------------------------------------------------
(* The run of one step that a worker or a device executes, with cancels.   *)

\* A run of one step that asks for no approval: the worker has nothing to schedule.
ToolPlain ==
    /\ approval.status = "none" /\ api.pc \notin {"checked", "sent"}
    /\ run # "needs_approval"
    /\ \A w \in Workers : /\ worker[w].pc \notin Scheduling \cup {"count"}
                          /\ worker[w].note # "more"
    /\ \A h \in Hands : hand[h].pc \in {"idle", "requeue", "reset", "resend"}

\* Who goes on with a run that is under way.
UnderWay == run \in {"queued", "running"}
CarriedOn ==
    \/ ~NoMessage
    \/ \E w \in Workers : worker[w].pc \in Working
    \/ api.pc = "retry"
    \/ \E h \in Hands : hand[h].pc \in {"reset", "resend"}
    \/ \E r \in Resumers : resumer[r].pc = "send"
GoesOn == UnderWay => CarriedOn

ToolInv == ToolPlain /\ GoesOn

\* A worker works on, or the run is no longer under way, or there is a message, or the
\* worker has only been waiting to leave.
LeavesOn(w) ==
    \/ worker'[w].pc \in Working
    \/ ~UnderWay'
    \/ ~NoMessage'
    \/ run' = run /\ queue' = queue /\ worker[w].pc \notin Working

\* One more message in the queue is a message.
LEMMA MessageSent ==
    ASSUME TypeInv, NEW s \in Steps, NEW made \in 0..(MaxAttempts - 1),
           queue' = [queue EXCEPT ![<<s, made>>] = @ + 1]
    PROVE  ~NoMessage'
<1>1. <<s, made>> \in Messages /\ queue \in [Messages -> Nat]
  BY DEF Messages, TypeInv, TypeOK
<1>2. queue'[<<s, made>>] = queue[<<s, made>>] + 1 /\ queue[<<s, made>>] \in Nat
  BY <1>1
<1> QED
  BY <1>1, <1>2 DEF NoMessage

\* The faults of a worker that the theorem allows: a lost lock, a death.
ToolFaults == Faults \subseteq {"stall", "crash", "rollback"}

\* Each step of a worker carries the run on, or ends it.
LEMMA WorkerGoesOn ==
    ASSUME ~AgentRun, ToolFaults, TypeInv, ToolInv, faults' <= 1,
           NEW w \in Workers, WorkerStep(w) \/ Fault(w)
    PROVE  ToolInv'
<1>a. worker \in [Workers -> [pc : WorkerPCs, step : Steps, made : 0..(MaxAttempts - 1),
                             own : BOOLEAN, note : Notes, next : Steps]]
  BY DEF TypeInv, TypeOK, WorkerStates
<1>b. /\ \A v \in Workers : v # w => worker'[v] = worker[v]
      /\ api' = api /\ resumer' = resumer /\ hand' = hand
  <2>1. CalmNext
    BY DEF CalmNext
  <2> QED
    BY <2>1, OnlyOneWorker, CalmLeavesHands
<1>c. /\ worker[w].pc \notin Scheduling \cup {"count"}
      /\ worker[w].note # "more"
      /\ run # "needs_approval"
  BY DEF ToolInv, ToolPlain
<1>s. PICK s \in Steps, made \in 0..(MaxAttempts - 1) :
         worker[w].step = s /\ worker[w].made = made
  BY <1>a
<1>d. ASSUME worker'[w].pc \notin Scheduling \cup {"count"}, worker'[w].note # "more",
             run' # "needs_approval", approval' = approval, LeavesOn(w)
      PROVE  ToolInv'
  <2>1. ToolPlain'
    BY <1>b, <1>d DEF ToolInv, ToolPlain
  <2>2. ASSUME UnderWay'
        PROVE  CarriedOn'
    <3>1. CASE worker'[w].pc \in Working \/ ~NoMessage'
      BY <3>1 DEF CarriedOn
    <3>2. CASE run' = run /\ queue' = queue /\ worker[w].pc \notin Working
      <4>1. CarriedOn
        BY <2>2, <3>2 DEF ToolInv, GoesOn, UnderWay
      <4>2. NoMessage' = NoMessage
        BY <3>2 DEF NoMessage
      <4>3. ASSUME NEW v \in Workers, worker[v].pc \in Working
            PROVE  worker'[v].pc \in Working
        BY <1>b, <3>2, <4>3
      <4> QED
        BY <1>b, <4>1, <4>2, <4>3 DEF CarriedOn
    <3> QED
      BY <1>d, <2>2, <3>1, <3>2 DEF LeavesOn
  <2> QED
    BY <2>1, <2>2 DEF ToolInv, GoesOn
<1>z. Stall(w) \/ Crash(w) => ~(faults > 0)
  BY DEF Stall, Crash, TypeInv, TypeOK
<1>1. ASSUME NEW t \in Steps, NEW m \in 0..(MaxAttempts - 1), Fetch(w, t, m)
      PROVE  ToolInv'
  <2>1. /\ worker'[w].pc = Entry(run)
        /\ worker'[w].note = IF run \in Blocked THEN run ELSE "none"
        /\ run' = run /\ approval' = approval
    BY <1>1, <1>a DEF Fetch, Become
  <2>2. Entry(run) \in {"park", "drop", "begin"} /\ (UnderWay => Entry(run) = "begin")
    BY DEF Entry, UnderWay, Blocked
  <2> QED
    BY <1>c, <1>d, <2>1, <2>2 DEF LeavesOn, Scheduling, Working, UnderWay, Blocked
<1>2. CASE Park(w) \/ Drop(w)
  <2>1. worker'[w].pc = "done" /\ worker'[w].note = "none"
    BY <1>2, <1>a DEF Park, Drop, Returned, Become
  <2>2. /\ run' = run /\ queue' = queue /\ approval' = approval
        /\ worker[w].pc \notin Working
    BY <1>2 DEF Park, Drop, At, Working
  <2> QED
    BY <1>c, <1>d, <2>1, <2>2 DEF LeavesOn, Scheduling
<1>3. CASE Begin(w) \/ Mark(w) \/ ToolEnds(w) \/ Fail(w)
  <2>1. /\ worker'[w].pc \in {"mark", "tool", "cancelTail", "succeed", "failRun"}
        /\ worker'[w].note = worker[w].note
    BY <1>3, <1>a DEF Begin, Mark, ToolEnds, Verify, Fail, Goto
  <2>2. run' \in {run, "running"} /\ approval' = approval
    BY <1>3 DEF Begin, Mark, ToolEnds, Fail
  <2> QED
    BY <1>c, <1>d, <2>1, <2>2 DEF LeavesOn, Scheduling, Working
<1>4. CASE ToolFails(w)
  <2>1. worker'[w].pc = "fail" /\ worker'[w].note # "more"
    <3>1. PICK kind \in {"retry", "fatal"} :
             Become(w, [worker[w] EXCEPT !.pc = "fail", !.note = kind])
      BY <1>4 DEF ToolFails
    <3> QED
      BY <3>1, <1>a DEF Become
  <2> QED
    BY <1>4, <1>c, <1>d, <2>1 DEF ToolFails, LeavesOn, Scheduling, Working
<1>5. CASE FindAnswer(w) \/ FindOpen(w) \/ CreateExecution(w)
  <2>1. /\ worker'[w].pc \in {"lookup", "create", "suspend", "fail", "cancelTail", "succeed"}
        /\ worker'[w].note \in {worker[w].note, "retry"}
    <3>1. \/ Goto(w, "lookup") \/ Goto(w, "create") \/ Goto(w, "suspend") \/ Verify(w)
          \/ Become(w, [worker[w] EXCEPT !.pc = "fail", !.note = "retry"])
      BY <1>5 DEF FindAnswer, FindOpen, CreateExecution
    <3>2. CASE Goto(w, "lookup") \/ Goto(w, "create") \/ Goto(w, "suspend") \/ Verify(w)
      BY <3>2, <1>a DEF Goto, Verify
    <3>3. CASE Become(w, [worker[w] EXCEPT !.pc = "fail", !.note = "retry"])
      BY <3>3, <1>a DEF Become
    <3> QED
      BY <3>1, <3>2, <3>3
  <2> QED
    BY <1>5, <1>c, <1>d, <2>1 DEF FindAnswer, FindOpen, CreateExecution, LeavesOn, Scheduling,
       Working
<1>6. CASE CancelTail(w) \/ Conclude(w) \/ Suspend(w)
  <2>1. worker'[w].pc = "done" /\ worker'[w].note = "none"
    BY <1>6, <1>a DEF CancelTail, Conclude, Suspend, Returned, Become
  <2>2. run' \in {"canceled", "succeeded", "needs_device"} /\ approval' = approval
    BY <1>6, <1>c DEF CancelTail, Conclude, Suspend, SetRun
  <2> QED
    BY <1>d, <2>1, <2>2 DEF LeavesOn, UnderWay, Scheduling
<1>7. CASE Succeed(w)
  <2>1. worker'[w].pc = "conclude" /\ worker'[w].note = "last"
    BY <1>7, <1>a DEF Succeed, Become
  <2> QED
    BY <1>7, <1>c, <1>d, <2>1 DEF Succeed, LeavesOn, Scheduling, Working
<1>8. CASE FailRun(w)
  <2>1. worker'[w].pc \in {"throw", "done"} /\ worker'[w].note \in {worker[w].note, "none"}
    BY <1>8, <1>a DEF FailRun, Goto, Returned, Become
  <2> QED
    BY <1>8, <1>c, <1>d, <2>1 DEF FailRun, SetRun, LeavesOn, UnderWay, Scheduling
<1>9. CASE Throw(w)
  <2>1. /\ worker'[w].pc \in {"dead", "idle"} /\ worker'[w].note \in {worker[w].note, "none"}
    <3>1. CASE Goto(w, "dead")
      BY <3>1, <1>a DEF Goto
    <3>2. CASE Become(w, IdleWorker)
      BY <3>2, <1>a DEF Become, IdleWorker
    <3> QED
      BY <1>9, <3>1, <3>2 DEF Throw
  <2>2. run' = run /\ approval' = approval /\ worker[w].pc \notin Working
    BY <1>9 DEF Throw, At, Working
  <2>3. queue' = queue \/ ~NoMessage'
    <3>1. CASE queue' = queue
      BY <3>1
    <3>2. CASE made + 1 < MaxAttempts /\ queue' = [queue EXCEPT ![<<s, made + 1>>] = @ + 1]
      <4>1. made + 1 \in 0..(MaxAttempts - 1)
        BY <3>2, AttemptsAssumption
      <4> QED
        BY <3>2, <4>1, MessageSent
    <3> QED
      BY <1>9, <1>s, <3>1, <3>2 DEF Throw
  <2> QED
    BY <1>c, <1>d, <2>1, <2>2, <2>3 DEF LeavesOn, Scheduling
<1>10. CASE Dead(w) \/ Done(w)
  <2>1. worker'[w].pc = "idle" /\ worker'[w].note = "none"
    BY <1>10, <1>a DEF Dead, Done, Become, IdleWorker
  <2>2. /\ run' = run /\ queue' = queue /\ approval' = approval
        /\ worker[w].pc \notin Working
    BY <1>10 DEF Dead, Done, At, Working
  <2> QED
    BY <1>c, <1>d, <2>1, <2>2 DEF LeavesOn, Scheduling
<1>11. CASE \/ Count(w) \/ Schedule(w) \/ OutOfTime(w) \/ ScheduleNothing(w) \/ Ask(w)
            \/ AskRun(w) \/ EnqueueNext(w) \/ SetJobId(w) \/ Stop(w)
  BY <1>11, <1>c DEF Count, Schedule, OutOfTime, ScheduleNothing, Ask, AskRun, EnqueueNext,
     SetJobId, Stop, At, Scheduling
<1>12. CASE Stall(w)
  <2>1. worker'[w].pc = worker[w].pc /\ worker'[w].note = worker[w].note
    BY <1>12, <1>a DEF Stall, Become
  <2>2. ~NoMessage' /\ run' = run /\ approval' = approval
    BY <1>12, <1>s, <1>z, MessageSent DEF Stall, Stalled
  <2> QED
    BY <1>c, <1>d, <2>1, <2>2 DEF LeavesOn
<1>13. CASE Crash(w)
  <2>1. worker'[w].pc = "idle" /\ worker'[w].note = "none"
    BY <1>13, <1>a DEF Crash, Become, IdleWorker
  <2>2. run' = run /\ approval' = approval
    BY <1>13 DEF Crash
  <2>3. CASE At(w, "dead")
    <3>1. queue' = queue /\ worker[w].pc \notin Working
      BY <1>13, <2>3 DEF Crash, At, Working
    <3> QED
      BY <1>c, <1>d, <2>1, <2>2, <3>1 DEF LeavesOn, Scheduling
  <2>4. CASE ~At(w, "dead")
    <3>1. ~NoMessage'
      BY <1>13, <1>s, <1>z, <2>4, MessageSent DEF Crash, Stalled
    <3> QED
      BY <1>c, <1>d, <2>1, <2>2, <3>1 DEF LeavesOn, Scheduling
  <2> QED
    BY <2>3, <2>4
<1>14. ~QueryFails(w)
  BY DEF QueryFails, ToolFaults
<1> QED
  BY <1>1, <1>2, <1>3, <1>4, <1>5, <1>6, <1>7, <1>8, <1>9, <1>10, <1>11, <1>12, <1>13, <1>14
     DEF WorkerStep, Fault

\* The requests and the resumers carry the run on, too, or cancel it.
LEMMA OtherGoesOn ==
    ASSUME ~AgentRun, ToolFaults, Risky = {}, TypeInv, ToolInv,
           \/ ApiStep \/ OperatorStep
           \/ \E s \in Steps : Report(s) \/ Tick(s)
           \/ \E r \in Resumers : ResumerStep(r)
    PROVE  ToolInv'
<1>a. worker' = worker /\ hand' = hand
  <2>1. CalmNext
    BY DEF CalmNext
  <2> QED
    BY <2>1, OthersLeaveWorkers, CalmLeavesHands
<1>b. /\ approval.status = "none" /\ api.pc \notin {"checked", "sent"}
      /\ run # "needs_approval"
  BY DEF ToolInv, ToolPlain
<1>c. 0 \in 0..(MaxAttempts - 1) /\ 1 \in Steps
  BY AttemptsAssumption, StepsAssumption DEF Steps
<1>d. resumer \in [Resumers -> [pc : {"idle", "cas", "send"}, step : Steps]]
      /\ api.step \in Steps
  BY DEF TypeInv, TypeOK, ResumerStates, ApiStates
<1>e. ASSUME approval' = approval, api'.pc \notin {"checked", "sent"},
             run' # "needs_approval", UnderWay' => CarriedOn'
      PROVE  ToolInv'
  BY <1>a, <1>b, <1>e DEF ToolInv, ToolPlain, GoesOn
<1>f. ASSUME approval' = approval, api'.pc \notin {"checked", "sent"},
             run' # "needs_approval", UnderWay' => run' = run, queue' = queue,
             api.pc # "retry",
             \A r \in Resumers : resumer[r].pc = "send" => resumer'[r].pc = "send"
      PROVE  ToolInv'
  <2>1. NoMessage' = NoMessage
    BY <1>f DEF NoMessage
  <2>2. UnderWay' => CarriedOn'
    BY <1>a, <1>f, <2>1 DEF ToolInv, GoesOn, UnderWay, CarriedOn
  <2> QED
    BY <1>e, <1>f, <2>2
<1>1. CASE Submit
  <2>1. /\ run' = "queued" /\ api' = api /\ approval' = approval
        /\ queue' = [queue EXCEPT ![<<1, 0>>] = @ + 1]
    BY <1>1 DEF Submit, SetRun, Enqueue, ElseUnchanged
  <2>2. ~NoMessage'
    BY <1>c, <2>1, MessageSent
  <2> QED
    BY <1>b, <1>e, <2>1, <2>2 DEF CarriedOn
<1>2. CASE CancelRun \/ OverruleRun \/ CancelRest \/ CancelRead
  BY <1>2, <1>b, <1>f DEF CancelRun, OverruleRun, CancelRest, CancelRead, Start, Requests,
     IdleApi, ByOperator, UnderWay
<1>3. CASE RetrySend
  <2>1. /\ run' = run /\ api'.pc = "idle" /\ approval' = approval
        /\ queue' = [queue EXCEPT ![<<api.step, 0>>] = @ + 1]
    BY <1>3 DEF RetrySend, Enqueue, IdleApi
  <2>2. ~NoMessage'
    BY <1>c, <1>d, <2>1, MessageSent
  <2> QED
    BY <1>b, <1>e, <2>1, <2>2 DEF CarriedOn
<1>4. ASSUME NEW s \in Steps, RetryDead(s)
      PROVE  ToolInv'
  <2>1. run' = "queued" /\ api'.pc = "retry" /\ approval' = approval
    BY <1>4 DEF RetryDead, SetRun, Requests
  <2> QED
    BY <1>e, <2>1 DEF CarriedOn
<1>5. ASSUME NEW s \in Steps, CancelDead(s)
      PROVE  ToolInv'
  <2>1. run' = "canceled" /\ api' = api /\ approval' = approval
    BY <1>5 DEF CancelDead, SetRun
  <2> QED
    BY <1>b, <1>e, <2>1 DEF UnderWay
<1>6. ~ApproveSend /\ ~ApproveCommit /\ ~ApproveCheck /\ ~ApproveRollback /\ ~Reject
      /\ ~RetryCrash /\ ~OverruleRead
  BY <1>b DEF ApproveSend, ApproveCommit, ApproveCheck, ApproveRollback, Reject, RetryCrash,
     OverruleRead, ToolFaults
<1>7. ASSUME NEW s \in Steps, Report(s) \/ Tick(s)
      PROVE  ToolInv'
  <2>1. run' = run /\ queue' = queue /\ approval' = approval /\ api' = api
    BY <1>7 DEF Report, Tick, Elsewhere
  <2>2. ASSUME NEW r \in Resumers, resumer[r].pc = "send"
        PROVE  resumer'[r].pc = "send"
    BY <1>7, <1>d, <2>2 DEF Report, Tick
  <2>3. NoMessage' = NoMessage
    BY <2>1 DEF NoMessage
  <2>4. UnderWay' => CarriedOn'
    BY <1>a, <2>1, <2>2, <2>3 DEF ToolInv, GoesOn, UnderWay, CarriedOn
  <2> QED
    BY <1>b, <1>e, <2>1, <2>4
<1>8. ASSUME NEW r \in Resumers, ResumeRun(r)
      PROVE  ToolInv'
  <2>1. approval' = approval /\ api' = api /\ run' \in {run, "queued"}
    BY <1>8 DEF ResumeRun, Elsewhere
  <2>2. resumer'[r].pc = "send"
    BY <1>8, <1>d DEF ResumeRun
  <2> QED
    BY <1>b, <1>e, <2>1, <2>2 DEF CarriedOn
<1>9. ASSUME NEW r \in Resumers, ResumeGiveUp(r)
      PROVE  ToolInv'
  <2>1. run' = run /\ queue' = queue /\ approval' = approval /\ api' = api
    BY <1>9 DEF ResumeGiveUp, Elsewhere
  <2>2. ASSUME NEW q \in Resumers, resumer[q].pc = "send"
        PROVE  resumer'[q].pc = "send"
    BY <1>9, <1>d, <2>2 DEF ResumeGiveUp
  <2>3. NoMessage' = NoMessage
    BY <2>1 DEF NoMessage
  <2>4. UnderWay' => CarriedOn'
    BY <1>a, <2>1, <2>2, <2>3 DEF ToolInv, GoesOn, UnderWay, CarriedOn
  <2> QED
    BY <1>b, <1>e, <2>1, <2>4
<1>10. ASSUME NEW r \in Resumers, ResumeSend(r)
       PROVE  ToolInv'
  <2>1. /\ run' = run /\ api' = api /\ approval' = approval
        /\ queue' = [queue EXCEPT ![<<resumer[r].step, 0>>] = @ + 1]
    BY <1>10 DEF ResumeSend, Enqueue, Elsewhere
  <2>2. ~NoMessage'
    BY <1>c, <1>d, <2>1, MessageSent
  <2> QED
    BY <1>b, <1>e, <2>1, <2>2 DEF CarriedOn
<1> QED
  BY <1>1, <1>2, <1>3, <1>4, <1>5, <1>6, <1>7, <1>8, <1>9, <1>10
     DEF ApiStep, OperatorStep, ResumerStep

\* The retry of a run that has failed carries it on; the other requests by hand find
\* nothing to do.
LEMMA HandGoesOn ==
    ASSUME ~AgentRun, ToolFaults, TypeInv, ToolInv,
           NEW h \in Hands, HandStart(h) \/ HandStep(h) \/ HandCrash(h)
    PROVE  ToolInv'
<1>a. /\ worker' = worker
      /\ hand \in [Hands -> [pc : {"idle", "pick", "requeue", "reset", "resend", "release",
                                   "send", "jobId"}, step : Steps]]
      /\ hand[h].step \in Steps /\ 0 \in 0..(MaxAttempts - 1)
  BY HandsLeaveWorkers, AttemptsAssumption DEF TypeInv, TypeOK, HandStates
<1>b. /\ hand[h].pc \in {"idle", "requeue", "reset", "resend"}
      /\ approval.status = "none" /\ run # "needs_approval"
  BY DEF ToolInv, ToolPlain
<1>1. ASSUME UNCHANGED <<approval, api>>, run' # "needs_approval",
             hand' = [hand EXCEPT ![h] = hand'[h]],
             hand'[h].pc \in {"idle", "requeue", "reset", "resend"},
             UnderWay' => CarriedOn'
      PROVE  ToolInv'
  BY <1>1, <1>a DEF ToolInv, ToolPlain, GoesOn
<1>2. ~ContinueRead(h) /\ ~ApproveRunRead(h) /\ ~Pick(h) /\ ~HandJobId(h) /\ ~HandCrash(h)
      /\ \A s \in Steps : ~RetryFailed(h, s)
  BY <1>b DEF ContinueRead, ApproveRunRead, Pick, HandJobId, HandCrash, RetryFailed, ToolFaults
<1>3. CASE RetryRunRead(h)
  <2>1. /\ UNCHANGED <<approval, api, run>> /\ run = "failed"
        /\ hand' = [hand EXCEPT ![h] = [pc |-> "requeue", step |-> 1]]
    BY <1>3 DEF RetryRunRead, ByHand
  <2> QED
    BY <1>1, <1>a, <2>1 DEF UnderWay
<1>4. CASE Requeue(h)
  <2>1. /\ UNCHANGED <<approval, api>> /\ run' = "queued"
        /\ hand' = [hand EXCEPT ![h].pc = "reset"]
    BY <1>4, <1>b DEF Requeue, SetRun, HandGoes, InHand
  <2> QED
    BY <1>1, <1>a, <2>1 DEF CarriedOn
<1>5. CASE Reset(h)
  <2>1. /\ UNCHANGED <<approval, api, run>>
        /\ hand' = [hand EXCEPT ![h].pc = "resend"]
    BY <1>5, <1>b DEF Reset, HandGoes, InHand
  <2> QED
    BY <1>1, <1>a, <1>b, <2>1 DEF CarriedOn
<1>6. CASE Send(h)
  <2>1. /\ UNCHANGED <<approval, api, run>>
        /\ hand' = [hand EXCEPT ![h].pc = "idle"]
        /\ queue' = [queue EXCEPT ![<<hand[h].step, 0>>] = @ + 1]
    BY <1>6, <1>b DEF Send, HandGoes, InHand
  <2>2. ~NoMessage'
    BY <1>a, <2>1, MessageSent
  <2> QED
    BY <1>1, <1>a, <1>b, <2>1, <2>2 DEF CarriedOn
<1> QED
  BY <1>2, <1>3, <1>4, <1>5, <1>6 DEF HandStart, HandStep

\* A tool run that is queued or running is not forgotten, be its step executed by a
\* worker or a device: whatever operators cancel and retry, a dead letter or the whole
\* run, whichever of the two resumers comes first, and though a worker dies or loses a
\* lock; only a message that stalls for the second time takes the run along.
THEOREM ToolRunGoesOn ==
    ASSUME ~AgentRun, Risky = {}, ToolFaults
    PROVE  Spec => []NotStranded
<1> DEFINE Inv == TypeInv /\ (faults > 1 \/ ToolInv)
<1>1. Init => Inv
  <2>1. Init => ToolInv
    BY DEF Init, IdleWorker, IdleApi, IdleHand, ToolInv, ToolPlain, GoesOn, UnderWay,
       Scheduling
  <2> QED
    BY <2>1, InitType
<1>2. Inv /\ [Next]_vars => Inv'
  <2> SUFFICES ASSUME Inv, [Next]_vars, ~(faults' > 1)
               PROVE  ToolInv'
    BY TypeInvInductive
  <2>1. CASE UNCHANGED vars
    <3>1. NoMessage' = NoMessage
      BY <2>1 DEF vars, NoMessage
    <3> QED
      BY <2>1, <3>1 DEF vars, ToolInv, ToolPlain, GoesOn, UnderWay, CarriedOn
  <2>2. CASE Next
    <3>1. faults \in Nat /\ faults' \in {faults, faults + 1}
      BY <2>2, CountersGrow DEF TypeInv, TypeOK
    <3>2. ToolInv /\ faults' <= 1
      BY <3>1
    <3> QED
      BY <2>2, <3>2, WorkerGoesOn, OtherGoesOn, HandGoesOn DEF Next
  <2> QED
    BY <2>1, <2>2
<1>3. Inv => NotStranded
  BY DEF ToolInv, GoesOn, UnderWay, CarriedOn, NotStranded, Forgettable, Quiet, NoMessage,
     Working
<1> QED
  BY <1>1, <1>2, <1>3, PTL DEF Spec

\* Success comes last: the step has succeeded, and no worker is where it would still
\* write it.  A message that is delivered again finds the run running first.
SuccessLast ==
    run = "succeeded" =>
        /\ \A s \in Steps : step[s] = "succeeded"
        /\ \A w \in Workers : worker[w].pc \in {"idle", "begin", "done"}

\* The one holder reports success after it has written the step; afterwards nobody else
\* writes it.
LEMMA SuccessLastInductive ==
    ASSUME ~AgentRun, Unduplicated, "query" \notin Faults,
           TypeInv, TokenInv, OrderInv, SuccessLast, [CalmNext]_vars
    PROVE  SuccessLast'
<1>a. /\ worker \in [Workers -> [pc : WorkerPCs, step : Steps, made : 0..(MaxAttempts - 1),
                                own : BOOLEAN, note : Notes, next : Steps]]
      /\ step \in [Steps -> StepStatuses]
  BY DEF TypeInv, TypeOK, WorkerStates
<1>b. Steps = {1}
  BY AgentAssumption DEF Steps
<1> SUFFICES ASSUME run' = "succeeded"
             PROVE  SuccessLast'
  BY DEF SuccessLast
<1>1. ASSUME NEW w \in Workers, WorkerStep(w) \/ Fault(w)
      PROVE  SuccessLast'
  <2>a. \A v \in Workers : v # w => worker'[v] = worker[v]
    BY <1>1, OnlyOneWorker
  <2>1. CASE Conclude(w)
    <3>1. At(w, "conclude") /\ Holds(w)
      BY <2>1 DEF Conclude, At, Holds, Resting
    <3>2. step[worker[w].step] = "succeeded"
      BY <3>1 DEF OrderInv, HolderFront, HolderAt, At
    <3>3. \A s \in Steps : step'[s] = "succeeded"
      BY <2>1, <3>2, <1>a, <1>b DEF Conclude
    <3>4. ASSUME NEW v \in Workers
          PROVE  worker'[v].pc \in {"idle", "begin", "done"}
      <4>1. CASE v = w
        BY <2>1, <4>1, <1>a DEF Conclude, Returned, Become
      <4>2. CASE v # w
        BY <2>a, <3>1, <4>2 DEF TokenInv, OneHolder, Holds, Resting
      <4> QED
        BY <4>1, <4>2
    <3> QED
      BY <3>3, <3>4 DEF SuccessLast
  <2>2. CASE ~Conclude(w)
    <3>1. run' = run \/ Begin(w) \/ CancelTail(w) \/ FailRun(w) \/ Suspend(w) \/ AskRun(w)
          \/ Stop(w)
      BY <1>1, <2>2 DEF WorkerStep, Fetch, Park, Drop, Mark, ToolEnds, ToolFails,
         FindAnswer, FindOpen, CreateExecution, Succeed, Count, Fail, Throw, Dead, Schedule,
         OutOfTime, ScheduleNothing, Ask,
         EnqueueNext, SetJobId, Done, Fault, Stall, Crash, QueryFails
    <3>2. run = "succeeded"
      BY <3>1 DEF Begin, CancelTail, FailRun, Suspend, AskRun, Stop, SetRun
    <3>3. /\ \A s \in Steps : step[s] = "succeeded"
          /\ \A v \in Workers : worker[v].pc \in {"idle", "begin", "done"}
      BY <3>2 DEF SuccessLast
    <3>4. \/ \E s \in Steps, made \in 0..(MaxAttempts - 1) : Fetch(w, s, made)
          \/ Done(w) \/ Crash(w)
      BY <1>1, <3>1, <3>2, <3>3 DEF WorkerStep, Park, Drop, Begin, Mark, ToolEnds, ToolFails,
         FindAnswer, FindOpen, CreateExecution, CancelTail, Succeed, Count, Conclude, Fail,
         FailRun, Suspend, Throw,
         Dead, Schedule, OutOfTime, ScheduleNothing, Ask, AskRun, EnqueueNext, SetJobId,
         Stop, At, Fault, Stall, QueryFails, Unduplicated
    <3>5. worker'[w].pc \in {"idle", "begin", "done"} /\ step' = step
      <4>1. ASSUME NEW s \in Steps, NEW made \in 0..(MaxAttempts - 1), Fetch(w, s, made)
            PROVE  worker'[w].pc = "begin" /\ step' = step
        <5>1. Entry(run) = "begin"
          BY <3>2 DEF Entry, Blocked
        <5> QED
          BY <4>1, <5>1, <1>a DEF Fetch, Become
      <4>2. CASE Done(w) \/ Crash(w)
        BY <4>2, <1>a DEF Done, Crash, Become, IdleWorker
      <4> QED
        BY <3>4, <4>1, <4>2
    <3> QED
      BY <2>a, <3>3, <3>5 DEF SuccessLast
  <2> QED
    BY <2>1, <2>2
<1>2. CASE UNCHANGED vars
  BY <1>2 DEF vars, SuccessLast
<1>3. CASE \/ ApiStep \/ OperatorStep
           \/ \E s \in Steps : Report(s) \/ Tick(s)
           \/ \E r \in Resumers : ResumerStep(r)
  <2>1. worker' = worker
    BY <1>3, OthersLeaveWorkers
  <2>2. run = "succeeded" /\ (step' = step \/ CancelRest)
    BY <1>3 DEF ApiStep, Submit, CancelRun, OverruleRun, ApproveSend, ApproveCommit,
       RetrySend, OperatorStep, CancelRead, OverruleRead, ApproveCheck, ApproveRollback, Reject, RetryDead,
       CancelDead, RetryCrash, SetRun, CancelRest, Report, Tick, ResumerStep, ResumeRun,
       ResumeGiveUp, ResumeSend
  <2>3. \A s \in Steps : step[s] = "succeeded" => step'[s] = "succeeded"
    BY <2>2, <1>a DEF CancelRest, CancelSteps
  <2> QED
    BY <2>1, <2>2, <2>3 DEF SuccessLast
<1> QED
  BY <1>1, <1>2, <1>3 DEF CalmNext

\* A tool run that reports success has executed its step, whatever operators approve,
\* reject, cancel and do with dead letters and whenever its workers die: a cancel that
\* comes too late does not take the step back.  The retry of the whole run, by hand, ends
\* it: then two workers may execute the step and write its outcome in turn.
THEOREM ToolRunSucceeds ==
    ASSUME ~AgentRun, Unduplicated, "query" \notin Faults
    PROVE  Spec => []SucceededMeansDone
<1> DEFINE Inv == /\ TypeInv /\ HandsIdle
                  /\ forced \/ (TokenInv /\ OrderInv /\ SuccessLast)
<1>1. Init => Inv
  <2>1. Init => SuccessLast
    BY DEF Init, SuccessLast
  <2> QED
    BY <2>1, InitType, InitHands, InitToken, InitOrder
<1>2. Inv /\ [Next]_vars => Inv'
  BY CalmStep, TypeInvInductive, TokenInvInductive, OrderInvInductive, SuccessLastInductive
<1>3. Inv => SucceededMeansDone
  BY DEF SuccessLast, SucceededMeansDone
<1> QED
  BY <1>1, <1>2, <1>3, PTL DEF Spec

-----------------------------------------------------------------------------
(* Runs that nobody cancels and no fault befalls: nothing is lost.         *)

\* Where run, job and steps can be relied on.  Excluded are the requests and faults
\* that leave them apart: a cancel or reject that takes three updates; failed statements;
\* an operator's request that dies half-way; devices; and the one step of a tool run that
\* asks for an approval, whose message may meet the run while it is still blocked.
Undisturbed ==
    /\ DeviceSteps = {}
    /\ Faults \subseteq (IF AgentRun THEN {} ELSE {"crash"})
    /\ {"cancel", "cancelAgent", "rejectRun"} \cap Ops = {}
    /\ AgentRun \/ Risky = {}

\* Somebody is going to go on with the run.
Alive == ~NoMessage \/ ~NobodyHolds \/ api.pc \in {"retry", "sent"}

\* The run has ended or waits, and its job says the same.
Settled == run \notin {"created", "queued", "running"} /\ job = run

\* Nothing is left that could carry the run on, except a worker that has asked for an
\* approval and has still to block the run.
NobodyExceptAskRun == NoMessage /\ \A w \in Workers : Holds(w) => worker[w].pc = "askRun"

Requested ==
    /\ api.pc \notin {"cancelRun", "overrule", "cancelSteps"}
    /\ api.pc = "sent" => ~NoMessage \/ ~NobodyHolds
    /\ api.pc = "retry" => run = "queued"

Going == run = "created" \/ Settled \/ Alive

\* A canceled step is the end of the run.
CanceledEnds ==
    /\ (\E s \in Steps : step[s] = "canceled") =>
          /\ NobodyExceptAskRun
          /\ approval.status # "pending" /\ api.pc # "retry" /\ run # "created"
          /\ \A s \in Steps : step[s] # "deadletter"
    /\ run = "canceled" => NobodyExceptAskRun

\* What a worker relies on at each of its program counters.
FlowAt(w) ==
    LET x == worker[w] IN
    /\ x.pc # "idle" => x.own
    /\ x.pc \notin {"drop", "cancelTail"}
    /\ x.pc \in {"mark", "tool", "succeed", "fail"} => run # "succeeded"
    /\ x.pc \in {"throw", "dead"} => run = "failed" /\ job = "failed"
    /\ x.pc = "park" => run \in {"queued", "needs_approval"} /\ AgentRun
    /\ x.pc = "done" /\ ~AgentRun => Settled
    /\ x.pc = "conclude" =>
          IF x.note = "more" THEN Later(x.step) # {} /\ Fresh(x.step)
                             ELSE \A s \in Steps : step[s] = "succeeded"
    /\ x.pc = "schedule" =>
          \/ Settled /\ run \in NotScheduled
          \/ /\ run = "queued"
             /\ \/ step[x.step] = "pending" /\ ~hasJobId[x.step]
                \/ Later(x.step) # {} /\ Fresh(x.step)

\* All of a plan that has succeeded is done.
SuccessIsDone == run = "succeeded" => \A s \in Steps : step[s] = "succeeded"

FlowInv ==
    /\ Requested /\ Going /\ CanceledEnds /\ SuccessIsDone
    /\ \A w \in Workers : FlowAt(w)

\* The flow builds on the token.
LEMMA UndisturbedUnduplicated == Undisturbed => Unduplicated
  BY DEF Undisturbed, Unduplicated

\* A run that has been created waits to be submitted.
LEMMA InitFlow == Init => FlowInv
<1> SUFFICES ASSUME Init PROVE FlowInv
  OBVIOUS
<1>1. /\ \A m \in Messages : queue[m] = 0
      /\ \A w \in Workers : worker[w] = IdleWorker /\ worker[w].pc = "idle"
      /\ \A s \in Steps : step[s] = "pending"
      /\ run = "created" /\ api.pc = "idle"
  BY DEF Init, IdleWorker, IdleApi
<1>2. \A w \in Workers : FlowAt(w)
  BY <1>1 DEF FlowAt
<1> QED
  BY <1>1, <1>2 DEF FlowInv, Requested, Going, CanceledEnds, SuccessIsDone

\* A worker that does not hold the token relies on nothing.
LEMMA RestFlow ==
    ASSUME NEW v \in Workers, ~Holds(v)', worker'[v].pc # "idle" => worker'[v].own
    PROVE  FlowAt(v)'
<1>1. /\ worker'[v].pc \in {"idle", "jobId", "done"}
      /\ worker'[v].pc = "done" => AgentRun
  BY DEF Holds, Resting
<1> QED
  BY <1>1 DEF FlowAt

\* A worker that does not hold the token goes on without it.
LEMMA RestMovesFlow ==
    ASSUME FlowInv, NEW w \in Workers, ~Holds(w), ~Holds(w)',
           \A v \in Workers : v # w => worker'[v] = worker[v],
           UNCHANGED <<run, job, step, queue, api, approval>>,
           worker'[w].pc # "idle" => worker'[w].own,
           \A v \in Workers : Holds(v) => FlowAt(v)'
    PROVE  FlowInv'
<1>1. \A v \in Workers : Holds(v)' = Holds(v) /\ (Holds(v) => worker'[v] = worker[v])
  BY DEF Holds
<1>2. /\ NobodyHolds' = NobodyHolds /\ NoMessage' = NoMessage
      /\ NobodyExceptAskRun => NobodyExceptAskRun'
  BY <1>1 DEF NobodyHolds, NoMessage, NobodyExceptAskRun
<1>3. Requested' /\ Going' /\ CanceledEnds' /\ SuccessIsDone'
  BY <1>2 DEF FlowInv, Requested, Going, Settled, Alive, CanceledEnds, SuccessIsDone
<1>4. \A v \in Workers : worker[v].pc # "idle" => worker[v].own
  BY DEF FlowInv, FlowAt
<1>5. \A v \in Workers : ~Holds(v)' => FlowAt(v)'
  BY <1>4, RestFlow
<1> QED
  BY <1>1, <1>3, <1>5 DEF FlowInv

\* A step of a worker, or a fault that befalls it.
LEMMA WorkerFlow ==
    ASSUME Undisturbed, TypeInv, TokenInv, TokenInv', OrderInv, FlowInv,
           AgentRun \/ faults' <= 1,
           NEW w \in Workers, WorkerStep(w) \/ Fault(w)
    PROVE  FlowInv'
<1>u. Unduplicated
  BY UndisturbedUnduplicated
<1>a. worker \in [Workers -> [pc : WorkerPCs, step : Steps, made : 0..(MaxAttempts - 1),
                             own : BOOLEAN, note : Notes, next : Steps]]
  BY HolderFacts
<1>s. PICK s \in Steps : worker[w].step = s
  BY <1>a
<1>b. /\ \A v \in Workers : v # w => worker'[v] = worker[v]
      /\ api' = api
  BY OnlyOneWorker
<1>c. /\ worker[w].pc \notin {"lookup", "create", "suspend"}
      /\ worker[w].pc \in Scheduling => AgentRun
      /\ AgentRun => Resting = {"idle", "jobId", "done"}
      /\ ~AgentRun => Resting = {"idle"}
      /\ AgentRun \in BOOLEAN
      /\ Holds(w) /\ api.pc = "sent" =>
            run = "needs_approval" /\ worker[w].pc \in {"park", "throw", "dead"}
      /\ Holds(w) /\ run = "needs_approval" => api.pc = "sent"
      /\ Holds(w) => run # "created"
  BY HolderFacts
<1>d. /\ step \in [Steps -> StepStatuses] /\ hasJobId \in [Steps -> BOOLEAN]
      /\ queue \in [Messages -> Nat]
  BY DEF TypeInv, TypeOK
<1>e. FlowAt(w) /\ (Holds(w) => HolderAt(w))
  BY DEF FlowInv, OrderInv, HolderFront
<1>f. Holds(w) =>
         /\ api.pc \notin {"retry", "checked"} /\ NoMessage
         /\ \A t \in Steps : step[t] # "deadletter"
         /\ \A v \in Workers : v # w => ~Holds(v) /\ ~Holds(v)'
  BY <1>b DEF TokenInv, RetryAlone, DeadAlone, Deciding, NobodyHolds, OneHolder, Holds,
     MessageOrHolder
<1>g. Holds(w) /\ worker[w].pc # "askRun" =>
         run # "canceled" /\ \A t \in Steps : step[t] # "canceled"
  BY DEF FlowInv, CanceledEnds, NobodyExceptAskRun
<1>h. Holds(w) /\ worker[w].pc # "park" => api.pc # "sent"
  BY <1>c, <1>e DEF FlowAt
<1>i. \A v \in Workers : v # w /\ ~Holds(v)' => FlowAt(v)'
  BY <1>b, RestFlow DEF FlowInv, FlowAt
<1>j. /\ api.pc \notin {"cancelRun", "overrule", "cancelSteps"}
      /\ SuccessIsDone
  BY DEF FlowInv, Requested
<1>m. ASSUME HolderMoves(w), worker[w].pc # "askRun", api.pc # "sent",
             FlowAt(w)', Holds(w)' \/ Settled',
             \A t \in Steps : step'[t] # "canceled", run' # "canceled",
             SuccessIsDone'
      PROVE  FlowInv'
  <2>1. Holds(w) /\ UNCHANGED <<queue, api, approval>>
    BY <1>m DEF HolderMoves
  <2>2. Requested'
    BY <1>f, <1>j, <1>m, <2>1 DEF Requested
  <2>3. Going'
    BY <1>m DEF Going, Alive, NobodyHolds
  <2>4. CanceledEnds'
    BY <1>m DEF CanceledEnds
  <2>5. \A v \in Workers : FlowAt(v)'
    BY <1>f, <1>i, <1>m, <2>1
  <2> QED
    BY <1>m, <2>2, <2>3, <2>4, <2>5 DEF FlowInv
<1> USE DEF At
<1>1. CASE Park(w)
  <2>1. HolderMoves(w)
    BY <1>1, <1>u, HolderActionMoves DEF HolderAction
  <2>2. /\ Holds(w) /\ api.pc # "sent" /\ AgentRun /\ Unasked(s)
        /\ worker'[w] = [worker[w] EXCEPT !.pc = "schedule", !.note = "none"]
    BY <1>1, <1>a, <1>s, <1>e, <2>1
       DEF HolderMoves, Park, RowsFree, FlowAt, HolderAt, Returned, Become
  <2>3. run = "queued" /\ worker[w].own
    BY <1>1, <1>c, <1>e, <2>2 DEF Park, FlowAt
  <2>4. /\ step' = [step EXCEPT ![s] = "pending"]
        /\ UNCHANGED <<run, hasJobId>>
    BY <1>1, <1>s, <2>2 DEF Park, SetStep, Unasked
  <2>5. FlowAt(w)'
    <3>1. /\ worker'[w].pc = "schedule" /\ worker'[w].own /\ worker'[w].step = s
      BY <2>2, <2>3, <1>a, <1>s
    <3>2. step'[s] = "pending" /\ ~hasJobId'[s] /\ run' = "queued"
      BY <2>2, <2>3, <2>4, <1>d DEF Unasked
    <3> QED
      BY <3>1, <3>2 DEF FlowAt
  <2>6. Holds(w)'
    BY <2>2, <1>a, <1>c DEF Holds
  <2>7. \A t \in Steps : step'[t] # "canceled"
    BY <1>1, <1>d, <1>g, <2>2, <2>4 DEF Park
  <2>8. worker[w].pc # "askRun" /\ SuccessIsDone' /\ run' # "canceled"
    BY <1>1, <2>3, <2>4 DEF Park, SuccessIsDone
  <2> QED
    BY <1>m, <2>1, <2>2, <2>5, <2>6, <2>7, <2>8
<1>2. CASE Drop(w) \/ CancelTail(w)
  BY <1>2, <1>e DEF Drop, CancelTail, FlowAt
<1>3. CASE Begin(w) \/ Mark(w)
  <2>1. HolderMoves(w)
    BY <1>3, <1>u, HolderActionMoves DEF HolderAction
  <2>2. /\ Holds(w) /\ api.pc # "sent" /\ worker[w].pc # "askRun" /\ worker[w].own
        /\ worker'[w].pc \in {"mark", "tool"} /\ worker'[w].own
    BY <1>3, <1>a, <1>e, <1>h, <2>1 DEF HolderMoves, Begin, Mark, Goto, FlowAt
  <2>3. /\ run' # "succeeded" /\ run' # "canceled"
        /\ \A t \in Steps : step'[t] # "canceled"
    BY <1>3, <1>d, <1>e, <1>g, <2>2 DEF Begin, Mark, SetStep, FlowAt
  <2>4. FlowAt(w)' /\ Holds(w)'
    BY <2>2, <2>3, <1>c DEF FlowAt, Holds
  <2> QED
    BY <1>m, <2>1, <2>2, <2>3, <2>4 DEF SuccessIsDone
<1>4. CASE ToolEnds(w) \/ ToolFails(w) \/ Succeed(w) \/ Fail(w)
  <2>1. HolderMoves(w)
    BY <1>4, <1>u, HolderActionMoves DEF HolderAction
  <2>2. /\ Holds(w) /\ api.pc # "sent" /\ worker[w].pc # "askRun" /\ worker[w].own
        /\ run # "succeeded" /\ run # "canceled" /\ run' = run
    BY <1>4, <1>c, <1>e, <1>g, <1>h, <2>1 DEF HolderMoves, ToolEnds, ToolFails, Succeed, Fail,
       FlowAt
  <2>3. \A t \in Steps : step'[t] # "canceled"
    BY <1>4, <1>d, <1>g, <2>2 DEF ToolEnds, ToolFails, Succeed, Fail, SetStep
  <2>4. /\ worker'[w].own
        /\ \/ worker'[w].pc \in {"succeed", "fail", "failRun", "count"}
           \/ worker'[w].pc = "conclude" /\ worker'[w].note = "last" /\ ~AgentRun /\ Succeed(w)
    <3>1. CASE ToolEnds(w)
      BY <3>1, <2>2, <1>a DEF ToolEnds, Verify, Goto
    <3>2. CASE ToolFails(w)
      BY <3>2, <2>2, <1>a DEF ToolFails, Become
    <3>3. CASE Succeed(w)
      BY <3>3, <2>2, <1>a, <1>c DEF Succeed, Become
    <3>4. CASE Fail(w)
      BY <3>4, <2>2, <1>a DEF Fail, Goto
    <3> QED
      BY <1>4, <3>1, <3>2, <3>3, <3>4
  <2>5. worker'[w].pc = "conclude" => \A t \in Steps : step'[t] = "succeeded"
    <3> SUFFICES ASSUME worker'[w].pc = "conclude"
                 PROVE  \A t \in Steps : step'[t] = "succeeded"
      OBVIOUS
    <3>1. \A t \in Steps : t = s
      BY <2>4, AgentAssumption DEF Steps
    <3> QED
      BY <2>4, <3>1, <1>d, <1>s DEF Succeed, SetStep
  <2>6. FlowAt(w)' /\ Holds(w)'
    BY <2>2, <2>4, <2>5, <1>c DEF FlowAt, Holds
  <2> QED
    BY <1>m, <2>1, <2>2, <2>3, <2>6 DEF SuccessIsDone
<1>5. CASE Count(w)
  <2>1. HolderMoves(w)
    BY <1>5, <1>u, HolderActionMoves DEF HolderAction
  <2>2. /\ Holds(w) /\ api.pc # "sent" /\ worker[w].own /\ run # "canceled"
        /\ Front(s) /\ step[s] = "succeeded"
        /\ \A t \in Steps : step[t] # "canceled"
        /\ UNCHANGED <<run, job, step, hasJobId>>
    BY <1>5, <1>s, <1>e, <1>g, <1>h, <2>1 DEF HolderMoves, Count, FlowAt, HolderAt
  <2>3. /\ worker'[w].pc = "conclude" /\ worker'[w].own /\ worker'[w].step = s
        /\ worker'[w].note = (IF Remaining = {} THEN "last" ELSE "more")
    BY <1>5, <1>a, <1>s, <2>2 DEF Count, Become
  <2>4. \A t \in Steps : t < s \/ t = s \/ t \in Later(s)
    BY StepsAssumption DEF Later, Steps
  <2>5. Remaining # {} => Later(s) # {}
    BY <2>2, <2>4 DEF Remaining, Front
  <2>6. Later(s) # {} => Fresh(s)
    BY <2>2 DEF Front, Gone, Later
  <2>7. Remaining = {} => \A t \in Steps : step[t] = "succeeded"
    BY <2>2, <2>4, <2>6 DEF Remaining, Front, Fresh, Later
  <2>8. (Later(s) # {})' = (Later(s) # {}) /\ Fresh(s)' = Fresh(s)
    BY <2>2 DEF Later, Fresh
  <2>9. FlowAt(w)' /\ Holds(w)'
    BY <2>2, <2>3, <2>5, <2>6, <2>7, <2>8, <1>c DEF FlowAt, Holds
  <2>10. worker[w].pc # "askRun" /\ SuccessIsDone'
    BY <1>5, <1>j, <2>2 DEF Count, SuccessIsDone
  <2> QED
    BY <1>m, <2>1, <2>2, <2>9, <2>10
<1>6. CASE Conclude(w)
  <2>1. HolderMoves(w)
    BY <1>6, <1>u, HolderActionMoves DEF HolderAction
  <2>2. /\ Holds(w) /\ api.pc # "sent" /\ worker[w].own
        /\ \A t \in Steps : step[t] # "canceled"
        /\ UNCHANGED <<step, hasJobId>>
        /\ run' = (IF worker[w].note = "more" THEN "queued" ELSE "succeeded") /\ job' = run'
        /\ IF worker[w].note = "more" THEN Later(s) # {} /\ Fresh(s)
                                      ELSE \A t \in Steps : step[t] = "succeeded"
    BY <1>6, <1>s, <1>e, <1>g, <1>h, <2>1 DEF HolderMoves, Conclude, SetRun, FlowAt
  <2>3. /\ worker'[w].pc = (IF AgentRun THEN "schedule" ELSE "done")
        /\ worker'[w].own /\ worker'[w].step = s
    BY <1>6, <1>a, <1>s, <2>2 DEF Conclude, Returned, Become
  <2>4. ~AgentRun => worker[w].note # "more"
    BY <2>2, AgentAssumption DEF Later, Steps
  <2>5. (Later(s) # {})' = (Later(s) # {}) /\ Fresh(s)' = Fresh(s)
    BY <2>2 DEF Later, Fresh
  <2>6. FlowAt(w)' /\ Holds(w)'
    BY <2>2, <2>3, <2>4, <2>5, <1>c DEF FlowAt, Holds, Settled, NotScheduled, Finished
  <2>7. worker[w].pc # "askRun" /\ SuccessIsDone' /\ run' # "canceled"
    BY <1>6, <2>2 DEF Conclude, SuccessIsDone
  <2> QED
    BY <1>m, <2>1, <2>2, <2>6, <2>7
<1>7. CASE FailRun(w)
  <2>1. HolderMoves(w)
    BY <1>7, <1>u, HolderActionMoves DEF HolderAction
  <2>2. /\ Holds(w) /\ api.pc # "sent" /\ worker[w].own
        /\ \A t \in Steps : step'[t] # "canceled"
        /\ run' = "failed" /\ job' = "failed"
    BY <1>7, <1>e, <1>g, <1>h, <2>1 DEF HolderMoves, FailRun, SetRun, FlowAt
  <2>3. worker'[w].pc \in {"throw", "schedule", "done"} /\ worker'[w].own
    <3>1. CASE Goto(w, "throw")
      BY <3>1, <2>2, <1>a DEF Goto
    <3>2. CASE Returned(w)
      BY <3>2, <2>2, <1>a DEF Returned, Become
    <3> QED
      BY <1>7, <3>1, <3>2 DEF FailRun
  <2>4. FlowAt(w)' /\ Settled'
    BY <2>2, <2>3 DEF FlowAt, Settled, NotScheduled, Finished
  <2>5. worker[w].pc # "askRun" /\ SuccessIsDone' /\ run' # "canceled"
    BY <1>7, <2>2 DEF FailRun, SuccessIsDone
  <2> QED
    BY <1>m, <2>1, <2>2, <2>4, <2>5
<1>8. CASE Throw(w) \/ Dead(w) \/ (Crash(w) /\ At(w, "dead"))
  <2>1. /\ Holds(w) /\ worker[w].own /\ run = "failed" /\ job = "failed" /\ api.pc # "sent"
        /\ UNCHANGED <<run, job>>
    BY <1>8, <1>c, <1>e, <1>h DEF Throw, Dead, Crash, FlowAt, Holds
  <2>2. Settled' /\ SuccessIsDone' /\ run' # "canceled"
    BY <2>1 DEF Settled, SuccessIsDone
  <2>3. \A t \in Steps : step'[t] # "canceled"
    BY <1>8, <1>d, <1>g, <2>1 DEF Throw, Dead, Crash, SetStep
  <2>4. worker'[w].pc \in {"idle", "dead"} /\ (worker'[w].pc = "dead" => worker'[w].own)
    BY <1>8, <1>a, <2>1 DEF Throw, Dead, Crash, Become, Goto, IdleWorker
  <2>5. FlowAt(w)'
    BY <2>1, <2>4 DEF FlowAt
  <2>6. Requested' /\ Going' /\ CanceledEnds'
    BY <1>b, <1>f, <1>j, <2>1, <2>2, <2>3 DEF Requested, Going, CanceledEnds
  <2> QED
    BY <1>f, <1>i, <2>1, <2>2, <2>5, <2>6 DEF FlowInv
<1>9. CASE Schedule(w) \/ OutOfTime(w)
  <2>1. HolderMoves(w)
    BY <1>9, <1>u, HolderActionMoves DEF HolderAction
  <2>2. /\ Holds(w) /\ api.pc # "sent" /\ worker[w].pc # "askRun" /\ worker[w].own
        /\ run # "canceled" /\ \A t \in Steps : step[t] # "canceled"
        /\ UNCHANGED <<run, step>>
    BY <1>9, <1>e, <1>g, <1>h, <2>1 DEF HolderMoves, Schedule, OutOfTime, FlowAt
  <2>3. worker'[w].pc \in {"stop", "ask", "enqueue"} /\ worker'[w].own
    <3>1. CASE Schedule(w)
      <4>1. PICK c \in Steps : Become(w, [worker[w] EXCEPT !.pc = Move(c), !.next = c])
        BY <3>1 DEF Schedule
      <4> QED
        BY <4>1, <1>a, <2>2 DEF Become, Move
    <3>2. CASE OutOfTime(w)
      BY <3>2, <1>a, <2>2 DEF OutOfTime, Goto
    <3> QED
      BY <1>9, <3>1, <3>2
  <2>4. FlowAt(w)' /\ Holds(w)' /\ SuccessIsDone'
    BY <1>c, <1>j, <2>2, <2>3 DEF FlowAt, Holds, SuccessIsDone
  <2> QED
    BY <1>m, <2>1, <2>2, <2>4
<1>10. CASE ScheduleNothing(w)
  <2>1. HolderMoves(w)
    BY <1>10, <1>u, HolderActionMoves DEF HolderAction
  <2>2. /\ Holds(w) /\ api.pc # "sent" /\ worker[w].pc # "askRun" /\ worker[w].own
        /\ run # "canceled" /\ \A t \in Steps : step[t] # "canceled"
        /\ UNCHANGED <<run, job, step>> /\ AgentRun
    BY <1>10, <1>c, <1>e, <1>g, <1>h, <2>1 DEF HolderMoves, ScheduleNothing, FlowAt, Scheduling
  <2>3. Settled
    <3>1. ASSUME run = "queued",
                 (step[s] = "pending" /\ ~hasJobId[s]) \/ (Later(s) # {} /\ Fresh(s))
          PROVE  FALSE
      <4>1. Candidates = {}
        BY <1>10, <3>1 DEF ScheduleNothing, NotScheduled, Finished, Blocked
      <4> QED
        BY <3>1, <4>1 DEF Candidates, Fresh, Later
    <3> QED
      BY <1>10, <1>e, <1>s, <3>1 DEF ScheduleNothing, FlowAt
  <2>4. worker'[w].pc = "done" /\ worker'[w].own
    BY <1>10, <1>a, <2>2 DEF ScheduleNothing, Goto
  <2>5. FlowAt(w)' /\ Settled' /\ SuccessIsDone'
    BY <1>j, <2>2, <2>3, <2>4 DEF FlowAt, Settled, SuccessIsDone
  <2> QED
    BY <1>m, <2>1, <2>2, <2>5
<1>11. CASE Stop(w) \/ AskRun(w)
  <2>1. HolderMoves(w)
    BY <1>11, <1>u, HolderActionMoves DEF HolderAction
  <2>2. /\ Holds(w) /\ api.pc \notin {"sent", "retry"} /\ worker[w].own /\ AgentRun
        /\ job' = run' /\ run' \in {"stopped", "needs_approval"}
        /\ UNCHANGED <<queue, api, approval>>
    BY <1>11, <1>c, <1>e, <1>f, <1>h, <2>1
       DEF HolderMoves, Stop, AskRun, SetRun, FlowAt, Scheduling
  <2>3. worker'[w].pc = "done" /\ worker'[w].own
    BY <1>11, <1>a, <2>2 DEF Stop, AskRun, Goto
  <2>4. FlowAt(w)' /\ ~Holds(w)'
    BY <1>c, <2>2, <2>3 DEF FlowAt, Holds
  <2>5. NobodyExceptAskRun'
    BY <1>f, <2>2, <2>4 DEF NobodyExceptAskRun, NoMessage
  <2>6. \A t \in Steps : step'[t] # "deadletter"
    BY <1>11, <1>d, <1>f, <2>2 DEF Stop, AskRun, CancelSteps
  <2>7. (\E t \in Steps : step'[t] = "canceled") => approval.status # "pending"
    <3>1. CASE Stop(w)
      BY <3>1, <2>2, HolderFacts DEF Stop, Awaiting
    <3>2. CASE AskRun(w)
      BY <3>2 DEF AskRun, FlowInv, CanceledEnds
    <3> QED
      BY <1>11, <3>1, <3>2
  <2>8. Requested' /\ Going' /\ CanceledEnds' /\ SuccessIsDone'
    BY <1>j, <2>2, <2>5, <2>6, <2>7
       DEF Requested, Going, Settled, CanceledEnds, SuccessIsDone
  <2> QED
    BY <1>f, <1>i, <2>2, <2>4, <2>8 DEF FlowInv
<1>12. CASE Ask(w)
  <2>1. /\ Holds(w) /\ worker[w].pc # "askRun" /\ worker[w].own
        /\ api.pc \notin {"sent", "retry"}
        /\ UNCHANGED <<run, step>>
    BY <1>12, <1>c, <1>e, <1>f DEF Ask, RowsFree, FlowAt, Holds
  <2>2. worker'[w].pc = "askRun" /\ worker'[w].own
    BY <1>12, <1>a, <2>1 DEF Ask, Goto
  <2>3. FlowAt(w)' /\ Holds(w)'
    BY <1>c, <2>2 DEF FlowAt, Holds
  <2>4. Requested' /\ Going' /\ CanceledEnds' /\ SuccessIsDone'
    BY <1>b, <1>g, <1>j, <2>1, <2>3
       DEF Requested, Going, Alive, NobodyHolds, CanceledEnds, SuccessIsDone
  <2> QED
    BY <1>f, <1>i, <2>1, <2>3, <2>4 DEF FlowInv
<1>13. CASE EnqueueNext(w) \/ (Crash(w) /\ ~At(w, "dead") /\ queue' # queue)
  <2>1. PICK m \in Messages : HolderSends(w, m)
    BY <1>13, <1>u, HolderActionSends DEF HolderSends
  <2>2. /\ Holds(w) /\ worker[w].pc # "askRun" /\ worker[w].own
        /\ UNCHANGED <<run, step>> /\ ~Holds(w)'
    BY <2>1, <1>c, <1>e DEF HolderSends, Holds, FlowAt
  <2>3. worker'[w].pc # "idle" => worker'[w].own
    BY <1>13, <1>a, <2>2 DEF EnqueueNext, Goto, Crash, Become, IdleWorker
  <2>4. FlowAt(w)'
    BY <2>2, <2>3, RestFlow
  <2>5. ~NoMessage'
    BY <2>1, <1>d DEF HolderSends, NoMessage
  <2>6. Requested' /\ Going' /\ CanceledEnds' /\ SuccessIsDone'
    BY <1>b, <1>f, <1>g, <1>j, <2>2, <2>5
       DEF Requested, Going, Alive, CanceledEnds, SuccessIsDone
  <2> QED
    BY <1>f, <1>i, <2>2, <2>4, <2>6 DEF FlowInv
<1>14. CASE SetJobId(w)
  <2>1. PICK n \in Steps : worker[w].next = n
    BY <1>a
  <2>2. /\ ~Holds(w) /\ ~Holds(w)' /\ n \notin Risky
        /\ worker'[w].pc = "done" /\ worker'[w].own
    BY <1>14, <2>1, <1>a, <1>c, <1>e
       DEF SetJobId, Goto, Holds, Scheduling, FlowAt, OrderInv, JobIdPlain
  <2>3. /\ hasJobId' = [hasJobId EXCEPT ![n] = TRUE]
        /\ UNCHANGED <<run, job, step, queue, approval>>
    BY <1>14, <2>1 DEF SetJobId
  <2>4. ASSUME NEW v \in Workers, Holds(v)
        PROVE  FlowAt(v)'
    <3>1. v # w /\ worker'[v] = worker[v] /\ FlowAt(v) /\ HolderAt(v)
      BY <2>2, <2>4, <1>b DEF FlowInv, OrderInv, HolderFront
    <3>2. PICK x \in Steps : worker[v].step = x
      BY <1>a
    <3>3. ASSUME Front(x), Fresh(x)
          PROVE  Fresh(x)'
      <4>1. n <= x
        BY <1>14, <2>1, <3>3 DEF SetJobId, Front
      <4>2. \A u \in Later(x) : u \in Steps /\ u # n
        BY <4>1, StepsAssumption DEF Later, Steps
      <4> QED
        BY <2>3, <3>3, <4>2, <1>d DEF Fresh, Later
    <3>4. worker[v].pc \in {"conclude", "schedule"} => Front(x)
      BY <3>1, <3>2 DEF HolderAt
    <3>5. worker[v].pc = "schedule" /\ run = "queued" /\ step[x] = "pending" /\ ~hasJobId[x]
             => ~hasJobId'[x]
      <4>1. worker[v].pc = "schedule" /\ run = "queued" /\ step[x] = "pending" => x # n
        BY <2>2, <3>1, <3>2 DEF HolderAt, Unasked, NotScheduled, Finished, Blocked
      <4> QED
        BY <2>3, <4>1, <1>d
    <3> QED
      BY <2>3, <3>1, <3>2, <3>3, <3>4, <3>5 DEF FlowAt, Settled, Later
  <2> QED
    BY <2>2, <2>3, <2>4, <1>b, RestMovesFlow
<1>15. CASE Done(w) /\ Holds(w)
  <2>1. HolderMoves(w)
    BY <1>15, <1>u, HolderActionMoves DEF HolderAction
  <2>2. /\ api.pc # "sent" /\ worker[w].pc # "askRun" /\ ~AgentRun /\ Settled
        /\ run # "canceled" /\ \A t \in Steps : step[t] # "canceled"
        /\ UNCHANGED <<run, job, step>>
    BY <1>15, <1>c, <1>e, <1>g, <1>h DEF Done, Holds, FlowAt
  <2>3. worker'[w].pc = "idle"
    BY <1>15, <1>a DEF Done, Become, IdleWorker
  <2>4. FlowAt(w)' /\ Settled' /\ SuccessIsDone'
    BY <1>j, <2>2, <2>3 DEF FlowAt, Settled, SuccessIsDone
  <2> QED
    BY <1>m, <2>1, <2>2, <2>4
<1>16. CASE Done(w) /\ ~Holds(w)
  <2>1. worker'[w].pc = "idle" /\ ~Holds(w)'
    BY <1>16, <1>a, <1>c DEF Done, Become, IdleWorker, Holds
  <2>2. UNCHANGED <<run, job, step, hasJobId, queue, approval>>
    BY <1>16 DEF Done
  <2>3. ASSUME NEW v \in Workers, Holds(v)
        PROVE  FlowAt(v)'
    <3>1. worker'[v] = worker[v] /\ FlowAt(v)
      BY <1>16, <2>3, <1>b DEF FlowInv
    <3>2. PICK x \in Steps : worker[v].step = x
      BY <1>a
    <3> QED
      BY <2>2, <3>1, <3>2 DEF FlowAt, Settled, Later, Fresh
  <2> QED
    BY <1>16, <2>1, <2>2, <2>3, <1>b, RestMovesFlow
<1>17. ASSUME NEW t \in Steps, NEW made \in 0..(MaxAttempts - 1), Fetch(w, t, made)
       PROVE  FlowInv'
  <2>1. <<t, made>> \in Messages /\ queue[<<t, made>>] > 0
    BY <1>17 DEF Fetch, Messages
  <2>2. NobodyHolds /\ ~NoMessage
    BY <2>1, <1>d DEF TokenInv, MessageOrHolder, NoMessage
  <2>3. /\ run # "canceled" /\ \A x \in Steps : step[x] # "canceled"
    BY <2>2 DEF FlowInv, CanceledEnds, NobodyExceptAskRun
  <2>4. /\ UNCHANGED <<run, step>>
        /\ worker'[w].pc = Entry(run) /\ worker'[w].own
    BY <1>17, <1>a DEF Fetch, Become
  <2>5. /\ Entry(run) \in {"park", "begin"}
        /\ Entry(run) = "park" => run \in Blocked
    BY <2>3 DEF Entry, Blocked
  <2>6. run \in Blocked => run = "needs_approval" /\ AgentRun
    <3>1. run \in Blocked => run = "needs_approval" /\ api.pc = "sent"
      BY <2>2 DEF TokenInv, PlainPaths, Deciding, Blocked
    <3>2. api.pc = "sent" => t \in Risky
      BY <2>1 DEF OrderInv, MessageFront, Unasked
    <3> QED
      BY <3>1, <3>2 DEF Undisturbed
  <2>7. FlowAt(w)' /\ Holds(w)'
    BY <2>4, <2>5, <2>6 DEF FlowAt, Holds, Resting
  <2>8. Requested' /\ Going' /\ CanceledEnds' /\ SuccessIsDone'
    BY <1>b, <2>3, <2>4, <2>7 DEF FlowInv, Requested, Going, Alive, NobodyHolds,
       CanceledEnds, SuccessIsDone
  <2>9. \A v \in Workers : v # w => FlowAt(v)'
    BY <1>b, <1>i, <2>2 DEF NobodyHolds, Holds
  <2> QED
    BY <2>7, <2>8, <2>9 DEF FlowInv
<1>18. CASE \/ FindAnswer(w) \/ FindOpen(w) \/ CreateExecution(w) \/ Suspend(w)
            \/ Stall(w) \/ QueryFails(w)
  BY <1>18, <1>c DEF FindAnswer, FindOpen, CreateExecution, Suspend, Stall, QueryFails,
     Undisturbed
<1> HIDE DEF At
<1>19. CASE Done(w)
  BY <1>15, <1>16, <1>19
<1>20. CASE Crash(w)
  <2>1. CASE At(w, "dead")
    BY <1>8, <1>20, <2>1
  <2>2. CASE ~At(w, "dead")
    <3>1. faults = 0
      BY <1>20 DEF Crash, Undisturbed, TypeInv, TypeOK
    <3>2. PICK made \in 0..(MaxAttempts - 1) : worker[w].made = made
      BY <1>a
    <3>3. queue' = [queue EXCEPT ![<<s, made>>] = @ + 1] /\ <<s, made>> \in Messages
      BY <1>20, <1>s, <2>2, <3>1, <3>2 DEF Crash, Stalled, Messages
    <3>4. queue'[<<s, made>>] # queue[<<s, made>>]
      BY <1>d, <3>3
    <3> QED
      BY <1>13, <1>20, <2>2, <3>4
  <2> QED
    BY <2>1, <2>2
<1> QED
  BY <1>1, <1>2, <1>3, <1>4, <1>5, <1>6, <1>7, <1>8, <1>9, <1>10, <1>11, <1>12, <1>13,
     <1>14, <1>17, <1>18, <1>19, <1>20 DEF WorkerStep, Fault

-----------------------------------------------------------------------------
\* A step of a request.
LEMMA OtherFlow ==
    ASSUME Undisturbed, TypeInv, TokenInv, OrderInv, FlowInv,
           \/ ApiStep \/ OperatorStep
           \/ \E s \in Steps : Report(s) \/ Tick(s)
           \/ \E r \in Resumers : ResumerStep(r)
    PROVE  FlowInv'
<1>a. /\ worker' = worker
      /\ NobodyHolds' = NobodyHolds
      /\ \A v \in Workers : Holds(v)' = Holds(v)
  BY OthersLeaveWorkers DEF NobodyHolds, Holds
<1>b. /\ queue \in [Messages -> Nat] /\ step \in [Steps -> StepStatuses]
      /\ api.step \in Steps /\ 1 \in Steps
      /\ \A t \in Steps : <<t, 0>> \in Messages
  BY StepsAssumption, AttemptsAssumption DEF TypeInv, TypeOK, ApiStates, Steps, Messages
<1>c. /\ RetryAlone /\ AwaitingAlone /\ DeadAlone /\ CreatedAlone /\ Deciding /\ PlainPaths
  BY DEF TokenInv
<1>d. /\ Requested /\ Going /\ CanceledEnds /\ SuccessIsDone
      /\ \A v \in Workers : FlowAt(v)
  BY DEF FlowInv
<1>e. ASSUME NobodyHolds
      PROVE  \A v \in Workers : FlowAt(v)'
  BY <1>a, <1>d, <1>e, RestFlow DEF NobodyHolds, FlowAt
<1>f. ASSUME NEW t \in Steps, queue' = [queue EXCEPT ![<<t, 0>>] = @ + 1]
      PROVE  ~NoMessage'
  BY <1>b, <1>f DEF NoMessage
<1>g. queue' = queue => NoMessage' = NoMessage /\ (NobodyExceptAskRun => NobodyExceptAskRun')
  BY <1>a DEF NoMessage, NobodyExceptAskRun
<1>1. CASE Submit
  <2>1. /\ NobodyHolds /\ api.pc = "idle"
        /\ \A t \in Steps : step[t] # "canceled"
        /\ UNCHANGED <<step, api>>
    BY <1>1, <1>c, <1>d DEF Submit, ElseUnchanged, CreatedAlone, CanceledEnds
  <2>2. \/ run' = "needs_approval" /\ job' = run'
        \/ run' = "queued" /\ ~NoMessage'
    BY <1>1, <1>b, <1>f DEF Submit, SetRun, Enqueue
  <2> QED
    BY <2>1, <2>2, <1>e DEF FlowInv, Requested, Going, Settled, Alive, CanceledEnds,
       SuccessIsDone
<1>2. CASE ApproveCheck
  <2>1. /\ api.pc = "idle" /\ api'.pc = "checked"
        /\ UNCHANGED <<run, job, step, hasJobId, queue, approval>>
    BY <1>2 DEF ApproveCheck, Start, Requests
  <2>2. \A v \in Workers : FlowAt(v)'
    <3> TAKE v \in Workers
    <3>1. PICK s \in Steps : worker[v].step = s
      BY DEF TypeInv, TypeOK, WorkerStates
    <3> QED
      BY <1>a, <1>d, <2>1, <3>1 DEF FlowAt, Settled, Later, Fresh
  <2> QED
    BY <2>1, <2>2, <1>a, <1>d, <1>g DEF FlowInv, Requested, Going, Settled, Alive,
       CanceledEnds, SuccessIsDone
<1>3. CASE ApproveSend
  <2>1. /\ approval.status = "pending" /\ run = "needs_approval" /\ NobodyHolds
        /\ api'.pc = "sent" /\ UNCHANGED <<run, step>> /\ ~NoMessage'
    BY <1>3, <1>b, <1>c, <1>f DEF ApproveSend, Requests, Deciding
  <2>2. \A t \in Steps : step[t] # "canceled"
    BY <2>1, <1>d DEF CanceledEnds
  <2> QED
    BY <2>1, <2>2, <1>e DEF FlowInv, Requested, Going, Alive, CanceledEnds,
       SuccessIsDone
<1>4. CASE ApproveCommit
  <2>1. /\ approval.status = "pending" /\ run = "needs_approval" /\ api.pc = "sent"
        /\ run' = "queued" /\ api'.pc = "idle"
        /\ UNCHANGED <<step, queue>>
    BY <1>4, <1>c DEF ApproveCommit, IdleApi, Deciding
  <2>2. \A t \in Steps : step[t] # "canceled"
    BY <2>1, <1>d DEF CanceledEnds
  <2>3. ~NoMessage' \/ ~NobodyHolds'
    BY <2>1, <1>a, <1>d, <1>g DEF Requested
  <2>4. ASSUME NEW v \in Workers, Holds(v)
        PROVE  FlowAt(v)'
    <3>1. worker[v].pc = "park"
      BY <2>1, <2>4, <1>c, <1>d DEF Deciding, FlowAt
    <3> QED
      BY <2>1, <3>1, <1>a, <1>d DEF FlowAt
  <2>5. \A v \in Workers : ~Holds(v) => FlowAt(v)'
    BY <1>a, <1>d, RestFlow DEF FlowAt
  <2> QED
    BY <2>1, <2>2, <2>3, <2>4, <2>5 DEF FlowInv, Requested, Going, Alive, CanceledEnds,
       SuccessIsDone
<1>5. CASE Reject
  <2>1. /\ Awaiting /\ NoMessage
        /\ run' = "canceled" /\ job' = "canceled" /\ approval'.status = "rejected"
        /\ CancelSteps({"pending", "running"})
        /\ UNCHANGED <<queue, api>>
    BY <1>5, <1>c DEF Reject, SetRun, RowsFree, Awaiting, AwaitingAlone, TypeInv, TypeOK
  <2>2. /\ api.pc \notin {"sent", "retry"}
        /\ \A t \in Steps : step[t] # "deadletter"
        /\ \A v \in Workers : Holds(v) => worker[v].pc = "askRun"
    BY <2>1, <1>c DEF Awaiting, RetryAlone, DeadAlone, AwaitingAlone
  <2>3. NobodyExceptAskRun'
    BY <2>1, <2>2, <1>a, <1>g DEF NobodyExceptAskRun
  <2>4. \A t \in Steps : step'[t] # "deadletter"
    BY <2>1, <2>2 DEF CancelSteps
  <2>5. \A v \in Workers : FlowAt(v)'
    <3>1. \A v \in Workers : Holds(v) => FlowAt(v)'
      BY <2>2, <1>a, <1>d DEF FlowAt
    <3>2. \A v \in Workers : ~Holds(v) => FlowAt(v)'
      BY <1>a, <1>d, RestFlow DEF FlowAt
    <3> QED
      BY <3>1, <3>2
  <2> QED
    BY <2>1, <2>2, <2>3, <2>4, <2>5, <1>d DEF FlowInv, Requested, Going, Settled,
       CanceledEnds, SuccessIsDone
<1>6. ASSUME NEW s \in Steps, RetryDead(s)
      PROVE  FlowInv'
  <2>1. /\ NobodyHolds /\ step' = [step EXCEPT ![s] = "pending"]
        /\ run' = "queued" /\ api'.pc = "retry"
    BY <1>6, <1>c DEF RetryDead, Retryable, SetStep, SetRun, Requests, DeadAlone
  <2>2. \A t \in Steps : step[t] # "canceled"
    BY <1>6, <1>d DEF RetryDead, Retryable, CanceledEnds
  <2>3. \A t \in Steps : step'[t] # "canceled"
    BY <2>1, <2>2, <1>b
  <2> QED
    BY <2>1, <2>3, <1>e DEF FlowInv, Requested, Going, Alive, CanceledEnds,
       SuccessIsDone
<1>7. CASE RetrySend
  <2>1. /\ NobodyHolds /\ run = "queued" /\ ~NoMessage' /\ api'.pc = "idle"
        /\ UNCHANGED <<run, step>>
    BY <1>7, <1>b, <1>c, <1>d, <1>f DEF RetrySend, Enqueue, IdleApi, RetryAlone, Requested
  <2>2. \A t \in Steps : step[t] # "canceled"
    BY <1>7, <1>d DEF RetrySend, CanceledEnds
  <2> QED
    BY <2>1, <2>2, <1>e DEF FlowInv, Requested, Going, Alive, CanceledEnds,
       SuccessIsDone
<1>8. ASSUME NEW s \in Steps, CancelDead(s)
      PROVE  FlowInv'
  <2>1. /\ NoMessage /\ NobodyHolds /\ step' = [step EXCEPT ![s] = "canceled"]
        /\ run' = "canceled" /\ job' = "canceled"
        /\ UNCHANGED <<api, queue, approval>>
        /\ api.pc \notin {"sent", "retry"} /\ approval.status # "pending"
        /\ \A t \in Steps : step[t] = "deadletter" => t = s
    BY <1>8, <1>c DEF CancelDead, SetStep, SetRun, RowsFree, ByOperator, DeadAlone,
       RetryAlone, Awaiting
  <2>2. NobodyExceptAskRun'
    BY <2>1, <1>a, <1>g DEF NobodyExceptAskRun, NobodyHolds
  <2>3. \A t \in Steps : step'[t] # "deadletter"
    BY <2>1, <1>b
  <2> QED
    BY <2>1, <2>2, <2>3, <1>d, <1>e DEF FlowInv, Requested, Going, Settled, CanceledEnds,
       SuccessIsDone
<1>9. CASE \/ CancelRead \/ CancelRun \/ OverruleRead \/ OverruleRun \/ CancelRest
           \/ ApproveRollback \/ RetryCrash
  BY <1>9, <1>c, <1>d DEF CancelRead, OverruleRead, Start, CancelRun, OverruleRun, CancelRest,
     ApproveRollback, RetryCrash, Undisturbed, Requested, Deciding
<1>10. ASSUME NEW s \in Steps, Report(s) \/ Tick(s)
       PROVE  FlowInv'
  BY <1>10, <1>c DEF Report, Tick, Answered, PlainPaths, NoExecution
<1>11. ASSUME NEW r \in Resumers, ResumerStep(r)
       PROVE  FlowInv'
  BY <1>11, <1>c DEF ResumerStep, ResumeRun, ResumeGiveUp, ResumeSend, PlainPaths
<1> QED
  BY <1>1, <1>2, <1>3, <1>4, <1>5, <1>6, <1>7, <1>8, <1>9, <1>10, <1>11
     DEF ApiStep, OperatorStep

\* Every step of the run preserves the flow.
LEMMA FlowInvInductive ==
    ASSUME Undisturbed, TypeInv, TokenInv, TokenInv', OrderInv, FlowInv, [CalmNext]_vars,
           AgentRun \/ faults' <= 1
    PROVE  FlowInv'
<1>1. CASE UNCHANGED vars
  <2>1. /\ NoMessage' = NoMessage /\ NobodyHolds' = NobodyHolds
        /\ NobodyExceptAskRun' = NobodyExceptAskRun
    BY <1>1 DEF vars, NoMessage, NobodyHolds, Holds, NobodyExceptAskRun
  <2>2. ASSUME NEW v \in Workers
        PROVE  FlowAt(v)'
    <3>1. PICK s \in Steps : worker[v].step = s
      BY DEF TypeInv, TypeOK, WorkerStates
    <3> QED
      BY <1>1, <3>1 DEF vars, FlowInv, FlowAt, Settled, Later, Fresh
  <2> QED
    BY <1>1, <2>1, <2>2 DEF vars, FlowInv, Requested, Going, Settled, Alive, CanceledEnds,
       SuccessIsDone
<1>2. ASSUME NEW w \in Workers, WorkerStep(w) \/ Fault(w)
      PROVE  FlowInv'
  BY <1>2, WorkerFlow
<1>3. CASE \/ ApiStep \/ OperatorStep
           \/ \E s \in Steps : Report(s) \/ Tick(s)
           \/ \E r \in Resumers : ResumerStep(r)
  BY <1>3, OtherFlow
<1> QED
  BY <1>1, <1>2, <1>3 DEF CalmNext

\* The flow holds until an operator enqueues a step by hand or, in a tool run, a second
\* fault may take the message along.
CalmFlow ==
    /\ TypeInv /\ HandsIdle
    /\ forced \/ (TokenInv /\ OrderInv /\ ((~AgentRun /\ faults > 1) \/ FlowInv))

LEMMA CalmFlowInductive ==
    ASSUME Undisturbed, CalmFlow, [Next]_vars
    PROVE  CalmFlow'
<1>1. TypeInv' /\ HandsIdle'
  BY TypeInvInductive, CalmStep DEF CalmFlow
<1>2. ASSUME ~forced'
      PROVE  TokenInv' /\ OrderInv' /\ ((~AgentRun /\ faults' > 1) \/ FlowInv')
  <2>1. ~forced /\ [CalmNext]_vars
    BY <1>2, CalmStep DEF CalmFlow
  <2>2. TypeInv /\ TokenInv /\ OrderInv /\ Unduplicated
    BY <2>1, UndisturbedUnduplicated DEF CalmFlow
  <2>3. TokenInv' /\ OrderInv'
    BY <2>1, <2>2, TokenInvInductive, OrderInvInductive
  <2>4. faults \in Nat /\ faults' \in {faults, faults + 1}
    <3>1. CASE UNCHANGED vars
      BY <2>2, <3>1 DEF vars, TypeInv, TypeOK
    <3> QED
      BY <2>2, <3>1, CountersGrow DEF TypeInv, TypeOK
  <2>5. ASSUME AgentRun \/ ~(faults' > 1)
        PROVE  FlowInv'
    <3>1. FlowInv /\ (AgentRun \/ faults' <= 1)
      BY <2>1, <2>4, <2>5 DEF CalmFlow
    <3> QED
      BY <2>1, <2>2, <2>3, <3>1, FlowInvInductive
  <2> QED
    BY <2>3, <2>5
<1> QED
  BY <1>1, <1>2 DEF CalmFlow

\* All the invariants in every state.
LEMMA FlowAlways ==
    ASSUME Undisturbed
    PROVE  Spec => []CalmFlow
<1>1. Init => CalmFlow
  BY InitType, InitHands, InitToken, InitOrder, InitFlow DEF CalmFlow
<1>2. CalmFlow /\ [Next]_vars => CalmFlow'
  BY CalmFlowInductive
<1> QED
  BY <1>1, <1>2, PTL DEF Spec

\* In a quiet state no message is left and nobody holds the token.
LEMMA QuietIsOver ==
    ASSUME FlowInv, Quiet
    PROVE  run = "created" \/ Settled
<1>1. ~Alive
  BY DEF Quiet, Alive, NoMessage, NobodyHolds, Holds, Resting
<1> QED
  BY <1>1 DEF FlowInv, Going

\* A run that is queued or running is not forgotten, whichever errors its tools end with
\* and whatever operators approve, reject and do with dead letters: a message, a worker or
\* a request that has begun will go on with it.  An agent run may be forgotten once an
\* operator has enqueued a step by hand, a tool run once a second fault has taken its
\* message along.
THEOREM NotStrandedHolds ==
    ASSUME Undisturbed
    PROVE  Spec => []NotStranded
<1>1. CASE AgentRun
  <2>1. CalmFlow => NotStranded
    BY <1>1, QuietIsOver DEF CalmFlow, NotStranded, Forgettable, Settled
  <2> QED
    BY <2>1, FlowAlways, PTL
<1>2. CASE ~AgentRun
  <2>1. Risky = {} /\ ToolFaults
    BY <1>2 DEF Undisturbed, ToolFaults
  <2> QED
    BY <1>2, <2>1, ToolRunGoesOn
<1> QED
  BY <1>1, <1>2

\* When nothing is under way, runs.status and jobs.status say the same, though almost
\* every handler writes them in two statements; a second fault and a request by hand may
\* leave them apart.
THEOREM JobAgreesHolds ==
    ASSUME Undisturbed
    PROVE  Spec => []JobAgrees
<1>1. CalmFlow => JobAgrees
  BY QuietIsOver DEF CalmFlow, JobAgrees, Settled
<1> QED
  BY <1>1, FlowAlways, PTL

\* A run that says it has succeeded has executed every step of its plan, unless an
\* operator has enqueued a step by hand.
THEOREM SucceededMeansDoneHolds ==
    ASSUME Undisturbed
    PROVE  Spec => []SucceededMeansDone
<1>1. CASE AgentRun
  <2>1. CalmFlow => SucceededMeansDone
    BY <1>1 DEF CalmFlow, FlowInv, SuccessIsDone, SucceededMeansDone
  <2> QED
    BY <2>1, FlowAlways, PTL
<1>2. CASE ~AgentRun
  <2>1. Unduplicated /\ "query" \notin Faults
    BY <1>2, UndisturbedUnduplicated DEF Undisturbed
  <2> QED
    BY <1>2, <2>1, ToolRunSucceeds
<1> QED
  BY <1>1, <1>2
=============================================================================
