-------------------------- MODULE SyncEngineProofs --------------------------
(* Proofs about the sync engine, for any number of requests, operations,   *)
(* records and clients, and without the bounds of the runs.                *)
EXTENDS SyncEngine, TLAPS

\* The type of the part of the state the other invariants are about.
CoreType ==
    /\ base \in [Ops -> Bases]
    /\ client \in [Ops -> ClientStatuses]
    /\ rec \in [Records -> Seq(Writers)]
    /\ log \in Seq(LogRows)
    /\ watermark \in [Clients -> Nat]
    /\ tickets \in Seq(Tickets)
    /\ req \in [Requests -> RequestStates]
    /\ operator \in OperatorStates
    /\ done \subseteq Ops

\* A pushed operation with a base version stands right after that version.
Placed ==
    \A r \in Records : \A i \in 1..Len(rec[r]) : \A o \in Ops :
        rec[r][i] = ByPush(o) /\ base[o] # NoBase => i = base[o] + 1

LEMMA WritersFacts ==
    /\ ByEdit \in Writers
    /\ \A o \in Ops : ByPush(o) \in Writers /\ ByProposal(o) \in Writers
    /\ \A o, p \in Ops : ByPush(o) # ByProposal(p) /\ (ByPush(o) = ByPush(p) => o = p)
    /\ \A o \in Ops : ByPush(o) # ByEdit
BY DEF Writers, ByEdit, ByPush, ByProposal

LEMMA RowInLog ==
    ASSUME NEW o \in Ops, log \in Seq(LogRows), Logged(o)
    PROVE  Cursor(o) \in 1..Len(log) /\ log[Cursor(o)].op = o
BY DEF Logged, Cursor

THEOREM CoreTypeCorrect == Spec => []CoreType
<1>1. Init => CoreType
  <2> SUFFICES ASSUME Init PROVE CoreType
    OBVIOUS
  <2>1. IdleRequest \in RequestStates /\ IdleOperator \in OperatorStates
    BY DEF IdleRequest, RequestStates, RequestPCs, IdleOperator, OperatorStates
  <2>2. rec \in [Records -> Seq(Writers)]
    <3>1. <<>> \in Seq(Writers) /\ <<ByEdit>> \in Seq(Writers)
      BY WritersFacts
    <3> QED
      BY <3>1 DEF Init
  <2> QED
    BY <2>1, <2>2 DEF Init, CoreType, ClientStatuses
<1>2. CoreType /\ [Next]_vars => CoreType'
  <2> SUFFICES ASSUME CoreType, [Next]_vars
               PROVE  CoreType'
    OBVIOUS
  <2> USE DEF CoreType
  <2>0. IdleRequest \in RequestStates /\ IdleOperator \in OperatorStates
    BY DEF IdleRequest, RequestStates, RequestPCs, IdleOperator, OperatorStates
  <2>1. ASSUME NEW q \in Requests, NEW B \in SUBSET Ops, Push(q, B)
        PROVE  CoreType'
    <3>1. [IdleRequest EXCEPT !.pc = "lookup", !.batch = B, !.todo = B] \in RequestStates
      BY DEF IdleRequest, RequestStates, RequestPCs
    <3> QED
      BY <2>1, <3>1 DEF Push
  <2>2. ASSUME NEW q \in Requests, NEW o \in Ops, Lookup(q, o)
        PROVE  CoreType'
    <3>1. Logged(o) => Cursor(o) \in Nat
      BY RowInLog
    <3>2. req' \in [Requests -> RequestStates]
      <4>1. CASE Logged(o)
        <5>1. [req[q] EXCEPT !.todo = @ \ {o}, !.accepted = @ \cup {o},
                             !.cursor = Later(req[q].cursor, Cursor(o))] \in RequestStates
          BY <3>1, <4>1 DEF RequestStates, Later
        <5> QED
          BY <2>2, <4>1, <5>1 DEF Lookup
      <4>2. CASE ~Logged(o)
        <5>1. [req[q] EXCEPT !.pc = "read"] \in RequestStates
          BY DEF RequestStates, RequestPCs
        <5> QED
          BY <2>2, <4>2, <5>1 DEF Lookup
      <4> QED
        BY <4>1, <4>2
    <3> QED
      BY <2>2, <3>2 DEF Lookup
  <2>3. ASSUME NEW q \in Requests, NEW o \in Ops, Read(q, o)
        PROVE  CoreType'
    <3>1. [req[q] EXCEPT !.pc = "check", !.missing = (Revision(Target[o]) = 0)] \in RequestStates
      BY DEF RequestStates, RequestPCs
    <3> QED
      BY <2>3, <3>1 DEF Read
  <2> DEFINE Applied(o) == [rec EXCEPT ![Target[o]] = Append(@, ByPush(o))]
  <2>a. ASSUME NEW o \in Ops
        PROVE  /\ Applied(o) \in [Records -> Seq(Writers)]
               /\ [rec EXCEPT ![Target[o]] = Append(@, ByProposal(o))] \in [Records -> Seq(Writers)]
    <3>1. Target[o] \in Records
      BY OpsAssumption
    <3>2. rec[Target[o]] \in Seq(Writers)
      BY <3>1
    <3>3. Append(rec[Target[o]], ByPush(o)) \in Seq(Writers)
          /\ Append(rec[Target[o]], ByProposal(o)) \in Seq(Writers)
      BY <3>2, WritersFacts
    <3> QED
      BY <3>3
  <2>b. ASSUME NEW q \in Requests, NEW o \in Ops
        PROVE  /\ Conflict(q, o) \in RequestStates
               /\ Stale(q, o) \in RequestStates
               /\ \A p \in RequestPCs : [req[q] EXCEPT !.pc = p] \in RequestStates
    BY DEF RequestStates, RequestPCs, Conflict, Stale
  <2>4. ASSUME NEW q \in Requests, NEW o \in Ops, Create(q, o)
        PROVE  CoreType'
    <3>1. [req[q] EXCEPT !.pc = "accept"] \in RequestStates
      BY <2>b DEF RequestPCs
    <3>2. req' \in [Requests -> RequestStates]
      BY <2>4, <2>b, <3>1 DEF Create
    <3>3. rec' \in [Records -> Seq(Writers)] /\ done' \subseteq Ops
      BY <2>4, <2>a DEF Create, Apply
    <3> QED
      BY <2>4, <3>2, <3>3 DEF Create
  <2>5. ASSUME NEW q \in Requests, NEW o \in Ops, Compare(q, o)
        PROVE  CoreType'
    <3>1. [req[q] EXCEPT !.pc = "update"] \in RequestStates
          /\ [req[q] EXCEPT !.pc = "reject"] \in RequestStates
      BY <2>b DEF RequestPCs
    <3>2. req' \in [Requests -> RequestStates]
      BY <2>5, <2>b, <3>1 DEF Compare
    <3> QED
      BY <2>5, <3>2 DEF Compare
  <2>6. ASSUME NEW q \in Requests, NEW o \in Ops, Update(q, o)
        PROVE  CoreType'
    <3>1. [req[q] EXCEPT !.pc = "accept"] \in RequestStates
      BY <2>b DEF RequestPCs
    <3>2. req' \in [Requests -> RequestStates]
      BY <2>6, <2>b, <3>1 DEF Update
    <3>3. rec' \in [Records -> Seq(Writers)] /\ done' \subseteq Ops
      BY <2>6, <2>a DEF Update, Apply
    <3> QED
      BY <2>6, <3>2, <3>3 DEF Update
  <2>7. ASSUME NEW q \in Requests, NEW o \in Ops, LogOp(q, o)
        PROVE  CoreType'
    <3> DEFINE s == IF req[q].pc = "accept" THEN "accepted" ELSE "rejected"
    <3>1. [op |-> o, status |-> s] \in LogRows
      BY DEF LogRows
    <3>2. log' \in Seq(LogRows)
      BY <2>7, <3>1 DEF LogOp, Insert
    <3>3. Logged(o)'
      <4>1. CASE Logged(o)
        BY <2>7, <4>1 DEF LogOp, Insert, Logged
      <4>2. CASE ~Logged(o)
        <5>1. log' = Append(log, [op |-> o, status |-> s])
          BY <2>7, <4>2 DEF LogOp, Insert
        <5>2. log'[Len(log) + 1].op = o /\ Len(log') = Len(log) + 1
          BY <3>1, <5>1
        <5> QED
          BY <5>2 DEF Logged
      <4> QED
        BY <4>1, <4>2
    <3>4. Cursor(o)' \in Nat
      <4>1. PICK c \in 1..Len(log') : log'[c].op = o
        BY <3>3 DEF Logged
      <4>2. Cursor(o)' \in 1..Len(log')
        BY <4>1 DEF Cursor
      <4>3. Len(log') \in Nat
        BY <3>2
      <4> QED
        BY <4>2, <4>3
    <3>5. [req[q] EXCEPT !.pc = "lookup", !.todo = @ \ {o},
             !.accepted = IF req[q].pc = "accept" THEN @ \cup {o} ELSE @,
             !.cursor = Later(req[q].cursor, Cursor(o)')] \in RequestStates
      BY <3>4 DEF RequestStates, RequestPCs, Later
    <3> QED
      BY <2>7, <3>2, <3>5 DEF LogOp
  <2>8. ASSUME NEW q \in Requests, Refuse(q)
        PROVE  CoreType'
    <3>1. [req[q] EXCEPT !.pc = "reject"] \in RequestStates
      BY DEF RequestStates, RequestPCs
    <3> QED
      BY <2>8, <3>1 DEF Refuse
  <2>9. ASSUME NEW q \in Requests, Watermark(q)
        PROVE  CoreType'
    <3>1. [req[q] EXCEPT !.pc = "ticket"] \in RequestStates
      BY DEF RequestStates, RequestPCs
    <3>2. req[q].cursor \in Nat
      BY DEF RequestStates
    <3>3. watermark' \in [Clients -> Nat]
      BY <2>9, <3>2 DEF Watermark, NewWatermark, Later
    <3> QED
      BY <2>9, <3>1, <3>3 DEF Watermark
  <2>10. ASSUME NEW q \in Requests, Ticket(q)
         PROVE  CoreType'
    <3>1. [req[q] EXCEPT !.pc = "respond"] \in RequestStates
      BY DEF RequestStates, RequestPCs
    <3>2. [stale |-> req[q].stale, status |-> "open"] \in Tickets
      BY DEF RequestStates, Tickets
    <3>3. tickets' \in Seq(Tickets)
      BY <2>10, <3>2 DEF Ticket
    <3> QED
      BY <2>10, <3>1, <3>3 DEF Ticket
  <2>11. ASSUME NEW q \in Requests, Respond(q)
         PROVE  CoreType'
    BY <2>11, <2>0 DEF Respond, ClientStatuses
  <2>12. ASSUME NEW q \in Requests, Die(q)
         PROVE  CoreType'
    BY <2>12, <2>0 DEF Die
  <2>13. ASSUME NEW r \in Records, EditRecord(r)
         PROVE  CoreType'
    <3>1. Append(rec[r], ByEdit) \in Seq(Writers) /\ <<>> \in Seq(Writers)
      BY WritersFacts
    <3> QED
      BY <2>13, <3>1 DEF EditRecord
  <2> DEFINE Set(t, s) == [tickets EXCEPT ![t].status = s]
  <2>c. ASSUME NEW t \in 1..Len(tickets), NEW s \in {"resolved", "abandoned"}
        PROVE  Set(t, s) \in Seq(Tickets)
    <3>1. tickets \in [1..Len(tickets) -> Tickets]
      OBVIOUS
    <3>2. [tickets[t] EXCEPT !.status = s] \in Tickets
      BY <3>1 DEF Tickets
    <3>3. Set(t, s) \in [1..Len(tickets) -> Tickets]
      BY <3>1, <3>2
    <3> QED
      BY <3>3
  <2>14. ASSUME NEW t \in 1..Len(tickets), Abandon(t)
         PROVE  CoreType'
    BY <2>14, <2>c DEF Abandon, SetTicket
  <2>15. ASSUME NEW t \in 1..Len(tickets), Open(t)
         PROVE  CoreType'
    <3>1. tickets[t] \in Tickets /\ t \in Nat
      OBVIOUS
    <3>2. ASSUME NEW P \in SUBSET tickets[t].stale
          PROVE  [operator EXCEPT !.pc = "read", !.ticket = t, !.todo = P] \in OperatorStates
      BY <3>1 DEF OperatorStates, Tickets
    <3>3. [operator EXCEPT !.pc = "resolve", !.ticket = t] \in OperatorStates
      BY <3>1 DEF OperatorStates
    <3>4. operator' \in OperatorStates
      BY <2>15, <3>2, <3>3 DEF Open
    <3> QED
      BY <2>15, <3>4 DEF Open
  <2>16. ASSUME NEW o \in Ops, ReadProposal(o)
         PROVE  CoreType'
    <3>1. operator' \in OperatorStates
      BY <2>16, <2>0 DEF ReadProposal, OperatorStates
    <3> QED
      BY <2>16, <3>1 DEF ReadProposal
  <2>17. ASSUME NEW o \in Ops, ApplyProposal(o)
         PROVE  CoreType'
    <3>1. operator' \in OperatorStates
      BY <2>17, <2>0 DEF ApplyProposal, OperatorStates
    <3>2. rec' \in [Records -> Seq(Writers)]
      BY <2>17, <2>a DEF ApplyProposal
    <3> QED
      BY <2>17, <3>1, <3>2 DEF ApplyProposal
  <2>18. CASE Resolve
    <3>1. tickets' \in Seq(Tickets)
      <4>1. CASE operator.ticket \in 1..Len(tickets)
        BY <2>18, <2>c, <4>1 DEF Resolve, SetTicket
      <4>2. CASE operator.ticket \notin 1..Len(tickets)
        <5>1. [tickets EXCEPT ![operator.ticket].status = "resolved"] = tickets
          BY <4>2
        <5> QED
          BY <2>18, <5>1 DEF Resolve, SetTicket
      <4> QED
        BY <4>1, <4>2
    <3> QED
      BY <2>18, <3>1, <2>0 DEF Resolve
  <2>19. CASE GiveUp
    BY <2>19, <2>0 DEF GiveUp
  <2>20. CASE UNCHANGED vars
    BY <2>20 DEF vars
  <2> QED
    BY <2>1, <2>2, <2>3, <2>4, <2>5, <2>6, <2>7, <2>8, <2>9, <2>10, <2>11, <2>12,
       <2>13, <2>14, <2>15, <2>16, <2>17, <2>18, <2>19, <2>20 DEF Next
<1> QED
  BY <1>1, <1>2, PTL DEF Spec

\* An update of the record of o that keeps every entry and adds one by w.
Grown(r, w) == rec' = [rec EXCEPT ![r] = Append(@, w)]

LEMMA PlacedGrows ==
    ASSUME CoreType, Placed, NEW r \in Records, NEW w \in Writers, Grown(r, w), base' = base,
           \A o \in Ops : w = ByPush(o) /\ base[o] # NoBase => Len(rec[r]) = base[o]
    PROVE  Placed'
<1> SUFFICES ASSUME NEW s \in Records, NEW i \in 1..Len(rec'[s]), NEW o \in Ops,
                    rec'[s][i] = ByPush(o), base[o] # NoBase
             PROVE  i = base[o] + 1
  BY DEF Placed
<1>1. rec[s] \in Seq(Writers) /\ Len(rec[s]) \in Nat
  BY DEF CoreType
<1>2. CASE s # r
  BY <1>2 DEF Grown, Placed, CoreType
<1>3. CASE s = r
  <2>1. rec'[s] = Append(rec[s], w)
    BY <1>3 DEF Grown, CoreType
  <2>2. CASE i = Len(rec[s]) + 1
    <3>1. rec'[s][i] = w
      BY <1>1, <2>1, <2>2
    <3> QED
      BY <1>1, <1>3, <2>2, <3>1
  <2>3. CASE i # Len(rec[s]) + 1
    <3>1. i \in 1..Len(rec[s]) /\ rec'[s][i] = rec[s][i]
      BY <1>1, <2>1, <2>3
    <3> QED
      BY <3>1 DEF Placed
  <2> QED
    BY <2>2, <2>3
<1> QED
  BY <1>2, <1>3

LEMMA PlacedStep == CoreType /\ Placed /\ [Next]_vars => Placed'
<1> SUFFICES ASSUME CoreType, Placed, [Next]_vars
             PROVE  Placed'
  OBVIOUS
<1>0. ASSUME UNCHANGED <<rec, base>>
      PROVE  Placed'
  BY <1>0 DEF Placed
<1>a. ASSUME NEW o \in Ops, Apply(o), base' = base,
             base[o] # NoBase => base[o] = Len(rec[Target[o]])
      PROVE  Placed'
  <2>1. Target[o] \in Records /\ ByPush(o) \in Writers
    BY OpsAssumption, WritersFacts
  <2>2. \A p \in Ops : ByPush(o) = ByPush(p) => o = p
    BY WritersFacts
  <2>3. Grown(Target[o], ByPush(o))
    BY <1>a DEF Apply, Grown
  <2> QED
    BY <1>a, <2>1, <2>2, <2>3, PlacedGrows
<1>1. ASSUME NEW q \in Requests, NEW o \in Ops, Create(q, o)
      PROVE  Placed'
  <2>1. CASE UNCHANGED rec
    BY <1>0, <1>1, <2>1 DEF Create
  <2>2. CASE Apply(o) /\ base[o] \in {0, NoBase} /\ Revision(Target[o]) = 0
    BY <1>a, <1>1, <2>2 DEF Create, Revision
  <2> QED
    BY <1>1, <2>1, <2>2 DEF Create
<1>2. ASSUME NEW q \in Requests, NEW o \in Ops, Update(q, o)
      PROVE  Placed'
  <2>1. CASE UNCHANGED rec
    BY <1>0, <1>2, <2>1 DEF Update
  <2>2. CASE Apply(o) /\ Matches(o)
    BY <1>a, <1>2, <2>2 DEF Update, Matches, Revision
  <2> QED
    BY <1>2, <2>1, <2>2 DEF Update
<1>3. ASSUME NEW r \in Records, EditRecord(r)
      PROVE  Placed'
  <2>1. base' = base
    BY <1>3 DEF EditRecord
  <2>2. CASE rec' = [rec EXCEPT ![r] = <<>>]
    BY <2>1, <2>2 DEF Placed, CoreType
  <2>3. CASE rec' = [rec EXCEPT ![r] = Append(rec[r], ByEdit)]
    <3>1. Grown(r, ByEdit)
      BY <2>3 DEF Grown
    <3> QED
      BY <2>1, <3>1, PlacedGrows, WritersFacts
  <2> QED
    BY <1>3, <2>2, <2>3 DEF EditRecord
<1>4. ASSUME NEW o \in Ops, ApplyProposal(o)
      PROVE  Placed'
  <2>1. CASE UNCHANGED rec
    BY <1>0, <1>4, <2>1 DEF ApplyProposal
  <2>2. CASE rec' = [rec EXCEPT ![Target[o]] = Append(@, ByProposal(o))]
    <3>1. Target[o] \in Records /\ Grown(Target[o], ByProposal(o)) /\ base' = base
      BY <1>4, <2>2, OpsAssumption DEF ApplyProposal, Grown
    <3>2. ByProposal(o) \in Writers /\ \A p \in Ops : ByProposal(o) # ByPush(p)
      BY WritersFacts
    <3> QED
      BY <3>1, <3>2, PlacedGrows
  <2> QED
    BY <1>4, <2>1, <2>2 DEF ApplyProposal
<1>5. CASE \E q \in Requests :
             \/ \E B \in SUBSET Ops : Push(q, B)
             \/ \E o \in Ops : Lookup(q, o) \/ Read(q, o) \/ Compare(q, o) \/ LogOp(q, o)
             \/ Refuse(q) \/ Watermark(q) \/ Ticket(q) \/ Respond(q) \/ Die(q)
  BY <1>0, <1>5 DEF Push, Lookup, Read, Compare, LogOp, Refuse, Watermark, Ticket, Respond, Die
<1>6. CASE \/ \E t \in 1..Len(tickets) : Abandon(t) \/ Open(t)
           \/ \E o \in Ops : ReadProposal(o)
           \/ Resolve \/ GiveUp
  BY <1>0, <1>6 DEF Abandon, Open, ReadProposal, Resolve, GiveUp
<1>7. CASE UNCHANGED vars
  BY <1>0, <1>7 DEF vars
<1> QED
  BY <1>1, <1>2, <1>3, <1>4, <1>5, <1>6, <1>7 DEF Next

LEMMA PlacedIsOnce == CoreType /\ Placed => BasedOnce
<1> SUFFICES ASSUME CoreType, Placed, NEW r \in Records,
                    NEW i \in 1..Revision(r), NEW j \in 1..Revision(r),
                    rec[r][i] = rec[r][j],
                    \E o \in Ops : rec[r][i] = ByPush(o) /\ base[o] # NoBase
             PROVE  i = j
  BY DEF BasedOnce
<1>0. PICK o \in Ops : rec[r][i] = ByPush(o) /\ base[o] # NoBase
  OBVIOUS
<1>1. i = base[o] + 1 /\ j = base[o] + 1
  BY <1>0 DEF Placed, Revision
<1> QED
  BY <1>1

\* An operation with a base version is in its record at most once, for any number of
\* requests, retries, failures and edits.
THEOREM BasedOnceHolds == Spec => []BasedOnce
<1>1. Init => Placed
  <2> SUFFICES ASSUME Init, NEW r \in Records, NEW i \in 1..Len(rec[r]), NEW o \in Ops
               PROVE  rec[r][i] # ByPush(o)
    BY DEF Placed
  <2>1. rec[r] = <<>> \/ rec[r] = <<ByEdit>>
    BY DEF Init
  <2>2. CASE rec[r] = <<>>
    BY <2>2
  <2>3. CASE rec[r] = <<ByEdit>>
    <3>1. rec[r][i] = ByEdit
      BY <2>3
    <3> QED
      BY <3>1, WritersFacts
  <2> QED
    BY <2>1, <2>2, <2>3
<1>2. QED
  BY <1>1, CoreTypeCorrect, PlacedStep, PlacedIsOnce, PTL DEF Spec

-----------------------------------------------------------------------------
\* A request that is about to log an operation as accepted has applied it.
AppliedInv ==
    /\ AcceptedIsApplied
    /\ \A q \in Requests : \A o \in Ops :
         req[q].pc = "accept" /\ IsCurrent(q, o) => o \in done

LEMMA AppliedStep == CoreType /\ AppliedInv /\ [Next]_vars => AppliedInv'
<1> SUFFICES ASSUME CoreType, AppliedInv, [Next]_vars
             PROVE  AppliedInv'
  OBVIOUS
<1> USE DEF CoreType
<1>0. ASSUME NEW q \in Requests, NEW o \in Ops, NEW p \in Ops, IsCurrent(q, o), IsCurrent(q, p)
      PROVE  o = p
  <2>1. o \in Nat /\ p \in Nat
    BY SizesAssumption DEF Ops
  <2> QED
    BY <1>0, <2>1 DEF IsCurrent
\* What a step does to one request is all that matters unless it writes the log.
<1>a. ASSUME NEW q \in Requests, log' = log, done \subseteq done',
             \A p \in Requests : p # q => req'[p] = req[p],
             req'[q].pc # "accept"
      PROVE  AppliedInv'
  BY <1>a DEF AppliedInv, AcceptedIsApplied, IsCurrent
<1>b. ASSUME NEW q \in Requests, NEW o \in Ops, log' = log, done \subseteq done', o \in done',
             \A p \in Requests : p # q => req'[p] = req[p],
             IsCurrent(q, o), req'[q].todo = req[q].todo
      PROVE  AppliedInv'
  <2>1. ASSUME NEW p \in Ops, IsCurrent(q, p)'
        PROVE  p \in done'
    <3>1. IsCurrent(q, p)
      BY <1>b, <2>1 DEF IsCurrent
    <3> QED
      BY <1>0, <1>b, <3>1
  <2> QED
    BY <1>b, <2>1 DEF AppliedInv, AcceptedIsApplied, IsCurrent
<1>c. ASSUME UNCHANGED <<log, req, done>>
      PROVE  AppliedInv'
  BY <1>c DEF AppliedInv, AcceptedIsApplied, IsCurrent
<1>1. ASSUME NEW q \in Requests, NEW o \in Ops, Create(q, o)
      PROVE  AppliedInv'
  <2>1. CASE Apply(o) /\ req' = [req EXCEPT ![q].pc = "accept"]
    <3>1. /\ log' = log /\ done \subseteq done' /\ o \in done' /\ IsCurrent(q, o)
          /\ \A p \in Requests : p # q => req'[p] = req[p]
          /\ req'[q].todo = req[q].todo
      BY <1>1, <2>1 DEF Create, Apply, RequestStates
    <3> QED
      BY <3>1, <1>b
  <2>2. CASE req' = [req EXCEPT ![q] = Conflict(q, o)] /\ UNCHANGED <<rec, done>>
    <3>1. /\ log' = log /\ \A p \in Requests : p # q => req'[p] = req[p]
          /\ req'[q].pc = "reject"
      BY <1>1, <2>2 DEF Create, Conflict, RequestStates
    <3> QED
      BY <2>2, <3>1, <1>a
  <2> QED
    BY <1>1, <2>1, <2>2 DEF Create
<1>2. ASSUME NEW q \in Requests, NEW o \in Ops, Update(q, o)
      PROVE  AppliedInv'
  <2>1. CASE Apply(o) /\ req' = [req EXCEPT ![q].pc = "accept"]
    <3>1. /\ log' = log /\ done \subseteq done' /\ o \in done' /\ IsCurrent(q, o)
          /\ \A p \in Requests : p # q => req'[p] = req[p]
          /\ req'[q].todo = req[q].todo
      BY <1>2, <2>1 DEF Update, Apply, RequestStates
    <3> QED
      BY <3>1, <1>b
  <2>2. CASE req' = [req EXCEPT ![q] = Stale(q, o)] /\ UNCHANGED <<rec, done>>
    <3>1. /\ log' = log /\ \A p \in Requests : p # q => req'[p] = req[p]
          /\ req'[q].pc = "reject"
      BY <1>2, <2>2 DEF Update, Stale, RequestStates
    <3> QED
      BY <2>2, <3>1, <1>a
  <2> QED
    BY <1>2, <2>1, <2>2 DEF Update
<1>3. ASSUME NEW q \in Requests, NEW o \in Ops, LogOp(q, o)
      PROVE  AppliedInv'
  <2> DEFINE s == IF req[q].pc = "accept" THEN "accepted" ELSE "rejected"
  <2>1. done' = done /\ req'[q].pc = "lookup" /\ \A p \in Requests : p # q => req'[p] = req[p]
    BY <1>3 DEF LogOp, RequestStates
  <2>2. s = "accepted" => o \in done
    BY <1>3 DEF LogOp, AppliedInv
  <2>3. AcceptedIsApplied'
    <3>1. CASE log' = log
      BY <2>1, <3>1 DEF AppliedInv, AcceptedIsApplied
    <3>2. CASE log' = Append(log, [op |-> o, status |-> s])
      <4> SUFFICES ASSUME NEW c \in 1..Len(log'), log'[c].status = "accepted"
                   PROVE  log'[c].op \in done
        BY <2>1 DEF AcceptedIsApplied
      <4>1. CASE c = Len(log) + 1
        <5>1. log'[c] = [op |-> o, status |-> s]
          BY <3>2, <4>1
        <5> QED
          BY <2>2, <5>1
      <4>2. CASE c # Len(log) + 1
        <5>1. c \in 1..Len(log) /\ log'[c] = log[c]
          BY <3>2, <4>2
        <5> QED
          BY <5>1 DEF AppliedInv, AcceptedIsApplied
      <4> QED
        BY <4>1, <4>2
    <3> QED
      BY <1>3, <3>1, <3>2 DEF LogOp, Insert
  <2> QED
    BY <2>1, <2>3 DEF AppliedInv, IsCurrent
<1>4. ASSUME NEW q \in Requests,
             \/ \E B \in SUBSET Ops : Push(q, B)
             \/ \E o \in Ops : Lookup(q, o) \/ Read(q, o) \/ Compare(q, o)
             \/ Refuse(q) \/ Watermark(q) \/ Ticket(q) \/ Respond(q) \/ Die(q)
      PROVE  AppliedInv'
  <2>1. log' = log /\ done' = done
    BY <1>4 DEF Push, Lookup, Read, Compare, Refuse, Watermark, Ticket, Respond, Die
  <2>2. \A p \in Requests : p # q => req'[p] = req[p]
    BY <1>4 DEF Push, Lookup, Read, Compare, Refuse, Watermark, Ticket, Respond, Die
  <2>3. ASSUME NEW o \in Ops, Lookup(q, o) \/ Read(q, o) \/ Compare(q, o)
        PROVE  req'[q].pc # "accept"
    <3>1. CASE Lookup(q, o)
      BY <3>1 DEF Lookup, RequestStates
    <3>2. CASE Read(q, o)
      BY <3>2 DEF Read, RequestStates
    <3>3. CASE Compare(q, o)
      BY <3>3 DEF Compare, Stale, RequestStates
    <3> QED
      BY <2>3, <3>1, <3>2, <3>3
  <2>5. ASSUME NEW B \in SUBSET Ops, Push(q, B)
        PROVE  req'[q].pc # "accept"
    BY <2>5 DEF Push, IdleRequest
  <2>4. req'[q].pc # "accept"
    BY <1>4, <2>3, <2>5 DEF Refuse, Watermark, Ticket, Respond, Die, IdleRequest, RequestStates
  <2> QED
    BY <1>a, <2>1, <2>2, <2>4
<1>5. CASE \/ \E r \in Records : EditRecord(r)
           \/ \E t \in 1..Len(tickets) : Abandon(t) \/ Open(t)
           \/ \E o \in Ops : ReadProposal(o) \/ ApplyProposal(o)
           \/ Resolve \/ GiveUp
  BY <1>c, <1>5 DEF EditRecord, Abandon, Open, ReadProposal, ApplyProposal, Resolve, GiveUp
<1>6. CASE UNCHANGED vars
  BY <1>c, <1>6 DEF vars
<1> QED
  BY <1>1, <1>2, <1>3, <1>4, <1>5, <1>6 DEF Next

\* Only applied operations are in the log as accepted, whatever overlaps or dies.
THEOREM AcceptedIsAppliedHolds == Spec => []AcceptedIsApplied
<1>1. Init => AppliedInv
  BY DEF Init, AppliedInv, AcceptedIsApplied, IdleRequest
<1>2. AppliedInv => AcceptedIsApplied
  BY DEF AppliedInv
<1> QED
  BY <1>1, <1>2, CoreTypeCorrect, AppliedStep, PTL DEF Spec

-----------------------------------------------------------------------------
\* o is in the log at or below cursor n.
InLog(o, n) == \E c \in 1..Len(log) : log[c].op = o /\ c <= n

\* What a request has handled lies at or below its cursor, and, once it has written
\* the watermark, at or below the watermark.
Handled(q) ==
    /\ req[q].pc # "idle" => \A o \in req[q].batch \ req[q].todo : InLog(o, req[q].cursor)
    /\ req[q].pc \in {"ticket", "respond"} =>
         \A o \in req[q].batch : InLog(o, watermark[ClientOf[o]])

CoverInv == WatermarkCovers /\ \A q \in Requests : Handled(q)

LEMMA LogFacts ==
    ASSUME CoreType, NEW o \in Ops, NEW s \in {"accepted", "rejected"}, Insert(o, s)
    PROVE  /\ log' \in Seq(LogRows) /\ Len(log) \in Nat /\ Len(log') \in Nat
           /\ Len(log) <= Len(log')
           /\ \A c \in 1..Len(log) : log'[c] = log[c]
           /\ Cursor(o)' \in 1..Len(log') /\ log'[Cursor(o)'].op = o
<1> DEFINE row == [op |-> o, status |-> s]
<1> USE DEF CoreType
<1>1. row \in LogRows
  BY DEF LogRows
<1>2. log' \in Seq(LogRows) /\ Len(log) \in Nat /\ Len(log') \in Nat
  BY <1>1 DEF Insert
<1>3. Len(log) <= Len(log') /\ \A c \in 1..Len(log) : log'[c] = log[c]
  BY <1>1 DEF Insert
<1>4. \E c \in 1..Len(log') : log'[c].op = o
  <2>1. CASE Logged(o)
    BY <2>1 DEF Insert, Logged
  <2>2. CASE ~Logged(o)
    <3>1. log' = Append(log, row)
      BY <2>2 DEF Insert
    <3>2. Len(log') = Len(log) + 1 /\ log'[Len(log) + 1] = row
      BY <1>1, <3>1
    <3> QED
      BY <3>2, <1>2
  <2> QED
    BY <2>1, <2>2
<1>5. Cursor(o)' \in 1..Len(log') /\ log'[Cursor(o)'].op = o
  BY <1>4 DEF Cursor
<1> QED
  BY <1>2, <1>3, <1>5

\* Rows stay where they are.
LEMMA InLogGrows ==
    ASSUME CoreType, NEW o \in Ops, NEW n \in Nat, InLog(o, n),
           Len(log') \in Nat, Len(log) <= Len(log'), \A c \in 1..Len(log) : log'[c] = log[c]
    PROVE  (\E c \in 1..Len(log') : log'[c].op = o /\ c <= n)
<1>1. Len(log) \in Nat
  BY DEF CoreType
<1>2. PICK c \in 1..Len(log) : log[c].op = o /\ c <= n
  BY DEF InLog
<1>3. c \in 1..Len(log') /\ log'[c].op = o /\ c <= n
  BY <1>1, <1>2
<1> QED
  BY <1>3

LEMMA CoverStep == CoreType /\ CoverInv /\ [Next]_vars => CoverInv'
<1> SUFFICES ASSUME CoreType, CoverInv, [Next]_vars
             PROVE  CoverInv'
  OBVIOUS
<1> USE DEF CoreType
<1>0. \A q \in Requests : /\ req[q] \in RequestStates /\ req[q].cursor \in Nat
                          /\ req[q].batch \subseteq Ops /\ req[q].todo \subseteq Ops
  BY DEF RequestStates
<1>t. \A o \in Ops : ClientOf[o] \in Clients /\ watermark[ClientOf[o]] \in Nat
  BY OpsAssumption
\* A step of q that writes neither the log nor a watermark nor a client's store.
<1>a. ASSUME NEW q \in Requests, UNCHANGED <<log, watermark, client>>,
             \A p \in Requests : p # q => req'[p] = req[p],
             Handled(q)'
      PROVE  CoverInv'
  <2>1. WatermarkCovers'
    BY <1>a DEF CoverInv, WatermarkCovers
  <2>2. ASSUME NEW p \in Requests
        PROVE  Handled(p)'
    <3>1. CASE p = q
      BY <1>a, <3>1
    <3>2. CASE p # q
      <4>1. Handled(p) /\ req'[p] = req[p] /\ log' = log /\ watermark' = watermark
        BY <1>a, <3>2 DEF CoverInv
      <4> QED
        BY <4>1 DEF Handled, InLog
    <3> QED
      BY <3>1, <3>2
  <2> QED
    BY <2>1, <2>2 DEF CoverInv
\* The same, of a request that is not near its end and handles nothing.
<1>b. ASSUME NEW q \in Requests, UNCHANGED <<log, watermark, client>>,
             \A p \in Requests : p # q => req'[p] = req[p],
             req[q].pc # "idle", req'[q].pc \notin {"idle", "ticket", "respond"},
             req'[q].batch = req[q].batch, req'[q].todo = req[q].todo,
             req'[q].cursor = req[q].cursor
      PROVE  CoverInv'
  <2>1. \A o \in req[q].batch \ req[q].todo :
            \E c \in 1..Len(log) : log[c].op = o /\ c <= req[q].cursor
    BY <1>b DEF CoverInv, Handled, InLog
  <2>2. log' = log
    BY <1>b
  <2>3. Handled(q)'
    BY <1>b, <2>1, <2>2 DEF Handled, InLog
  <2> QED
    BY <1>a, <1>b, <2>3
<1>c. ASSUME UNCHANGED <<log, watermark, client, req>>
      PROVE  CoverInv'
  BY <1>c DEF CoverInv, WatermarkCovers, Handled, InLog
<1>1. ASSUME NEW q \in Requests, NEW B \in SUBSET Ops, Push(q, B)
      PROVE  CoverInv'
  <2>1. Handled(q)'
    BY <1>1 DEF Push, Handled, IdleRequest
  <2> QED
    BY <1>a, <1>1, <2>1 DEF Push
<1>2. ASSUME NEW q \in Requests, NEW o \in Ops, Lookup(q, o)
      PROVE  CoverInv'
  <2>1. CASE Logged(o)
    <3>1. Cursor(o) \in 1..Len(log) /\ log[Cursor(o)].op = o
      BY <2>1, RowInLog
    <3>2. /\ req'[q].pc = "lookup" /\ req'[q].todo = req[q].todo \ {o}
          /\ req'[q].batch = req[q].batch
          /\ req'[q].cursor = Later(req[q].cursor, Cursor(o))
      BY <1>2, <2>1, <1>0 DEF Lookup, RequestStates
    <3>3. req'[q].cursor >= req[q].cursor /\ req'[q].cursor >= Cursor(o) /\ req'[q].cursor \in Nat
      BY <3>1, <3>2, <1>0 DEF Later
    <3>4. ASSUME NEW p \in req[q].batch, p \notin req[q].todo \ {o}
          PROVE  \E c \in 1..Len(log) : log[c].op = p /\ c <= req'[q].cursor
      <4>1. CASE p = o
        BY <3>1, <3>3, <4>1
      <4>2. CASE p # o
        <5>1. InLog(p, req[q].cursor)
          BY <3>4, <4>2, <1>2 DEF CoverInv, Handled, Lookup
        <5> QED
          BY <5>1, <3>3, <1>0 DEF InLog
      <4> QED
        BY <4>1, <4>2
    <3>5. log' = log
      BY <1>2 DEF Lookup
    <3>6. Handled(q)'
      BY <3>2, <3>4, <3>5 DEF Handled, InLog
    <3> QED
      BY <1>a, <1>2, <3>6 DEF Lookup
  <2>2. CASE ~Logged(o)
    BY <1>b, <1>2, <2>2, <1>0 DEF Lookup, RequestStates
  <2> QED
    BY <2>1, <2>2
<1>3. ASSUME NEW q \in Requests, NEW o \in Ops, Read(q, o)
      PROVE  CoverInv'
  BY <1>b, <1>3, <1>0 DEF Read, RequestStates
<1>4. ASSUME NEW q \in Requests, NEW o \in Ops, Create(q, o)
      PROVE  CoverInv'
  <2>1. /\ req[q].pc = "check" /\ UNCHANGED <<log, watermark, client>>
        /\ \A p \in Requests : p # q => req'[p] = req[p]
    BY <1>4 DEF Create
  <2>2. req'[q] = [req[q] EXCEPT !.pc = "accept"] \/ req'[q] = Conflict(q, o)
    BY <1>4 DEF Create
  <2>3. /\ req'[q].pc \in {"accept", "reject"} /\ req'[q].batch = req[q].batch
        /\ req'[q].todo = req[q].todo /\ req'[q].cursor = req[q].cursor
    BY <2>2, <1>0 DEF Conflict, RequestStates
  <2> QED
    BY <1>b, <2>1, <2>3
<1>5. ASSUME NEW q \in Requests, NEW o \in Ops, Compare(q, o)
      PROVE  CoverInv'
  <2>1. /\ req[q].pc = "check" /\ UNCHANGED <<log, watermark, client>>
        /\ \A p \in Requests : p # q => req'[p] = req[p]
    BY <1>5 DEF Compare
  <2>2. \/ req'[q] = [req[q] EXCEPT !.pc = "update"]
        \/ req'[q] = [req[q] EXCEPT !.pc = "reject"] \/ req'[q] = Stale(q, o)
    BY <1>5 DEF Compare
  <2>3. /\ req'[q].pc \in {"update", "reject"} /\ req'[q].batch = req[q].batch
        /\ req'[q].todo = req[q].todo /\ req'[q].cursor = req[q].cursor
    BY <2>2, <1>0 DEF Stale, RequestStates
  <2> QED
    BY <1>b, <2>1, <2>3
<1>6. ASSUME NEW q \in Requests, NEW o \in Ops, Update(q, o)
      PROVE  CoverInv'
  <2>1. /\ req[q].pc = "update" /\ UNCHANGED <<log, watermark, client>>
        /\ \A p \in Requests : p # q => req'[p] = req[p]
    BY <1>6 DEF Update
  <2>2. req'[q] = [req[q] EXCEPT !.pc = "accept"] \/ req'[q] = Stale(q, o)
    BY <1>6 DEF Update
  <2>3. /\ req'[q].pc \in {"accept", "reject"} /\ req'[q].batch = req[q].batch
        /\ req'[q].todo = req[q].todo /\ req'[q].cursor = req[q].cursor
    BY <2>2, <1>0 DEF Stale, RequestStates
  <2> QED
    BY <1>b, <2>1, <2>3
<1>7. ASSUME NEW q \in Requests, Refuse(q)
      PROVE  CoverInv'
  BY <1>b, <1>7, <1>0 DEF Refuse, RequestStates
<1>8. ASSUME NEW q \in Requests, NEW o \in Ops, LogOp(q, o)
      PROVE  CoverInv'
  <2> DEFINE s == IF req[q].pc = "accept" THEN "accepted" ELSE "rejected"
  <2>1. /\ log' \in Seq(LogRows) /\ Len(log) \in Nat /\ Len(log') \in Nat
        /\ Len(log) <= Len(log') /\ \A c \in 1..Len(log) : log'[c] = log[c]
        /\ Cursor(o)' \in 1..Len(log') /\ log'[Cursor(o)'].op = o
    BY <1>8, LogFacts DEF LogOp
  <2>2. /\ req'[q].pc = "lookup" /\ req'[q].todo = req[q].todo \ {o}
        /\ req'[q].batch = req[q].batch
        /\ req'[q].cursor = Later(req[q].cursor, Cursor(o)')
        /\ \A p \in Requests : p # q => req'[p] = req[p]
        /\ watermark' = watermark /\ client' = client
    BY <1>8, <1>0 DEF LogOp, RequestStates
  <2>3. req'[q].cursor >= req[q].cursor /\ req'[q].cursor >= Cursor(o)' /\ req'[q].cursor \in Nat
    BY <2>1, <2>2, <1>0 DEF Later
  <2>4. WatermarkCovers'
    <3> SUFFICES ASSUME NEW p \in Ops, client[p] # "pending"
                 PROVE  \E c \in 1..Len(log') : log'[c].op = p /\ c <= watermark[ClientOf[p]]
      BY <2>2 DEF WatermarkCovers
    <3>1. InLog(p, watermark[ClientOf[p]])
      BY DEF CoverInv, WatermarkCovers, InLog
    <3> QED
      BY <2>1, <3>1, <1>t, InLogGrows
  <2>5. ASSUME NEW r \in Requests
        PROVE  Handled(r)'
    <3>1. CASE r = q
      <4> SUFFICES ASSUME NEW p \in req[q].batch, p \notin req[q].todo \ {o}
                   PROVE  \E c \in 1..Len(log') : log'[c].op = p /\ c <= req'[q].cursor
        BY <2>2, <3>1 DEF Handled, InLog
      <4>1. CASE p = o
        BY <2>1, <2>3, <4>1
      <4>2. CASE p # o
        <5>1. InLog(p, req[q].cursor) /\ p \in Ops
          BY <4>2, <1>8, <1>0 DEF CoverInv, Handled, LogOp
        <5>2. InLog(p, req'[q].cursor)
          BY <2>1, <2>3, <5>1, <1>0 DEF InLog
        <5> QED
          BY <2>1, <2>3, <5>1, <5>2, InLogGrows
      <4> QED
        BY <4>1, <4>2
    <3>2. CASE r # q
      <4>1. req'[r] = req[r] /\ Handled(r)
        BY <2>2, <3>2 DEF CoverInv
      <4>2. ASSUME NEW p \in Ops, NEW n \in Nat, InLog(p, n)
            PROVE  \E c \in 1..Len(log') : log'[c].op = p /\ c <= n
        BY <2>1, <4>2, InLogGrows
      <4>3. ASSUME req[r].pc # "idle", NEW p \in req[r].batch \ req[r].todo
            PROVE  \E c \in 1..Len(log') : log'[c].op = p /\ c <= req[r].cursor
        BY <4>1, <4>2, <4>3, <1>0 DEF Handled
      <4>4. ASSUME req[r].pc \in {"ticket", "respond"}, NEW p \in req[r].batch
            PROVE  \E c \in 1..Len(log') : log'[c].op = p /\ c <= watermark[ClientOf[p]]
        BY <4>1, <4>2, <4>4, <1>0, <1>t DEF Handled
      <4> QED
        BY <2>2, <4>1, <4>3, <4>4 DEF Handled, InLog
    <3> QED
      BY <3>1, <3>2
  <2> QED
    BY <2>4, <2>5 DEF CoverInv
<1>9. ASSUME NEW q \in Requests, Watermark(q)
      PROVE  CoverInv'
  <2>1. /\ log' = log /\ client' = client /\ req[q].pc = "lookup" /\ req[q].todo = {}
        /\ req'[q].pc = "ticket" /\ req'[q].batch = req[q].batch /\ req'[q].todo = {}
        /\ req'[q].cursor = req[q].cursor
        /\ \A p \in Requests : p # q => req'[p] = req[p]
    BY <1>9, <1>0 DEF Watermark, RequestStates
  <2>2. \A o \in Ops : /\ watermark'[ClientOf[o]] \in Nat
                       /\ watermark[ClientOf[o]] <= watermark'[ClientOf[o]]
                       /\ o \in req[q].batch => req[q].cursor <= watermark'[ClientOf[o]]
    BY <1>9, <1>0, <1>t DEF Watermark, NewWatermark, Later
  <2>3. ASSUME NEW o \in Ops, InLog(o, watermark[ClientOf[o]])
        PROVE  \E c \in 1..Len(log) : log[c].op = o /\ c <= watermark'[ClientOf[o]]
    BY <2>2, <2>3, <1>t DEF InLog
  <2>4. ASSUME NEW o \in req[q].batch
        PROVE  \E c \in 1..Len(log) : log[c].op = o /\ c <= watermark'[ClientOf[o]]
    <3>1. InLog(o, req[q].cursor) /\ o \in Ops
      BY <2>1, <1>0 DEF CoverInv, Handled
    <3> QED
      BY <2>2, <3>1, <1>0 DEF InLog
  <2>5. WatermarkCovers'
    BY <2>1, <2>3 DEF CoverInv, WatermarkCovers, InLog
  <2>6. ASSUME NEW p \in Requests
        PROVE  Handled(p)'
    <3>1. CASE p = q
      BY <2>1, <2>4, <3>1 DEF CoverInv, Handled, InLog
    <3>2. CASE p # q
      BY <2>1, <2>3, <3>2, <1>0 DEF CoverInv, Handled, InLog
    <3> QED
      BY <3>1, <3>2
  <2> QED
    BY <2>5, <2>6 DEF CoverInv
<1>10. ASSUME NEW q \in Requests, Ticket(q)
       PROVE  CoverInv'
  <2>1. /\ log' = log /\ watermark' = watermark /\ req[q].pc = "ticket"
        /\ req'[q] = [req[q] EXCEPT !.pc = "respond"]
    BY <1>10 DEF Ticket
  <2>2. /\ req'[q].pc = "respond" /\ req'[q].batch = req[q].batch
        /\ req'[q].todo = req[q].todo /\ req'[q].cursor = req[q].cursor
    BY <2>1, <1>0 DEF RequestStates
  <2>3. Handled(q)'
    BY <2>1, <2>2 DEF CoverInv, Handled, InLog
  <2> QED
    BY <1>a, <1>10, <2>3 DEF Ticket
<1>11. ASSUME NEW q \in Requests, Respond(q)
       PROVE  CoverInv'
  <2>1. log' = log /\ watermark' = watermark
    BY <1>11 DEF Respond
  <2>2. WatermarkCovers'
    <3> SUFFICES ASSUME NEW o \in Ops, client'[o] # "pending"
                 PROVE  InLog(o, watermark[ClientOf[o]])
      BY <2>1 DEF WatermarkCovers, InLog
    <3>1. CASE o \in req[q].batch
      BY <1>11, <3>1 DEF Respond, CoverInv, Handled
    <3>2. CASE o \notin req[q].batch
      <4>1. client'[o] = client[o]
        BY <1>11, <3>2 DEF Respond
      <4> QED
        BY <4>1 DEF CoverInv, WatermarkCovers, InLog
    <3> QED
      BY <3>1, <3>2
  <2>3. ASSUME NEW p \in Requests
        PROVE  Handled(p)'
    BY <1>11, <2>1 DEF Respond, CoverInv, Handled, InLog, IdleRequest
  <2> QED
    BY <2>2, <2>3 DEF CoverInv
<1>12. ASSUME NEW q \in Requests, Die(q)
       PROVE  CoverInv'
  <2>1. Handled(q)'
    BY <1>12 DEF Die, Handled, IdleRequest
  <2> QED
    BY <1>a, <1>12, <2>1 DEF Die
<1>13. CASE \/ \E r \in Records : EditRecord(r)
            \/ \E t \in 1..Len(tickets) : Abandon(t) \/ Open(t)
            \/ \E o \in Ops : ReadProposal(o) \/ ApplyProposal(o)
            \/ Resolve \/ GiveUp
  BY <1>c, <1>13 DEF EditRecord, Abandon, Open, ReadProposal, ApplyProposal, Resolve, GiveUp
<1>14. CASE UNCHANGED vars
  BY <1>c, <1>14 DEF vars
<1> QED
  BY <1>1, <1>2, <1>3, <1>4, <1>5, <1>6, <1>7, <1>8, <1>9, <1>10, <1>11, <1>12, <1>13, <1>14
     DEF Next

\* What a client has heard of is in the log, at or below its watermark.
THEOREM WatermarkCoversHolds == Spec => []WatermarkCovers
<1>1. Init => CoverInv
  BY DEF Init, CoverInv, WatermarkCovers, Handled, IdleRequest
<1>2. CoverInv => WatermarkCovers
  BY DEF CoverInv
<1> QED
  BY <1>1, <1>2, CoreTypeCorrect, CoverStep, PTL DEF Spec

-----------------------------------------------------------------------------
HasTicket(o) == \E t \in 1..Len(tickets) : o \in tickets[t].stale

\* A request has written the ticket of its stale operations before it responds.
TicketInv ==
    /\ StaleHasTicket
    /\ \A q \in Requests : req[q].pc = "respond" => \A o \in req[q].stale : HasTicket(o)

\* No step takes a ticket away.
LEMMA TicketsStay ==
    ASSUME CoreType, [Next]_vars
    PROVE  \A o \in Ops : HasTicket(o) => HasTicket(o)'
<1> USE DEF CoreType
<1>a. ASSUME tickets' = tickets
      PROVE  \A o \in Ops : HasTicket(o) => HasTicket(o)'
  BY <1>a DEF HasTicket
<1>b. ASSUME NEW x \in 1..Len(tickets), NEW s \in {"open", "resolved", "abandoned"},
             SetTicket(x, s)
      PROVE  \A o \in Ops : HasTicket(o) => HasTicket(o)'
  <2>1. tickets' = [tickets EXCEPT ![x].status = s] /\ Len(tickets') = Len(tickets)
    BY <1>b DEF SetTicket
  <2>2. \A t \in 1..Len(tickets) : tickets'[t].stale = tickets[t].stale
    BY <2>1 DEF Tickets
  <2> QED
    BY <2>1, <2>2 DEF HasTicket
<1>c. ASSUME NEW row \in Tickets, tickets' = Append(tickets, row)
      PROVE  \A o \in Ops : HasTicket(o) => HasTicket(o)'
  <2>1. Len(tickets) \in Nat /\ Len(tickets') = Len(tickets) + 1
        /\ \A t \in 1..Len(tickets) : tickets'[t] = tickets[t]
    BY <1>c
  <2>2. \A t \in 1..Len(tickets) : t \in 1..Len(tickets')
    BY <2>1
  <2> QED
    BY <2>1, <2>2 DEF HasTicket
<1>1. ASSUME NEW q \in Requests, Ticket(q)
      PROVE  \A o \in Ops : HasTicket(o) => HasTicket(o)'
  <2>1. [stale |-> req[q].stale, status |-> "open"] \in Tickets
    BY DEF RequestStates, Tickets
  <2> QED
    BY <1>1, <1>a, <1>c, <2>1 DEF Ticket
<1>2. ASSUME NEW x \in 1..Len(tickets), Abandon(x)
      PROVE  \A o \in Ops : HasTicket(o) => HasTicket(o)'
  BY <1>2, <1>b DEF Abandon
<1>3. CASE Resolve
  <2>1. CASE tickets' = tickets
    BY <2>1, <1>a
  <2>2. CASE SetTicket(operator.ticket, "resolved")
    <3>1. tickets' = [tickets EXCEPT ![operator.ticket].status = "resolved"]
      BY <2>2 DEF SetTicket
    <3>2. Len(tickets') = Len(tickets)
          /\ \A t \in 1..Len(tickets) : tickets'[t].stale = tickets[t].stale
      BY <3>1 DEF Tickets
    <3> QED
      BY <3>2 DEF HasTicket
  <2> QED
    BY <1>3, <2>1, <2>2 DEF Resolve
<1>4. CASE /\ [Next]_vars /\ ~Resolve /\ \A q \in Requests : ~Ticket(q)
           /\ \A x \in 1..Len(tickets) : ~Abandon(x)
  <2>1. ASSUME NEW q \in Requests
        PROVE  /\ \A B \in SUBSET Ops : Push(q, B) => tickets' = tickets
               /\ \A o \in Ops : Lookup(q, o) \/ Read(q, o) \/ Create(q, o) \/ Compare(q, o)
                                 \/ Update(q, o) \/ LogOp(q, o) => tickets' = tickets
               /\ Refuse(q) \/ Watermark(q) \/ Respond(q) \/ Die(q) => tickets' = tickets
    <3>1. \A B \in SUBSET Ops : Push(q, B) => tickets' = tickets
      BY DEF Push
    <3>2. \A o \in Ops : Lookup(q, o) \/ Read(q, o) \/ LogOp(q, o) => tickets' = tickets
      BY DEF Lookup, Read, LogOp
    <3>3. \A o \in Ops : Create(q, o) \/ Compare(q, o) \/ Update(q, o) => tickets' = tickets
      BY DEF Create, Compare, Update
    <3>4. Refuse(q) \/ Watermark(q) \/ Respond(q) \/ Die(q) => tickets' = tickets
      BY DEF Refuse, Watermark, Respond, Die
    <3> QED
      BY <3>1, <3>2, <3>3, <3>4
  <2>2. \A r \in Records : EditRecord(r) => tickets' = tickets
    BY DEF EditRecord
  <2>3. \A t \in 1..Len(tickets) : Open(t) => tickets' = tickets
    BY DEF Open
  <2>4. \A o \in Ops : ReadProposal(o) \/ ApplyProposal(o) => tickets' = tickets
    BY DEF ReadProposal, ApplyProposal
  <2>5. GiveUp \/ UNCHANGED vars => tickets' = tickets
    BY DEF GiveUp, vars
  <2>6. tickets' = tickets
    BY <1>4, <2>1, <2>2, <2>3, <2>4, <2>5 DEF Next
  <2> QED
    BY <1>a, <2>6
<1> QED
  BY <1>1, <1>2, <1>3, <1>4

LEMMA TicketStep == CoreType /\ TicketInv /\ [Next]_vars => TicketInv'
<1> SUFFICES ASSUME CoreType, TicketInv, [Next]_vars
             PROVE  TicketInv'
  OBVIOUS
<1> USE DEF CoreType
<1>0. \A o \in Ops : HasTicket(o) => HasTicket(o)'
  BY TicketsStay
<1>s. \A q \in Requests : req[q] \in RequestStates /\ req[q].stale \subseteq Ops
  BY DEF RequestStates
\* A step of q that is not its response and does not bring it there.
<1>a. ASSUME NEW q \in Requests, client' = client,
             \A p \in Requests : p # q => req'[p] = req[p],
             req'[q].pc # "respond" \/ \A o \in req'[q].stale : HasTicket(o)'
      PROVE  TicketInv'
  <2>1. StaleHasTicket'
    BY <1>a, <1>0 DEF TicketInv, StaleHasTicket, HasTicket
  <2>2. ASSUME NEW p \in Requests, req'[p].pc = "respond", NEW o \in req'[p].stale
        PROVE  HasTicket(o)'
    <3>1. CASE p = q
      BY <1>a, <2>2, <3>1
    <3>2. CASE p # q
      BY <1>a, <2>2, <3>2, <1>0, <1>s DEF TicketInv
    <3> QED
      BY <3>1, <3>2
  <2> QED
    BY <2>1, <2>2 DEF TicketInv
<1>b. ASSUME UNCHANGED <<client, req>>
      PROVE  TicketInv'
  <2>1. StaleHasTicket'
    BY <1>b, <1>0 DEF TicketInv, StaleHasTicket, HasTicket
  <2>2. ASSUME NEW p \in Requests, req'[p].pc = "respond", NEW o \in req'[p].stale
        PROVE  HasTicket(o)'
    BY <1>b, <2>2, <1>0, <1>s DEF TicketInv
  <2> QED
    BY <2>1, <2>2 DEF TicketInv
<1>1. ASSUME NEW q \in Requests, NEW B \in SUBSET Ops, Push(q, B)
      PROVE  TicketInv'
  <2>1. req'[q].pc = "lookup"
    BY <1>1 DEF Push, IdleRequest
  <2> QED
    BY <1>a, <1>1, <2>1 DEF Push
<1>2. ASSUME NEW q \in Requests, NEW o \in Ops, Lookup(q, o)
      PROVE  TicketInv'
  <2>1. req'[q].pc # "respond"
    BY <1>2, <1>s DEF Lookup, RequestStates
  <2> QED
    BY <1>a, <1>2, <2>1 DEF Lookup
<1>3. ASSUME NEW q \in Requests, NEW o \in Ops, Read(q, o)
      PROVE  TicketInv'
  <2>1. req'[q].pc # "respond"
    BY <1>3, <1>s DEF Read, RequestStates
  <2> QED
    BY <1>a, <1>3, <2>1 DEF Read
<1>4. ASSUME NEW q \in Requests, NEW o \in Ops, Create(q, o)
      PROVE  TicketInv'
  <2>1. req'[q].pc # "respond"
    BY <1>4, <1>s DEF Create, Conflict, RequestStates
  <2> QED
    BY <1>a, <1>4, <2>1 DEF Create
<1>5. ASSUME NEW q \in Requests, NEW o \in Ops, Compare(q, o)
      PROVE  TicketInv'
  <2>1. req'[q].pc # "respond"
    BY <1>5, <1>s DEF Compare, Stale, RequestStates
  <2> QED
    BY <1>a, <1>5, <2>1 DEF Compare
<1>6. ASSUME NEW q \in Requests, NEW o \in Ops, Update(q, o)
      PROVE  TicketInv'
  <2>1. req'[q].pc # "respond"
    BY <1>6, <1>s DEF Update, Stale, RequestStates
  <2> QED
    BY <1>a, <1>6, <2>1 DEF Update
<1>7. ASSUME NEW q \in Requests, Refuse(q)
      PROVE  TicketInv'
  <2>1. req'[q].pc # "respond"
    BY <1>7, <1>s DEF Refuse, RequestStates
  <2> QED
    BY <1>a, <1>7, <2>1 DEF Refuse
<1>8. ASSUME NEW q \in Requests, NEW o \in Ops, LogOp(q, o)
      PROVE  TicketInv'
  <2>1. req'[q].pc # "respond"
    BY <1>8, <1>s DEF LogOp, RequestStates
  <2> QED
    BY <1>a, <1>8, <2>1 DEF LogOp
<1>9. ASSUME NEW q \in Requests, Watermark(q)
      PROVE  TicketInv'
  <2>1. req'[q].pc # "respond"
    BY <1>9, <1>s DEF Watermark, RequestStates
  <2> QED
    BY <1>a, <1>9, <2>1 DEF Watermark
<1>10. ASSUME NEW q \in Requests, Ticket(q)
       PROVE  TicketInv'
  <2> DEFINE row == [stale |-> req[q].stale, status |-> "open"]
  <2>1. row \in Tickets /\ row.stale = req[q].stale
    BY <1>s DEF Tickets
  <2>2. req'[q].stale = req[q].stale /\ client' = client
        /\ \A p \in Requests : p # q => req'[p] = req[p]
    BY <1>10, <1>s DEF Ticket, RequestStates
  <2>3. ASSUME NEW o \in req[q].stale
        PROVE  HasTicket(o)'
    <3>1. tickets' = Append(tickets, row)
      BY <1>10, <2>3 DEF Ticket
    <3>2. Len(tickets') = Len(tickets) + 1 /\ tickets'[Len(tickets) + 1] = row
          /\ Len(tickets) \in Nat
      BY <2>1, <3>1
    <3>3. Len(tickets) + 1 \in 1..Len(tickets')
      BY <3>2
    <3> QED
      BY <2>1, <2>3, <3>2, <3>3 DEF HasTicket
  <2> QED
    BY <1>a, <2>2, <2>3
<1>11. ASSUME NEW q \in Requests, Respond(q)
       PROVE  TicketInv'
  <2>1. req'[q].pc = "idle" /\ \A p \in Requests : p # q => req'[p] = req[p]
    BY <1>11 DEF Respond, IdleRequest
  <2>2. ASSUME NEW o \in Ops, client'[o] = "stale"
        PROVE  HasTicket(o)'
    <3>1. CASE o \in req[q].batch
      <4>1. o \in req[q].stale
        BY <1>11, <2>2, <3>1 DEF Respond
      <4> QED
        BY <1>11, <4>1, <1>0 DEF Respond, TicketInv
    <3>2. CASE o \notin req[q].batch
      <4>1. client[o] = "stale"
        BY <1>11, <2>2, <3>2 DEF Respond
      <4> QED
        BY <4>1, <1>0 DEF TicketInv, StaleHasTicket, HasTicket
    <3> QED
      BY <3>1, <3>2
  <2>3. ASSUME NEW p \in Requests, req'[p].pc = "respond", NEW o \in req'[p].stale
        PROVE  HasTicket(o)'
    BY <2>1, <2>3, <1>0, <1>s DEF TicketInv
  <2> QED
    BY <2>2, <2>3 DEF TicketInv, StaleHasTicket, HasTicket
<1>12. ASSUME NEW q \in Requests, Die(q)
       PROVE  TicketInv'
  <2>1. req'[q].pc = "idle"
    BY <1>12 DEF Die, IdleRequest
  <2> QED
    BY <1>a, <1>12, <2>1 DEF Die
<1>13. CASE \/ \E r \in Records : EditRecord(r)
            \/ \E t \in 1..Len(tickets) : Abandon(t) \/ Open(t)
            \/ \E o \in Ops : ReadProposal(o) \/ ApplyProposal(o)
            \/ Resolve \/ GiveUp
  BY <1>b, <1>13 DEF EditRecord, Abandon, Open, ReadProposal, ApplyProposal, Resolve, GiveUp
<1>14. CASE UNCHANGED vars
  BY <1>b, <1>14 DEF vars
<1> QED
  BY <1>1, <1>2, <1>3, <1>4, <1>5, <1>6, <1>7, <1>8, <1>9, <1>10, <1>11, <1>12, <1>13, <1>14
     DEF Next

\* A stale operation a client knows of has a ticket.
THEOREM StaleHasTicketHolds == Spec => []StaleHasTicket
<1>1. Init => TicketInv
  BY DEF Init, TicketInv, StaleHasTicket, IdleRequest
<1>2. TicketInv => StaleHasTicket
  BY DEF TicketInv
<1> QED
  BY <1>1, <1>2, CoreTypeCorrect, TicketStep, PTL DEF Spec

-----------------------------------------------------------------------------
CountType ==
    count \in [pushes : 0..MaxPushes, faults : 0..MaxFaults,
               edits : 0..MaxEdits, looks : 0..MaxLooks]

\* The type invariant of the runs: the core and the bounds.
THEOREM TypeCorrect == Spec => []TypeOK
<1>1. Init => CountType
  BY SizesAssumption DEF Init, CountType
<1>2. CountType /\ [Next]_vars => CountType'
  <2> SUFFICES ASSUME CountType, [Next]_vars
               PROVE  CountType'
    OBVIOUS
  <2> USE SizesAssumption DEF CountType
  <2>1. ASSUME NEW q \in Requests, NEW B \in SUBSET Ops, Push(q, B)
        PROVE  CountType'
    BY <2>1 DEF Push
  <2>2. ASSUME NEW q \in Requests, Die(q)
        PROVE  CountType'
    BY <2>2 DEF Die
  <2>3. ASSUME NEW r \in Records, EditRecord(r)
        PROVE  CountType'
    BY <2>3 DEF EditRecord
  <2>4. ASSUME NEW t \in 1..Len(tickets), Abandon(t) \/ Open(t)
        PROVE  CountType'
    <3>1. count' = [count EXCEPT !.looks = @ + 1] /\ count.looks < MaxLooks
      BY <2>4 DEF Abandon, Open
    <3> QED
      BY <3>1
  <2>5. CASE count' = count
    BY <2>5
  <2>6. ASSUME NEW q \in Requests, NEW o \in Ops,
               Lookup(q, o) \/ Read(q, o) \/ Create(q, o) \/ Compare(q, o) \/ Update(q, o)
               \/ LogOp(q, o)
        PROVE  count' = count
    BY <2>6 DEF Lookup, Read, Create, Compare, Update, LogOp
  <2>7. ASSUME NEW q \in Requests, Refuse(q) \/ Watermark(q) \/ Ticket(q) \/ Respond(q)
        PROVE  count' = count
    BY <2>7 DEF Refuse, Watermark, Ticket, Respond
  <2>8. ASSUME NEW o \in Ops, ReadProposal(o) \/ ApplyProposal(o)
        PROVE  count' = count
    BY <2>8 DEF ReadProposal, ApplyProposal
  <2>9. Resolve \/ GiveUp \/ UNCHANGED vars => count' = count
    BY DEF Resolve, GiveUp, vars
  <2> QED
    BY <2>1, <2>2, <2>3, <2>4, <2>5, <2>6, <2>7, <2>8, <2>9 DEF Next
<1>3. CoreType /\ CountType => TypeOK
  BY DEF CoreType, CountType, TypeOK
<1> QED
  BY <1>1, <1>2, <1>3, CoreTypeCorrect, PTL DEF Spec
=============================================================================
