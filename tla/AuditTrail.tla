----------------------------- MODULE AuditTrail -----------------------------
(* The audit trail of one tenant: the hash chain audit_events, which API     *)
(* requests, jobs of the worker and the dispatchers of the outbox append to  *)
(* (apps/api/src/modules/audit/auditRepo.ts, writeAudit of the worker), and  *)
(* the outbox audit_outbox (outboxRepo.ts, requestOutbox.ts and the fallback *)
(* of plugins/audit.ts).                                                     *)
(*                                                                           *)
(* A request is audited in one of three ways: its business transaction       *)
(* writes an outbox row, or its response is held until an event is written   *)
(* directly and, if that fails, a row is written instead (reads only), or a  *)
(* job of the worker writes its event directly.  A hash is taken to be       *)
(* injective, so that the position of an event stands for its hash.  The     *)
(* processes' clocks are not synchronised: each reading is any time.         *)
(* Events of other kinds that bypass the chain have no hash and are ignored  *)
(* by it; they, the content of events and the metrics are left out.          *)
EXTENDS Naturals, Sequences

CONSTANTS
    Requests,     \* what is audited
    Dispatchers,  \* runs of dispatchAuditOutboxBatch at the same time
    MaxTime,      \* bound: the times clocks show
    MaxFaults     \* bound: how many statements fail and dispatchers die

ASSUME SizesAssumption == MaxTime \in Nat /\ MaxFaults \in Nat
ASSUME ActorsAssumption == Requests \cap Dispatchers = {}

Free == "free"
Actors == Requests \cup Dispatchers
ASSUME FreeAssumption == Free \notin Actors
ASSUME RequestsAssumption == Requests # {}

Times == 0..MaxTime
\* row: the event carries the outbox_id of its request's row.
Events == [ts : Nat, prev : Nat, req : Requests, row : BOOLEAN]
TxStates == [pc : {"idle", "wait", "locked", "write", "ok", "error"},
             req : Requests, ts : Nat, prev : Nat]
IdleTx == [pc |-> "idle", req |-> CHOOSE q \in Requests : TRUE, ts |-> 0, prev |-> 0]
Ways == {"none", "outbox", "read", "work", "fallback", "done"}
RowStatuses == {"none", "queued", "processing", "failed", "succeeded"}

VARIABLES
    events,    \* the hash chain, in the order of the commits; prev 0 is NULL
    lock,      \* who holds the advisory lock of the tenant
    tx,        \* insertAuditEvent of each actor
    way,       \* how each request is audited, and whether that has ended
    outbox,    \* the outbox row of each request
    claimed,   \* the rows each dispatcher has claimed and not finished
    stranded,  \* history: the rows of dispatchers that died
    faults     \* bound: faults so far

vars == <<events, lock, tx, way, outbox, claimed, stranded, faults>>

TypeOK ==
    /\ events \in Seq(Events)
    /\ lock \in Actors \cup {Free}
    /\ tx \in [Actors -> TxStates]
    /\ way \in [Requests -> Ways]
    /\ outbox \in [Requests -> RowStatuses]
    /\ claimed \in [Dispatchers -> SUBSET Requests]
    /\ stranded \subseteq Requests
    /\ faults \in 0..MaxFaults

Init ==
    /\ events = <<>>
    /\ lock = Free
    /\ tx = [a \in Actors |-> IdleTx]
    /\ way = [q \in Requests |-> "none"]
    /\ outbox = [q \in Requests |-> "none"]
    /\ claimed = [d \in Dispatchers |-> {}]
    /\ stranded = {}
    /\ faults = 0

-----------------------------------------------------------------------------
\* insertAuditEvent of actor a for request q; the time is that of the call.
Begin(a, q) ==
    /\ tx[a].pc = "idle"
    /\ \E t \in Times : tx' = [tx EXCEPT ![a] = [pc |-> "wait", req |-> q, ts |-> t, prev |-> 0]]

Lock(a) ==
    /\ tx[a].pc = "wait" /\ lock = Free
    /\ lock' = a
    /\ tx' = [tx EXCEPT ![a].pc = "locked"]
    /\ UNCHANGED <<events, way, outbox, claimed, stranded, faults>>

Latest(n, t) == IF n >= t THEN n ELSE t

\* The last event by timestamp; 0 if there is none.
LastInTime ==
    IF events = <<>> THEN 0
    ELSE CHOOSE i \in 1..Len(events) : \A j \in 1..Len(events) : events[j].ts <= events[i].ts

\* Variant: a timestamp may be the one of the event before.
LaterTime(a, t) ==
    IF LastInTime = 0 THEN tx[a].ts ELSE Latest(tx[a].ts, events[LastInTime].ts)

\* The API keeps the time of its call if it is later than the last event, else takes
\* now or the millisecond after that event; the worker always does the latter.
TimeOf(a, t) ==
    IF LastInTime = 0 THEN tx[a].ts
    ELSE IF a \in Requests /\ way[a] = "work"
    THEN Latest(t, events[LastInTime].ts + 1)
    ELSE IF tx[a].ts > events[LastInTime].ts THEN tx[a].ts
    ELSE Latest(t, events[LastInTime].ts + 1)

Read(a) ==
    /\ tx[a].pc = "locked"
    /\ \E t \in Times :
         tx' = [tx EXCEPT ![a] = [pc |-> "write", req |-> tx[a].req,
                                  ts |-> TimeOf(a, t), prev |-> LastInTime]]
    /\ UNCHANGED <<events, lock, way, outbox, claimed, stranded, faults>>

Release(a) == lock' = IF lock = a THEN Free ELSE lock

\* The unique index on outbox_id refuses a second event of a row.
HasRowEvent(q) == \E i \in 1..Len(events) : events[i].row /\ events[i].req = q

\* Commit of the event; the end of the transaction releases the lock.  If the row
\* has an event already, the dispatcher takes the refusal for a success.
Write(a) ==
    /\ tx[a].pc = "write"
    /\ events' = IF a \in Dispatchers /\ HasRowEvent(tx[a].req) THEN events
                 ELSE Append(events, [ts |-> tx[a].ts, prev |-> tx[a].prev,
                                      req |-> tx[a].req, row |-> a \in Dispatchers])
    /\ Release(a)
    /\ \/ /\ tx' = [tx EXCEPT ![a].pc = "ok"]
          /\ UNCHANGED faults
       \/ /\ faults < MaxFaults  \* committed, but the answer is lost
          /\ tx' = [tx EXCEPT ![a].pc = "error"]
          /\ faults' = faults + 1
    /\ UNCHANGED <<way, outbox, claimed, stranded>>

\* A statement fails and the transaction is rolled back; or the transaction is
\* fine and the dispatcher's update of the row fails.
Fail(a) ==
    /\ tx[a].pc \in {"wait", "locked", "write"} \/ (a \in Dispatchers /\ tx[a].pc = "ok")
    /\ faults < MaxFaults
    /\ faults' = faults + 1
    /\ tx' = [tx EXCEPT ![a].pc = "error"]
    /\ Release(a)
    /\ UNCHANGED <<events, way, outbox, claimed, stranded>>

-----------------------------------------------------------------------------
\* The business transaction of a write commits, its outbox row with it.
Commit(q) ==
    /\ way[q] = "none"
    /\ way' = [way EXCEPT ![q] = "outbox"]
    /\ outbox' = [outbox EXCEPT ![q] = "queued"]
    /\ UNCHANGED <<events, lock, tx, claimed, stranded, faults>>

\* A read or a job of the worker writes its event directly; so does a request that
\* writes and has no row of its own, which ends like a job if its event fails.
Audit(q) ==
    /\ way[q] = "none"
    /\ \E w \in {"read", "work"} : way' = [way EXCEPT ![q] = w]
    /\ Begin(q, q)
    /\ UNCHANGED <<events, lock, outbox, claimed, stranded, faults>>

Audited(q) == \E i \in 1..Len(events) : events[i].req = q

\* Variant: a failed write is taken for one that left nothing.
EndedUnseen(q) ==
    /\ tx[q].pc \in {"ok", "error"}
    /\ tx' = [tx EXCEPT ![q] = IdleTx]
    /\ way' = [way EXCEPT ![q] =
                 IF tx[q].pc = "error" /\ way[q] = "read" THEN "fallback" ELSE "done"]
    /\ UNCHANGED <<events, lock, outbox, claimed, stranded, faults>>

\* A job that cannot write its event goes on without; a read looks whether the event
\* is there after all, and if not, falls back to the outbox.
Ended(q) ==
    /\ tx[q].pc \in {"ok", "error"}
    /\ tx' = [tx EXCEPT ![q] = IdleTx]
    /\ way' = [way EXCEPT ![q] = IF tx[q].pc = "error" /\ way[q] = "read" /\ ~Audited(q)
                                 THEN "fallback" ELSE "done"]
    /\ UNCHANGED <<events, lock, outbox, claimed, stranded, faults>>

\* enqueueReadAuditOutboxFallback, or the response of the read is an error.
Fallback(q) ==
    /\ way[q] = "fallback"
    /\ way' = [way EXCEPT ![q] = "done"]
    /\ \/ /\ outbox' = [outbox EXCEPT ![q] = "queued"]
          /\ UNCHANGED faults
       \/ /\ faults < MaxFaults
          /\ faults' = faults + 1
          /\ UNCHANGED outbox
    /\ UNCHANGED <<events, lock, tx, claimed, stranded>>

-----------------------------------------------------------------------------
Waiting == {q \in Requests : outbox[q] \in {"queued", "failed"}}

\* A dispatcher claims rows that are due, as many as its limit allows; the rows
\* that wait are locked while it does, and skipped by others.
Claim(d, B) ==
    /\ claimed[d] = {} /\ tx[d].pc = "idle"
    /\ B # {} /\ B \subseteq Waiting
    /\ claimed' = [claimed EXCEPT ![d] = B]
    /\ outbox' = [q \in Requests |-> IF q \in B THEN "processing" ELSE outbox[q]]
    /\ UNCHANGED <<events, lock, tx, way, stranded, faults>>

Dispatch(d, q) ==
    /\ q \in claimed[d]
    /\ Begin(d, q)
    /\ UNCHANGED <<events, lock, way, outbox, claimed, stranded, faults>>

\* Variant: a failed row is only logged.
KeepProcessing(d) ==
    /\ tx[d].pc \in {"ok", "error"}
    /\ outbox' = [outbox EXCEPT ![tx[d].req] = IF tx[d].pc = "ok" THEN "succeeded" ELSE @]
    /\ claimed' = [claimed EXCEPT ![d] = @ \ {tx[d].req}]
    /\ tx' = [tx EXCEPT ![d] = IdleTx]
    /\ UNCHANGED <<events, lock, way, stranded, faults>>

\* The status of the row; a failed one is due again after a backoff.
Mark(d) ==
    /\ tx[d].pc \in {"ok", "error"}
    /\ outbox' = [outbox EXCEPT ![tx[d].req] = IF tx[d].pc = "ok" THEN "succeeded" ELSE "failed"]
    /\ claimed' = [claimed EXCEPT ![d] = @ \ {tx[d].req}]
    /\ tx' = [tx EXCEPT ![d] = IdleTx]
    /\ UNCHANGED <<events, lock, way, stranded, faults>>

\* The API process dies, or the update of a failed row fails too: the rows that
\* are left keep the status processing, which nobody takes up again.
Die(d) ==
    /\ claimed[d] # {} /\ faults < MaxFaults
    /\ faults' = faults + 1
    /\ stranded' = stranded \cup claimed[d]
    /\ claimed' = [claimed EXCEPT ![d] = {}]
    /\ tx' = [tx EXCEPT ![d] = IdleTx]
    /\ Release(d)
    /\ UNCHANGED <<events, way, outbox>>

Next ==
    \/ \E a \in Actors : Lock(a) \/ Read(a) \/ Write(a) \/ Fail(a)
    \/ \E q \in Requests : Commit(q) \/ Audit(q) \/ Ended(q) \/ Fallback(q)
    \/ \E d \in Dispatchers :
        \/ \E B \in SUBSET Requests : Claim(d, B)
        \/ \E q \in Requests : Dispatch(d, q)
        \/ Mark(d) \/ Die(d)

Spec == Init /\ [][Next]_vars

\* Statements end, waiters get the lock in turn, requests go on, and the interval of
\* the API claims a row that waits, oldest first.
Fairness ==
    /\ \A a \in Actors : SF_vars(Lock(a)) /\ WF_vars(Read(a)) /\ WF_vars(Write(a))
    /\ \A q \in Requests : WF_vars(Ended(q)) /\ WF_vars(Fallback(q))
    /\ \A d \in Dispatchers : WF_vars(Mark(d)) /\ WF_vars(\E q \in Requests : Dispatch(d, q))
    /\ \A q \in Requests :
         SF_vars(\E d \in Dispatchers, B \in SUBSET Requests : q \in B /\ Claim(d, B))

FairSpec == Spec /\ Fairness

-----------------------------------------------------------------------------
Earlier(i) == {j \in 1..Len(events) : events[j].ts < events[i].ts}

\* The verification (GET /audit/verify), which reads the events by timestamp, finds
\* the chain intact at any time, from any start, whoever appends to it and whatever
\* the clocks of the processes show.
Verifies ==
    \A i \in 1..Len(events) :
        /\ \A j \in 1..Len(events) : events[j].ts = events[i].ts => j = i
        /\ Earlier(i) = {} => events[i].prev = 0
        /\ Earlier(i) # {} =>
             /\ events[i].prev \in Earlier(i)
             /\ \A j \in Earlier(i) : events[j].ts <= events[events[i].prev].ts

\* A request has at most one event: whether its answer was lost, a row was written
\* instead of the event, or a row was dispatched again.
AuditedOnce ==
    \A i, j \in 1..Len(events) : events[i].req = events[j].req => i = j

\* A row of the outbox gets its event, unless its dispatcher died while it held it.
OutboxLands ==
    \A q \in Requests : outbox[q] # "none" ~> Audited(q) \/ q \in stranded

\* The trail is an append-only, ordered and linked ledger.
Ledger == INSTANCE AuditLedger WITH ledger <- events
KeepsLedger == Ledger!Spec
=============================================================================
