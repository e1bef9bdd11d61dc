----------------------------- MODULE SiemExport -----------------------------
(* The export of a tenant's audit events to one SIEM destination             *)
(* (apps/worker/src/audit/siemWebhook.ts; the requeueing, clearing and       *)
(* backfilling of apps/api/src/modules/audit/siemRepo.ts and routes/audit.ts *)
(* are the operators').                                                      *)
(*                                                                           *)
(* A tick takes events after the cursor into an outbox and posts the outbox  *)
(* in batches.  Ticks overlap: the interval does not wait for the last one,  *)
(* and each worker process has one.  Every statement commits by itself       *)
(* (claiming a batch is one transaction) and a tick may end between any two. *)
(*                                                                           *)
(* Events of the hash chain have millisecond timestamps in the order of      *)
(* their commits (AuditTrail); those that bypass the chain, as the export's  *)
(* own do, have the time of the database in microseconds, which JavaScript   *)
(* truncates.  Here a millisecond is an even number, and an event without a  *)
(* hash has the odd number after it.                                         *)
EXTENDS Naturals, Sequences, FiniteSets

CONSTANTS
    Exporters,      \* ticks at the same time
    BatchSize,      \* batch_size of the destination
    MaxAttempts,    \* maxAttempts of deliverBatch (8 in the code)
    Times,          \* bound: the times of events
    MaxEvents,      \* bound: the events there are
    MaxDeliveries,  \* bound: the batches that are claimed
    MaxIncidents    \* bound: statements that fail, ticks that die and operators' requests

ASSUME SizesAssumption ==
    /\ BatchSize \in Nat \ {0} /\ MaxAttempts \in Nat \ {0} /\ Times \subseteq Nat \ {0, 1}
    /\ MaxEvents \in Nat /\ MaxDeliveries \in Nat /\ MaxIncidents \in Nat

VARIABLES
    events,     \* the time of each event, in the order of the commits
    cursor,     \* the event audit_siem_cursors is at; 0 is NULL
    box,        \* audit_siem_outbox
    dlq,        \* the events in audit_siem_dlq
    received,   \* the events the destination has got
    exp,        \* the ticks
    operator,   \* the next statement of a backfill
    taken,      \* history: how many rows each event has had in the outbox
    cleared,    \* history: the events whose rows operators have deleted
    overtaken,  \* history: the events requeued while a tick was giving them up
    seen,       \* history: the latest time a tick has read
    late,       \* history: the events committed when a tick had read past them
    count       \* bounds

vars == <<events, cursor, box, dlq, received, exp, operator, taken, cleared, overtaken, seen, late, count>>

Ids == 1..Len(events)
Millis(e) == IF e = 0 THEN 0 ELSE events[e] - (events[e] % 2)

\* n tells the rows an event has had one after the other apart.
Rows == [event : Nat, n : Nat, tries : Nat]
\* rows: those the tick handles; mark: the cursor it has read, later the last of its
\* rows or the one it gives up; max: the maxAttempts markFailure is called with.
IdleTick == [pc |-> "idle", rows |-> {}, mark |-> 0, max |-> MaxAttempts]
PCs == {"idle", "select", "take", "advance", "claim", "delete", "move", "audit",
        "fail", "unbox", "auditfail"}

Init ==
    /\ events = <<>> /\ cursor = 0
    /\ box = {} /\ dlq = {} /\ received = {}
    /\ exp = [x \in Exporters |-> IdleTick]
    /\ operator = "idle"
    /\ taken = <<>> /\ cleared = {} /\ overtaken = {} /\ seen = 0 /\ late = {}
    /\ count = [deliveries |-> 0, incidents |-> 0]

-----------------------------------------------------------------------------
\* An event becomes visible; the times of chained events increase.
Publish(t) ==
    /\ t % 2 = 0 => \A e \in Ids : events[e] % 2 = 0 => events[e] < t
    /\ events' = Append(events, t)
    /\ taken' = Append(taken, 0)
    /\ late' = IF t <= seen THEN late \cup {Len(events) + 1} ELSE late

Commit ==
    /\ Len(events) < MaxEvents
    /\ \E t \in Times : Publish(t)
    /\ UNCHANGED <<cursor, box, dlq, received, exp, operator, cleared, overtaken, seen, count>>

\* getCursor
Start(x) ==
    /\ exp[x].pc = "idle" /\ count.deliveries < MaxDeliveries
    /\ exp' = [exp EXCEPT ![x] = [IdleTick EXCEPT !.pc = "select", !.mark = cursor]]
    /\ UNCHANGED <<events, cursor, box, dlq, received, operator, taken, cleared, overtaken, seen, late,
                   count>>

\* A batch is the first ones by time, and ends with the last of them.
IsBatch(B, S) ==
    /\ B \subseteq S
    /\ Cardinality(B) = IF Cardinality(S) < BatchSize THEN Cardinality(S) ELSE BatchSize
    /\ \A e \in B, f \in S \ B : events[e] <= events[f]
LastOf(B) == CHOOSE e \in B : \A f \in B : events[f] <= events[e]

\* Variant: the cursor is advanced before the rows are inserted.
SelectAdvancing(x, S, B) ==
    /\ exp[x].pc = "select"
    /\ S = {e \in Ids : events[e] > Millis(exp[x].mark)} \ {exp[x].mark}
    /\ B # {} /\ IsBatch(B, S)
    /\ cursor' = LastOf(B)
    /\ exp' = [exp EXCEPT ![x] = [IdleTick EXCEPT !.pc = "take", !.mark = LastOf(B),
                                       !.rows = {[event |-> e, n |-> 0, tries |-> 0] : e \in B}]]
    /\ seen' = IF events[LastOf(B)] > seen THEN events[LastOf(B)] ELSE seen
    /\ UNCHANGED <<events, box, dlq, received, operator, taken, cleared, overtaken, late, count>>

\* The events after the cursor; of those of the cursor's millisecond, the ones with
\* a greater (random) id.
Select(x, S, B) ==
    /\ exp[x].pc = "select"
    /\ {e \in Ids : events[e] > Millis(exp[x].mark)} \ {exp[x].mark} \subseteq S
    /\ S \subseteq {e \in Ids : events[e] >= Millis(exp[x].mark)}
    /\ exp[x].mark \in S => events[exp[x].mark] > Millis(exp[x].mark)
    /\ IsBatch(B, S)
    /\ exp' = [exp EXCEPT ![x] =
                 IF B = {} THEN [IdleTick EXCEPT !.pc = "claim"]
                 ELSE [IdleTick EXCEPT !.pc = "take", !.mark = LastOf(B),
                                       !.rows = {[event |-> e, n |-> 0, tries |-> 0] : e \in B}]]
    /\ seen' = IF B # {} /\ events[LastOf(B)] > seen THEN events[LastOf(B)] ELSE seen
    /\ UNCHANGED <<events, cursor, box, dlq, received, operator, taken, cleared, overtaken, late, count>>

\* The rows of the tick, the earliest first.
IsNext(x, r) == r \in exp[x].rows /\ \A s \in exp[x].rows : events[r.event] <= events[s.event]

\* INSERT ... ON CONFLICT (tenant_id, destination_id, event_id) DO NOTHING
Insert(E) ==
    LET new == {e \in E : \A r \in box : r.event # e} IN
    /\ box' = box \cup {[event |-> e, n |-> taken[e] + 1, tries |-> 0] : e \in new}
    /\ taken' = [e \in Ids |-> IF e \in new THEN taken[e] + 1 ELSE taken[e]]

Take(x, r) ==
    /\ exp[x].pc = "take" /\ IsNext(x, r)
    /\ Insert({r.event})
    /\ exp' = [exp EXCEPT ![x].rows = @ \ {r},
                          ![x].pc = IF exp[x].rows = {r} THEN "advance" ELSE "take"]
    /\ UNCHANGED <<events, cursor, dlq, received, operator, cleared, overtaken, seen, late, count>>

\* setCursor, after the rows of a batch were inserted or delivered.
Advance(x) ==
    /\ exp[x].pc \in {"advance", "move"}
    /\ cursor' = exp[x].mark
    /\ exp' = [exp EXCEPT ![x].pc = IF exp[x].pc = "advance" THEN "claim" ELSE "audit"]
    /\ UNCHANGED <<events, box, dlq, received, operator, taken, cleared, overtaken, seen, late, count>>

EventsOf(rows) == {r.event : r \in rows}

\* claimBatch takes rows that are due, which other claims in progress skip; nothing
\* keeps a later claim from taking them again.  A row that failed waits for its backoff.
Due(B) ==
    /\ B # {} /\ B \subseteq box /\ Cardinality(B) <= BatchSize
    /\ \A r \in box \ B : r.tries > 0 \/ \A s \in B : events[s.event] <= events[r.event]

\* The batch is claimed and posted; no other statement of this tick is in between.
\* The destination may have got it although it is an error (no answer in time); a host
\* that is not allowed is not asked, and all rows are given up.
Deliver(x, B) ==
    /\ exp[x].pc = "claim" /\ count.deliveries < MaxDeliveries
    /\ Due(B)
    /\ box' = (box \ B) \cup {[r EXCEPT !.tries = @ + 1] : r \in B}
    /\ \E pc \in {"delete", "fail"}, got \in BOOLEAN, max \in {1, MaxAttempts} :
        /\ (pc = "delete" => got) /\ (max = 1 /\ MaxAttempts > 1 => ~got)
        /\ received' = IF got THEN received \cup EventsOf(B) ELSE received
        /\ exp' = [exp EXCEPT ![x] = [pc |-> pc, rows |-> B, mark |-> LastOf(EventsOf(B)),
                                      max |-> max]]
    /\ count' = [count EXCEPT !.deliveries = @ + 1]
    /\ UNCHANGED <<events, cursor, dlq, operator, taken, cleared, overtaken, seen, late>>

\* The tick ends: nothing is due, ten batches were sent, or it has failed.
Stop(x) ==
    /\ exp[x].pc = "claim"
    /\ exp' = [exp EXCEPT ![x] = IdleTick]
    /\ UNCHANGED <<events, cursor, box, dlq, received, operator, taken, cleared, overtaken, seen, late,
                   count>>

\* Deletion by the id of the row.
Without(rows) == {r \in box : \A s \in rows : s.event # r.event \/ s.n # r.n}

Delete(x) ==
    /\ exp[x].pc = "delete"
    /\ box' = Without(exp[x].rows)
    /\ exp' = [exp EXCEPT ![x].pc = "move"]
    /\ UNCHANGED <<events, cursor, dlq, received, operator, taken, cleared, overtaken, seen, late, count>>

\* The export audits itself, with an event that is exported in its turn (if the bound
\* leaves room for one).
Audit(x) ==
    /\ exp[x].pc \in {"audit", "auditfail"}
    /\ IF Len(events) < MaxEvents
       THEN \E t \in {k \in Times : k % 2 = 1} : Publish(t)
       ELSE UNCHANGED <<events, taken, late>>
    /\ exp' = [exp EXCEPT ![x] = IF exp[x].pc = "audit" THEN [IdleTick EXCEPT !.pc = "claim"]
                                 ELSE IdleTick]
    /\ UNCHANGED <<cursor, box, dlq, received, operator, cleared, overtaken, seen, count>>

\* A statement after the post fails: the rows of the batch, which may have been
\* deleted, are treated as failed.
Stumble(x) ==
    /\ exp[x].pc \in {"delete", "move", "audit"} /\ count.incidents < MaxIncidents
    /\ exp' = [exp EXCEPT ![x].pc = "fail"]
    /\ count' = [count EXCEPT !.incidents = @ + 1]
    /\ UNCHANGED <<events, cursor, box, dlq, received, operator, taken, cleared, overtaken, seen, late>>

\* The tick is done with a row that failed.
NextFailed(x, r) ==
    exp' = [exp EXCEPT ![x].rows = @ \ {r},
                       ![x].pc = IF exp[x].rows = {r} THEN "auditfail" ELSE "fail"]

\* Variant: a given-up row leaves the outbox first.
UnboxFirst(x, r) ==
    /\ exp[x].pc = "fail" /\ IsNext(x, r)
    /\ IF r.tries + 1 < exp[x].max
       THEN NextFailed(x, r) /\ UNCHANGED box
       ELSE /\ box' = Without({r})
            /\ exp' = [exp EXCEPT ![x].pc = "unbox", ![x].mark = r.event]
    /\ UNCHANGED <<events, cursor, dlq, received, operator, taken, cleared, overtaken, seen, late,
                   count>>

\* markFailure: a row that has used up its attempts goes to the dead letters, then
\* leaves the outbox; any other is due again after its backoff.
GiveUp(x, r) ==
    /\ exp[x].pc = "fail" /\ IsNext(x, r)
    /\ IF r.tries + 1 < exp[x].max
       THEN NextFailed(x, r) /\ UNCHANGED dlq
       ELSE /\ dlq' = dlq \cup {r.event}
            /\ exp' = [exp EXCEPT ![x].pc = "unbox", ![x].mark = r.event]
    /\ UNCHANGED <<events, cursor, box, received, operator, taken, cleared, overtaken, seen, late,
                   count>>

Unbox(x, r) ==
    /\ exp[x].pc = "unbox" /\ r.event = exp[x].mark
    /\ box' = Without({r})
    /\ NextFailed(x, r)
    /\ UNCHANGED <<events, cursor, dlq, received, operator, taken, cleared, overtaken, seen, late,
                   count>>

\* The worker dies, or a statement outside the try block fails.  (If the event about a
\* host that is not allowed cannot be written, its rows are given up once more, which
\* finds nothing left to do.)
Die(x) ==
    /\ exp[x].pc # "idle" /\ count.incidents < MaxIncidents
    /\ exp' = [exp EXCEPT ![x] = IdleTick]
    /\ count' = [count EXCEPT !.incidents = @ + 1]
    /\ UNCHANGED <<events, cursor, box, dlq, received, operator, taken, cleared, overtaken, seen, late>>

-----------------------------------------------------------------------------
\* requeueAuditSiemDlq, one transaction.  A row that has not left the outbox yet is
\* kept, and the tick that has just made the event a dead letter deletes it then.
Requeue ==
    /\ dlq # {} /\ count.incidents < MaxIncidents
    /\ Insert(dlq)
    /\ dlq' = {}
    /\ overtaken' = overtaken \cup (dlq \cap EventsOf(box))
    /\ count' = [count EXCEPT !.incidents = @ + 1]
    /\ UNCHANGED <<events, cursor, received, exp, operator, cleared, seen, late>>

ClearDlq ==
    /\ dlq # {} /\ count.incidents < MaxIncidents
    /\ dlq' = {} /\ cleared' = cleared \cup dlq
    /\ count' = [count EXCEPT !.incidents = @ + 1]
    /\ UNCHANGED <<events, cursor, box, received, exp, operator, taken, overtaken, seen, late>>

\* A backfill from the start clears the outbox and the dead letters first.
Backfill ==
    \/ /\ operator = "idle" /\ count.incidents < MaxIncidents
       /\ box' = {} /\ cleared' = cleared \cup EventsOf(box)
       /\ operator' = "dlq"
       /\ count' = [count EXCEPT !.incidents = @ + 1]
       /\ UNCHANGED <<events, cursor, dlq, received, exp, taken, overtaken, seen, late>>
    \/ /\ operator = "dlq"
       /\ dlq' = {} /\ cleared' = cleared \cup dlq
       /\ operator' = "cursor"
       /\ UNCHANGED <<events, cursor, box, received, exp, taken, overtaken, seen, late, count>>
    \/ /\ operator = "cursor"
       /\ cursor' = 0
       /\ operator' = "idle"
       /\ UNCHANGED <<events, box, dlq, received, exp, taken, cleared, overtaken, seen, late, count>>

Next ==
    \/ Commit
    \/ \E x \in Exporters :
        \/ Start(x) \/ Advance(x) \/ Stop(x) \/ Delete(x) \/ Audit(x)
        \/ Stumble(x) \/ Die(x)
        \/ \E S, B \in SUBSET Ids : Select(x, S, B)
        \/ \E B \in SUBSET box : Deliver(x, B)
        \/ \E r \in exp[x].rows : Take(x, r) \/ GiveUp(x, r) \/ Unbox(x, r)
    \/ Requeue \/ ClearDlq \/ Backfill

Spec == Init /\ [][Next]_vars

-----------------------------------------------------------------------------
\* An event that has had a row in the outbox is there, with the dead letters or at the
\* destination, wherever ticks die and however they overlap, unless an operator has
\* cleared it or requeued it before its old row was deleted.
NotLost ==
    \A e \in Ids : taken[e] > 0 =>
        \/ \E r \in box : r.event = e
        \/ e \in dlq \cup received \cup cleared \cup overtaken

\* The cursor, which overlapping ticks move in any order, only leaves out events that
\* became visible when a tick had read past their time.
OnlyLateSkipped ==
    \A e \in Ids : events[e] < Millis(cursor) => taken[e] > 0 \/ e \in late

=============================================================================
