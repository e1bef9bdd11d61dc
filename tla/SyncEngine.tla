----------------------------- MODULE SyncEngine -----------------------------
(* The offline sync engine: clients queue operations (patches of records)  *)
(* while they are offline and push them in batches; the server applies     *)
(* each one to its record and writes it to the log sync_ops                *)
(* (apps/api/src/skills/sync-engine/routes.ts and its repos, updateRecord  *)
(* of modules/data/dataRepo.ts; the client is                              *)
(* apps/web/src/lib/offline/syncClient.ts).                                *)
(*                                                                         *)
(* Every statement of a push goes to the pool and commits by itself, so a  *)
(* request is a sequence of actions with a program counter, and it may die *)
(* between any two of them.  A client that gets no response keeps the      *)
(* operations pending and pushes them again, also while the first request  *)
(* is still running (a second tab does the same).                          *)
(*                                                                         *)
(* A record is the sequence of the writers of its revisions: a pushed      *)
(* operation, a merge proposal an operator has applied, or a request to    *)
(* the entities API; the empty sequence is a missing row.  All operations  *)
(* patch one field of their record, the entities API patches others.       *)
(* Refusals because of schema, permission, validation, field rules or row  *)
(* filters are one nondeterministic refusal: what they depend on may       *)
(* change between two pushes.  Digests, merge runs (written once, only     *)
(* read back) and pulls and listings (which only read) are left out.       *)
EXTENDS Naturals, Sequences

CONSTANTS
    Requests,    \* push requests the server handles at the same time
    NumOps,      \* operations: 1..NumOps, in the order of the client's store
    Records,
    Clients,     \* (clientId, deviceId)
    Target,      \* the record of each operation
    ClientOf,    \* the client of each operation
    MaxBase,     \* bound: the base versions clients send
    MaxPushes,   \* bound: how many pushes clients make
    MaxFaults,   \* bound: how many requests die or lose their response
    MaxEdits,    \* bound: how many requests the entities API takes
    MaxLooks,    \* bound: how often operators decide about a ticket
    NoBase       \* the operation has no baseVersion

Ops == 1..NumOps
Bases == 0..MaxBase \cup {NoBase}

ASSUME SizesAssumption ==
    /\ NumOps \in Nat /\ MaxBase \in Nat /\ MaxPushes \in Nat
    /\ MaxFaults \in Nat /\ MaxEdits \in Nat /\ MaxLooks \in Nat
ASSUME NoBaseAssumption == NoBase \notin Nat
ASSUME OpsAssumption == Target \in [Ops -> Records] /\ ClientOf \in [Ops -> Clients]

Writers == [kind : {"push", "proposal"}, op : Ops] \cup [kind : {"edit"}]
ByPush(o) == [kind |-> "push", op |-> o]
ByProposal(o) == [kind |-> "proposal", op |-> o]
ByEdit == [kind |-> "edit"]

LogRows == [op : Ops, status : {"accepted", "rejected"}]
Tickets == [stale : SUBSET Ops, status : {"open", "resolved", "abandoned"}]
\* What a client has stored of an operation; a conflict is "stale" if the base
\* version did not match, which is the only kind that opens a ticket.
ClientStatuses == {"pending", "accepted", "rejected", "conflict", "stale"}

RequestPCs == {"idle", "lookup", "read", "check", "update", "accept", "reject",
               "ticket", "respond"}
RequestStates == [pc : RequestPCs, batch : SUBSET Ops, todo : SUBSET Ops,
                  missing : BOOLEAN, accepted : SUBSET Ops, conflicts : SUBSET Ops,
                  stale : SUBSET Ops, cursor : Nat]
IdleRequest == [pc |-> "idle", batch |-> {}, todo |-> {}, missing |-> FALSE,
                accepted |-> {}, conflicts |-> {}, stale |-> {}, cursor |-> 0]

OperatorStates == [pc : {"idle", "read", "update", "resolve"}, ticket : Nat,
                   todo : SUBSET Ops, applied : BOOLEAN]
IdleOperator == [pc |-> "idle", ticket |-> 0, todo |-> {}, applied |-> FALSE]

VARIABLES
    base,       \* the base version of each operation
    client,     \* the status the client has stored for it
    rec,        \* the records
    log,        \* sync_ops; the cursor of a row is its position
    watermark,  \* sync_watermarks.last_pushed_cursor
    tickets,    \* sync_conflict_tickets
    req,        \* the push requests in progress
    operator,   \* the request of an operator who decides about a ticket
    done,       \* history: the operations that a push has ever applied
    count       \* bounds: pushes, faults, edits and looks so far

vars == <<base, client, rec, log, watermark, tickets, req, operator, done, count>>

TypeOK ==
    /\ base \in [Ops -> Bases]
    /\ client \in [Ops -> ClientStatuses]
    /\ rec \in [Records -> Seq(Writers)]
    /\ log \in Seq(LogRows)
    /\ watermark \in [Clients -> Nat]
    /\ tickets \in Seq(Tickets)
    /\ req \in [Requests -> RequestStates]
    /\ operator \in OperatorStates
    /\ done \subseteq Ops
    /\ count \in [pushes : 0..MaxPushes, faults : 0..MaxFaults,
                  edits : 0..MaxEdits, looks : 0..MaxLooks]

\* Operations wait in the clients' stores; a record may exist already.
Init ==
    /\ base \in [Ops -> Bases]
    /\ client = [o \in Ops |-> "pending"]
    /\ rec \in [Records -> {<<>>, <<ByEdit>>}]
    /\ log = <<>>
    /\ watermark = [c \in Clients |-> 0]
    /\ tickets = <<>>
    /\ req = [q \in Requests |-> IdleRequest]
    /\ operator = IdleOperator
    /\ done = {}
    /\ count = [pushes |-> 0, faults |-> 0, edits |-> 0, looks |-> 0]

-----------------------------------------------------------------------------
Revision(r) == Len(rec[r])
Logged(o) == \E c \in 1..Len(log) : log[c].op = o
Cursor(o) == CHOOSE c \in 1..Len(log) : log[c].op = o
Later(c, d) == IF c >= d THEN c ELSE d

\* The operation of the batch that is handled now: operations are handled in order.
IsCurrent(q, o) == o \in req[q].todo /\ \A p \in req[q].todo : o <= p

\* Variant: the expected revision may be an older one.
MatchesOlder(o) ==
    /\ Revision(Target[o]) > 0
    /\ base[o] # NoBase => base[o] <= Revision(Target[o])

\* The WHERE clause of updateRecord: the row is there and has the expected
\* revision, if one is expected.
Matches(o) ==
    /\ Revision(Target[o]) > 0
    /\ base[o] # NoBase => base[o] = Revision(Target[o])

\* A client pushes pending operations, all of them or some.
Push(q, B) ==
    /\ req[q].pc = "idle" /\ count.pushes < MaxPushes
    /\ B # {} /\ \A o \in B : client[o] = "pending"
    /\ \A o, p \in B : ClientOf[o] = ClientOf[p]
    /\ req' = [req EXCEPT ![q] = [IdleRequest EXCEPT !.pc = "lookup", !.batch = B, !.todo = B]]
    /\ count' = [count EXCEPT !.pushes = @ + 1]
    /\ UNCHANGED <<base, client, rec, log, watermark, tickets, operator, done>>

\* getOpByOpId: an operation with a row in the log is reported as accepted, with
\* its cursor, whatever the status of the row.
Lookup(q, o) ==
    /\ req[q].pc = "lookup" /\ IsCurrent(q, o)
    /\ req' = [req EXCEPT ![q] =
                 IF Logged(o)
                 THEN [req[q] EXCEPT !.todo = @ \ {o}, !.accepted = @ \cup {o},
                                     !.cursor = Later(req[q].cursor, Cursor(o))]
                 ELSE [req[q] EXCEPT !.pc = "read"]]
    /\ UNCHANGED <<base, client, rec, log, watermark, tickets, operator, done, count>>

\* The record is read to tell a creation from an update.
Read(q, o) ==
    /\ req[q].pc = "read" /\ IsCurrent(q, o)
    /\ req' = [req EXCEPT ![q].pc = "check", ![q].missing = (Revision(Target[o]) = 0)]
    /\ UNCHANGED <<base, client, rec, log, watermark, tickets, operator, done, count>>

\* Variant: the request takes the status of the row as its own.
RefuseStatus(q) ==
    /\ req[q].pc = "check"
    /\ req' = [req EXCEPT ![q].pc = "rejected"]
    /\ UNCHANGED <<base, client, rec, log, watermark, tickets, operator, done, count>>

\* The schema, the permission, a rule or the payload refuses the operation.
Refuse(q) ==
    /\ req[q].pc = "check"
    /\ req' = [req EXCEPT ![q].pc = "reject"]
    /\ UNCHANGED <<base, client, rec, log, watermark, tickets, operator, done, count>>

\* The outcome of an operation that was not applied.
Conflict(q, o) == [req[q] EXCEPT !.pc = "reject", !.conflicts = @ \cup {o}]
Stale(q, o) == [req[q] EXCEPT !.pc = "reject", !.conflicts = @ \cup {o}, !.stale = @ \cup {o}]

Apply(o) ==
    /\ rec' = [rec EXCEPT ![Target[o]] = Append(@, ByPush(o))]
    /\ done' = done \cup {o}

\* A creation: a base version above 0 is a conflict (record_missing), and so is a
\* row that has come into being since it was read (record_already_exists).
Create(q, o) ==
    /\ req[q].pc = "check" /\ IsCurrent(q, o) /\ req[q].missing
    /\ \/ /\ base[o] \in {0, NoBase} /\ Revision(Target[o]) = 0
          /\ Apply(o)
          /\ req' = [req EXCEPT ![q].pc = "accept"]
       \/ /\ base[o] \notin {0, NoBase} \/ Revision(Target[o]) > 0
          /\ req' = [req EXCEPT ![q] = Conflict(q, o)]
          /\ UNCHANGED <<rec, done>>
    /\ UNCHANGED <<base, client, log, watermark, tickets, operator, count>>

\* An update reads the record again and compares the base version; a row that has
\* gone since then is refused.
Compare(q, o) ==
    /\ req[q].pc = "check" /\ IsCurrent(q, o) /\ ~req[q].missing
    /\ req' = [req EXCEPT ![q] = IF Matches(o) THEN [req[q] EXCEPT !.pc = "update"]
                                 ELSE IF Revision(Target[o]) = 0
                                 THEN [req[q] EXCEPT !.pc = "reject"] ELSE Stale(q, o)]
    /\ UNCHANGED <<base, client, rec, log, watermark, tickets, operator, done, count>>

\* Variant: nobody looks whether the statement has found a row.
UpdateBlind(q, o) ==
    /\ req[q].pc = "update" /\ IsCurrent(q, o)
    /\ IF Matches(o) THEN Apply(o) ELSE UNCHANGED <<rec, done>>
    /\ req' = [req EXCEPT ![q].pc = "accept"]
    /\ UNCHANGED <<base, client, log, watermark, tickets, operator, count>>

\* updateRecord; no row that matches is a conflict again.
Update(q, o) ==
    /\ req[q].pc = "update" /\ IsCurrent(q, o)
    /\ \/ /\ Matches(o)
          /\ Apply(o)
          /\ req' = [req EXCEPT ![q].pc = "accept"]
       \/ /\ ~Matches(o)
          /\ req' = [req EXCEPT ![q] = Stale(q, o)]
          /\ UNCHANGED <<rec, done>>
    /\ UNCHANGED <<base, client, log, watermark, tickets, operator, count>>

\* insertSyncOp: ON CONFLICT (op_id) DO NOTHING, and the row that is there counts.
Insert(o, status) ==
    log' = IF Logged(o) THEN log ELSE Append(log, [op |-> o, status |-> status])

LogOp(q, o) ==
    /\ req[q].pc \in {"accept", "reject"} /\ IsCurrent(q, o)
    /\ Insert(o, IF req[q].pc = "accept" THEN "accepted" ELSE "rejected")
    /\ req' = [req EXCEPT ![q] =
                 [req[q] EXCEPT !.pc = "lookup", !.todo = @ \ {o},
                                !.accepted = IF req[q].pc = "accept" THEN @ \cup {o} ELSE @,
                                !.cursor = Later(req[q].cursor, Cursor(o)')]]
    /\ UNCHANGED <<base, client, rec, watermark, tickets, operator, done, count>>

\* Variant: the last write of a watermark wins.
LastWatermark(c, q) == req[q].cursor

\* upsertWatermark: GREATEST of the stored and the new cursor.
NewWatermark(c, q) == Later(watermark[c], req[q].cursor)

Watermark(q) ==
    /\ req[q].pc = "lookup" /\ req[q].todo = {}
    /\ watermark' = [c \in Clients |->
                       IF \E o \in req[q].batch : ClientOf[o] = c THEN NewWatermark(c, q)
                       ELSE watermark[c]]
    /\ req' = [req EXCEPT ![q].pc = "ticket"]
    /\ UNCHANGED <<base, client, rec, log, tickets, operator, done, count>>

\* Variant: a ticket only if all conflicts of the batch are repairable.
TicketForAll(q) ==
    /\ req[q].pc = "ticket"
    /\ tickets' = IF req[q].stale = {} \/ req[q].stale # req[q].conflicts THEN tickets
                  ELSE Append(tickets, [stale |-> req[q].stale, status |-> "open"])
    /\ req' = [req EXCEPT ![q].pc = "respond"]
    /\ UNCHANGED <<base, client, rec, log, watermark, operator, done, count>>

\* createConflictTicket, if a conflict of the batch is repairable.
Ticket(q) ==
    /\ req[q].pc = "ticket"
    /\ tickets' = IF req[q].stale = {} THEN tickets
                  ELSE Append(tickets, [stale |-> req[q].stale, status |-> "open"])
    /\ req' = [req EXCEPT ![q].pc = "respond"]
    /\ UNCHANGED <<base, client, rec, log, watermark, operator, done, count>>

\* syncPush stores what the response says of each operation it has sent.
Respond(q) ==
    /\ req[q].pc = "respond"
    /\ client' = [o \in Ops |->
                    IF o \notin req[q].batch THEN client[o]
                    ELSE IF o \in req[q].accepted THEN "accepted"
                    ELSE IF o \in req[q].stale THEN "stale"
                    ELSE IF o \in req[q].conflicts THEN "conflict" ELSE "rejected"]
    /\ req' = [req EXCEPT ![q] = IdleRequest]
    /\ UNCHANGED <<base, rec, log, watermark, tickets, operator, done, count>>

\* The request dies, a statement of it fails, or its response is lost.
Die(q) ==
    /\ req[q].pc # "idle" /\ count.faults < MaxFaults
    /\ req' = [req EXCEPT ![q] = IdleRequest]
    /\ count' = [count EXCEPT !.faults = @ + 1]
    /\ UNCHANGED <<base, client, rec, log, watermark, tickets, operator, done>>

-----------------------------------------------------------------------------
\* The entities API patches or deletes a record.
EditRecord(r) ==
    /\ rec[r] # <<>> /\ count.edits < MaxEdits
    /\ \E h \in {<<>>, Append(rec[r], ByEdit)} : rec' = [rec EXCEPT ![r] = h]
    /\ count' = [count EXCEPT !.edits = @ + 1]
    /\ UNCHANGED <<base, client, log, watermark, tickets, req, operator, done>>

SetTicket(t, status) == tickets' = [tickets EXCEPT ![t].status = status]

\* An operator abandons a ticket, whatever its status.
Abandon(t) ==
    /\ count.looks < MaxLooks
    /\ SetTicket(t, "abandoned")
    /\ count' = [count EXCEPT !.looks = @ + 1]
    /\ UNCHANGED <<base, client, rec, log, watermark, req, operator, done>>

\* An operator finds a ticket open and will resolve it, without or with applying
\* the stale operations (some or all) as proposals.
Open(t) ==
    /\ operator.pc = "idle" /\ count.looks < MaxLooks
    /\ tickets[t].status = "open"
    /\ \/ operator' = [operator EXCEPT !.pc = "resolve", !.ticket = t]
       \/ \E P \in SUBSET tickets[t].stale \ {{}} :
            operator' = [operator EXCEPT !.pc = "read", !.ticket = t, !.todo = P]
    /\ count' = [count EXCEPT !.looks = @ + 1]
    /\ UNCHANGED <<base, client, rec, log, watermark, tickets, req, done>>

\* buildAutoApplyProposal: no operation has set the field.
Unset(r) == \A i \in 1..Revision(r) : rec[r][i] = ByEdit

\* Proposals are read and applied one by one; one that is no longer safe is
\* skipped, and a missing record ends the request with an error.
ReadProposal(o) ==
    /\ operator.pc = "read" /\ o \in operator.todo /\ \A p \in operator.todo : o <= p
    /\ operator' = IF Revision(Target[o]) = 0 THEN IdleOperator
                   ELSE IF Unset(Target[o]) THEN [operator EXCEPT !.pc = "update"]
                   ELSE [operator EXCEPT !.todo = @ \ {o}]
    /\ UNCHANGED <<base, client, rec, log, watermark, tickets, req, done, count>>

ApplyProposal(o) ==
    /\ operator.pc = "update" /\ o \in operator.todo /\ \A p \in operator.todo : o <= p
    /\ \/ /\ Revision(Target[o]) > 0
          /\ rec' = [rec EXCEPT ![Target[o]] = Append(@, ByProposal(o))]
          /\ operator' = [operator EXCEPT !.pc = "read", !.todo = @ \ {o}, !.applied = TRUE]
       \/ /\ Revision(Target[o]) = 0
          /\ operator' = IdleOperator
          /\ UNCHANGED rec
    /\ UNCHANGED <<base, client, log, watermark, tickets, req, done, count>>

\* The ticket is resolved if a proposal was applied, or none was asked for.
Resolve ==
    /\ operator.pc \in {"read", "resolve"} /\ operator.todo = {}
    /\ IF operator.pc = "resolve" \/ operator.applied
       THEN SetTicket(operator.ticket, "resolved") ELSE UNCHANGED tickets
    /\ operator' = IdleOperator
    /\ UNCHANGED <<base, client, rec, log, watermark, req, done, count>>

\* The request of the operator ends early: a refusal, an error, or it dies.
GiveUp ==
    /\ operator.pc # "idle"
    /\ operator' = IdleOperator
    /\ UNCHANGED <<base, client, rec, log, watermark, tickets, req, done, count>>

Next ==
    \/ \E q \in Requests :
        \/ \E B \in SUBSET Ops : Push(q, B)
        \/ \E o \in Ops : Lookup(q, o) \/ Read(q, o) \/ Create(q, o) \/ Compare(q, o)
                          \/ Update(q, o) \/ LogOp(q, o)
        \/ Refuse(q) \/ Watermark(q) \/ Ticket(q) \/ Respond(q) \/ Die(q)
    \/ \E r \in Records : EditRecord(r)
    \/ \E t \in 1..Len(tickets) : Abandon(t) \/ Open(t)
    \/ \E o \in Ops : ReadProposal(o) \/ ApplyProposal(o)
    \/ Resolve \/ GiveUp

Spec == Init /\ [][Next]_vars

-----------------------------------------------------------------------------
\* However often an operation with a base version is pushed, by requests that
\* overlap, die or lose their response, a record holds its patch at most once: the
\* one revision it may write is the one after its base.
BasedOnce ==
    \A r \in Records : \A i, j \in 1..Revision(r) :
        /\ rec[r][i] = rec[r][j]
        /\ \E o \in Ops : rec[r][i] = ByPush(o) /\ base[o] # NoBase
        => i = j

\* Whatever the order in which overlapping pushes reach the record and the log, an
\* operation is in the log as accepted, and so is pulled by everybody, only if it
\* was applied.
AcceptedIsApplied ==
    \A c \in 1..Len(log) : log[c].status = "accepted" => log[c].op \in done

\* What a client has heard of is in the log, at or below the client's watermark,
\* although overlapping pushes write the watermark in any order.
WatermarkCovers ==
    \A o \in Ops : client[o] # "pending" =>
        \E c \in 1..Len(log) : log[c].op = o /\ c <= watermark[ClientOf[o]]

\* A stale operation a client knows of has a ticket by which an operator can
\* repair it: the ticket is written before the response.
StaleHasTicket ==
    \A o \in Ops : client[o] = "stale" =>
        \E t \in 1..Len(tickets) : o \in tickets[t].stale
=============================================================================
