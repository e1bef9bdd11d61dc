----------------------------- MODULE WriteLease -----------------------------
(* The write lease of a side-effecting tool call: one row of               *)
(* workflow_write_leases per resource, taken with an INSERT .. ON CONFLICT *)
(* DO UPDATE .. WHERE expires_at <= now() before the tool writes and       *)
(* deleted by owner when the tool function ends                            *)
(* (apps/worker/src/workflow/writeLease.ts, used by processStep.ts).       *)
(*                                                                         *)
(* An owner is the triple (runId, stepId, traceId).  It names a step, not  *)
(* an invocation: a redelivered or retried queue message of a step is a    *)
(* second execution with the same owner.                                   *)
(*                                                                         *)
(* Nothing bounds a tool function: withTimeout only raises an abort signal *)
(* that the writing tools do not look at, so an execution may go on long   *)
(* after its lease has run out (renewWriteLease has no caller).            *)
(*                                                                         *)
(* Time is relative: a row, and an execution, carry the ticks left until   *)
(* the database's now() passes the expires_at that was written, and a tick *)
(* takes one from each, so that the state space is finite and nothing has  *)
(* to bound the clock.                                                     *)
EXTENDS Naturals

CONSTANTS
    Execs,        \* invocations of processStep that run at the same time
    Owners,       \* steps: (runId, stepId, traceId)
    Resources,    \* resourceRefs
    Grants,       \* ticks a lease may last by the database's clock: ttlMs plus
                  \* the skew of the worker's clock, which computes expires_at
    NoLease,      \* the resource has no row
    Idle          \* the invocation is not inside withWriteLease

ASSUME GrantsAssumption == Grants \subseteq Nat

Rows == [owner : Owners, left : Nat]
Writers == [owner : Owners, res : Resources, left : Nat]

ASSUME DistinctAssumption == NoLease \notin Rows /\ Idle \notin Writers

VARIABLES
    lease,   \* the table: a row or NoLease for each resource
    exec,    \* what each invocation is doing: Idle, or writing under a lease
    robbed   \* history: writers whose row another invocation of their step deleted

vars == <<lease, exec, robbed>>

TypeOK ==
    /\ lease \in [Resources -> Rows \cup {NoLease}]
    /\ exec \in [Execs -> Writers \cup {Idle}]
    /\ robbed \subseteq Execs

Init ==
    /\ lease = [r \in Resources |-> NoLease]
    /\ exec = [e \in Execs |-> Idle]
    /\ robbed = {}

-----------------------------------------------------------------------------
Writing(e) == exec[e] # Idle

\* Variants: the expiry test is off by one; the test is dropped; an expired row
\* is not taken over.
FreeOffByOne(r) == lease[r] # NoLease => lease[r].left <= 1
FreeAlways(r) == TRUE
FreeOnlyWithoutRow(r) == lease[r] = NoLease

\* The WHERE clause of the upsert: no row, or a row that has expired.
Free(r) == lease[r] # NoLease => lease[r].left = 0

\* acquireWriteLease: the upsert wins, the tool function starts.  When the
\* resource is not free the step fails with write_lease_busy and nothing here
\* changes.  The same owner is refused too while its row is unexpired.
Acquire(e, o, r) ==
    /\ exec[e] = Idle
    /\ Free(r)
    /\ \E g \in Grants :
          /\ lease' = [lease EXCEPT ![r] = [owner |-> o, left |-> g]]
          /\ exec' = [exec EXCEPT ![e] = [owner |-> o, res |-> r, left |-> g]]
    /\ UNCHANGED robbed

\* Variant: whoever holds the resource, its row is deleted.
DeleteAnyRow(r, o) == lease' = [lease EXCEPT ![r] = NoLease]

\* releaseWriteLease: a DELETE that matches resource and owner, nothing else.
DeleteRow(r, o) ==
    lease' = IF lease[r] # NoLease /\ lease[r].owner = o
             THEN [lease EXCEPT ![r] = NoLease]
             ELSE lease

\* The lease of a writer is over: it has run out, or its row was deleted.
Over(e) == exec[e].left = 0 \/ e \in robbed

\* The writers whose row the end of e deletes with its own, which is no longer there.
SameStep(e) ==
    {f \in Execs : Writing(f) /\ exec[f].owner = exec[e].owner /\ exec[f].res = exec[e].res}

\* The tool function ends (with a result or an error) and the finally block
\* releases.
Finish(e) ==
    /\ Writing(e)
    /\ DeleteRow(exec[e].res, exec[e].owner)
    /\ exec' = [exec EXCEPT ![e] = Idle]
    /\ robbed' = (IF Over(e) THEN robbed \cup SameStep(e) ELSE robbed) \ {e}

\* The worker dies inside the tool function, or the DELETE fails and its error
\* is only logged: the row stays until it expires.
Abandon(e) ==
    /\ Writing(e)
    /\ exec' = [exec EXCEPT ![e] = Idle]
    /\ robbed' = robbed \ {e}
    /\ UNCHANGED lease

Less(n) == IF n > 0 THEN n - 1 ELSE 0

\* One tick of the database's clock, whoever is writing.
Tick ==
    /\ lease' = [r \in Resources |-> IF lease[r] = NoLease THEN NoLease
                                     ELSE [lease[r] EXCEPT !.left = Less(@)]]
    /\ exec' = [e \in Execs |-> IF Writing(e) THEN [exec[e] EXCEPT !.left = Less(@)]
                                ELSE Idle]
    /\ UNCHANGED robbed

Next ==
    \/ \E e \in Execs, o \in Owners, r \in Resources : Acquire(e, o, r)
    \/ \E e \in Execs : Finish(e)
    \/ \E e \in Execs : Abandon(e)
    \/ Tick

Spec == Init /\ [][Next]_vars

\* The database's clock advances.  A tool function may never return.
FairSpec == Spec /\ WF_vars(Tick)

-----------------------------------------------------------------------------
\* Two invocations never write the same resource at once, whatever steps they
\* belong to, unless the lease of one of them is over: it has outlived it, or an
\* invocation of its own step that had (or that was robbed so itself) has ended
\* and deleted the row.
OneWriter ==
    \A e, f \in Execs :
        Writing(e) /\ Writing(f) /\ exec[e].res = exec[f].res =>
            e = f \/ Over(e) \/ Over(f)

\* While an invocation writes and its lease is not over, the row is its step's and
\* as long-lived as the lease it was given: contenders are refused that long.
WriterCovered ==
    \A e \in Execs :
        Writing(e) /\ ~Over(e) =>
            /\ lease[exec[e].res] # NoLease
            /\ lease[exec[e].res].owner = exec[e].owner
            /\ lease[exec[e].res].left = exec[e].left

\* An unexpired row is never taken over: it can only lose time or be deleted,
\* and it is deleted only by the end of an invocation of the step that owns it.
NoTakeover ==
    [][\A r \in Resources :
          lease[r] # NoLease /\ lease[r].left > 0 =>
            \/ lease'[r] # NoLease /\ lease'[r].owner = lease[r].owner
                                   /\ lease'[r].left <= lease[r].left
            \/ /\ lease'[r] = NoLease
               /\ \E e \in Execs : /\ Writing(e) /\ exec'[e] = Idle
                                   /\ exec[e].res = r
                                   /\ exec[e].owner = lease[r].owner]_vars

\* A resource never stays blocked: whatever crashes, the row is released or
\* runs out.
EventuallyFree == \A r \in Resources : []<>Free(r)
=============================================================================
