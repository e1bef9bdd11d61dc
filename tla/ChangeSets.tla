----------------------------- MODULE ChangeSets -----------------------------
(***************************************************************************)
(* Governance change sets: settings of a tenant and of its spaces are      *)
(* changed by a set of items that is drafted, submitted, approved by one   *)
(* or two people, evaluated, released to everybody or to canary spaces,    *)
(* promoted and rolled back                                                *)
(* (apps/api/src/modules/governance/changeSetRepo.ts).                     *)
(*                                                                         *)
(* A request reads the change set, its items and its evaluations outside   *)
(* of a transaction, then locks the change set and applies the items one   *)
(* row at a time at READ COMMITTED: a row it wrote stays locked until it   *)
(* commits, a row it read does not.                                        *)
(*                                                                         *)
(* A setting has a row of the tenant and a row per space that overrides    *)
(* it. The value 0 is the absence of the row, n > 0 a value and -n the     *)
(* same value disabled.                                                    *)
(***************************************************************************)
EXTENDS Integers, Sequences, FiniteSets, SequencesExt

CONSTANTS
  ChangeSets,
  Callers,     \* requests at the API, of any user and on any process
  Subjects,    \* who approves
  Spaces,
  Tenant,      \* the place of the tenant's own rows
  Keys,        \* tool versions, tool names, routing purposes, policies
  Scope,       \* where a change set belongs: a space or the tenant
  Targets,     \* its canary spaces, a sequence
  Planned,     \* the items its authors add, in this order
  Initial,     \* the settings before the first change set
  MaxRuns,     \* bound: evaluation runs of a change set
  MaxBinds     \* bound: requests that bind a suite

Places == Spaces \cup {Tenant}
Rows == Keys \X Places

(* tool.enable and tool.disable ("rollout") belong to the scope of the     *)
(* change set; tool.set_active, model_routing.upsert and tool_limits.set   *)
(* ("set") and model_routing.disable ("off") to the tenant;                *)
(* artifact_policy.upsert, policy.set_active and policy.set_override       *)
(* ("own") to the place they name.                                         *)
Kinds == {"rollout", "set", "off", "own"}

Items == [kind : Kinds, key : Keys, value : Nat \ {0}, place : Places,
          need : {1, 2}, evals : BOOLEAN]

ASSUME PlanAssumption ==
  /\ Tenant \notin Spaces
  /\ Scope \in [ChangeSets -> Places]
  /\ Targets \in [ChangeSets -> Seq(Spaces)]
  /\ Planned \in [ChangeSets -> Seq(Items)]
  /\ Initial \in [Rows -> Int]
  /\ MaxRuns \in Nat /\ MaxBinds \in Nat

VARIABLES
  cs,        \* governance_changesets and their approvals
  items,     \* how many of the planned items are in the change set
  bound,     \* is an evaluation suite bound to the change set?
  binds,     \* how many requests to bind one have come
  runs,      \* its evaluation runs, oldest first
  settings,  \* the rows the items change
  tx,        \* what each request is doing
  log,       \* history: the operations committed on a change set
  before,    \* history: the rows a change set wrote, as they were before
  stale      \* history: a change set wrote a row another changed since it read it

vars == <<cs, items, bound, binds, runs, settings, tx, log, before, stale>>

Idle == [pc |-> "idle"]

TheItems(c, n) == SubSeq(Planned[c], 1, n)
ItemSet(c, n) == {Planned[c][i] : i \in 1..n}

\* computeApprovalGate: two approvals if an item asks for two.
Need(c, n) == IF \E i \in ItemSet(c, n) : i.need = 2 THEN 2 ELSE 1
NeedsEvals(c, n) == \E i \in ItemSet(c, n) : i.evals

\* The row of the change set is locked while a transaction works on it.
Locked(c) == \E p \in Callers : tx[p].pc \in {"work", "write"} /\ tx[p].c = c

At(p, pc) == tx[p].pc = pc
Go(p, t) == tx' = [tx EXCEPT ![p] = t]

-----------------------------------------------------------------------------
(* Rows as a transaction sees them and as it leaves them.                  *)

Over(f, g) ==
  [r \in DOMAIN f \cup DOMAIN g |-> IF r \in DOMAIN f THEN f[r] ELSE g[r]]

\* What p sees: its own writes, else what is committed.
Visible(p, row) == Over(tx[p].writes, settings)[row]

Disabled(v) == IF v > 0 THEN -v ELSE v

\* Every row p would have to wait for.
Held(p) == UNION {DOMAIN tx[q].writes :
                    q \in {q \in Callers \ {p} : tx[q].pc \in {"work", "write"}}}

(* A touch is one row written for one item. "put" is an upsert, "delete" a *)
(* DELETE; "off" disables the row, and in a canary space that has no row   *)
(* inserts a disabled copy of the tenant's. "keep" touches read the row    *)
(* first and record it for the rollback.                                   *)
Touch(row, do, value, keep) ==
  [row |-> row, do |-> do, value |-> value, keep |-> keep]

Copies(t, seen) == t.do = "off" /\ t.row[2] # Tenant /\ seen.row = 0

\* An UPDATE or DELETE that finds no row, or no tenant's row to copy.
NoEffect(p, t, seen) ==
  IF Copies(t, seen) THEN seen.base = 0
  ELSE t.do \in {"off", "delete"} /\ Visible(p, t.row) = 0

Written(p, t, seen) ==
  CASE t.do = "put" -> t.value
    [] t.do = "delete" -> 0
    [] t.do = "off" /\ Visible(p, t.row) # 0 -> Disabled(Visible(p, t.row))
    [] OTHER -> Disabled(seen.base)

\* Where the base row of an item is.
Home(c, i) == CASE i.kind = "rollout" -> Scope[c]
                [] i.kind = "own" -> i.place
                [] OTHER -> Tenant

Do(i) == IF i.kind = "off" THEN "off" ELSE "put"

Base(c, i) == <<Touch(<<i.key, Home(c, i)>>, Do(i), i.value, TRUE)>>

Overrides(c, i, do, keep) ==
  [k \in 1..Len(Targets[c]) |-> Touch(<<i.key, Targets[c][k]>>, do, i.value, keep)]

\* releaseChangeSet and promoteChangeSet, the branch of one item.
Released(c, i, mode) ==
  IF mode = "canary" THEN Overrides(c, i, Do(i), TRUE) ELSE Base(c, i)

\* Variant: the promotion does not record what it replaces.
PromotedUnrecorded(c, i) ==
  IF i.kind = "own" THEN <<>>
  ELSE <<Touch(<<i.key, Home(c, i)>>, Do(i), i.value, FALSE)>>
         \o Overrides(c, i, "delete", FALSE)

\* Variant: the promotion leaves the canary rows in place.
PromotedBeside(c, i) == IF i.kind = "own" THEN <<>> ELSE Base(c, i)

Promoted(c, i) ==
  IF i.kind = "own" THEN <<>> ELSE Base(c, i) \o Overrides(c, i, "delete", FALSE)

\* All rows an operation touches, in the order of the items.
Work(c, op, n) ==
  FlattenSeq([k \in 1..n |->
    IF op = "promote" THEN Promoted(c, Planned[c][k])
                      ELSE Released(c, Planned[c][k], op)])

\* rollbackChangeSet replays the recorded rows in the order they were recorded.
Replay(undo) ==
  [k \in 1..Len(undo) |->
    Touch(undo[k].row, IF undo[k].value = 0 THEN "delete" ELSE "put", undo[k].value, FALSE)]

-----------------------------------------------------------------------------
Draft == [status |-> "draft", required |-> 1, approvals |-> {}, counted |-> 0,
          canary |-> FALSE, promoted |-> FALSE, undo |-> <<>>]

Init ==
  /\ cs = [c \in ChangeSets |-> Draft]
  /\ items = [c \in ChangeSets |-> 0]
  /\ bound = [c \in ChangeSets |-> FALSE]
  /\ binds = 0
  /\ runs = [c \in ChangeSets |-> <<>>]
  /\ settings = Initial
  /\ tx = [p \in Callers |-> Idle]
  /\ log = [c \in ChangeSets |-> <<>>]
  /\ before = [c \in ChangeSets |-> <<>>]
  /\ stale = [c \in ChangeSets |-> FALSE]

\* addChangeSetItem reads the status, then inserts; the foreign key waits for
\* the lock of the change set.
AddItem(p, c) ==
  /\ At(p, "idle")
  /\ cs[c].status = "draft"
  /\ items[c] < Len(Planned[c])
  /\ Go(p, [pc |-> "insert", c |-> c])
  /\ UNCHANGED <<cs, items, bound, binds, runs, settings, log, before, stale>>

InsertItem(p) ==
  /\ At(p, "insert")
  /\ ~Locked(tx[p].c)
  /\ items[tx[p].c] < Len(Planned[tx[p].c])
  /\ items' = [items EXCEPT ![tx[p].c] = @ + 1]
  /\ Go(p, Idle)
  /\ UNCHANGED <<cs, bound, binds, runs, settings, log, before, stale>>

\* submitChangeSet lists the items and computes the gate, then updates a draft.
ListForSubmit(p, c) ==
  /\ At(p, "idle")
  /\ Go(p, [pc |-> "submit", c |-> c, n |-> items[c]])
  /\ UNCHANGED <<cs, items, bound, binds, runs, settings, log, before, stale>>

\* Variant: the approvals the items need are not stored.
SubmittedLightly(s, c, n) == [s EXCEPT !.status = "submitted", !.counted = n]

Submitted(s, c, n) ==
  [s EXCEPT !.status = "submitted", !.required = Need(c, n), !.counted = n]

Submit(p) ==
  LET c == tx[p].c IN
  /\ At(p, "submit")
  /\ ~Locked(c)
  /\ cs[c].status = "draft"
  /\ cs' = [cs EXCEPT ![c] = Submitted(cs[c], c, tx[p].n)]
  /\ Go(p, Idle)
  /\ UNCHANGED <<items, bound, binds, runs, settings, log, before, stale>>

\* approveChangeSet locks the change set: one step.
Approved(s, u) ==
  LET all == s.approvals \cup {u} IN
  [s EXCEPT !.approvals = all,
            !.status = IF Cardinality(all) >= s.required THEN "approved" ELSE @]

Approve(c, u) ==
  /\ ~Locked(c)
  /\ cs[c].status = "submitted"
  /\ cs' = [cs EXCEPT ![c] = Approved(cs[c], u)]
  /\ UNCHANGED <<items, bound, binds, runs, settings, tx, log, before, stale>>

\* replaceChangeSetEvalBindings: BEGIN goes to any connection of the pool, so
\* that the DELETE and the INSERT are seen one after the other.
Unbind(p, c) ==
  /\ At(p, "idle")
  /\ binds < MaxBinds
  /\ binds' = binds + 1
  /\ bound' = [bound EXCEPT ![c] = FALSE]
  /\ Go(p, [pc |-> "bind", c |-> c])
  /\ UNCHANGED <<cs, items, runs, settings, log, before, stale>>

Bind(p) ==
  /\ At(p, "bind")
  /\ bound' = [bound EXCEPT ![tx[p].c] = TRUE]
  /\ Go(p, Idle)
  /\ UNCHANGED <<cs, items, binds, runs, settings, log, before, stale>>

\* A run of a bound suite is queued; a result may also be recorded as it is.
AddRun(c, outcome) ==
  /\ Len(runs[c]) < MaxRuns
  /\ outcome = "queued" => bound[c]
  /\ runs' = [runs EXCEPT ![c] = Append(@, outcome)]
  /\ UNCHANGED <<cs, items, bound, binds, settings, tx, log, before, stale>>

\* The worker looks at the binding again, the API that executes at once does not.
FinishRun(c, k, outcome) ==
  /\ runs[c][k] = "queued"
  /\ runs' = [runs EXCEPT ![c][k] = outcome]
  /\ UNCHANGED <<cs, items, bound, binds, settings, tx, log, before, stale>>

-----------------------------------------------------------------------------
(* releaseChangeSet, promoteChangeSet, rollbackChangeSet.                  *)

LastPassed(c) == runs[c] # <<>> /\ runs[c][Len(runs[c])] = "passed"

\* Variant: a change set without a suite passes.
BoundGate(c, n) ==
  bound[c] /\ (NeedsEvals(c, n) \/ cs[c].required = 2) => LastPassed(c)

\* Evaluations are required for kinds that ask for them, and asked of a bound
\* suite when two approvals are required.  The code reads the items, the bindings and
\* the last run one after the other; the items that were counted and the runs that
\* have passed stay, so that one step says as much.
EvalGate(c, n) ==
  /\ NeedsEvals(c, n) => bound[c]
  /\ bound[c] /\ (NeedsEvals(c, n) \/ cs[c].required = 2) => LastPassed(c)

CheckRelease(p, c, op) ==
  /\ At(p, "idle")
  /\ cs[c].status = "approved"
  /\ op = "canary" => Targets[c] # <<>>
  /\ EvalGate(c, items[c])
  /\ Go(p, [pc |-> "list", c |-> c, op |-> op, undo |-> <<>>])
  /\ UNCHANGED <<cs, items, bound, binds, runs, settings, log, before, stale>>

CheckPromote(p, c) ==
  /\ At(p, "idle")
  /\ cs[c].status = "released"
  /\ cs[c].canary /\ ~cs[c].promoted
  /\ Go(p, [pc |-> "list", c |-> c, op |-> "promote", undo |-> cs[c].undo])
  /\ UNCHANGED <<cs, items, bound, binds, runs, settings, log, before, stale>>

\* The items are listed (again, for a release).
ListItems(p) ==
  LET t == tx[p] IN
  /\ At(p, "list")
  /\ t.op = "canary" => \A i \in ItemSet(t.c, items[t.c]) : i.kind # "own"
  /\ Go(p, [pc |-> "lock", c |-> t.c, op |-> t.op, undo |-> t.undo,
            todo |-> Work(t.c, t.op, items[t.c]), n |-> items[t.c]])
  /\ UNCHANGED <<cs, items, bound, binds, runs, settings, log, before, stale>>

CheckRollback(p, c) ==
  /\ At(p, "idle")
  /\ cs[c].status = "released"
  /\ Go(p, [pc |-> "lock", c |-> c, op |-> "rollback", undo |-> cs[c].undo,
            todo |-> Replay(cs[c].undo), n |-> items[c]])
  /\ UNCHANGED <<cs, items, bound, binds, runs, settings, log, before, stale>>

\* Variant: only the status is checked again.
StatusAllowed(s, op) ==
  IF op \in {"full", "canary"} THEN s.status = "approved" ELSE s.status = "released"

\* What the transaction checks once it holds the lock.
StillAllowed(s, op) ==
  CASE op \in {"full", "canary"} ->
         s.status = "approved" /\ Cardinality(s.approvals) >= s.required
    [] op = "promote" -> s.status = "released" /\ ~s.promoted
    [] OTHER -> s.status = "released"

Lock(p) ==
  LET t == tx[p] IN
  /\ At(p, "lock")
  /\ ~Locked(t.c)
  /\ StillAllowed(cs[t.c], t.op)
  /\ Go(p, [pc |-> "work", c |-> t.c, op |-> t.op, undo |-> t.undo, n |-> t.n,
            todo |-> t.todo, writes |-> <<>>, seen |-> [row |-> 0, base |-> 0],
            stale |-> FALSE, crossed |-> {}])
  /\ UNCHANGED <<cs, items, bound, binds, runs, settings, log, before, stale>>

\* The row is read, and recorded for the rollback; for a copy of the tenant's row that
\* is switched off, the tenant's row is read right after it.
Read(p) ==
  LET touch == Head(tx[p].todo)
      value == Visible(p, touch.row) IN
  /\ At(p, "work")
  /\ tx[p].todo # <<>>
  /\ touch.keep
  /\ Go(p, [tx[p] EXCEPT
       !.pc = "write",
       !.undo = Append(@, [row |-> touch.row, value |-> value]),
       !.seen = [row |-> value, base |-> Visible(p, <<touch.row[1], Tenant>>)]])
  /\ UNCHANGED <<cs, items, bound, binds, runs, settings, log, before, stale>>

\* History: the row is no longer what was recorded, or nothing was found to copy.
Differs(p, t, touch) ==
  touch.keep /\ (Visible(p, touch.row) # t.seen.row
                   \/ (Copies(touch, t.seen) /\ NoEffect(p, touch, t.seen)))

\* The row is written; the statement waits for a transaction that holds it.
Write(p) ==
  LET t == tx[p]
      touch == Head(t.todo)
      rest == [t EXCEPT !.pc = "work", !.todo = Tail(@),
                        !.stale = @ \/ Differs(p, t, touch)] IN
  /\ At(p, "write") \/ (At(p, "work") /\ t.todo # <<>> /\ ~touch.keep)
  /\ IF NoEffect(p, touch, t.seen)
     THEN Go(p, rest)
     ELSE /\ touch.row \notin Held(p)
          /\ Go(p, [rest EXCEPT
               !.writes = Over([r \in {touch.row} |-> Written(p, touch, t.seen)], @)])
  /\ UNCHANGED <<cs, items, bound, binds, runs, settings, log, before, stale>>

After(s, t) ==
  CASE t.op = "promote" -> [s EXCEPT !.promoted = TRUE, !.undo = t.undo]
    [] t.op = "rollback" -> [s EXCEPT !.status = "rolled_back"]
    [] OTHER -> [s EXCEPT !.status = "released", !.undo = t.undo,
                          !.canary = (t.op = "canary")]

Awaited(todo) == {todo[k].row : k \in DOMAIN todo}

\* History: p writes a row that a rollback in progress restores; p writes rows that a
\* promotion in progress does not, or no longer, come to.
Crossed(t, p) ==
  LET written == DOMAIN tx[p].writes IN
  CASE t.pc \in {"work", "write"} /\ t.op = "rollback" ->
         [t EXCEPT !.stale = @ \/ \E k \in DOMAIN t.undo : t.undo[k].row \in written]
    [] t.pc \in {"work", "write"} /\ t.op = "promote" ->
         [t EXCEPT !.crossed = @ \cup (written \ Awaited(t.todo))]
    [] OTHER -> t

Commit(p) ==
  LET t == tx[p]
      c == t.c IN
  /\ At(p, "work")
  /\ t.todo = <<>>
  /\ settings' = Over(t.writes, settings)
  /\ cs' = [cs EXCEPT ![c] = After(cs[c], t)]
  /\ tx' = [q \in Callers |-> IF q = p THEN Idle ELSE Crossed(tx[q], p)]
  /\ log' = [log EXCEPT ![c] = Append(@, [op |-> t.op, n |-> t.n])]
  /\ before' = [before EXCEPT
       ![c] = IF t.op = "rollback" THEN @
              ELSE Over(@, [r \in DOMAIN t.writes |-> settings[r]])]
  /\ stale' = [stale EXCEPT ![c] = @ \/ t.stale]
  /\ UNCHANGED <<items, bound, binds, runs>>

\* A refusal, a failed statement, a deadlock the database breaks or a crash:
\* the transaction leaves nothing.
Abort(p) ==
  /\ ~At(p, "idle")
  /\ Go(p, Idle)
  /\ UNCHANGED <<cs, items, bound, binds, runs, settings, log, before, stale>>

Edit(p) ==
  \/ \E c \in ChangeSets : AddItem(p, c) \/ ListForSubmit(p, c) \/ Unbind(p, c)
  \/ InsertItem(p) \/ Submit(p) \/ Bind(p)

Gate(c) ==
  \/ \E u \in Subjects : Approve(c, u)
  \/ \E o \in {"queued", "passed", "failed"} : AddRun(c, o)
  \/ \E k \in DOMAIN runs[c], o \in {"passed", "failed"} : FinishRun(c, k, o)

Change(p) ==
  \/ \E c \in ChangeSets :
       \/ \E op \in {"full", "canary"} : CheckRelease(p, c, op)
       \/ CheckPromote(p, c)
       \/ CheckRollback(p, c)
  \/ ListItems(p) \/ Lock(p) \/ Read(p) \/ Write(p) \/ Commit(p) \/ Abort(p)

Next == (\E p \in Callers : Edit(p) \/ Change(p)) \/ (\E c \in ChangeSets : Gate(c))

Spec == Init /\ [][Next]_vars

-----------------------------------------------------------------------------
(* Correctness.                                                            *)

(* An item that was inserted after submitChangeSet had counted the items,  *)
(* which a slow addChangeSetItem does, is released with the approvals and  *)
(* the evaluations of the others; FourEyes, EvalGated and Restored leave   *)
(* these releases out.                                                     *)
Counted(c, entry) == entry.n <= cs[c].counted

(* The operations committed on a change set are, however many requests     *)
(* overlap, those of one life: a release, at most one promotion of a       *)
(* canary, at most one rollback, in this order.                            *)
Lives == {<<"full", "rollback">>, <<"canary", "promote", "rollback">>,
          <<"canary", "rollback">>, <<"canary", "promote">>}

OneLife ==
  \A c \in ChangeSets : \E life \in Lives :
    /\ Len(log[c]) <= Len(life)
    /\ \A k \in DOMAIN log[c] : log[c][k].op = life[k]

(* Whatever was released or promoted had as many distinct approvals as its *)
(* own items call for.                                                     *)
FourEyes ==
  \A c \in ChangeSets : \A k \in DOMAIN log[c] :
    Counted(c, log[c][k]) => Cardinality(cs[c].approvals) >= Need(c, log[c][k].n)

(* Items that require an evaluation are not in force anywhere before a run *)
(* for the change set has passed.                                          *)
EvalGated ==
  \A c \in ChangeSets : \A k \in DOMAIN log[c] :
    Counted(c, log[c][k]) /\ NeedsEvals(c, log[c][k].n)
      => \E r \in DOMAIN runs[c] : runs[c][r] = "passed"

Commits(p, op) ==
  tx[p].pc = "work" /\ tx[p].op = op /\ log'[tx[p].c] # log[tx[p].c]

Twice(undo) == \E j, k \in DOMAIN undo : j # k /\ undo[j].row = undo[k].row

(* A rollback puts every row the release and the promotion wrote back to   *)
(* what it was before them. Not if the change set recorded a row twice     *)
(* (the rollback replays the oldest value first), if another change set    *)
(* wrote a row between its read and its write or while it was rolled back, *)
(* if a promotion committed after the rollback had read what to replay, if *)
(* it promoted an item it had not released, or if its canary found nothing *)
(* to disable in a space, whose row of another the promotion then deletes. *)
Restored ==
  [][\A p \in Callers :
       LET c == tx[p].c IN
       /\ Commits(p, "rollback")
       /\ tx[p].undo = cs[c].undo /\ ~Twice(cs[c].undo)
       /\ ~stale[c] /\ ~tx[p].stale
       /\ \A k \in DOMAIN log[c] : Counted(c, log[c][k])
       => \A r \in DOMAIN before[c] : settings'[r] = before[c][r]]_vars

Effective(s, key, space) ==
  IF s[<<key, space>>] # 0 THEN s[<<key, space>>] ELSE s[<<key, Tenant>>]

(* The promotion of a tenant's change set leaves its canary spaces with    *)
(* the value its items gave them: whoever changed the override in between, *)
(* it goes away with the tenant's row set in the same step. Left out are a *)
(* space for which another transaction commits an override after the       *)
(* promotion has looked for one, and keys that several items change.       *)
CanaryKept ==
  [][\A p \in Callers :
       LET c == tx[p].c IN
       /\ Commits(p, "promote")
       /\ Scope[c] = Tenant
       => \A i \in ItemSet(c, tx[p].n) : \A k \in DOMAIN Targets[c] :
            /\ Do(i) = "put" /\ i.kind # "own"
            /\ \A j \in ItemSet(c, tx[p].n) : j.key = i.key => j = i
            /\ <<i.key, Targets[c][k]>> \notin tx[p].crossed
            => Effective(settings', i.key, Targets[c][k]) = i.value]_vars
=============================================================================
