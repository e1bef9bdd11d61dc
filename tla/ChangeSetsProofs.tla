-------------------------- MODULE ChangeSetsProofs --------------------------
(* What holds of change sets for any plan of items and any number of         *)
(* requests, approvers and spaces: each change set lives once, what is in    *)
(* force has had its approvals and its evaluations, a rollback restores the  *)
(* rows and a promotion leaves the canary spaces with their values.          *)
EXTENDS ChangeSets, FiniteSetTheorems, SequenceTheorems, WellFoundedInduction, TLAPS

Fields == {"status", "required", "approvals", "counted", "canary", "promoted", "undo"}
Statuses == {"draft", "submitted", "approved", "released", "rolled_back"}
Effected == {"released", "rolled_back"}
Operations == {"full", "canary", "promote", "rollback"}
\* A request that will change settings, and one that holds the lock.
Changing == {"list", "lock", "work", "write"}
Holding == {"work", "write"}
PCs == {"idle", "insert", "submit", "bind"} \cup Changing

Passed(c) == \E r \in DOMAIN runs[c] : runs[c][r] = "passed"

\* The lives a change set may have had, by its status.
Story(c) ==
  LET s == cs[c]
      n == Len(log[c])
      Op(k) == log[c][k].op IN
  /\ s.status \notin Effected => n = 0
  /\ s.status = "released" =>
       \/ n = 1 /\ Op(1) = "full" /\ ~s.canary /\ ~s.promoted
       \/ n = 1 /\ Op(1) = "canary" /\ ~s.promoted
       \/ n = 2 /\ Op(1) = "canary" /\ Op(2) = "promote" /\ s.promoted
  /\ s.status = "rolled_back" =>
       \/ n = 2 /\ Op(1) \in {"full", "canary"} /\ Op(2) = "rollback"
       \/ n = 3 /\ Op(1) = "canary" /\ Op(2) = "promote" /\ Op(3) = "rollback"

Shape(s) ==
  /\ DOMAIN s = Fields
  /\ s.status \in Statuses
  /\ s.required \in {1, 2}
  /\ IsFiniteSet(s.approvals)
  /\ s.counted \in Nat
  /\ s.canary \in BOOLEAN /\ s.promoted \in BOOLEAN

\* What a change set owes by its status.
ChangeSetGood(c) ==
  /\ Shape(cs[c])
  /\ cs[c].status # "draft" =>
       cs[c].required = Need(c, cs[c].counted) /\ cs[c].counted <= items[c]
  /\ cs[c].status \in {"approved"} \cup Effected =>
       Cardinality(cs[c].approvals) >= cs[c].required
  /\ cs[c].status \in Effected => (NeedsEvals(c, cs[c].counted) => Passed(c))
  /\ cs[c].status \notin Effected => ~cs[c].promoted
  /\ Story(c)

\* What a request has established when it has come to its program counter.
RequestGood(t) ==
  /\ "pc" \in DOMAIN t /\ t.pc \in PCs
  /\ t.pc # "idle" => "c" \in DOMAIN t /\ t.c \in ChangeSets
  /\ t.pc = "submit" => t.n \in Nat /\ t.n <= items[t.c]
  /\ t.pc \in Changing =>
       /\ "op" \in DOMAIN t /\ t.op \in Operations
       /\ t.op = "promote" => cs[t.c].canary /\ cs[t.c].status \in Effected
       /\ t.op \in {"full", "canary"} =>
            /\ cs[t.c].status \in {"approved"} \cup Effected
            /\ NeedsEvals(t.c, cs[t.c].counted) => Passed(t.c)
  /\ t.pc \in Holding \cup {"lock"} => "n" \in DOMAIN t /\ t.n \in Nat
  /\ t.pc \in Holding =>
       /\ t.op \in {"full", "canary"} => cs[t.c].status = "approved"
       /\ t.op = "promote" => cs[t.c].status = "released" /\ ~cs[t.c].promoted
       /\ t.op = "rollback" => cs[t.c].status = "released"

Typed ==
  /\ DOMAIN cs = ChangeSets /\ DOMAIN tx = Callers
  /\ items \in [ChangeSets -> Nat]
  /\ log \in [ChangeSets -> Seq([op : Operations, n : Nat])]
  /\ runs \in [ChangeSets -> Seq({"queued", "passed", "failed"})]

\* Nobody else holds what p holds.
Exclusive ==
  \A p, q \in Callers :
    p # q /\ tx[p].pc \in Holding /\ tx[q].pc \in Holding => tx[p].c # tx[q].c

LifeInv ==
  /\ Typed
  /\ \A c \in ChangeSets : ChangeSetGood(c)
  /\ \A p \in Callers : RequestGood(tx[p])
  /\ Exclusive

-----------------------------------------------------------------------------
\* More items never need less.
LEMMA NeedsGrow ==
  ASSUME NEW c, NEW m \in Nat, NEW n \in Nat, m <= n
  PROVE  /\ Need(c, m) <= Need(c, n)
         /\ NeedsEvals(c, m) => NeedsEvals(c, n)
         /\ Need(c, n) \in {1, 2}
<1>1. ItemSet(c, m) \subseteq ItemSet(c, n)
  BY DEF ItemSet
<1> QED
  BY <1>1 DEF Need, NeedsEvals

\* A step of a request that leaves the change sets alone.
LEMMA QuietStep ==
  ASSUME LifeInv, NEW p \in Callers, NEW t, Go(p, t),
         UNCHANGED <<cs, items, runs, log>>,
         RequestGood(t),
         t.pc \in Holding =>
           \A q \in Callers \ {p} : tx[q].pc \in Holding => tx[q].c # t.c
  PROVE  LifeInv'
<1>1. /\ DOMAIN tx' = Callers
      /\ tx'[p] = t
      /\ \A q \in Callers \ {p} : tx'[q] = tx[q]
  BY DEF LifeInv, Typed, Go
<1>2. Typed'
  BY <1>1 DEF LifeInv, Typed
<1>3. \A c \in ChangeSets : ChangeSetGood(c)'
  BY DEF LifeInv, ChangeSetGood, Story, Passed
<1>4. ASSUME NEW q \in Callers PROVE RequestGood(tx[q])'
  <2>1. RequestGood(tx'[q])
    BY <1>1 DEF LifeInv
  <2> QED
    BY <2>1 DEF RequestGood, Passed
<1>5. Exclusive'
  BY <1>1 DEF LifeInv, Exclusive
<1> QED
  BY <1>2, <1>3, <1>4, <1>5 DEF LifeInv

LEMMA InitLife == Init => LifeInv
<1> SUFFICES ASSUME Init PROVE LifeInv
  OBVIOUS
<1>1. Typed
  BY DEF Init, Typed
<1>2. ASSUME NEW c \in ChangeSets PROVE ChangeSetGood(c)
  <2>1. Shape(cs[c])
    BY FS_EmptySet DEF Init, Draft, Shape, Fields, Statuses
  <2> QED
    BY <2>1 DEF Init, Draft, ChangeSetGood, Story, Effected
<1>3. \A p \in Callers : RequestGood(tx[p])
  BY DEF Init, Idle, RequestGood, PCs, Changing, Holding
<1>4. Exclusive
  BY DEF Init, Idle, Exclusive, Holding
<1> QED
  BY <1>1, <1>2, <1>3, <1>4 DEF LifeInv

\* The requests that edit a change set.
LEMMA EditStep ==
  ASSUME LifeInv, NEW p \in Callers,
         \/ \E c \in ChangeSets : AddItem(p, c) \/ ListForSubmit(p, c) \/ Unbind(p, c)
         \/ Bind(p)
  PROVE  LifeInv'
<1>1. ASSUME NEW c \in ChangeSets, AddItem(p, c) PROVE LifeInv'
  <2>1. RequestGood([pc |-> "insert", c |-> c])
    BY DEF RequestGood, PCs, Changing, Holding
  <2> QED
    BY <1>1, <2>1, QuietStep DEF AddItem, Holding
<1>2. ASSUME NEW c \in ChangeSets, ListForSubmit(p, c) PROVE LifeInv'
  <2>1. RequestGood([pc |-> "submit", c |-> c, n |-> items[c]])
    BY DEF LifeInv, Typed, RequestGood, PCs, Changing, Holding
  <2> QED
    BY <1>2, <2>1, QuietStep DEF ListForSubmit, Holding
<1>3. ASSUME NEW c \in ChangeSets, Unbind(p, c) PROVE LifeInv'
  <2>1. RequestGood([pc |-> "bind", c |-> c])
    BY DEF RequestGood, PCs, Changing, Holding
  <2> QED
    BY <1>3, <2>1, QuietStep DEF Unbind, Holding
<1>4. CASE Bind(p)
  <2>1. RequestGood(Idle)
    BY DEF Idle, RequestGood, PCs, Changing, Holding
  <2> QED
    BY <1>4, <2>1, QuietStep DEF Bind, Idle, Holding
<1> QED
  BY <1>1, <1>2, <1>3, <1>4

\* The checks of a request outside of its transaction, and the lock.
LEMMA CheckStep ==
  ASSUME LifeInv, NEW p \in Callers,
         \/ \E c \in ChangeSets :
              \/ \E op \in {"full", "canary"} : CheckRelease(p, c, op)
              \/ CheckPromote(p, c) \/ CheckRollback(p, c)
         \/ ListItems(p) \/ Lock(p)
  PROVE  LifeInv'
<1>1. ASSUME NEW c \in ChangeSets, NEW op \in {"full", "canary"}, CheckRelease(p, c, op)
      PROVE  LifeInv'
  <2>1. NeedsEvals(c, cs[c].counted) => Passed(c)
    <3>1. cs[c].counted \in Nat /\ items[c] \in Nat /\ cs[c].counted <= items[c]
      BY <1>1 DEF LifeInv, ChangeSetGood, Shape, Typed, CheckRelease
    <3>2. NeedsEvals(c, items[c]) => LastPassed(c)
      BY <1>1 DEF CheckRelease, EvalGate
    <3>3. LastPassed(c) => Passed(c)
      BY DEF LifeInv, Typed, LastPassed, Passed
    <3> QED
      BY <3>1, <3>2, <3>3, NeedsGrow
  <2>2. RequestGood([pc |-> "list", c |-> c, op |-> op, undo |-> <<>>])
    BY <1>1, <2>1 DEF CheckRelease, RequestGood, PCs, Changing, Holding, Operations
  <2> QED
    BY <1>1, <2>2, QuietStep DEF CheckRelease, Holding
<1>2. ASSUME NEW c \in ChangeSets, CheckPromote(p, c) PROVE LifeInv'
  <2>1. RequestGood([pc |-> "list", c |-> c, op |-> "promote", undo |-> cs[c].undo])
    BY <1>2 DEF CheckPromote, RequestGood, PCs, Changing, Holding, Operations, Effected
  <2> QED
    BY <1>2, <2>1, QuietStep DEF CheckPromote, Holding
<1>3. ASSUME NEW c \in ChangeSets, CheckRollback(p, c) PROVE LifeInv'
  <2>1. RequestGood([pc |-> "lock", c |-> c, op |-> "rollback", undo |-> cs[c].undo,
                     todo |-> Replay(cs[c].undo), n |-> items[c]])
    BY <1>3 DEF LifeInv, Typed, CheckRollback, RequestGood, PCs, Changing, Holding, Operations
  <2> QED
    BY <1>3, <2>1, QuietStep DEF CheckRollback, Holding
<1>4. CASE ListItems(p)
  <2> DEFINE t == tx[p]
             u == [pc |-> "lock", c |-> t.c, op |-> t.op, undo |-> t.undo,
                   todo |-> Work(t.c, t.op, items[t.c]), n |-> items[t.c]]
  <2>1. RequestGood(t) /\ t.pc = "list"
    BY <1>4 DEF LifeInv, ListItems, At
  <2>2. RequestGood(u)
    <3>1. items[t.c] \in Nat
      BY <2>1 DEF LifeInv, Typed, RequestGood
    <3> QED
      BY <2>1, <3>1 DEF RequestGood, PCs, Changing, Holding
  <2> QED
    BY <1>4, <2>2, QuietStep DEF ListItems, Holding
<1>5. CASE Lock(p)
  <2> DEFINE t == tx[p]
             u == [pc |-> "work", c |-> t.c, op |-> t.op, undo |-> t.undo, n |-> t.n,
                   todo |-> t.todo, writes |-> <<>>, seen |-> [row |-> 0, base |-> 0],
                   stale |-> FALSE, crossed |-> {}]
  <2>1. RequestGood(t) /\ t.pc = "lock" /\ StillAllowed(cs[t.c], t.op)
    BY <1>5 DEF LifeInv, Lock, At
  <2>2. RequestGood(u)
    BY <2>1 DEF RequestGood, PCs, Changing, Holding, StillAllowed, Operations
  <2>3. \A q \in Callers \ {p} : tx[q].pc \in Holding => tx[q].c # u.c
    BY <1>5 DEF Lock, Locked, Holding
  <2> QED
    BY <1>5, <2>2, <2>3, QuietStep DEF Lock
<1> QED
  BY <1>1, <1>2, <1>3, <1>4, <1>5

\* A transaction that has more to do keeps what it has established.
LEMMA StillGood ==
  ASSUME NEW t, NEW u, RequestGood(t), t.pc \in Holding, u.pc \in Holding,
         "pc" \in DOMAIN u, "c" \in DOMAIN u, "op" \in DOMAIN u, "n" \in DOMAIN u,
         u.c = t.c, u.op = t.op, u.n = t.n
  PROVE  RequestGood(u)
BY DEF RequestGood, PCs, Changing, Holding

LEMMA WorkStep ==
  ASSUME LifeInv, NEW p \in Callers, Read(p) \/ Write(p) \/ Abort(p)
  PROVE  LifeInv'
<1>1. CASE Read(p)
  <2> DEFINE t == tx[p]
             touch == Head(t.todo)
             value == Visible(p, touch.row)
             u == [t EXCEPT !.pc = "write",
                            !.undo = Append(@, [row |-> touch.row, value |-> value]),
                            !.seen = [row |-> value, base |-> Visible(p, <<touch.row[1], Tenant>>)]]
  <2>1. RequestGood(t) /\ t.pc \in Holding
    BY <1>1 DEF LifeInv, Read, At, Holding
  <2>2. /\ {"pc", "c", "op", "n"} \subseteq DOMAIN t /\ DOMAIN u = DOMAIN t
        /\ u.pc = "write" /\ u.c = t.c /\ u.op = t.op /\ u.n = t.n
    BY <2>1 DEF RequestGood, Holding, Changing
  <2>3. RequestGood(u)
    BY <2>1, <2>2, StillGood DEF Holding
  <2>4. \A q \in Callers \ {p} : tx[q].pc \in Holding => tx[q].c # u.c
    BY <2>1, <2>2 DEF LifeInv, Exclusive
  <2> QED
    BY <1>1, <2>3, <2>4, QuietStep DEF Read
<1>2. CASE Write(p)
  <2> DEFINE t == tx[p]
             touch == Head(t.todo)
             rest == [t EXCEPT !.pc = "work", !.todo = Tail(@),
                               !.stale = @ \/ Differs(p, t, touch)]
  <2>1. RequestGood(t) /\ t.pc \in Holding
    BY <1>2 DEF LifeInv, Write, At, Holding
  <2>2. PICK u : /\ Go(p, u)
                 /\ \/ u = rest
                    \/ u = [rest EXCEPT
                         !.writes = Over([r \in {touch.row} |-> Written(p, touch, t.seen)], @)]
    BY <1>2 DEF Write
  <2>3. /\ {"pc", "c", "op", "n"} \subseteq DOMAIN t /\ DOMAIN u = DOMAIN t
        /\ u.pc = "work" /\ u.c = t.c /\ u.op = t.op /\ u.n = t.n
    BY <2>1, <2>2 DEF RequestGood, Holding, Changing
  <2>4. RequestGood(u)
    BY <2>1, <2>3, StillGood DEF Holding
  <2>5. \A q \in Callers \ {p} : tx[q].pc \in Holding => tx[q].c # u.c
    BY <2>1, <2>3 DEF LifeInv, Exclusive
  <2> QED
    BY <1>2, <2>2, <2>4, <2>5, QuietStep DEF Write
<1>3. CASE Abort(p)
  <2>1. RequestGood(Idle)
    BY DEF Idle, RequestGood, PCs, Changing, Holding
  <2> QED
    BY <1>3, <2>1, QuietStep DEF Abort, Idle, Holding
<1> QED
  BY <1>1, <1>2, <1>3

\* What a request has established outlives the steps of the others.
LEMMA RequestKept ==
  ASSUME NEW t, RequestGood(t),
         t.c \in ChangeSets =>
           /\ items[t.c] \in Nat /\ items'[t.c] \in Nat /\ items[t.c] <= items'[t.c]
           /\ Passed(t.c) => Passed(t.c)'
           /\ \/ cs'[t.c] = cs[t.c]
              \/ cs[t.c].status \in {"draft", "submitted"}
              \/ /\ cs'[t.c].status \in Effected /\ cs'[t.c].counted = cs[t.c].counted
                 /\ cs[t.c].status \in Effected => cs'[t.c].canary = cs[t.c].canary
                 /\ t.pc \notin Holding
  PROVE  RequestGood(t)'
<1>1. CASE t.pc = "idle"
  BY <1>1 DEF RequestGood, Holding, Changing
<1>2. CASE t.pc # "idle"
  BY <1>2 DEF RequestGood, Holding, Changing, Effected, Operations, PCs
<1> QED
  BY <1>1, <1>2

\* A step that changes at most drafts and submitted change sets, and the items and
\* evaluations of any, disturbs no request.
LEMMA EarlyStep ==
  ASSUME LifeInv, Typed',
         \A q \in Callers : tx'[q] \in {tx[q], Idle},
         \A c \in ChangeSets :
           /\ ChangeSetGood(c)'
           /\ items[c] <= items'[c]
           /\ Passed(c) => Passed(c)'
           /\ cs'[c] = cs[c] \/ cs[c].status \in {"draft", "submitted"}
  PROVE  LifeInv'
<1>1. ASSUME NEW q \in Callers PROVE RequestGood(tx[q])'
  <2>1. CASE tx'[q] = Idle
    BY <2>1 DEF Idle, RequestGood, PCs, Changing, Holding
  <2>2. CASE tx'[q] = tx[q]
    <3>1. PICK t : t = tx[q]
      OBVIOUS
    <3>2. RequestGood(t)
      BY <3>1 DEF LifeInv
    <3>3. RequestGood(t)'
      BY <3>2, RequestKept DEF LifeInv, Typed
    <3>4. tx'[q] = t
      BY <2>2, <3>1
    <3> QED
      BY <3>3, <3>4 DEF RequestGood, Passed
  <2> QED
    BY <2>1, <2>2
<1>2. Exclusive'
  BY DEF LifeInv, Exclusive, Idle, Holding
<1> QED
  BY <1>1, <1>2 DEF LifeInv

LEMMA InsertStep ==
  ASSUME LifeInv, NEW p \in Callers, InsertItem(p)
  PROVE  LifeInv'
<1> DEFINE d == tx[p].c
<1>1. d \in ChangeSets
  BY DEF LifeInv, RequestGood, InsertItem, At
<1>2. /\ items' \in [ChangeSets -> Nat]
      /\ \A c \in ChangeSets : items[c] <= items'[c]
  BY <1>1 DEF LifeInv, Typed, InsertItem
<1>3. DOMAIN tx' = Callers /\ \A q \in Callers : tx'[q] \in {tx[q], Idle}
  BY DEF LifeInv, Typed, InsertItem, Go
<1>4. UNCHANGED <<cs, runs, log>>
  BY DEF InsertItem
<1>5. Typed'
  BY <1>2, <1>3, <1>4 DEF LifeInv, Typed
<1>6. ASSUME NEW c \in ChangeSets PROVE ChangeSetGood(c)'
  <2>1. ChangeSetGood(c) /\ cs[c].counted \in Nat /\ items[c] \in Nat /\ items'[c] \in Nat
    BY <1>2 DEF LifeInv, Typed, ChangeSetGood, Shape
  <2> QED
    BY <1>2, <1>4, <2>1 DEF ChangeSetGood, Story, Passed
<1> QED
  BY <1>2, <1>3, <1>4, <1>5, <1>6, EarlyStep DEF Passed

LEMMA SubmitStep ==
  ASSUME LifeInv, NEW p \in Callers, Submit(p)
  PROVE  LifeInv'
<1>1. PICK d \in ChangeSets : d = tx[p].c /\ tx[p].n \in Nat /\ tx[p].n <= items[d]
  BY DEF LifeInv, RequestGood, Submit, At
<1>2. /\ cs[d].status = "draft" /\ cs'[d] = Submitted(cs[d], d, tx[p].n)
      /\ \A c \in ChangeSets \ {d} : cs'[c] = cs[c]
      /\ DOMAIN cs' = ChangeSets
  BY <1>1 DEF LifeInv, Typed, Submit
<1>3. DOMAIN tx' = Callers /\ \A q \in Callers : tx'[q] \in {tx[q], Idle}
  BY DEF LifeInv, Typed, Submit, Go
<1>4. UNCHANGED <<items, runs, log>>
  BY DEF Submit
<1>5. Typed'
  BY <1>2, <1>3, <1>4 DEF LifeInv, Typed
<1>6. ChangeSetGood(d)'
  <2>1. Shape(cs[d]) /\ Story(d) /\ ~cs[d].promoted
    BY <1>1, <1>2 DEF LifeInv, ChangeSetGood, Effected
  <2>2. Need(d, tx[p].n) \in {1, 2}
    BY <1>1, NeedsGrow
  <2>3. /\ Shape(cs'[d]) /\ cs'[d].status = "submitted" /\ cs'[d].counted = tx[p].n
        /\ cs'[d].required = Need(d, tx[p].n) /\ ~cs'[d].promoted
    BY <1>1, <1>2, <2>1, <2>2 DEF Submitted, Shape, Fields, Statuses
  <2> QED
    BY <1>1, <1>2, <1>4, <2>1, <2>3 DEF ChangeSetGood, Story, Effected, Shape
<1>7. ASSUME NEW c \in ChangeSets \ {d} PROVE ChangeSetGood(c)'
  BY <1>2, <1>4 DEF LifeInv, ChangeSetGood, Story, Passed
<1>8. \A c \in ChangeSets : items[c] <= items'[c]
  BY <1>4 DEF LifeInv, Typed
<1> QED
  BY <1>2, <1>3, <1>4, <1>5, <1>6, <1>7, <1>8, EarlyStep DEF Passed

LEMMA ApproveStep ==
  ASSUME LifeInv, NEW d \in ChangeSets, NEW u \in Subjects, Approve(d, u)
  PROVE  LifeInv'
<1>1. /\ cs[d].status = "submitted" /\ cs'[d] = Approved(cs[d], u)
      /\ \A c \in ChangeSets \ {d} : cs'[c] = cs[c]
      /\ DOMAIN cs' = ChangeSets
  BY DEF LifeInv, Typed, Approve
<1>2. UNCHANGED <<items, runs, log, tx>>
  BY DEF Approve
<1>3. Typed'
  BY <1>1, <1>2 DEF LifeInv, Typed
<1>4. ChangeSetGood(d)'
  <2>1. ChangeSetGood(d)
    BY DEF LifeInv
  <2> DEFINE all == cs[d].approvals \cup {u}
  <2>2. IsFiniteSet(all)
    BY <2>1, FS_AddElement DEF ChangeSetGood, Shape
  <2>3. /\ Shape(cs'[d]) /\ cs'[d].approvals = all /\ cs'[d].required = cs[d].required
        /\ cs'[d].counted = cs[d].counted /\ cs'[d].promoted = cs[d].promoted
        /\ cs'[d].status \in {"submitted", "approved"}
        /\ cs'[d].status = "approved" => Cardinality(all) >= cs[d].required
    BY <1>1, <2>1, <2>2 DEF ChangeSetGood, Approved, Shape, Fields, Statuses
  <2> QED
    BY <1>1, <1>2, <2>1, <2>3 DEF ChangeSetGood, Story, Effected
<1>5. ASSUME NEW c \in ChangeSets \ {d} PROVE ChangeSetGood(c)'
  BY <1>1, <1>2 DEF LifeInv, ChangeSetGood, Story, Passed
<1>6. \A c \in ChangeSets : items[c] <= items'[c]
  BY <1>2 DEF LifeInv, Typed
<1> QED
  BY <1>1, <1>2, <1>3, <1>4, <1>5, <1>6, EarlyStep DEF Passed

\* A run never leaves "passed".
LEMMA RunStep ==
  ASSUME LifeInv, NEW d \in ChangeSets,
         \/ \E o \in {"queued", "passed", "failed"} : AddRun(d, o)
         \/ \E k \in DOMAIN runs[d], o \in {"passed", "failed"} : FinishRun(d, k, o)
  PROVE  LifeInv'
<1>1. UNCHANGED <<cs, items, log, tx>>
  BY DEF AddRun, FinishRun
<1>2. runs' \in [ChangeSets -> Seq({"queued", "passed", "failed"})]
  <2>1. CASE \E o \in {"queued", "passed", "failed"} : AddRun(d, o)
    BY <2>1 DEF LifeInv, Typed, AddRun
  <2>2. CASE \E k \in DOMAIN runs[d], o \in {"passed", "failed"} : FinishRun(d, k, o)
    <3>1. PICK k \in DOMAIN runs[d], o \in {"passed", "failed"} : FinishRun(d, k, o)
      BY <2>2
    <3>2. [runs[d] EXCEPT ![k] = o] \in Seq({"queued", "passed", "failed"})
      BY DEF LifeInv, Typed
    <3> QED
      BY <3>1, <3>2 DEF LifeInv, Typed, FinishRun
  <2> QED
    BY <2>1, <2>2
<1>3. ASSUME NEW c \in ChangeSets, Passed(c) PROVE Passed(c)'
  <2>1. PICK r \in DOMAIN runs[c] : runs[c][r] = "passed"
    BY <1>3 DEF Passed
  <2>2. CASE \E o \in {"queued", "passed", "failed"} : AddRun(d, o)
    <3>1. PICK o \in {"queued", "passed", "failed"} : AddRun(d, o)
      BY <2>2
    <3>2. runs[c] \in Seq({"queued", "passed", "failed"})
      BY DEF LifeInv, Typed
    <3>3. runs'[c] = runs[c] \/ runs'[c] = Append(runs[c], o)
      BY <3>1 DEF LifeInv, Typed, AddRun
    <3> QED
      BY <2>1, <3>2, <3>3 DEF Passed
  <2>3. CASE \E k \in DOMAIN runs[d], o \in {"passed", "failed"} : FinishRun(d, k, o)
    <3>1. PICK k \in DOMAIN runs[d], o \in {"passed", "failed"} : FinishRun(d, k, o)
      BY <2>3
    <3>2. runs'[c] = IF c = d THEN [runs[c] EXCEPT ![k] = o] ELSE runs[c]
      BY <3>1 DEF LifeInv, Typed, FinishRun
    <3>3. runs[d][k] = "queued"
      BY <3>1 DEF FinishRun
    <3>4. r \in DOMAIN runs'[c] /\ runs'[c][r] = "passed"
      BY <2>1, <3>2, <3>3
    <3> QED
      BY <3>4 DEF Passed
  <2> QED
    BY <2>2, <2>3
<1>4. Typed'
  BY <1>1, <1>2 DEF LifeInv, Typed
<1>5. ASSUME NEW c \in ChangeSets PROVE ChangeSetGood(c)'
  BY <1>1, <1>3 DEF LifeInv, ChangeSetGood, Story
<1>6. \A c \in ChangeSets : items[c] <= items'[c]
  BY <1>1 DEF LifeInv, Typed
<1> QED
  BY <1>1, <1>3, <1>4, <1>5, <1>6, EarlyStep

\* The row of the change set after the operation of a transaction.
LEMMA AfterShape ==
  ASSUME NEW s, NEW t, Shape(s), t.op \in Operations
  PROVE  LET a == After(s, t) IN
         /\ Shape(a)
         /\ a.required = s.required /\ a.counted = s.counted /\ a.approvals = s.approvals
         /\ t.op \in {"full", "canary"} =>
              /\ a.status = "released" /\ a.promoted = s.promoted
              /\ t.op = "full" => ~a.canary
         /\ t.op = "promote" => a.status = s.status /\ a.promoted /\ a.canary = s.canary
         /\ t.op = "rollback" =>
              a.status = "rolled_back" /\ a.promoted = s.promoted /\ a.canary = s.canary
<1>1. CASE t.op \in {"full", "canary"}
  BY <1>1 DEF After, Shape, Fields, Statuses
<1>2. CASE t.op = "promote"
  BY <1>2 DEF After, Shape, Fields, Statuses
<1>3. CASE t.op = "rollback"
  BY <1>3 DEF After, Shape, Fields, Statuses
<1> QED
  BY <1>1, <1>2, <1>3 DEF Operations

LEMMA OneOf ==
  ASSUME NEW S, NEW s \in Seq(S), NEW k \in DOMAIN s
  PROVE  Len(s) \in Nat /\ k \in 1..Len(s) /\ s[k] \in S
OBVIOUS

\* A sequence with one more element.
LEMMA OneMore ==
  ASSUME NEW S, NEW s \in Seq(S), NEW e \in S
  PROVE  /\ Append(s, e) \in Seq(S)
         /\ Len(s) \in Nat /\ Len(Append(s, e)) = Len(s) + 1
         /\ Append(s, e)[Len(s) + 1] = e
         /\ \A k \in 1..Len(s) : Append(s, e)[k] = s[k]
OBVIOUS

LEMMA CommitStep ==
  ASSUME LifeInv, NEW p \in Callers, Commit(p)
  PROVE  LifeInv'
<1>1. PICK t : t = tx[p]
  OBVIOUS
<1>2. PICK c \in ChangeSets : c = t.c
  BY <1>1 DEF LifeInv, RequestGood, Commit, At
<1>3. /\ RequestGood(t) /\ t.pc = "work" /\ t.pc \in Holding
      /\ t.op \in Operations /\ t.n \in Nat
  BY <1>1 DEF LifeInv, RequestGood, Commit, At, Holding, Changing
<1>4. ChangeSetGood(c) /\ Shape(cs[c])
  BY DEF LifeInv, ChangeSetGood
<1>5. /\ DOMAIN cs' = ChangeSets /\ cs'[c] = After(cs[c], t)
      /\ \A d \in ChangeSets \ {c} : cs'[d] = cs[d]
      /\ UNCHANGED <<items, runs>>
  BY <1>1, <1>2 DEF LifeInv, Typed, Commit
<1>6. /\ log' \in [ChangeSets -> Seq([op : Operations, n : Nat])]
      /\ log'[c] = Append(log[c], [op |-> t.op, n |-> t.n])
      /\ \A d \in ChangeSets \ {c} : log'[d] = log[d]
  <2>1. [op |-> t.op, n |-> t.n] \in [op : Operations, n : Nat]
    BY <1>3
  <2>2. log' = [log EXCEPT ![c] = Append(@, [op |-> t.op, n |-> t.n])]
    BY <1>1, <1>2 DEF Commit
  <2>3. log \in [ChangeSets -> Seq([op : Operations, n : Nat])]
    BY DEF LifeInv, Typed
  <2>4. Append(log[c], [op |-> t.op, n |-> t.n]) \in Seq([op : Operations, n : Nat])
    BY <2>1, <2>3, OneMore
  <2> QED
    BY <2>2, <2>3, <2>4
<1>7. /\ DOMAIN tx' = Callers /\ tx'[p] = Idle
      /\ \A q \in Callers \ {p} : tx'[q] = Crossed(tx[q], p)
  BY DEF Commit
<1>8. Typed'
  BY <1>5, <1>6, <1>7 DEF LifeInv, Typed
<1>9. /\ t.op \in {"full", "canary"} =>
           cs[c].status = "approved" /\ (NeedsEvals(c, cs[c].counted) => Passed(c))
      /\ t.op = "promote" => cs[c].status = "released" /\ cs[c].canary /\ ~cs[c].promoted
      /\ t.op = "rollback" => cs[c].status = "released"
  BY <1>2, <1>3 DEF RequestGood, Holding, Changing
<1>10. /\ Shape(cs'[c])
       /\ cs'[c].required = cs[c].required /\ cs'[c].counted = cs[c].counted
       /\ cs'[c].approvals = cs[c].approvals
       /\ t.op \in {"full", "canary"} =>
            /\ cs'[c].status = "released" /\ cs'[c].promoted = cs[c].promoted
            /\ t.op = "full" => ~cs'[c].canary
       /\ t.op = "promote" =>
            cs'[c].status = cs[c].status /\ cs'[c].promoted /\ cs'[c].canary = cs[c].canary
       /\ t.op = "rollback" =>
            /\ cs'[c].status = "rolled_back" /\ cs'[c].promoted = cs[c].promoted
            /\ cs'[c].canary = cs[c].canary
  BY <1>3, <1>4, <1>5, AfterShape
<1>11. /\ cs'[c].status \in Effected /\ cs'[c].counted = cs[c].counted
       /\ cs[c].status \in Effected => cs'[c].canary = cs[c].canary
  BY <1>3, <1>9, <1>10 DEF Operations, Effected
<1>12. ChangeSetGood(c)'
  <2>2. /\ cs[c].status \in {"approved"} \cup Effected
        /\ NeedsEvals(c, cs[c].counted) => Passed(c)
    BY <1>3, <1>4, <1>9 DEF ChangeSetGood, Operations, Effected
  <2>3. Story(c)'
    <3>1. /\ log[c] \in Seq([op : Operations, n : Nat])
          /\ Len(log[c]) \in Nat /\ Len(log'[c]) = Len(log[c]) + 1
          /\ log'[c][Len(log[c]) + 1].op = t.op
          /\ \A k \in 1..Len(log[c]) : log'[c][k] = log[c][k]
      <4>1. PICK e \in [op : Operations, n : Nat] : e.op = t.op /\ log'[c] = Append(log[c], e)
        BY <1>3, <1>6
      <4>2. log[c] \in Seq([op : Operations, n : Nat])
        BY DEF LifeInv, Typed
      <4> QED
        BY <4>1, <4>2, OneMore
    <3>2. Story(c) /\ (cs[c].status \notin Effected => ~cs[c].promoted)
      BY <1>4 DEF ChangeSetGood
    <3> DEFINE Op(k) == log[c][k].op
    <3>3. CASE t.op \in {"full", "canary"}
      <4>1. Len(log'[c]) = 1 /\ log'[c][1].op = t.op
        BY <1>9, <3>1, <3>2, <3>3 DEF Story, Effected
      <4>2. cs'[c].status = "released" /\ ~cs'[c].promoted
        BY <1>9, <1>10, <3>2, <3>3 DEF Effected
      <4> QED
        BY <1>10, <3>3, <4>1, <4>2 DEF Story, Effected
    <3>4. CASE t.op = "promote"
      <4>1. Len(log[c]) = 1 /\ log[c][1].op = "canary"
        BY <1>9, <3>2, <3>4 DEF Story
      <4>2. Len(log'[c]) = 2 /\ log'[c][1].op = "canary" /\ log'[c][2].op = "promote"
        BY <3>1, <3>4, <4>1
      <4> QED
        BY <1>9, <1>10, <3>4, <4>2 DEF Story, Effected
    <3>5. CASE t.op = "rollback"
      <4>1. \/ Len(log[c]) = 1 /\ Op(1) \in {"full", "canary"}
            \/ Len(log[c]) = 2 /\ Op(1) = "canary" /\ Op(2) = "promote"
        BY <1>9, <3>2, <3>5 DEF Story
      <4>2. CASE Len(log[c]) = 1
        <5>1. Len(log'[c]) = 2 /\ log'[c][1].op \in {"full", "canary"}
              /\ log'[c][2].op = "rollback"
          BY <3>1, <3>5, <4>1, <4>2
        <5> QED
          BY <1>10, <3>5, <5>1 DEF Story, Effected
      <4>3. CASE Len(log[c]) = 2
        <5>1. Len(log'[c]) = 3 /\ log'[c][1].op = "canary" /\ log'[c][2].op = "promote"
              /\ log'[c][3].op = "rollback"
          BY <3>1, <3>5, <4>1, <4>3
        <5> QED
          BY <1>10, <3>5, <5>1 DEF Story, Effected
      <4> QED
        BY <4>1, <4>2, <4>3
    <3> QED
      BY <1>3, <3>3, <3>4, <3>5 DEF Operations
  <2>4. /\ cs[c].required = Need(c, cs[c].counted) /\ cs[c].counted <= items[c]
        /\ Cardinality(cs[c].approvals) >= cs[c].required
    BY <1>4, <2>2 DEF ChangeSetGood, Effected
  <2>5. NeedsEvals(c, cs'[c].counted) => Passed(c)'
    BY <1>5, <1>11, <2>2 DEF Passed
  <2> QED
    BY <1>5, <1>10, <1>11, <2>3, <2>4, <2>5 DEF ChangeSetGood
<1>13. ASSUME NEW d \in ChangeSets \ {c} PROVE ChangeSetGood(d)'
  <2>1. cs'[d] = cs[d] /\ log'[d] = log[d] /\ UNCHANGED <<items, runs>>
    BY <1>5, <1>6
  <2>2. ChangeSetGood(d)
    BY DEF LifeInv
  <2> QED
    BY <2>1, <2>2 DEF ChangeSetGood, Story, Passed
<1>14. ASSUME NEW q \in Callers \ {p} PROVE RequestGood(tx[q])'
  <2>1. PICK v : v = Crossed(tx[q], p)
    OBVIOUS
  <2>2. RequestGood(v) /\ v.pc = tx[q].pc /\ (v.pc \in Holding => v.c = tx[q].c)
    <3>1. RequestGood(tx[q])
      BY DEF LifeInv
    <3>2. CASE v = tx[q]
      BY <3>1, <3>2
    <3>3. CASE /\ tx[q].pc \in Holding
               /\ \/ \E b : v = [tx[q] EXCEPT !.stale = b]
                  \/ \E rows : v = [tx[q] EXCEPT !.crossed = rows]
      <4>1. {"pc", "c", "op", "n"} \subseteq DOMAIN tx[q]
        BY <3>1, <3>3 DEF RequestGood, Holding, Changing
      <4>2. /\ DOMAIN v = DOMAIN tx[q] /\ v.pc = tx[q].pc /\ v.c = tx[q].c
            /\ v.op = tx[q].op /\ v.n = tx[q].n
        BY <3>3, <4>1
      <4> QED
        BY <3>1, <3>3, <4>1, <4>2, StillGood DEF Holding
    <3> QED
      BY <2>1, <3>2, <3>3 DEF Crossed, Holding
  <2>3. v.pc \in Holding => v.c # c
    BY <1>1, <1>2, <1>3, <2>2 DEF LifeInv, Exclusive
  <2>4. RequestGood(v)'
    <3>1. v.c \in ChangeSets =>
           /\ items[v.c] \in Nat /\ items'[v.c] \in Nat /\ items[v.c] <= items'[v.c]
           /\ Passed(v.c) => Passed(v.c)'
           /\ \/ cs'[v.c] = cs[v.c]
              \/ /\ cs'[v.c].status \in Effected /\ cs'[v.c].counted = cs[v.c].counted
                 /\ cs[v.c].status \in Effected => cs'[v.c].canary = cs[v.c].canary
                 /\ v.pc \notin Holding
      BY <1>5, <1>11, <2>3 DEF LifeInv, Typed, Passed
    <3> QED
      BY <2>2, <3>1, RequestKept
  <2>5. tx'[q] = v
    BY <1>7, <2>1
  <2> QED
    BY <2>4, <2>5 DEF RequestGood, Passed
<1>15. RequestGood(tx[p])'
  BY <1>7 DEF Idle, RequestGood, PCs, Changing, Holding
<1>16. Exclusive'
  <2>1. ASSUME NEW q \in Callers, tx'[q].pc \in Holding
        PROVE  q # p /\ tx[q].pc \in Holding /\ tx'[q].c = tx[q].c
    <3>1. q # p
      BY <1>7, <2>1 DEF Idle, Holding
    <3>2. RequestGood(tx[q]) /\ tx'[q] = Crossed(tx[q], p)
      BY <1>7, <3>1 DEF LifeInv
    <3>3. CASE tx'[q] = tx[q]
      BY <2>1, <3>1, <3>3
    <3>4. CASE /\ tx[q].pc \in Holding
               /\ \/ \E b : tx'[q] = [tx[q] EXCEPT !.stale = b]
                  \/ \E rows : tx'[q] = [tx[q] EXCEPT !.crossed = rows]
      BY <3>1, <3>2, <3>4 DEF RequestGood, Holding, Changing
    <3> QED
      BY <3>2, <3>3, <3>4 DEF Crossed, Holding
  <2> QED
    BY <2>1 DEF LifeInv, Exclusive
<1> QED
  BY <1>8, <1>12, <1>13, <1>14, <1>15, <1>16 DEF LifeInv

-----------------------------------------------------------------------------
LEMMA StepLife == LifeInv /\ [Next]_vars => LifeInv'
<1> SUFFICES ASSUME LifeInv, [Next]_vars PROVE LifeInv'
  OBVIOUS
<1>1. ASSUME NEW p \in Callers, Edit(p) PROVE LifeInv'
  BY <1>1, EditStep, InsertStep, SubmitStep DEF Edit
<1>2. ASSUME NEW p \in Callers, Change(p) PROVE LifeInv'
  BY <1>2, CheckStep, WorkStep, CommitStep DEF Change
<1>3. ASSUME NEW c \in ChangeSets, Gate(c) PROVE LifeInv'
  BY <1>3, ApproveStep, RunStep DEF Gate
<1>4. CASE UNCHANGED vars
  <2>1. Typed' /\ Exclusive'
    BY <1>4 DEF LifeInv, vars, Typed, Exclusive
  <2>2. \A c \in ChangeSets : ChangeSetGood(c)'
    BY <1>4 DEF LifeInv, vars, ChangeSetGood, Story, Passed
  <2>3. \A p \in Callers : RequestGood(tx[p])'
    BY <1>4 DEF LifeInv, vars, RequestGood, Passed
  <2> QED
    BY <2>1, <2>2, <2>3 DEF LifeInv
<1> QED
  BY <1>1, <1>2, <1>3, <1>4 DEF Next

\* However many requests overlap, a change set lives once: a release, at most one
\* promotion of a canary, at most one rollback, in this order.
THEOREM OneLifeHolds == Spec => []OneLife
<1>1. LifeInv => OneLife
  <2> SUFFICES ASSUME LifeInv, NEW c \in ChangeSets
               PROVE  \E life \in Lives :
                        /\ Len(log[c]) <= Len(life)
                        /\ \A k \in DOMAIN log[c] : log[c][k].op = life[k]
    BY DEF OneLife
  <2>1. /\ log[c] \in Seq([op : Operations, n : Nat]) /\ Story(c) /\ Shape(cs[c])
        /\ cs[c].status \in Statuses
    BY DEF LifeInv, Typed, ChangeSetGood, Shape
  <2> DEFINE n == Len(log[c])
             Op(k) == log[c][k].op
  <2>2. \/ n = 0
        \/ n = 1 /\ Op(1) \in {"full", "canary"}
        \/ n = 2 /\ Op(1) = "canary" /\ Op(2) = "promote"
        \/ n = 2 /\ Op(1) \in {"full", "canary"} /\ Op(2) = "rollback"
        \/ n = 3 /\ Op(1) = "canary" /\ Op(2) = "promote" /\ Op(3) = "rollback"
    BY <2>1 DEF Story, Statuses, Effected
  <2>3. DOMAIN log[c] = 1..n /\ n \in Nat
    BY <2>1
  <2>4. CASE n = 0 \/ (n = 1 /\ Op(1) = "full") \/ (n = 2 /\ Op(1) = "full" /\ Op(2) = "rollback")
    <3>1. PICK life \in Lives : life = <<"full", "rollback">>
      BY DEF Lives
    <3>2. Len(life) = 2 /\ life[1] = "full" /\ life[2] = "rollback"
      BY <3>1
    <3>3. \A k \in 1..n : Op(k) = life[k]
      BY <2>3, <2>4, <3>2
    <3> QED
      BY <2>3, <2>4, <3>2, <3>3
  <2>5. CASE (n = 1 /\ Op(1) = "canary") \/ (n = 2 /\ Op(1) = "canary" /\ Op(2) = "rollback")
    <3>1. PICK life \in Lives : life = <<"canary", "rollback">>
      BY DEF Lives
    <3>2. Len(life) = 2 /\ life[1] = "canary" /\ life[2] = "rollback"
      BY <3>1
    <3>3. \A k \in 1..n : Op(k) = life[k]
      BY <2>3, <2>5, <3>2
    <3> QED
      BY <2>3, <2>5, <3>2, <3>3
  <2>6. CASE \/ n = 2 /\ Op(1) = "canary" /\ Op(2) = "promote"
             \/ n = 3 /\ Op(1) = "canary" /\ Op(2) = "promote" /\ Op(3) = "rollback"
    <3>1. PICK life \in Lives : life = <<"canary", "promote", "rollback">>
      BY DEF Lives
    <3>2. Len(life) = 3 /\ life[1] = "canary" /\ life[2] = "promote" /\ life[3] = "rollback"
      BY <3>1
    <3>3. \A k \in 1..n : Op(k) = life[k]
      BY <2>3, <2>6, <3>2
    <3>4. n <= Len(life)
      <4>1. CASE n = 2
        BY <3>2, <4>1
      <4>2. CASE n = 3
        BY <3>2, <4>2
      <4> QED
        BY <2>6, <4>1, <4>2
    <3>5. \A k \in DOMAIN log[c] : log[c][k].op = life[k]
      BY <2>3, <3>3
    <3> QED
      BY <3>1, <3>4, <3>5
  <2> QED
    BY <2>2, <2>4, <2>5, <2>6
<1> QED
  BY <1>1, InitLife, StepLife, PTL DEF Spec

\* A change set of which something was committed has been released.
LEMMA LoggedIsEffected ==
  ASSUME LifeInv, NEW c \in ChangeSets, NEW k \in DOMAIN log[c]
  PROVE  cs[c].status \in Effected /\ log[c][k].n \in Nat
<1>1. log[c] \in Seq([op : Operations, n : Nat]) /\ Story(c)
  BY DEF LifeInv, Typed, ChangeSetGood
<1>2. /\ Len(log[c]) \in Nat /\ k \in 1..Len(log[c])
      /\ log[c][k] \in [op : Operations, n : Nat]
  BY <1>1, OneOf
<1>3. Len(log[c]) # 0
  BY <1>2
<1> QED
  BY <1>1, <1>2, <1>3 DEF Story

\* Whatever was released or promoted had as many distinct approvals as its own items
\* call for.
THEOREM FourEyesHolds == Spec => []FourEyes
<1>1. LifeInv => FourEyes
  <2> SUFFICES ASSUME LifeInv, NEW c \in ChangeSets, NEW k \in DOMAIN log[c],
                      Counted(c, log[c][k])
               PROVE  Cardinality(cs[c].approvals) >= Need(c, log[c][k].n)
    BY DEF FourEyes
  <2> DEFINE n == log[c][k].n
  <2>1. cs[c].status \in Effected /\ n \in Nat /\ ChangeSetGood(c)
    BY LoggedIsEffected DEF LifeInv
  <2>2. cs[c].counted \in Nat /\ n <= cs[c].counted
    BY <2>1 DEF Counted, ChangeSetGood, Shape
  <2>3. Cardinality(cs[c].approvals) \in Nat
    BY <2>1, FS_CardinalityType DEF ChangeSetGood, Shape
  <2>4. Need(c, n) <= Need(c, cs[c].counted) /\ Need(c, n) \in {1, 2}
    BY <2>1, <2>2, NeedsGrow
  <2> QED
    BY <2>1, <2>3, <2>4 DEF ChangeSetGood, Effected, Shape
<1> QED
  BY <1>1, InitLife, StepLife, PTL DEF Spec

\* Items that require an evaluation are not in force before a run has passed.
THEOREM EvalGatedHolds == Spec => []EvalGated
<1>1. LifeInv => EvalGated
  <2> SUFFICES ASSUME LifeInv, NEW c \in ChangeSets, NEW k \in DOMAIN log[c],
                      Counted(c, log[c][k]), NeedsEvals(c, log[c][k].n)
               PROVE  Passed(c)
    BY DEF EvalGated, Passed
  <2>1. cs[c].status \in Effected /\ log[c][k].n \in Nat /\ ChangeSetGood(c)
    BY LoggedIsEffected DEF LifeInv
  <2> QED
    BY <2>1, NeedsGrow DEF Counted, ChangeSetGood, Shape
<1> QED
  BY <1>1, InitLife, StepLife, PTL DEF Spec

-----------------------------------------------------------------------------
(* What the operations write.  The touches of a request are a FlattenSeq,    *)
(* whose elements are found by induction: a set of numbers on which the      *)
(* lemma failed would have a least one.                                      *)

\* A set of numbers has a least one.
LEMMA Least ==
  ASSUME NEW T \in SUBSET Nat, T # {}
  PROVE  \E n \in T : \A m \in T : n <= m
<1>1. IsWellFoundedOn(OpToRel(<, Nat), Nat)
  BY NatLessThanWellFounded
<1>2. PICK R : R = OpToRel(<, Nat)
  OBVIOUS
<1>3. R = {ss \in Nat \X Nat : ss[1] < ss[2]}
  BY <1>2 DEF OpToRel
<1>4. IsWellFoundedOn(R, Nat)
  BY <1>1, <1>2
<1>5. \E x \in T : \A y \in T : ~ (<<y, x>> \in R)
  BY <1>4, WFMin
<1>6. \A x, y \in Nat : ~(<<y, x>> \in R) => x <= y
  BY <1>3
<1> QED
  BY <1>5, <1>6

\* f joins the first n of the sequences, one after the other; FlattenSeq is the last.
Joins(f, seqs, n) ==
  f = [i \in 1..n |-> IF i = 1 THEN seqs[i] ELSE f[i-1] \o seqs[i]]

Elems(s) == {s[k] : k \in DOMAIN s}

\* The elements of two sequences joined.
LEMMA ElemsOfTwo ==
  ASSUME NEW S, NEW s \in Seq(S), NEW t \in Seq(S)
  PROVE  s \o t \in Seq(S) /\ Elems(s \o t) = Elems(s) \cup Elems(t)
<1>1. s \o t \in Seq(S)
  OBVIOUS
<1>2. ASSUME NEW x \in Elems(s \o t) PROVE x \in Elems(s) \cup Elems(t)
  <2>1. PICK k \in 1..(Len(s) + Len(t)) : x = (s \o t)[k]
    BY DEF Elems
  <2>2. CASE k <= Len(s)
    BY <2>1, <2>2 DEF Elems
  <2>3. CASE k > Len(s)
    <3>1. x = t[k - Len(s)] /\ k - Len(s) \in DOMAIN t
      BY <2>1, <2>3
    <3> QED
      BY <3>1 DEF Elems
  <2> QED
    BY <2>2, <2>3
<1>3. ASSUME NEW x \in Elems(s) PROVE x \in Elems(s \o t)
  <2>1. PICK k \in 1..Len(s) : x = s[k]
    BY DEF Elems
  <2>2. x = (s \o t)[k] /\ k \in DOMAIN (s \o t)
    BY <2>1
  <2> QED
    BY <2>2 DEF Elems
<1>4. ASSUME NEW x \in Elems(t) PROVE x \in Elems(s \o t)
  <2>1. PICK k \in 1..Len(t) : x = t[k]
    BY DEF Elems
  <2>2. x = (s \o t)[Len(s) + k] /\ Len(s) + k \in DOMAIN (s \o t)
    BY <2>1
  <2> QED
    BY <2>2 DEF Elems
<1> QED
  BY <1>1, <1>2, <1>3, <1>4

\* There is such a function: by the least n for which there is none.
LEMMA JoinsExists ==
  ASSUME NEW seqs, NEW N \in Nat, N # 0
  PROVE  \E f : Joins(f, seqs, N)
<1> DEFINE Bad == {n \in Nat : n # 0 /\ ~\E f : Joins(f, seqs, n)}
<1> SUFFICES ASSUME Bad # {} PROVE FALSE
  OBVIOUS
<1>1. PICK n \in Bad : \A m \in Bad : n <= m
  BY Least
<1>2. n # 1
  <2>1. PICK f : f = [i \in 1..1 |-> seqs[i]]
    OBVIOUS
  <2>2. Joins(f, seqs, 1)
    BY <2>1 DEF Joins
  <2> QED
    BY <2>2
<1>3. PICK g : Joins(g, seqs, n - 1)
  <2>1. n - 1 \in Nat /\ n - 1 # 0
    BY <1>2
  <2> QED
    BY <1>1, <2>1
<1>4. PICK f : f = [i \in 1..n |-> IF i = n THEN g[n-1] \o seqs[n] ELSE g[i]]
  OBVIOUS
<1>5. n \in Nat /\ n > 1
  BY <1>2
<1>6. ASSUME NEW i \in 1..n
      PROVE  f[i] = IF i = 1 THEN seqs[i] ELSE f[i-1] \o seqs[i]
  <2>1. CASE i = n
    <3>1. f[n] = g[n-1] \o seqs[n] /\ f[n-1] = g[n-1]
      <4>1. n \in 1..n /\ n - 1 \in 1..n /\ n - 1 # n
        BY <1>5
      <4> QED
        BY <1>4, <4>1, Zenon
    <3>2. i # 1
      BY <1>5, <2>1
    <3> QED
      BY <2>1, <3>1, <3>2, Zenon
  <2>2. CASE i # n
    <3>1. i \in 1..(n-1) /\ i - 1 # n
      BY <1>5, <2>2
    <3>2. g[i] = IF i = 1 THEN seqs[i] ELSE g[i-1] \o seqs[i]
      BY <1>3, <3>1 DEF Joins
    <3>3. f[i] = g[i] /\ (i # 1 => f[i-1] = g[i-1])
      BY <1>4, <1>5, <2>2, <3>1
    <3> QED
      BY <3>2, <3>3
  <2> QED
    BY <2>1, <2>2
<1>7. Joins(f, seqs, n)
  BY <1>4, <1>6 DEF Joins
<1> QED
  BY <1>7

\* What FlattenSeq returns has the elements of the sequences it is given.
LEMMA Flattened ==
  ASSUME NEW S, NEW seqs \in Seq(Seq(S))
  PROVE  /\ FlattenSeq(seqs) \in Seq(S)
         /\ Elems(FlattenSeq(seqs)) = UNION {Elems(seqs[k]) : k \in DOMAIN seqs}
<1>1. PICK N \in Nat : N = Len(seqs)
  OBVIOUS
<1>2. CASE N = 0
  <2>1. FlattenSeq(seqs) = seqs
    BY <1>1, <1>2, Zenon DEF FlattenSeq
  <2>2. seqs = <<>>
    BY <1>1, <1>2, EmptySeq
  <2> QED
    BY <2>1, <2>2 DEF Elems
<1>3. CASE N # 0
  <2>1. PICK f : f = CHOOSE h : Joins(h, seqs, N)
    OBVIOUS
  <2>2. FlattenSeq(seqs) = f[N]
    BY <1>1, <1>3, <2>1 DEF FlattenSeq, Joins
  <2>3. Joins(f, seqs, N)
    BY <1>3, <2>1, JoinsExists
  <2> DEFINE Right(i) == f[i] \in Seq(S) /\ Elems(f[i]) = UNION {Elems(seqs[k]) : k \in 1..i}
             Bad == {i \in Nat : i \in 1..N /\ ~Right(i)}
  <2>4. Bad = {}
    <3> SUFFICES ASSUME Bad # {} PROVE FALSE
      OBVIOUS
    <3>1. PICK i \in Bad : \A m \in Bad : i <= m
      BY Least
    <3>2. CASE i = 1
      <4>1. f[i] = seqs[i] /\ 1..i = {i}
        BY <2>3, <3>1, <3>2 DEF Joins
      <4> QED
        BY <1>1, <3>1, <4>1
    <3>3. CASE i # 1
      <4>1. i - 1 \in 1..N /\ i \in 1..N
        BY <3>1, <3>3
      <4>2. Right(i - 1)
        <5>1. i - 1 \in Nat /\ ~(i <= i - 1)
          BY <4>1
        <5>2. i - 1 \notin Bad
          BY <3>1, <5>1
        <5> QED
          BY <4>1, <5>1, <5>2
      <4>3. f[i] = f[i-1] \o seqs[i]
        BY <2>3, <3>3, <4>1 DEF Joins
      <4>4. seqs[i] \in Seq(S)
        BY <1>1, <4>1
      <4>5. f[i] \in Seq(S) /\ Elems(f[i]) = Elems(f[i-1]) \cup Elems(seqs[i])
        BY <4>2, <4>3, <4>4, ElemsOfTwo
      <4>6. 1..i = (1..(i-1)) \cup {i}
        BY <4>1
      <4>7. Elems(f[i]) = UNION {Elems(seqs[k]) : k \in 1..i}
        BY <4>2, <4>5, <4>6
      <4> QED
        BY <3>1, <4>5, <4>7
    <3> QED
      BY <3>2, <3>3
  <2>5. Right(N)
    <3>1. N \in 1..N
      BY <1>3
    <3> QED
      BY <2>4, <3>1
  <2>6. DOMAIN seqs = 1..N
    BY <1>1
  <2> QED
    BY <2>2, <2>5, <2>6
<1> QED
  BY <1>2, <1>3

\* The first element of a sequence and the others.
LEMMA FirstAndRest ==
  ASSUME NEW S, NEW s \in Seq(S), s # <<>>
  PROVE  /\ Head(s) \in S /\ Tail(s) \in Seq(S)
         /\ Elems(s) = {Head(s)} \cup Elems(Tail(s))
<1>1. /\ Head(s) = s[1] /\ 1 \in DOMAIN s
      /\ Tail(s) \in Seq(S) /\ Head(s) \in S
  OBVIOUS
<1>2. ASSUME NEW k \in DOMAIN s, k # 1
      PROVE  k - 1 \in DOMAIN Tail(s) /\ s[k] = Tail(s)[k-1]
  BY <1>2
<1>3. \A k \in DOMAIN Tail(s) : k + 1 \in DOMAIN s /\ Tail(s)[k] = s[k+1]
  OBVIOUS
<1>4. ASSUME NEW x \in Elems(s) PROVE x \in {Head(s)} \cup Elems(Tail(s))
  BY <1>1, <1>2 DEF Elems
<1>5. ASSUME NEW x \in {Head(s)} \cup Elems(Tail(s)) PROVE x \in Elems(s)
  <2>1. CASE x = Head(s)
    BY <1>1, <2>1, Zenon DEF Elems
  <2>2. CASE x \in Elems(Tail(s))
    BY <1>3, <2>2, Zenon DEF Elems
  <2> QED
    BY <2>1, <2>2
<1> QED
  BY <1>1, <1>4, <1>5

\* What is recorded of a row, and what is done to one.
Records == [row : Rows, value : Int]
Touches == [row : Rows, do : {"put", "delete", "off"}, value : Int, keep : BOOLEAN]

\* The rows a request has still to come to.
LEMMA AwaitedRows ==
  ASSUME NEW todo \in Seq(Touches)
  PROVE  /\ Awaited(todo) = {x.row : x \in Elems(todo)}
         /\ todo # <<>> => Awaited(todo) = {Head(todo).row} \cup Awaited(Tail(todo))
         /\ todo = <<>> => Awaited(todo) = {}
<1>1. \A s : Awaited(s) = {x.row : x \in Elems(s)}
  BY DEF Awaited, Elems
<1>2. CASE todo # <<>>
  BY <1>1, <1>2, FirstAndRest
<1>3. CASE todo = <<>>
  <2>1. DOMAIN todo = {}
    BY <1>3
  <2>2. Awaited(todo) = {}
    BY <2>1 DEF Awaited
  <2> QED
    BY <1>1, <1>3, <2>2
<1> QED
  BY <1>1, <1>2, <1>3

BaseTouch(c, i) == Touch(<<i.key, Home(c, i)>>, Do(i), i.value, TRUE)
OverrideTouches(c, i, do, keep) ==
  {Touch(<<i.key, Targets[c][k]>>, do, i.value, keep) : k \in DOMAIN Targets[c]}

\* What an operation does for one item.
Part(c, op, i) == IF op = "promote" THEN Promoted(c, i) ELSE Released(c, i, op)

\* The touches of an item: its base row, its canary spaces, or both.
PartElems(c, op, i) ==
  CASE op = "full" -> {BaseTouch(c, i)}
    [] op = "canary" -> OverrideTouches(c, i, Do(i), TRUE)
    [] OTHER -> IF i.kind = "own" THEN {}
                ELSE {BaseTouch(c, i)} \cup OverrideTouches(c, i, "delete", FALSE)

\* The touches of an item are well formed.
LEMMA TouchesOfItem ==
  ASSUME NEW c \in ChangeSets, NEW i \in Items
  PROVE  /\ BaseTouch(c, i) \in Touches
         /\ \A keep \in BOOLEAN, do \in {"put", "delete", "off"} :
              OverrideTouches(c, i, do, keep) \subseteq Touches
         /\ \A keep \in BOOLEAN, do \in {"put", "delete", "off"} :
              Overrides(c, i, do, keep) \in Seq(Touches)
              /\ Elems(Overrides(c, i, do, keep)) = OverrideTouches(c, i, do, keep)
         /\ Base(c, i) \in Seq(Touches) /\ Elems(Base(c, i)) = {BaseTouch(c, i)}
<1>1. Do(i) \in {"put", "off"} /\ i.value \in Int /\ i.key \in Keys /\ Home(c, i) \in Places
  BY PlanAssumption DEF Do, Items, Home, Places, Kinds
<1>2. BaseTouch(c, i) \in Touches
  BY <1>1 DEF BaseTouch, Touch, Touches, Rows
<1>3. Targets[c] \in Seq(Spaces)
  BY PlanAssumption
<1>4. ASSUME NEW keep \in BOOLEAN, NEW do \in {"put", "delete", "off"}, NEW k \in DOMAIN Targets[c]
      PROVE  Touch(<<i.key, Targets[c][k]>>, do, i.value, keep) \in Touches
  <2>1. Targets[c][k] \in Places
    BY <1>3 DEF Places
  <2> QED
    BY <1>1, <2>1 DEF Touch, Touches, Rows
<1>5. ASSUME NEW keep \in BOOLEAN, NEW do \in {"put", "delete", "off"}
      PROVE  /\ OverrideTouches(c, i, do, keep) \subseteq Touches
             /\ Overrides(c, i, do, keep) \in Seq(Touches)
             /\ Elems(Overrides(c, i, do, keep)) = OverrideTouches(c, i, do, keep)
  <2>1. Len(Targets[c]) \in Nat /\ DOMAIN Targets[c] = 1..Len(Targets[c])
    BY <1>3
  <2>2. OverrideTouches(c, i, do, keep) \subseteq Touches
    BY <1>4 DEF OverrideTouches
  <2>3. Overrides(c, i, do, keep) \in [1..Len(Targets[c]) -> Touches]
    BY <1>4, <2>1 DEF Overrides
  <2>4. Overrides(c, i, do, keep) \in Seq(Touches)
    BY <2>1, <2>3
  <2>5. Elems(Overrides(c, i, do, keep)) = OverrideTouches(c, i, do, keep)
    BY <2>1 DEF Elems, Overrides, OverrideTouches
  <2> QED
    BY <2>2, <2>4, <2>5
<1>6. Base(c, i) \in Seq(Touches) /\ Elems(Base(c, i)) = {BaseTouch(c, i)}
  <2>1. Base(c, i) = <<BaseTouch(c, i)>>
    BY DEF Base, BaseTouch
  <2> QED
    BY <1>2, <2>1 DEF Elems
<1> QED
  BY <1>2, <1>5, <1>6

\* The sequences of the model have the elements that PartElems lists.
LEMMA PartOfItem ==
  ASSUME NEW c \in ChangeSets, NEW i \in Items, NEW op \in {"full", "canary", "promote"}
  PROVE  Part(c, op, i) \in Seq(Touches) /\ Elems(Part(c, op, i)) = PartElems(c, op, i)
<1>1. Do(i) \in {"put", "delete", "off"}
  BY DEF Do
<1>2. CASE op = "full"
  BY <1>2, TouchesOfItem DEF Part, PartElems, Released
<1>3. CASE op = "canary"
  BY <1>1, <1>3, TouchesOfItem DEF Part, PartElems, Released
<1>4. CASE op = "promote" /\ i.kind = "own"
  <2>1. Part(c, op, i) = <<>> /\ PartElems(c, op, i) = {}
    BY <1>4 DEF Part, PartElems, Promoted
  <2> QED
    BY <2>1 DEF Elems
<1>5. CASE op = "promote" /\ i.kind # "own"
  <2>1. Part(c, op, i) = Base(c, i) \o Overrides(c, i, "delete", FALSE)
    BY <1>5 DEF Part, Promoted
  <2>2. PartElems(c, op, i) = {BaseTouch(c, i)} \cup OverrideTouches(c, i, "delete", FALSE)
    BY <1>5 DEF PartElems
  <2>3. /\ Overrides(c, i, "delete", FALSE) \in Seq(Touches)
        /\ Elems(Overrides(c, i, "delete", FALSE)) = OverrideTouches(c, i, "delete", FALSE)
        /\ Base(c, i) \in Seq(Touches) /\ Elems(Base(c, i)) = {BaseTouch(c, i)}
    BY TouchesOfItem
  <2>4. /\ Part(c, op, i) \in Seq(Touches)
        /\ Elems(Part(c, op, i))
             = Elems(Base(c, i)) \cup Elems(Overrides(c, i, "delete", FALSE))
    <3>1. \A a, b \in Seq(Touches) :
            a \o b \in Seq(Touches) /\ Elems(a \o b) = Elems(a) \cup Elems(b)
      BY ElemsOfTwo
    <3> QED
      BY <2>1, <2>3, <3>1, Zenon
  <2>5. op = "promote"
    BY <1>5
  <2> QED
    BY <2>2, <2>3, <2>4
<1> QED
  BY <1>2, <1>3, <1>4, <1>5

\* All touches of an operation.
LEMMA WorkOfItems ==
  ASSUME NEW c \in ChangeSets, NEW n \in Nat, n <= Len(Planned[c]),
         NEW op \in {"full", "canary", "promote"}
  PROVE  /\ ItemSet(c, n) \subseteq Items
         /\ Work(c, op, n) \in Seq(Touches)
         /\ Elems(Work(c, op, n)) = UNION {PartElems(c, op, i) : i \in ItemSet(c, n)}
<1>1. Planned[c] \in Seq(Items)
  BY PlanAssumption
<1>2. \A k \in 1..n : Planned[c][k] \in Items
  BY <1>1
<1>3. ItemSet(c, n) \subseteq Items
  BY <1>2 DEF ItemSet
<1>4. PICK parts : parts = [k \in 1..n |-> Part(c, op, Planned[c][k])]
  OBVIOUS
<1>5. parts \in Seq(Seq(Touches))
  <2>1. \A k \in 1..n : Part(c, op, Planned[c][k]) \in Seq(Touches)
    BY <1>2, PartOfItem
  <2>2. parts \in [1..n -> Seq(Touches)]
    BY <1>4, <2>1
  <2> QED
    BY <2>2
<1>6. Work(c, op, n) = FlattenSeq(parts)
  BY <1>4 DEF Work, Part
<1>7. Elems(FlattenSeq(parts)) = UNION {Elems(parts[k]) : k \in 1..n}
  BY <1>4, <1>5, Flattened
<1>8. \A k \in 1..n : Elems(parts[k]) = PartElems(c, op, Planned[c][k])
  BY <1>2, <1>4, PartOfItem
<1>9. UNION {Elems(parts[k]) : k \in 1..n} = UNION {PartElems(c, op, i) : i \in ItemSet(c, n)}
  BY <1>8 DEF ItemSet
<1> QED
  BY <1>3, <1>5, <1>6, <1>7, <1>9, Flattened

\* What a rollback replays.
LEMMA ReplayOfRecords ==
  ASSUME NEW undo \in Seq(Records)
  PROVE  /\ Replay(undo) \in Seq(Touches)
         /\ DOMAIN Replay(undo) = DOMAIN undo
         /\ \A k \in DOMAIN undo :
              /\ undo[k] \in Records
              /\ Replay(undo)[k] = Touch(undo[k].row,
                   IF undo[k].value = 0 THEN "delete" ELSE "put", undo[k].value, FALSE)
         /\ Awaited(Replay(undo)) = {undo[k].row : k \in DOMAIN undo}
<1>1. Len(undo) \in Nat /\ DOMAIN undo = 1..Len(undo)
  OBVIOUS
<1>2. \A k \in DOMAIN undo : undo[k] \in Records
  OBVIOUS
<1>3. DOMAIN Replay(undo) = DOMAIN undo
  BY <1>1 DEF Replay
<1>4. \A k \in DOMAIN undo : Replay(undo)[k] = Touch(undo[k].row,
         IF undo[k].value = 0 THEN "delete" ELSE "put", undo[k].value, FALSE)
  BY <1>1 DEF Replay
<1>5. \A k \in DOMAIN undo : Replay(undo)[k] \in Touches /\ Replay(undo)[k].row = undo[k].row
  <2> SUFFICES ASSUME NEW k \in DOMAIN undo
               PROVE  Replay(undo)[k] \in Touches /\ Replay(undo)[k].row = undo[k].row
    OBVIOUS
  <2>1. PICK do \in {"delete", "put"} :
          Replay(undo)[k] = Touch(undo[k].row, do, undo[k].value, FALSE)
    BY <1>4
  <2>2. undo[k].row \in Rows /\ undo[k].value \in Int
    BY <1>2 DEF Records
  <2> QED
    BY <2>1, <2>2 DEF Touches, Touch
<1>6. Replay(undo) \in [1..Len(undo) -> Touches]
  BY <1>1, <1>5 DEF Replay
<1>7. Replay(undo) \in Seq(Touches)
  BY <1>1, <1>6
<1>8. Awaited(Replay(undo)) = {undo[k].row : k \in DOMAIN undo}
  BY <1>3, <1>5 DEF Awaited
<1> QED
  BY <1>2, <1>3, <1>4, <1>7, <1>8

-----------------------------------------------------------------------------
(* The invariant of the rows: what the requests at work have recorded, what  *)
(* they have written and what they have still to come to.                    *)

\* Some of the rows, with their values.
Parts == UNION {[D -> Int] : D \in SUBSET Rows}

\* The records of a request that changes settings, by its program counter.
Lists == [pc : {"list"}, c : ChangeSets, op : Operations, undo : Seq(Records)]
Waits == [pc : {"lock"}, c : ChangeSets, op : Operations, undo : Seq(Records),
          todo : Seq(Touches), n : Nat]
Works == [pc : Holding, c : ChangeSets, op : Operations, undo : Seq(Records), n : Nat,
          todo : Seq(Touches), writes : Parts, seen : [row : Int, base : Int],
          stale : BOOLEAN, crossed : SUBSET Rows]

Formed(t) ==
  /\ t.pc = "list" => t \in Lists
  /\ t.pc = "lock" => t \in Waits
  /\ t.pc \in Holding => t \in Works

\* The rows of the canary spaces, the items that alone change their key, and what a
\* request sees.
Overridden(c, n) ==
  {<<i.key, Targets[c][k]>> : i \in ItemSet(c, n), k \in DOMAIN Targets[c]}
Lone(c, n, i) == \A j \in ItemSet(c, n) : j.key = i.key => j = i
Now(t, r) == Over(t.writes, settings)[r]

Extends(u, v) == \A k \in DOMAIN v : k \in DOMAIN u /\ u[k] = v[k]

\* Before it is released, an operation of a change set has recorded nothing; a
\* promotion goes on from what the release recorded.
Starts(t) ==
  /\ t.op \in {"full", "canary"} => t.undo = <<>>
  /\ t.op = "promote" /\ cs[t.c].status = "released" /\ ~cs[t.c].promoted =>
       t.undo = cs[t.c].undo

AllOf(t) == IF t.op = "rollback" THEN Replay(t.undo) ELSE Work(t.c, t.op, t.n)

\* What a request does is what its operation, its items and its records call for.
Fits(t) ==
  /\ t.pc = "list" => t.op # "rollback" /\ Starts(t)
  /\ t.pc = "lock" => Starts(t) /\ t.todo = AllOf(t)
  /\ t.pc \in Holding \cup {"lock"} =>
       /\ t.n <= Len(Planned[t.c])
       /\ t.op \in {"full", "canary"} => cs[t.c].counted <= t.n
  /\ t.pc \in Holding =>
       /\ t.op = "promote" => Extends(t.undo, cs[t.c].undo)
       /\ Elems(t.todo) \subseteq Elems(AllOf(t))
  /\ t.pc = "write" =>
       /\ t.todo # <<>> /\ Head(t.todo).keep /\ t.undo # <<>>
       /\ t.undo[Len(t.undo)] = [row |-> Head(t.todo).row, value |-> t.seen.row]

\* What a release or a promotion writes has been recorded as it is committed; a
\* promotion deletes the overrides unrecorded.
Recorded(t) ==
  t.op # "rollback" /\ ~t.stale =>
    \A r \in DOMAIN t.writes :
      \/ \E k \in DOMAIN t.undo : t.undo[k] = [row |-> r, value |-> settings[r]]
      \/ t.op = "promote" /\ r \in Overridden(t.c, t.n)

\* A canary leaves out no row of its spaces.
Covering(t) ==
  t.op = "canary" /\ ~t.stale =>
    Overridden(t.c, t.n) \subseteq Awaited(t.todo) \cup DOMAIN t.writes

\* A promotion has set the tenant's row of an item and removed its overrides, or will.
Promoting(t) ==
  t.op = "promote" /\ Scope[t.c] = Tenant =>
    \A i \in ItemSet(t.c, t.n) :
      Do(i) = "put" /\ i.kind # "own" /\ Lone(t.c, t.n, i) =>
        /\ \/ <<i.key, Tenant>> \in Awaited(t.todo)
           \/ /\ <<i.key, Tenant>> \in DOMAIN t.writes
              /\ t.writes[<<i.key, Tenant>>] = i.value
        /\ \A k \in DOMAIN Targets[t.c] :
             \/ <<i.key, Targets[t.c][k]>> \in Awaited(t.todo) \cup t.crossed
             \/ Now(t, <<i.key, Targets[t.c][k]>>) = 0

\* A rollback has put a row back to what was recorded, or will.
Restoring(t) ==
  t.op = "rollback" /\ ~t.stale /\ ~Twice(t.undo) =>
    \A k \in DOMAIN t.undo :
      t.undo[k].row \in Awaited(t.todo) \/ Now(t, t.undo[k].row) = t.undo[k].value

Working(t) ==
  t.pc \in Holding => Recorded(t) /\ Covering(t) /\ Promoting(t) /\ Restoring(t)

\* No row is written by two transactions at once.
Apart ==
  \A p, q \in Callers :
    p # q /\ tx[p].pc \in Holding /\ tx[q].pc \in Holding =>
      DOMAIN tx[p].writes \cap DOMAIN tx[q].writes = {}

AllCounted(c) == \A k \in DOMAIN log[c] : Counted(c, log[c][k])

\* The change set has recorded what it wrote, and as a canary all rows of its spaces.
Kept(c) ==
  /\ cs[c].status \notin Effected => DOMAIN before[c] = {}
  /\ cs[c].status = "released" /\ ~stale[c] /\ AllCounted(c) =>
       \A r \in DOMAIN before[c] : \E k \in DOMAIN cs[c].undo :
         cs[c].undo[k] = [row |-> r, value |-> before[c][r]]
  /\ cs[c].status = "released" /\ cs[c].canary /\ ~cs[c].promoted /\ ~stale[c] =>
       Overridden(c, cs[c].counted) \subseteq DOMAIN before[c]

Settled ==
  /\ settings \in [Rows -> Int]
  /\ DOMAIN before = ChangeSets /\ stale \in [ChangeSets -> BOOLEAN]
  /\ \A c \in ChangeSets : items[c] <= Len(Planned[c]) /\ cs[c].undo \in Seq(Records)

RowsInv ==
  /\ Settled
  /\ \A p \in Callers : Formed(tx[p]) /\ Fits(tx[p]) /\ Working(tx[p])
  /\ Apart
  /\ \A c \in ChangeSets : Kept(c)

-----------------------------------------------------------------------------
\* It holds at the start.
LEMMA InitRows == Init => RowsInv
<1> SUFFICES ASSUME Init PROVE RowsInv
  OBVIOUS
<1>1. Settled
  <2>1. Initial \in [Rows -> Int]
    BY PlanAssumption
  <2>2. \A c \in ChangeSets : items[c] <= Len(Planned[c])
    <3>1. \A c \in ChangeSets : Planned[c] \in Seq(Items)
      BY PlanAssumption
    <3>2. \A c \in ChangeSets : Len(Planned[c]) \in Nat
      BY <3>1
    <3> QED
      BY <3>2 DEF Init
  <2>3. \A c \in ChangeSets : cs[c].undo \in Seq(Records)
    <3>1. \A c \in ChangeSets : cs[c].undo = <<>>
      BY DEF Init, Draft
    <3>2. <<>> \in Seq(Records)
      OBVIOUS
    <3> QED
      BY <3>1, <3>2
  <2>4. DOMAIN before = ChangeSets /\ stale \in [ChangeSets -> BOOLEAN]
    BY DEF Init
  <2>5. settings \in [Rows -> Int]
    BY <2>1 DEF Init
  <2> QED
    BY <2>2, <2>3, <2>4, <2>5 DEF Settled
<1>2. \A p \in Callers : Formed(tx[p]) /\ Fits(tx[p]) /\ Working(tx[p])
  BY DEF Init, Idle, Formed, Fits, Working, Holding
<1>3. Apart
  BY DEF Init, Idle, Apart, Holding
<1>4. \A c \in ChangeSets : Kept(c)
  BY DEF Init, Draft, Kept, Effected
<1> QED
  BY <1>1, <1>2, <1>3, <1>4 DEF RowsInv

\* A step of a request that leaves the change sets and the settings alone.
LEMMA QuietRows ==
  ASSUME LifeInv, RowsInv, NEW p \in Callers, NEW t, Go(p, t),
         UNCHANGED <<cs, items, settings, log, before, stale>>,
         Formed(t), Fits(t), Working(t),
         t.pc \in Holding =>
           \A q \in Callers \ {p} :
             tx[q].pc \in Holding => DOMAIN tx[q].writes \cap DOMAIN t.writes = {}
  PROVE  RowsInv'
<1>1. /\ tx'[p] = t
      /\ \A q \in Callers \ {p} : tx'[q] = tx[q]
  BY DEF LifeInv, Typed, Go
<1>2. Settled'
  BY DEF RowsInv, Settled
<1>3. ASSUME NEW q \in Callers PROVE (Formed(tx[q]) /\ Fits(tx[q]) /\ Working(tx[q]))'
  <2>1. PICK u : u = tx'[q]
    OBVIOUS
  <2>2. Formed(u) /\ Fits(u) /\ Working(u)
    BY <1>1, <2>1 DEF RowsInv
  <2>3. Formed(u)' /\ Fits(u)'
    BY <2>2 DEF Formed, Fits, Starts
  <2>4. Working(u)'
    BY <2>2 DEF Working, Recorded, Covering, Promoting, Restoring, Now
  <2> QED
    BY <2>1, <2>3, <2>4 DEF Formed, Fits, Starts, Working, Recorded, Covering, Promoting,
       Restoring, Now
<1>4. Apart'
  BY <1>1 DEF RowsInv, Apart
<1>5. \A c \in ChangeSets : Kept(c)'
  BY DEF RowsInv, Kept, AllCounted, Counted
<1> QED
  BY <1>2, <1>3, <1>4, <1>5 DEF RowsInv

\* A step that changes at most drafts and submitted change sets, and the items of any.
LEMMA EarlyRows ==
  ASSUME LifeInv, RowsInv, UNCHANGED <<settings, log, before, stale>>,
         \A q \in Callers : tx'[q] \in {tx[q], Idle},
         \A c \in ChangeSets :
           /\ items'[c] <= Len(Planned[c])
           /\ \/ cs'[c] = cs[c]
              \/ /\ cs[c].status \in {"draft", "submitted"} /\ cs'[c].undo = cs[c].undo
                 /\ cs'[c].status \in {"submitted", "approved"}
  PROVE  RowsInv'
<1>1. Settled'
  BY DEF RowsInv, Settled
<1>2. ASSUME NEW q \in Callers PROVE (Formed(tx[q]) /\ Fits(tx[q]) /\ Working(tx[q]))'
  <2>1. CASE tx'[q] = Idle
    BY <2>1 DEF Idle, Formed, Fits, Working, Holding
  <2>2. CASE tx'[q] = tx[q]
    <3>1. PICK u : u = tx[q]
      OBVIOUS
    <3>2. RequestGood(u) /\ Formed(u) /\ Fits(u) /\ Working(u)
      BY <3>1 DEF RowsInv, LifeInv
    <3>3. Fits(u)'
      <4>1. CASE u.pc \in Changing
        <5>1. u.c \in ChangeSets
          BY <3>2, <4>1 DEF RequestGood, Changing
        <5>2. CASE cs'[u.c] = cs[u.c]
          BY <3>2, <5>2 DEF Fits, Starts
        <5>3. CASE /\ cs[u.c].status \in {"draft", "submitted"} /\ cs'[u.c].undo = cs[u.c].undo
                   /\ cs'[u.c].status \in {"submitted", "approved"}
          BY <3>2, <4>1, <5>3 DEF Fits, Starts, RequestGood, Effected, Changing, Holding
        <5> QED
          BY <5>1, <5>2, <5>3
      <4>2. CASE u.pc \notin Changing
        BY <4>2 DEF Fits, Changing, Holding
      <4> QED
        BY <4>1, <4>2
    <3>4. Working(u)'
      BY <3>2 DEF Working, Recorded, Covering, Promoting, Restoring, Now
    <3>5. tx'[q] = u
      BY <2>2, <3>1
    <3> QED
      BY <3>2, <3>3, <3>4, <3>5 DEF Formed, Fits, Starts, Working, Recorded, Covering, Promoting,
         Restoring, Now
  <2> QED
    BY <2>1, <2>2
<1>3. Apart'
  BY DEF RowsInv, Apart, Idle, Holding
<1>4. ASSUME NEW c \in ChangeSets PROVE Kept(c)'
  <2>1. CASE cs'[c] = cs[c]
    BY <2>1 DEF RowsInv, Kept, AllCounted, Counted
  <2>2. CASE /\ cs[c].status \in {"draft", "submitted"} /\ cs'[c].undo = cs[c].undo
             /\ cs'[c].status \in {"submitted", "approved"}
    BY <2>2 DEF RowsInv, Kept, Effected
  <2> QED
    BY <2>1, <2>2
<1> QED
  BY <1>1, <1>2, <1>3, <1>4 DEF RowsInv

\* The requests that edit a change set or evaluate it, and those that give up.
LEMMA EditRows ==
  ASSUME LifeInv, RowsInv, NEW p \in Callers, Edit(p) \/ Abort(p)
  PROVE  RowsInv'
<1>1. ASSUME NEW t, Go(p, t), t.pc \notin Changing,
             UNCHANGED <<cs, items, settings, log, before, stale>>
      PROVE  RowsInv'
  <2>1. Formed(t) /\ Fits(t) /\ Working(t) /\ t.pc \notin Holding
    BY <1>1 DEF Formed, Fits, Working, Changing, Holding
  <2> QED
    BY <1>1, <2>1, QuietRows
<1>2. ASSUME NEW c \in ChangeSets, AddItem(p, c) \/ ListForSubmit(p, c) \/ Unbind(p, c)
      PROVE  RowsInv'
  <2>1. CASE AddItem(p, c)
    BY <1>1, <2>1 DEF AddItem, Changing
  <2>2. CASE ListForSubmit(p, c)
    BY <1>1, <2>2 DEF ListForSubmit, Changing
  <2>3. CASE Unbind(p, c)
    BY <1>1, <2>3 DEF Unbind, Changing
  <2> QED
    BY <1>2, <2>1, <2>2, <2>3
<1>3. CASE Bind(p)
  BY <1>1, <1>3 DEF Bind, Idle, Changing
<1>4. CASE Abort(p)
  BY <1>1, <1>4 DEF Abort, Idle, Changing
<1>5. CASE InsertItem(p)
  <2>1. PICK d \in ChangeSets : d = tx[p].c
    BY <1>5 DEF LifeInv, RequestGood, InsertItem, At
  <2>2. items' = [items EXCEPT ![d] = @ + 1] /\ items[d] < Len(Planned[d])
    BY <1>5, <2>1 DEF InsertItem
  <2>3. Planned[d] \in Seq(Items)
    BY PlanAssumption
  <2>4. \A c \in ChangeSets : items'[c] <= Len(Planned[c])
    BY <2>2, <2>3 DEF LifeInv, Typed, RowsInv, Settled
  <2>5. /\ UNCHANGED <<cs, settings, log, before, stale>>
        /\ \A q \in Callers : tx'[q] \in {tx[q], Idle}
    BY <1>5 DEF LifeInv, Typed, InsertItem, Go
  <2> QED
    BY <2>4, <2>5, EarlyRows
<1>6. CASE Submit(p)
  <2>1. PICK d \in ChangeSets : d = tx[p].c
    BY <1>6 DEF LifeInv, RequestGood, Submit, At
  <2>2. /\ cs[d].status = "draft" /\ cs'[d] = Submitted(cs[d], d, tx[p].n)
        /\ \A c \in ChangeSets \ {d} : cs'[c] = cs[c]
        /\ DOMAIN cs[d] = Fields
    BY <1>6, <2>1 DEF LifeInv, Typed, ChangeSetGood, Shape, Submit
  <2>3. cs'[d].status = "submitted" /\ cs'[d].undo = cs[d].undo
    BY <2>2 DEF Submitted, Fields
  <2>4. /\ UNCHANGED <<items, settings, log, before, stale>>
        /\ \A q \in Callers : tx'[q] \in {tx[q], Idle}
    BY <1>6 DEF LifeInv, Typed, Submit, Go
  <2> QED
    BY <2>2, <2>3, <2>4, EarlyRows DEF RowsInv, Settled
<1> QED
  BY <1>2, <1>3, <1>4, <1>5, <1>6 DEF Edit

\* The steps that approve and evaluate a change set.
LEMMA GateRows ==
  ASSUME LifeInv, RowsInv, NEW d \in ChangeSets, Gate(d)
  PROVE  RowsInv'
<1>1. CASE \E u \in Subjects : Approve(d, u)
  <2>1. PICK u \in Subjects : Approve(d, u)
    BY <1>1
  <2>2. /\ cs[d].status = "submitted" /\ cs'[d] = Approved(cs[d], u)
        /\ \A c \in ChangeSets \ {d} : cs'[c] = cs[c]
        /\ DOMAIN cs[d] = Fields
        /\ UNCHANGED <<items, settings, log, before, stale, tx>>
    BY <2>1 DEF LifeInv, Typed, ChangeSetGood, Shape, Approve
  <2>3. cs'[d].status \in {"submitted", "approved"} /\ cs'[d].undo = cs[d].undo
    BY <2>2 DEF Approved, Fields
  <2> QED
    BY <2>2, <2>3, EarlyRows DEF RowsInv, Settled
<1>2. CASE UNCHANGED <<cs, items, settings, log, before, stale, tx>>
  BY <1>2, EarlyRows DEF RowsInv, Settled
<1> QED
  BY <1>1, <1>2 DEF Gate, AddRun, FinishRun

\* The checks of a request outside of its transaction.
LEMMA CheckRows ==
  ASSUME LifeInv, RowsInv, NEW p \in Callers,
         \/ \E c \in ChangeSets :
              \/ \E op \in {"full", "canary"} : CheckRelease(p, c, op)
              \/ CheckPromote(p, c) \/ CheckRollback(p, c)
         \/ ListItems(p)
  PROVE  RowsInv'
<1>1. ASSUME NEW c \in ChangeSets, NEW op \in {"full", "canary"}, CheckRelease(p, c, op)
      PROVE  RowsInv'
  <2>1. PICK t : t = [pc |-> "list", c |-> c, op |-> op, undo |-> <<>>]
    OBVIOUS
  <2>2. Formed(t) /\ Fits(t) /\ Working(t) /\ t.pc \notin Holding
    BY <2>1 DEF Formed, Lists, Operations, Fits, Starts, Working, Holding
  <2> QED
    BY <1>1, <2>1, <2>2, QuietRows DEF CheckRelease
<1>2. ASSUME NEW c \in ChangeSets, CheckPromote(p, c) PROVE RowsInv'
  <2>1. PICK t : t = [pc |-> "list", c |-> c, op |-> "promote", undo |-> cs[c].undo]
    OBVIOUS
  <2>2. cs[c].undo \in Seq(Records)
    BY DEF RowsInv, Settled
  <2>3. Formed(t) /\ Fits(t) /\ Working(t) /\ t.pc \notin Holding
    BY <2>1, <2>2 DEF Formed, Lists, Operations, Fits, Starts, Working, Holding
  <2> QED
    BY <1>2, <2>1, <2>3, QuietRows DEF CheckPromote
<1>3. ASSUME NEW c \in ChangeSets, CheckRollback(p, c) PROVE RowsInv'
  <2>1. PICK t : t = [pc |-> "lock", c |-> c, op |-> "rollback", undo |-> cs[c].undo,
                      todo |-> Replay(cs[c].undo), n |-> items[c]]
    OBVIOUS
  <2>2. /\ cs[c].undo \in Seq(Records) /\ Replay(cs[c].undo) \in Seq(Touches)
        /\ items[c] \in Nat /\ items[c] <= Len(Planned[c])
    BY ReplayOfRecords DEF RowsInv, Settled, LifeInv, Typed
  <2>3. Formed(t)
    BY <2>1, <2>2 DEF Formed, Waits, Operations, Holding
  <2>4. Fits(t) /\ Working(t) /\ t.pc \notin Holding
    BY <2>1, <2>2 DEF Fits, Starts, AllOf, Working, Holding
  <2> QED
    BY <1>3, <2>1, <2>3, <2>4, QuietRows DEF CheckRollback
<1>4. CASE ListItems(p)
  <2>1. PICK t : t = tx[p]
    OBVIOUS
  <2>2. t.pc = "list" /\ t \in Lists /\ Fits(t) /\ RequestGood(t)
    BY <1>4, <2>1 DEF ListItems, At, RowsInv, Formed, LifeInv
  <2>3. PICK u : u = [pc |-> "lock", c |-> t.c, op |-> t.op, undo |-> t.undo,
                      todo |-> Work(t.c, t.op, items[t.c]), n |-> items[t.c]]
    OBVIOUS
  <2>4. /\ t.c \in ChangeSets /\ t.op \in {"full", "canary", "promote"}
        /\ t.undo \in Seq(Records) /\ items[t.c] \in Nat /\ items[t.c] <= Len(Planned[t.c])
    BY <2>2 DEF Lists, Operations, Fits, RowsInv, Settled, LifeInv, Typed
  <2>5. Work(t.c, t.op, items[t.c]) \in Seq(Touches)
    BY <2>4, WorkOfItems
  <2>6. Formed(u)
    BY <2>3, <2>4, <2>5 DEF Formed, Waits, Operations, Holding
  <2>7. t.op \in {"full", "canary"} => cs[t.c].counted <= items[t.c]
    <3>1. ChangeSetGood(t.c)
      BY <2>4 DEF LifeInv
    <3> QED
      BY <2>2, <3>1 DEF ChangeSetGood, RequestGood, Effected, Changing
  <2>8. Fits(u) /\ Working(u) /\ u.pc \notin Holding
    BY <2>2, <2>3, <2>4, <2>7 DEF Fits, Starts, AllOf, Working, Holding
  <2> QED
    BY <1>4, <2>1, <2>3, <2>6, <2>8, QuietRows DEF ListItems
<1> QED
  BY <1>1, <1>2, <1>3, <1>4

\* A row that is put, over the others.
LEMMA PutRow ==
  ASSUME NEW row, NEW value, NEW g
  PROVE  LET f == Over([r \in {row} |-> value], g) IN
         /\ DOMAIN f = {row} \cup DOMAIN g
         /\ f[row] = value
         /\ \A r \in DOMAIN g \ {row} : f[r] = g[r]
<1>1. PICK h : h = [r \in {row} |-> value]
  OBVIOUS
<1>2. DOMAIN h = {row} /\ h[row] = value
  BY <1>1
<1>3. PICK f : f = Over(h, g)
  OBVIOUS
<1>4. /\ DOMAIN f = DOMAIN h \cup DOMAIN g
      /\ \A r \in DOMAIN h : f[r] = h[r]
      /\ \A r \in DOMAIN g \ DOMAIN h : f[r] = g[r]
  BY <1>3 DEF Over
<1> QED
  BY <1>1, <1>2, <1>3, <1>4

\* The touches of the items that a release to canary spaces, and a promotion, come to.
LEMMA ComesTo ==
  ASSUME NEW c \in ChangeSets, NEW n \in Nat, n <= Len(Planned[c])
  PROVE  /\ Overridden(c, n) \subseteq Awaited(Work(c, "canary", n))
         /\ \A i \in ItemSet(c, n) : i.kind # "own" =>
              /\ Scope[c] = Tenant => <<i.key, Tenant>> \in Awaited(Work(c, "promote", n))
              /\ \A k \in DOMAIN Targets[c] :
                   <<i.key, Targets[c][k]>> \in Awaited(Work(c, "promote", n))
<1>1. ASSUME NEW op \in {"canary", "promote"}
      PROVE  Awaited(Work(c, op, n))
               = {x.row : x \in UNION {PartElems(c, op, i) : i \in ItemSet(c, n)}}
  BY WorkOfItems, AwaitedRows
<1>2. ASSUME NEW i \in ItemSet(c, n), NEW k \in DOMAIN Targets[c]
      PROVE  <<i.key, Targets[c][k]>> \in Awaited(Work(c, "canary", n))
  <2>1. PICK x : x = Touch(<<i.key, Targets[c][k]>>, Do(i), i.value, TRUE)
    OBVIOUS
  <2>2. x \in PartElems(c, "canary", i) /\ x.row = <<i.key, Targets[c][k]>>
    BY <2>1 DEF PartElems, OverrideTouches, Touch
  <2> QED
    BY <1>1, <2>2
<1>3. ASSUME NEW i \in ItemSet(c, n), i.kind # "own"
      PROVE  /\ Scope[c] = Tenant => <<i.key, Tenant>> \in Awaited(Work(c, "promote", n))
             /\ \A k \in DOMAIN Targets[c] :
                  <<i.key, Targets[c][k]>> \in Awaited(Work(c, "promote", n))
  <2>1. PartElems(c, "promote", i)
          = {BaseTouch(c, i)} \cup OverrideTouches(c, i, "delete", FALSE)
    BY <1>3 DEF PartElems
  <2>2. Scope[c] = Tenant => BaseTouch(c, i).row = <<i.key, Tenant>>
    BY <1>3 DEF BaseTouch, Touch, Home
  <2>3. ASSUME NEW k \in DOMAIN Targets[c]
        PROVE  \E x \in OverrideTouches(c, i, "delete", FALSE) :
                 x.row = <<i.key, Targets[c][k]>>
    <3>1. PICK x : x = Touch(<<i.key, Targets[c][k]>>, "delete", i.value, FALSE)
      OBVIOUS
    <3>2. x \in OverrideTouches(c, i, "delete", FALSE) /\ x.row = <<i.key, Targets[c][k]>>
      BY <3>1 DEF OverrideTouches, Touch
    <3> QED
      BY <3>2
  <2> QED
    BY <1>1, <2>1, <2>2, <2>3
<1> QED
  BY <1>2, <1>3 DEF Overridden

\* A transaction that has the lock has all of its work before it.
LEMMA LockRows ==
  ASSUME LifeInv, RowsInv, NEW p \in Callers, Lock(p)
  PROVE  RowsInv'
<1>1. PICK t : t = tx[p]
  OBVIOUS
<1>2. PICK u : u = [pc |-> "work", c |-> t.c, op |-> t.op, undo |-> t.undo, n |-> t.n,
                    todo |-> t.todo, writes |-> <<>>, seen |-> [row |-> 0, base |-> 0],
                    stale |-> FALSE, crossed |-> {}]
  OBVIOUS
<1>3. t.pc = "lock" /\ t \in Waits /\ Fits(t)
  BY <1>1 DEF Lock, At, RowsInv, Formed
<1>4. /\ t.c \in ChangeSets /\ t.op \in Operations /\ t.undo \in Seq(Records) /\ t.n \in Nat
      /\ t.todo \in Seq(Touches) /\ Starts(t) /\ t.todo = AllOf(t)
      /\ t.n <= Len(Planned[t.c]) /\ (t.op \in {"full", "canary"} => cs[t.c].counted <= t.n)
  BY <1>3 DEF Waits, Fits
<1>5. Formed(u) /\ DOMAIN u.writes = {}
  <2>1. <<>> \in [{} -> Int]
    OBVIOUS
  <2>2. <<>> \in Parts
    BY <2>1 DEF Parts
  <2> QED
    BY <1>2, <1>4, <2>2 DEF Formed, Works, Holding
<1>6. Fits(u)
  <2>1. t.op = "promote" => Extends(t.undo, cs[t.c].undo)
    BY <1>1, <1>4 DEF Lock, StillAllowed, Starts, Extends
  <2> QED
    BY <1>2, <1>4, <2>1 DEF Fits, AllOf, Holding
<1>7. Working(u)
  <2>1. Recorded(u)
    BY <1>5 DEF Recorded
  <2>2. Covering(u)
    BY <1>2, <1>4, ComesTo DEF Covering, AllOf
  <2>3. Promoting(u)
    BY <1>2, <1>4, ComesTo DEF Promoting, AllOf
  <2>4. Restoring(u)
    <3>1. t.op = "rollback" => Awaited(t.todo) = {t.undo[k].row : k \in DOMAIN t.undo}
      BY <1>4, ReplayOfRecords DEF AllOf
    <3> QED
      BY <1>2, <3>1 DEF Restoring
  <2> QED
    BY <2>1, <2>2, <2>3, <2>4 DEF Working
<1> QED
  BY <1>1, <1>2, <1>5, <1>6, <1>7, QuietRows DEF Lock

\* The touch a transaction is at is one of its operation's.
LEMMA TouchAtHand ==
  ASSUME RowsInv, NEW t, t.pc \in Holding, Formed(t), Fits(t), t.todo # <<>>
  PROVE  /\ Head(t.todo) \in Touches /\ Head(t.todo) \in Elems(AllOf(t))
         /\ Tail(t.todo) \in Seq(Touches) /\ Elems(Tail(t.todo)) \subseteq Elems(AllOf(t))
         /\ Awaited(t.todo) = {Head(t.todo).row} \cup Awaited(Tail(t.todo))
         /\ t.op = "rollback" => ~Head(t.todo).keep
<1>1. /\ t.todo \in Seq(Touches) /\ t.undo \in Seq(Records)
      /\ Elems(t.todo) \subseteq Elems(AllOf(t))
  BY DEF Formed, Works, Fits
<1>2. /\ Head(t.todo) \in Touches /\ Tail(t.todo) \in Seq(Touches)
      /\ Elems(t.todo) = {Head(t.todo)} \cup Elems(Tail(t.todo))
  BY <1>1, FirstAndRest
<1>3. t.op = "rollback" => \A x \in Elems(AllOf(t)) : ~x.keep
  <2> SUFFICES ASSUME t.op = "rollback", NEW x \in Elems(AllOf(t)) PROVE ~x.keep
    OBVIOUS
  <2>1. PICK k \in DOMAIN Replay(t.undo) : x = Replay(t.undo)[k]
    BY DEF AllOf, Elems
  <2>2. k \in DOMAIN t.undo
    BY <1>1, <2>1, ReplayOfRecords
  <2>3. x = Touch(t.undo[k].row, IF t.undo[k].value = 0 THEN "delete" ELSE "put",
                  t.undo[k].value, FALSE)
    BY <1>1, <2>1, <2>2, ReplayOfRecords
  <2> QED
    BY <2>3 DEF Touch
<1> QED
  BY <1>1, <1>2, <1>3, AwaitedRows

\* A row that is read has a value.
LEMMA RowValue ==
  ASSUME Settled, NEW w \in Parts
  PROVE  /\ DOMAIN w \subseteq Rows /\ \A r \in DOMAIN w : w[r] \in Int
         /\ Over(w, settings) \in [Rows -> Int]
         /\ \A r \in DOMAIN w : Over(w, settings)[r] = w[r]
         /\ \A r \in Rows \ DOMAIN w : Over(w, settings)[r] = settings[r]
<1>1. DOMAIN w \subseteq Rows /\ \A r \in DOMAIN w : w[r] \in Int
  BY DEF Parts
<1>2. settings \in [Rows -> Int]
  BY DEF Settled
<1>3. DOMAIN w \cup DOMAIN settings = Rows
  BY <1>1, <1>2
<1>4. Over(w, settings) = [r \in Rows |-> IF r \in DOMAIN w THEN w[r] ELSE settings[r]]
  BY <1>3 DEF Over
<1> QED
  BY <1>1, <1>2, <1>4

\* A row that is read is recorded as it is.
LEMMA ReadRows ==
  ASSUME LifeInv, RowsInv, NEW p \in Callers, Read(p)
  PROVE  RowsInv'
<1>1. PICK t : t = tx[p]
  OBVIOUS
<1>2. PICK touch : touch = Head(t.todo)
  OBVIOUS
<1>3. PICK value : value = Visible(p, touch.row)
  OBVIOUS
<1>4. PICK base : base = Visible(p, <<touch.row[1], Tenant>>)
  OBVIOUS
<1>5. PICK e : e = [row |-> touch.row, value |-> value]
  OBVIOUS
<1>6. PICK u : u = [t EXCEPT !.pc = "write", !.undo = Append(@, e),
                             !.seen = [row |-> value, base |-> base]]
  OBVIOUS
<1>7. /\ t.pc = "work" /\ t.todo # <<>> /\ touch.keep /\ Go(p, u)
      /\ UNCHANGED <<cs, items, settings, log, before, stale>>
  BY <1>1, <1>2, <1>3, <1>4, <1>5, <1>6 DEF Read, At
<1>8. t \in Works /\ Formed(t) /\ Fits(t) /\ Working(t) /\ t.pc \in Holding
  BY <1>1, <1>7 DEF RowsInv, Formed, Holding
<1>9. touch \in Touches /\ t.op # "rollback"
  BY <1>2, <1>7, <1>8, TouchAtHand
<1>10. value \in Int /\ base \in Int
  <2>1. touch.row \in Rows /\ <<touch.row[1], Tenant>> \in Rows
    BY <1>9 DEF Touches, Rows, Places
  <2>2. t.writes \in Parts
    BY <1>8 DEF Works
  <2>3. Over(t.writes, settings) \in [Rows -> Int]
    BY <2>2, RowValue DEF RowsInv
  <2> QED
    BY <1>1, <1>3, <1>4, <2>1, <2>3 DEF Visible
<1>11. /\ e \in Records /\ t.undo \in Seq(Records) /\ Append(t.undo, e) \in Seq(Records)
       /\ Len(t.undo) \in Nat /\ Len(Append(t.undo, e)) = Len(t.undo) + 1
       /\ Append(t.undo, e)[Len(t.undo) + 1] = e
       /\ \A k \in 1..Len(t.undo) : Append(t.undo, e)[k] = t.undo[k]
  <2>1. e \in Records
    BY <1>5, <1>9, <1>10 DEF Records, Touches
  <2>2. t.undo \in Seq(Records)
    BY <1>8 DEF Works
  <2> QED
    BY <2>1, <2>2, OneMore
<1>12. /\ u \in Works /\ u.pc = "write" /\ u.c = t.c /\ u.op = t.op /\ u.n = t.n
       /\ u.todo = t.todo /\ u.writes = t.writes /\ u.stale = t.stale
       /\ u.crossed = t.crossed /\ u.undo = Append(t.undo, e) /\ u.seen.row = value
  BY <1>6, <1>8, <1>10, <1>11 DEF Works, Holding
<1>13. Extends(u.undo, t.undo)
  BY <1>11, <1>12 DEF Extends
<1>14. Fits(u)
  <2>1. AllOf(u) = AllOf(t)
    BY <1>9, <1>12 DEF AllOf
  <2>2. t.op = "promote" => Extends(u.undo, cs[t.c].undo)
    BY <1>8, <1>13 DEF Fits, Extends
  <2>3. /\ u.todo # <<>> /\ Head(u.todo).keep /\ u.undo # <<>>
        /\ u.undo[Len(u.undo)] = [row |-> Head(u.todo).row, value |-> u.seen.row]
    BY <1>2, <1>5, <1>7, <1>11, <1>12
  <2> QED
    BY <1>8, <1>12, <2>1, <2>2, <2>3 DEF Fits, Holding
<1>15. Working(u)
  <2>1. Recorded(u)
    BY <1>8, <1>12, <1>13 DEF Working, Recorded, Extends
  <2>2. Covering(u)
    BY <1>8, <1>12 DEF Working, Covering
  <2>3. Promoting(u)
    BY <1>8, <1>12 DEF Working, Promoting, Now
  <2>4. Restoring(u)
    BY <1>9, <1>12 DEF Restoring
  <2> QED
    BY <2>1, <2>2, <2>3, <2>4 DEF Working
<1>16. \A q \in Callers \ {p} :
         tx[q].pc \in Holding => DOMAIN tx[q].writes \cap DOMAIN u.writes = {}
  BY <1>1, <1>8, <1>12 DEF RowsInv, Apart
<1> QED
  BY <1>7, <1>12, <1>14, <1>15, <1>16, QuietRows DEF Formed, Holding

\* What a step of Write makes of the request t of p, which is at a touch.
Writes(p, t, touch, u) ==
  /\ t = tx[p] /\ touch = Head(t.todo) /\ Go(p, u)
  /\ t \in Works /\ Formed(t) /\ Fits(t) /\ Working(t) /\ t.pc \in Holding /\ t.todo # <<>>
  /\ touch.keep => t.pc = "write"
  /\ u \in Works /\ u.pc = "work"
  /\ u.c = t.c /\ u.op = t.op /\ u.undo = t.undo /\ u.n = t.n /\ u.crossed = t.crossed
  /\ u.todo = Tail(t.todo)
  /\ u.stale = (t.stale \/ Differs(p, t, touch))
  /\ \/ NoEffect(p, touch, t.seen) /\ u.writes = t.writes
     \/ /\ ~NoEffect(p, touch, t.seen) /\ touch.row \notin Held(p)
        /\ DOMAIN u.writes = {touch.row} \cup DOMAIN t.writes
        /\ u.writes[touch.row] = Written(p, touch, t.seen)
        /\ \A r \in DOMAIN t.writes \ {touch.row} : u.writes[r] = t.writes[r]

\* Every step of Write is one.
LEMMA WriteShape ==
  ASSUME LifeInv, RowsInv, NEW p \in Callers, Write(p)
  PROVE  \E t, u : \E touch \in Touches : Writes(p, t, touch, u)
<1>1. PICK t : t = tx[p]
  OBVIOUS
<1>2. PICK touch : touch = Head(t.todo)
  OBVIOUS
<1>3. t.pc \in Holding /\ (touch.keep => t.pc = "write")
  BY <1>1, <1>2 DEF Write, At, Holding
<1>4. t \in Works /\ Formed(t) /\ Fits(t) /\ Working(t)
  BY <1>1, <1>3 DEF RowsInv, Formed, Holding
<1>5. t.todo # <<>>
  BY <1>1, <1>4 DEF Write, At, Fits
<1>6. touch \in Touches /\ Tail(t.todo) \in Seq(Touches)
  BY <1>2, <1>3, <1>4, <1>5, TouchAtHand
<1>7. PICK b \in BOOLEAN : b = (t.stale \/ Differs(p, t, touch))
  OBVIOUS
<1>8. PICK v : v = Written(p, touch, t.seen)
  OBVIOUS
<1>9. PICK w : w = Over([r \in {touch.row} |-> v], t.writes)
  OBVIOUS
<1>10. PICK rest : rest = [t EXCEPT !.pc = "work", !.todo = Tail(@), !.stale = b]
  OBVIOUS
<1>11. /\ rest \in Works /\ rest.pc = "work" /\ rest.c = t.c /\ rest.op = t.op
       /\ rest.undo = t.undo /\ rest.n = t.n /\ rest.crossed = t.crossed
       /\ rest.todo = Tail(t.todo) /\ rest.stale = b /\ rest.writes = t.writes
  BY <1>4, <1>6, <1>7, <1>10 DEF Works, Holding
<1>12. rest = [t EXCEPT !.pc = "work", !.todo = Tail(@),
                        !.stale = @ \/ Differs(p, t, touch)]
  BY <1>4, <1>7, <1>10 DEF Works
<1>13. \/ NoEffect(p, touch, t.seen) /\ Go(p, rest)
       \/ /\ ~NoEffect(p, touch, t.seen) /\ touch.row \notin Held(p)
          /\ Go(p, [rest EXCEPT !.writes = w])
  <2>1. w = Over([r \in {touch.row} |-> v], rest.writes)
    BY <1>9, <1>11
  <2> QED
    BY <1>1, <1>2, <1>8, <1>12, <2>1 DEF Write
<1>14. v \in Int
  <2>1. touch.row \in Rows /\ touch.value \in Int
    BY <1>6 DEF Touches
  <2>2. t.writes \in Parts /\ t.seen.base \in Int
    BY <1>4 DEF Works
  <2>3. Visible(p, touch.row) \in Int
    BY <1>1, <2>1, <2>2, RowValue DEF Visible, RowsInv
  <2>4. Disabled(Visible(p, touch.row)) \in Int /\ Disabled(t.seen.base) \in Int
    BY <2>2, <2>3 DEF Disabled
  <2> QED
    BY <1>8, <2>1, <2>4 DEF Written
<1>15. /\ DOMAIN w = {touch.row} \cup DOMAIN t.writes
       /\ w[touch.row] = v
       /\ \A r \in DOMAIN t.writes \ {touch.row} : w[r] = t.writes[r]
       /\ w = [r \in DOMAIN w |-> w[r]]
  <2>1. w = Over([r \in {touch.row} |-> v], t.writes)
    BY <1>9
  <2> QED
    BY <2>1, PutRow DEF Over
<1>16. w \in Parts
  <2>1. touch.row \in Rows
    BY <1>6 DEF Touches
  <2>2. DOMAIN t.writes \subseteq Rows /\ \A r \in DOMAIN t.writes : t.writes[r] \in Int
    BY <1>4 DEF Works, Parts
  <2>3. DOMAIN w \subseteq Rows /\ \A r \in DOMAIN w : w[r] \in Int
    BY <1>14, <1>15, <2>1, <2>2
  <2>4. w \in [DOMAIN w -> Int]
    BY <1>15, <2>3
  <2> QED
    BY <2>3, <2>4 DEF Parts
<1>17. CASE NoEffect(p, touch, t.seen) /\ Go(p, rest)
  <2>1. Writes(p, t, touch, rest)
    BY <1>1, <1>2, <1>3, <1>4, <1>5, <1>7, <1>11, <1>17 DEF Writes
  <2> QED
    BY <1>6, <2>1
<1>18. CASE /\ ~NoEffect(p, touch, t.seen) /\ touch.row \notin Held(p)
            /\ Go(p, [rest EXCEPT !.writes = w])
  <2>1. PICK u : u = [rest EXCEPT !.writes = w]
    OBVIOUS
  <2>2. /\ u \in Works /\ u.pc = "work" /\ u.c = t.c /\ u.op = t.op
        /\ u.undo = t.undo /\ u.n = t.n /\ u.crossed = t.crossed
        /\ u.todo = Tail(t.todo) /\ u.stale = b /\ u.writes = w
    BY <1>11, <1>16, <2>1 DEF Works
  <2>3. Writes(p, t, touch, u)
    BY <1>1, <1>2, <1>3, <1>4, <1>5, <1>7, <1>8, <1>15, <1>18, <2>1, <2>2 DEF Writes
  <2> QED
    BY <1>6, <2>3
<1> QED
  BY <1>13, <1>17, <1>18

\* The rows the request sees after it.
Effects(p, t, touch, u) ==
  /\ \A r \in Rows \ {touch.row} : Now(u, r) = Now(t, r)
  /\ touch.do = "put" =>
       /\ touch.row \in DOMAIN u.writes
       /\ u.writes[touch.row] = touch.value /\ Now(u, touch.row) = touch.value
  /\ touch.do = "delete" => Now(u, touch.row) = 0
  /\ Awaited(t.todo) = {touch.row} \cup Awaited(u.todo)
  /\ DOMAIN t.writes \subseteq DOMAIN u.writes
  /\ DOMAIN u.writes \subseteq {touch.row} \cup DOMAIN t.writes
  /\ ~NoEffect(p, touch, t.seen) => touch.row \in DOMAIN u.writes

LEMMA WrittenRows ==
  ASSUME RowsInv, NEW p \in Callers, NEW t, NEW touch \in Touches, NEW u, Writes(p, t, touch, u)
  PROVE  Effects(p, t, touch, u)
<1>1. t.writes \in Parts /\ u.writes \in Parts /\ touch.row \in Rows /\ Settled
  BY DEF Writes, Works, Touches, RowsInv
<1>2. ASSUME NEW r \in Rows \ {touch.row} PROVE Now(u, r) = Now(t, r)
  <2>1. (r \in DOMAIN u.writes <=> r \in DOMAIN t.writes)
        /\ (r \in DOMAIN t.writes => u.writes[r] = t.writes[r])
    BY <1>2 DEF Writes
  <2>2. \A w \in Parts : /\ r \in DOMAIN w => Over(w, settings)[r] = w[r]
                         /\ r \notin DOMAIN w => Over(w, settings)[r] = settings[r]
    BY <1>1, <1>2, RowValue
  <2> QED
    BY <1>1, <2>1, <2>2 DEF Now
<1>3. touch.row \in DOMAIN u.writes => Now(u, touch.row) = u.writes[touch.row]
  BY <1>1, RowValue DEF Now
<1>4. ASSUME touch.do = "put"
      PROVE  touch.row \in DOMAIN u.writes /\ u.writes[touch.row] = touch.value
  <2>1. ~NoEffect(p, touch, t.seen)
    BY <1>4 DEF NoEffect, Copies
  <2>2. Written(p, touch, t.seen) = touch.value
    BY <1>4 DEF Written
  <2> QED
    BY <2>1, <2>2 DEF Writes
<1>5. ASSUME touch.do = "delete" PROVE Now(u, touch.row) = 0
  <2>1. CASE NoEffect(p, touch, t.seen)
    <3>1. Visible(p, touch.row) = 0
      BY <1>5, <2>1 DEF NoEffect, Copies
    <3> QED
      BY <2>1, <3>1 DEF Writes, Visible, Now
  <2>2. CASE ~NoEffect(p, touch, t.seen)
    <3>1. Written(p, touch, t.seen) = 0
      BY <1>5 DEF Written
    <3>2. touch.row \in DOMAIN u.writes /\ u.writes[touch.row] = 0
      BY <2>2, <3>1 DEF Writes
    <3> QED
      BY <1>3, <3>2
  <2> QED
    BY <2>1, <2>2
<1>6. Awaited(t.todo) = {touch.row} \cup Awaited(u.todo)
  BY TouchAtHand DEF Writes
<1>7. /\ DOMAIN t.writes \subseteq DOMAIN u.writes
      /\ DOMAIN u.writes \subseteq {touch.row} \cup DOMAIN t.writes
      /\ ~NoEffect(p, touch, t.seen) => touch.row \in DOMAIN u.writes
  BY DEF Writes
<1> QED
  BY <1>2, <1>3, <1>4, <1>5, <1>6, <1>7 DEF Effects

\* The touches of an operation, by its kind.
LEMMA TouchOfOperation ==
  ASSUME NEW c \in ChangeSets, NEW n \in Nat, n <= Len(Planned[c]),
         NEW op \in {"full", "canary", "promote"}, NEW x \in Elems(Work(c, op, n))
  PROVE  \E i \in ItemSet(c, n) :
           /\ i \in Items
           /\ \/ op # "canary" /\ x = BaseTouch(c, i)
              \/ op = "canary" /\ x \in OverrideTouches(c, i, Do(i), TRUE)
              \/ op = "promote" /\ x \in OverrideTouches(c, i, "delete", FALSE)
           /\ op = "promote" => i.kind # "own"
<1>1. PICK i \in ItemSet(c, n) : x \in PartElems(c, op, i)
  BY WorkOfItems
<1>2. i \in Items
  BY WorkOfItems
<1>3. CASE op = "full"
  BY <1>1, <1>2, <1>3 DEF PartElems
<1>4. CASE op = "canary"
  BY <1>1, <1>2, <1>4 DEF PartElems
<1>5. CASE op = "promote"
  BY <1>1, <1>2, <1>5 DEF PartElems
<1> QED
  BY <1>3, <1>4, <1>5

\* A row that is written has been recorded, or is an override that a promotion deletes.
LEMMA WriteRecorded ==
  ASSUME RowsInv, NEW p \in Callers, NEW t, NEW touch \in Touches, NEW u, Writes(p, t, touch, u)
  PROVE  Recorded(u)
<1> SUFFICES ASSUME u.op # "rollback", ~u.stale, NEW r \in DOMAIN u.writes
             PROVE  \/ \E k \in DOMAIN u.undo : u.undo[k] = [row |-> r, value |-> settings[r]]
                    \/ u.op = "promote" /\ r \in Overridden(u.c, u.n)
  BY DEF Recorded
<1>0. Effects(p, t, touch, u)
  BY WrittenRows
<1>1. /\ u.undo = t.undo /\ u.op = t.op /\ u.c = t.c /\ u.n = t.n
      /\ ~t.stale /\ ~Differs(p, t, touch) /\ Recorded(t)
  BY DEF Writes, Working
<1>2. CASE r \in DOMAIN t.writes
  BY <1>1, <1>2 DEF Recorded
<1>3. CASE r \notin DOMAIN t.writes
  <2>1. r = touch.row
    BY <1>3, <1>0 DEF Effects
  <2>2. CASE touch.keep
    <3>1. t.pc = "write" /\ touch = Head(t.todo) /\ Fits(t)
      BY <2>2 DEF Writes
    <3>2. /\ t.undo # <<>> /\ t.undo \in Seq(Records)
          /\ t.undo[Len(t.undo)] = [row |-> touch.row, value |-> t.seen.row]
      BY <3>1 DEF Fits, Writes, Works
    <3>3. Len(t.undo) \in DOMAIN t.undo
      BY <3>2
    <3>4. Visible(p, touch.row) = t.seen.row
      BY <1>1, <2>2 DEF Differs
    <3>5. Visible(p, touch.row) = settings[r]
      <4>1. r \in Rows /\ t.writes \in Parts
        BY <2>1 DEF Touches, Writes, Works
      <4> QED
        BY <1>3, <2>1, <4>1, RowValue DEF Writes, Visible, RowsInv
    <3> QED
      BY <1>1, <2>1, <3>2, <3>3, <3>4, <3>5
  <2>3. CASE ~touch.keep
    <3>1. /\ t.c \in ChangeSets /\ t.n \in Nat /\ t.n <= Len(Planned[t.c])
          /\ t.op \in {"full", "canary", "promote"} /\ touch \in Elems(Work(t.c, t.op, t.n))
      <4>1. /\ t \in Works /\ t.pc \in Holding /\ Fits(t) /\ t.op # "rollback"
            /\ touch \in Elems(AllOf(t))
        BY <1>1, TouchAtHand DEF Writes
      <4> QED
        BY <4>1 DEF Works, Fits, AllOf, Operations
    <3>2. PICK i \in ItemSet(t.c, t.n) :
            /\ i \in Items
            /\ \/ t.op # "canary" /\ touch = BaseTouch(t.c, i)
               \/ t.op = "canary" /\ touch \in OverrideTouches(t.c, i, Do(i), TRUE)
               \/ t.op = "promote" /\ touch \in OverrideTouches(t.c, i, "delete", FALSE)
            /\ t.op = "promote" => i.kind # "own"
      BY <3>1, TouchOfOperation
    <3>3. t.op = "promote" /\ touch \in OverrideTouches(t.c, i, "delete", FALSE)
      BY <2>3, <3>2 DEF BaseTouch, OverrideTouches, Touch
    <3>4. PICK k \in DOMAIN Targets[t.c] : touch.row = <<i.key, Targets[t.c][k]>>
      BY <3>3 DEF OverrideTouches, Touch
    <3> QED
      BY <1>1, <2>1, <3>3, <3>4 DEF Overridden
  <2> QED
    BY <2>2, <2>3
<1> QED
  BY <1>2, <1>3

\* A canary that finds nothing to write in one of its spaces is stale.
LEMMA WriteCovering ==
  ASSUME RowsInv, NEW p \in Callers, NEW t, NEW touch \in Touches, NEW u, Writes(p, t, touch, u)
  PROVE  Covering(u)
<1> SUFFICES ASSUME u.op = "canary", ~u.stale
             PROVE  Overridden(u.c, u.n) \subseteq Awaited(u.todo) \cup DOMAIN u.writes
  BY DEF Covering
<1>0. Effects(p, t, touch, u)
  BY WrittenRows
<1>1. /\ t.op = "canary" /\ u.c = t.c /\ u.n = t.n
      /\ ~t.stale /\ ~Differs(p, t, touch) /\ Covering(t)
  BY DEF Writes, Working
<1>2. /\ Awaited(t.todo) = {touch.row} \cup Awaited(u.todo)
      /\ DOMAIN t.writes \subseteq DOMAIN u.writes
      /\ ~NoEffect(p, touch, t.seen) => touch.row \in DOMAIN u.writes
  BY <1>0 DEF Effects
<1>3. touch \in Elems(Work(t.c, "canary", t.n))
  BY <1>1, TouchAtHand DEF Writes, AllOf
<1>4. PICK i \in ItemSet(t.c, t.n) : touch \in OverrideTouches(t.c, i, Do(i), TRUE)
  BY <1>1, <1>3, TouchOfOperation DEF Writes, Works, Fits
<1>5. /\ touch.keep /\ touch.do \in {"put", "off"}
      /\ \E s \in Spaces : touch.row[2] = s
  <2>1. PICK k \in DOMAIN Targets[t.c] :
          touch = Touch(<<i.key, Targets[t.c][k]>>, Do(i), i.value, TRUE)
    BY <1>4 DEF OverrideTouches
  <2>2. Targets[t.c] \in Seq(Spaces)
    BY PlanAssumption DEF Writes, Works
  <2>3. Targets[t.c][k] \in Spaces
    BY <2>2
  <2> QED
    BY <2>1, <2>3 DEF Touch, Do
<1>6. ~NoEffect(p, touch, t.seen)
  <2> SUFFICES ASSUME NoEffect(p, touch, t.seen) PROVE FALSE
    OBVIOUS
  <2>1. touch.row[2] # Tenant
    BY <1>5, PlanAssumption
  <2>2. ~Copies(touch, t.seen) /\ Visible(p, touch.row) = t.seen.row
    BY <1>1, <1>5 DEF Differs
  <2> QED
    BY <1>5, <2>1, <2>2 DEF NoEffect, Copies
<1> QED
  BY <1>1, <1>2, <1>6 DEF Covering

\* A promotion sets what it comes to.
LEMMA WritePromoting ==
  ASSUME RowsInv, NEW p \in Callers, NEW t, NEW touch \in Touches, NEW u, Writes(p, t, touch, u)
  PROVE  Promoting(u)
<1> SUFFICES ASSUME u.op = "promote", Scope[u.c] = Tenant, NEW i \in ItemSet(u.c, u.n),
                    Do(i) = "put", i.kind # "own", Lone(u.c, u.n, i)
             PROVE  /\ \/ <<i.key, Tenant>> \in Awaited(u.todo)
                       \/ /\ <<i.key, Tenant>> \in DOMAIN u.writes
                          /\ u.writes[<<i.key, Tenant>>] = i.value
                    /\ \A k \in DOMAIN Targets[u.c] :
                         \/ <<i.key, Targets[u.c][k]>> \in Awaited(u.todo) \cup u.crossed
                         \/ Now(u, <<i.key, Targets[u.c][k]>>) = 0
  BY DEF Promoting
<1>0. Effects(p, t, touch, u)
  BY WrittenRows
<1>1. /\ t.op = "promote" /\ u.c = t.c /\ u.n = t.n /\ u.crossed = t.crossed
      /\ t.c \in ChangeSets /\ t.n \in Nat /\ t.n <= Len(Planned[t.c]) /\ Promoting(t)
  BY DEF Writes, Works, Working, Fits
<1>2. /\ \/ <<i.key, Tenant>> \in Awaited(t.todo)
         \/ <<i.key, Tenant>> \in DOMAIN t.writes /\ t.writes[<<i.key, Tenant>>] = i.value
      /\ \A k \in DOMAIN Targets[t.c] :
           \/ <<i.key, Targets[t.c][k]>> \in Awaited(t.todo) \cup t.crossed
           \/ Now(t, <<i.key, Targets[t.c][k]>>) = 0
  BY <1>1 DEF Promoting
<1>3. Awaited(t.todo) = {touch.row} \cup Awaited(u.todo)
  BY <1>0 DEF Effects
<1>4. PICK j \in ItemSet(t.c, t.n) :
        /\ j \in Items /\ j.kind # "own"
        /\ \/ touch = BaseTouch(t.c, j)
           \/ touch \in OverrideTouches(t.c, j, "delete", FALSE)
  <2>1. touch \in Elems(Work(t.c, "promote", t.n))
    BY <1>1, TouchAtHand DEF Writes, AllOf
  <2> QED
    BY <1>1, <2>1, TouchOfOperation
<1>5. Targets[t.c] \in Seq(Spaces) /\ i \in Items
  BY <1>1, PlanAssumption, WorkOfItems
<1>6. \A k \in DOMAIN Targets[t.c] : Targets[t.c][k] \in Spaces /\ Targets[t.c][k] # Tenant
  BY <1>5, PlanAssumption
<1>7. /\ touch = BaseTouch(t.c, j) =>
           touch.row = <<j.key, Tenant>> /\ touch.do = Do(j) /\ touch.value = j.value
      /\ touch \in OverrideTouches(t.c, j, "delete", FALSE) =>
           /\ touch.do = "delete"
           /\ \E k \in DOMAIN Targets[t.c] : touch.row = <<j.key, Targets[t.c][k]>>
  <2>1. Home(t.c, j) = Tenant
    BY <1>1, <1>4 DEF Home
  <2> QED
    BY <2>1 DEF BaseTouch, OverrideTouches, Touch
<1>8. touch.row[1] = i.key => j = i
  <2>1. touch.row[1] = j.key
    <3>1. CASE touch = BaseTouch(t.c, j)
      BY <1>7, <3>1
    <3>2. CASE touch \in OverrideTouches(t.c, j, "delete", FALSE)
      <4>1. PICK k \in DOMAIN Targets[t.c] : touch.row = <<j.key, Targets[t.c][k]>>
        BY <1>7, <3>2
      <4> QED
        BY <4>1
    <3> QED
      BY <1>4, <3>1, <3>2
  <2>2. \A h \in ItemSet(t.c, t.n) : h.key = i.key => h = i
    BY <1>1 DEF Lone
  <2> QED
    BY <2>1, <2>2
<1>9. CASE touch.row = <<i.key, Tenant>>
  <2>1. touch.do = "put" /\ touch.value = i.value
    <3>1. touch.row[1] = i.key /\ touch.row[2] = Tenant
      BY <1>9
    <3>2. touch \notin OverrideTouches(t.c, j, "delete", FALSE)
      <4> SUFFICES ASSUME touch \in OverrideTouches(t.c, j, "delete", FALSE) PROVE FALSE
        OBVIOUS
      <4>1. PICK k \in DOMAIN Targets[t.c] : touch.row = <<j.key, Targets[t.c][k]>>
        BY <1>7
      <4>2. touch.row[2] = Targets[t.c][k]
        BY <4>1
      <4> QED
        BY <1>6, <3>1, <4>2
    <3> QED
      BY <1>4, <1>7, <1>8, <3>1, <3>2
  <2>2. touch.row \in DOMAIN u.writes /\ u.writes[touch.row] = i.value
    BY <2>1, <1>0 DEF Effects
  <2>3. ASSUME NEW k \in DOMAIN Targets[t.c]
        PROVE  \/ <<i.key, Targets[t.c][k]>> \in Awaited(u.todo) \cup u.crossed
               \/ Now(u, <<i.key, Targets[t.c][k]>>) = 0
    <3>1. <<i.key, Targets[t.c][k]>> \in Rows \ {touch.row}
      BY <1>5, <1>6, <1>9 DEF Rows, Places, Items
    <3> QED
      BY <1>1, <1>2, <1>3, <3>1, <1>0 DEF Effects
  <2> QED
    BY <1>1, <1>9, <2>2, <2>3
<1>10. CASE touch.row # <<i.key, Tenant>>
  <2>1. \/ <<i.key, Tenant>> \in Awaited(u.todo)
        \/ <<i.key, Tenant>> \in DOMAIN u.writes /\ u.writes[<<i.key, Tenant>>] = i.value
    BY <1>2, <1>3, <1>10 DEF Writes
  <2>2. ASSUME NEW k \in DOMAIN Targets[t.c]
        PROVE  \/ <<i.key, Targets[t.c][k]>> \in Awaited(u.todo) \cup u.crossed
               \/ Now(u, <<i.key, Targets[t.c][k]>>) = 0
    <3>1. <<i.key, Targets[t.c][k]>> \in Rows
      BY <1>5, <1>6 DEF Rows, Places, Items
    <3>2. CASE touch.row = <<i.key, Targets[t.c][k]>>
      <4>1. touch.do = "delete"
        <5>1. touch.row[2] # Tenant
          BY <1>6, <3>2
        <5>2. touch # BaseTouch(t.c, j)
          BY <1>7, <5>1
        <5> QED
          BY <1>4, <1>7, <5>2
      <4> QED
        BY <3>2, <4>1, <1>0 DEF Effects
    <3>3. CASE touch.row # <<i.key, Targets[t.c][k]>>
      BY <1>1, <1>2, <1>3, <3>1, <3>3, <1>0 DEF Effects
    <3> QED
      BY <3>2, <3>3
  <2> QED
    BY <1>1, <2>1, <2>2
<1> QED
  BY <1>9, <1>10

\* A rollback restores what it comes to.
LEMMA WriteRestoring ==
  ASSUME RowsInv, NEW p \in Callers, NEW t, NEW touch \in Touches, NEW u, Writes(p, t, touch, u)
  PROVE  Restoring(u)
<1> SUFFICES ASSUME u.op = "rollback", ~u.stale, ~Twice(u.undo), NEW k \in DOMAIN u.undo
             PROVE  \/ u.undo[k].row \in Awaited(u.todo)
                    \/ Now(u, u.undo[k].row) = u.undo[k].value
  BY DEF Restoring
<1>0. Effects(p, t, touch, u)
  BY WrittenRows
<1>1. /\ t.op = "rollback" /\ u.undo = t.undo /\ ~t.stale /\ Restoring(t)
      /\ t.undo \in Seq(Records)
  BY DEF Writes, Working, Works
<1>2. t.undo[k] \in Records /\ t.undo[k].row \in Rows
  BY <1>1, ReplayOfRecords DEF Records
<1>3. t.undo[k].row \in Awaited(t.todo) \/ Now(t, t.undo[k].row) = t.undo[k].value
  BY <1>1 DEF Restoring
<1>4. CASE touch.row # t.undo[k].row
  BY <1>1, <1>2, <1>3, <1>4, <1>0 DEF Effects
<1>5. CASE touch.row = t.undo[k].row
  <2>1. touch \in Elems(Replay(t.undo))
    BY <1>1, TouchAtHand DEF Writes, AllOf
  <2>2. PICK j \in DOMAIN Replay(t.undo) : touch = Replay(t.undo)[j]
    BY <2>1 DEF Elems
  <2>3. j \in DOMAIN t.undo /\ touch = Touch(t.undo[j].row,
          IF t.undo[j].value = 0 THEN "delete" ELSE "put", t.undo[j].value, FALSE)
    BY <1>1, <2>2, ReplayOfRecords
  <2>4. j = k
    BY <1>1, <1>5, <2>3 DEF Twice, Touch
  <2>5. /\ touch.value = t.undo[k].value
        /\ t.undo[k].value = 0 => touch.do = "delete"
        /\ t.undo[k].value # 0 => touch.do = "put"
    BY <2>3, <2>4 DEF Touch
  <2>6. Now(u, touch.row) = t.undo[k].value
    BY <2>5, <1>0 DEF Effects
  <2> QED
    BY <1>1, <1>5, <2>6
<1> QED
  BY <1>4, <1>5

\* A step of Write keeps the invariant.
LEMMA WriteRows ==
  ASSUME LifeInv, RowsInv, NEW p \in Callers, Write(p)
  PROVE  RowsInv'
<1>1. PICK t, u : \E x \in Touches : Writes(p, t, x, u)
  BY WriteShape
<1>2. PICK touch \in Touches : Writes(p, t, touch, u)
  BY <1>1
<1>3. Go(p, u) /\ u \in Works /\ u.pc = "work" /\ t = tx[p] /\ t.pc \in Holding
  BY <1>2 DEF Writes
<1>4. Formed(u)
  BY <1>3 DEF Formed
<1>5. Fits(u)
  <2>1. Fits(t) /\ AllOf(u) = AllOf(t) /\ Elems(u.todo) \subseteq Elems(AllOf(t))
    BY <1>2, TouchAtHand DEF Writes, AllOf
  <2> QED
    BY <1>2, <2>1 DEF Fits, Writes, Holding
<1>6. Working(u)
  BY <1>2, WriteRecorded, WriteCovering, WritePromoting, WriteRestoring DEF Working
<1>7. ASSUME NEW q \in Callers \ {p}, tx[q].pc \in Holding
      PROVE  DOMAIN tx[q].writes \cap DOMAIN u.writes = {}
  <2>1. DOMAIN tx[q].writes \cap DOMAIN t.writes = {}
    BY <1>3, <1>7 DEF RowsInv, Apart
  <2>2. CASE u.writes = t.writes
    BY <2>1, <2>2
  <2>3. CASE touch.row \notin Held(p) /\ DOMAIN u.writes = {touch.row} \cup DOMAIN t.writes
    BY <1>7, <2>1, <2>3 DEF Held, Holding
  <2> QED
    BY <1>2, <2>2, <2>3 DEF Writes
<1> QED
  BY <1>3, <1>4, <1>5, <1>6, <1>7, QuietRows DEF Write

\* Another request, after p has committed.
Passes(p, v, w) ==
  /\ w.pc = v.pc
  /\ v.pc \notin Holding => w = v
  /\ v.pc \in Holding =>
       /\ w \in Works
       /\ w.c = v.c /\ w.op = v.op /\ w.undo = v.undo /\ w.n = v.n /\ w.todo = v.todo
       /\ w.writes = v.writes /\ w.seen = v.seen
       /\ v.op # "rollback" => w.stale = v.stale
       /\ v.op = "rollback" /\ ~w.stale =>
            ~v.stale /\ \A k \in DOMAIN v.undo : v.undo[k].row \notin DOMAIN tx[p].writes
       /\ v.op = "promote" =>
            /\ v.crossed \subseteq w.crossed
            /\ DOMAIN tx[p].writes \subseteq w.crossed \cup Awaited(v.todo)

\* A commit makes of the other requests what Passes says.
LEMMA PassedBy ==
  ASSUME NEW p \in Callers, tx[p] \in Works, NEW v, Formed(v)
  PROVE  Passes(p, v, Crossed(v, p))
<1>1. DOMAIN tx[p].writes \subseteq Rows
  BY DEF Works, Parts
<1>2. CASE v.pc \notin Holding
  BY <1>2 DEF Passes, Crossed, Holding
<1>3. CASE v.pc \in Holding
  <2>1. v \in Works
    BY <1>3 DEF Formed
  <2>2. CASE v.op = "rollback"
    <3>1. PICK b \in BOOLEAN :
            b = (v.stale \/ \E k \in DOMAIN v.undo : v.undo[k].row \in DOMAIN tx[p].writes)
      OBVIOUS
    <3>2. PICK w : w = [v EXCEPT !.stale = b]
      OBVIOUS
    <3>3. Crossed(v, p) = [v EXCEPT !.stale =
            @ \/ \E k \in DOMAIN v.undo : v.undo[k].row \in DOMAIN tx[p].writes]
      BY <1>3, <2>2 DEF Crossed, Holding
    <3>4. Crossed(v, p) = w
      BY <2>1, <3>1, <3>2, <3>3 DEF Works
    <3>5. /\ w \in Works /\ w.pc = v.pc /\ w.stale = b
          /\ w.c = v.c /\ w.op = v.op /\ w.undo = v.undo /\ w.n = v.n /\ w.todo = v.todo
          /\ w.writes = v.writes /\ w.seen = v.seen
      BY <2>1, <3>2 DEF Works
    <3> QED
      BY <1>3, <2>2, <3>1, <3>4, <3>5 DEF Passes
  <2>3. CASE v.op = "promote"
    <3>1. PICK rows : rows = v.crossed \cup (DOMAIN tx[p].writes \ Awaited(v.todo))
      OBVIOUS
    <3>2. PICK w : w = [v EXCEPT !.crossed = rows]
      OBVIOUS
    <3>3. Crossed(v, p)
            = [v EXCEPT !.crossed = @ \cup (DOMAIN tx[p].writes \ Awaited(v.todo))]
      BY <1>3, <2>3 DEF Crossed, Holding
    <3>4. Crossed(v, p) = w
      BY <2>1, <3>1, <3>2, <3>3 DEF Works
    <3>5. rows \subseteq Rows
      BY <1>1, <2>1, <3>1 DEF Works
    <3>6. /\ w \in Works /\ w.pc = v.pc /\ w.stale = v.stale /\ w.crossed = rows
          /\ w.c = v.c /\ w.op = v.op /\ w.undo = v.undo /\ w.n = v.n /\ w.todo = v.todo
          /\ w.writes = v.writes /\ w.seen = v.seen
      BY <2>1, <3>2, <3>5 DEF Works
    <3> QED
      BY <1>3, <2>3, <3>1, <3>4, <3>6 DEF Passes
  <2>4. CASE v.op \notin {"rollback", "promote"}
    <3>1. Crossed(v, p) = v
      BY <2>4 DEF Crossed
    <3> QED
      BY <1>3, <2>1, <2>4, <3>1 DEF Passes
  <2> QED
    BY <2>2, <2>3, <2>4
<1> QED
  BY <1>2, <1>3

\* What p commits, to the rows and to its change set.
Committed(p, t, c) ==
  /\ t = tx[p] /\ t \in Works /\ t.pc = "work" /\ t.todo = <<>> /\ c = t.c /\ c \in ChangeSets
  /\ RequestGood(t) /\ Fits(t) /\ Working(t)
  /\ settings' \in [Rows -> Int]
  /\ \A r \in DOMAIN t.writes : settings'[r] = t.writes[r]
  /\ \A r \in Rows \ DOMAIN t.writes : settings'[r] = settings[r]
  /\ \A r \in Rows : settings'[r] = Now(t, r)
  /\ tx'[p] = Idle /\ \A q \in Callers \ {p} : tx'[q] = Crossed(tx[q], p)
  /\ cs'[c] = After(cs[c], t)
  /\ \A d \in ChangeSets \ {c} : cs'[d] = cs[d] /\ log'[d] = log[d]
  /\ log'[c] = Append(log[c], [op |-> t.op, n |-> t.n])
  /\ items' = items

\* A step of Commit is one.
LEMMA CommitShape ==
  ASSUME LifeInv, RowsInv, NEW p \in Callers, Commit(p)
  PROVE  \E t, c : Committed(p, t, c)
<1>1. PICK t, c : t = tx[p] /\ c = t.c
  OBVIOUS
<1>2. t \in Works /\ t.pc = "work" /\ RequestGood(t) /\ Fits(t) /\ Working(t)
  BY <1>1 DEF Commit, At, RowsInv, LifeInv, Formed, Holding
<1>3. c \in ChangeSets /\ t.writes \in Parts /\ t.todo = <<>>
  BY <1>1, <1>2 DEF Works, Commit
<1>4. settings' = Over(t.writes, settings)
  BY <1>1 DEF Commit
<1>5. /\ settings' \in [Rows -> Int]
      /\ \A r \in DOMAIN t.writes : settings'[r] = t.writes[r]
      /\ \A r \in Rows \ DOMAIN t.writes : settings'[r] = settings[r]
      /\ \A r \in Rows : settings'[r] = Now(t, r)
  BY <1>3, <1>4, RowValue DEF RowsInv, Now
<1>6. /\ tx'[p] = Idle /\ \A q \in Callers \ {p} : tx'[q] = Crossed(tx[q], p)
      /\ items' = items
  BY DEF Commit
<1>7. /\ cs'[c] = After(cs[c], t)
      /\ \A d \in ChangeSets \ {c} : cs'[d] = cs[d] /\ log'[d] = log[d]
      /\ log'[c] = Append(log[c], [op |-> t.op, n |-> t.n])
  BY <1>1, <1>3 DEF Commit, LifeInv, Typed
<1>8. Committed(p, t, c)
  BY <1>1, <1>2, <1>3, <1>5, <1>6, <1>7 DEF Committed
<1> QED
  BY <1>8

\* The change set after the commit.
LEMMA AfterCommit ==
  ASSUME LifeInv, RowsInv, NEW p \in Callers, NEW t, NEW c, Committed(p, t, c)
  PROVE  /\ t.op \in Operations /\ t.n \in Nat
         /\ cs'[c].undo \in Seq(Records) /\ cs'[c].counted = cs[c].counted
         /\ t.op \in {"full", "canary"} =>
              /\ cs[c].status = "approved" /\ cs'[c].status = "released"
              /\ cs'[c].undo = t.undo /\ cs'[c].canary = (t.op = "canary")
         /\ t.op = "promote" =>
              /\ cs[c].status = "released" /\ ~cs[c].promoted /\ cs[c].canary
              /\ cs'[c].status = "released" /\ cs'[c].promoted /\ cs'[c].undo = t.undo
         /\ t.op = "rollback" => cs[c].status = "released" /\ cs'[c].status = "rolled_back"
<1>1. /\ t.op \in Operations /\ t.n \in Nat /\ t.undo \in Seq(Records) /\ c \in ChangeSets
      /\ t.pc = "work" /\ t.c = c /\ RequestGood(t) /\ cs'[c] = After(cs[c], t)
  BY DEF Committed, Works
<1>2. DOMAIN cs[c] = Fields /\ cs[c].undo \in Seq(Records)
  BY <1>1 DEF LifeInv, ChangeSetGood, Shape, RowsInv, Settled
<1>3. CASE t.op \in {"full", "canary"}
  BY <1>1, <1>2, <1>3 DEF After, Fields, RequestGood, Holding, Changing
<1>4. CASE t.op = "promote"
  BY <1>1, <1>2, <1>4 DEF After, Fields, RequestGood, Holding, Changing
<1>5. CASE t.op = "rollback"
  BY <1>1, <1>2, <1>5 DEF After, Fields, RequestGood, Holding, Changing
<1> QED
  BY <1>1, <1>3, <1>4, <1>5 DEF Operations

\* The other requests fit the change sets after a commit.
LEMMA CommitFits ==
  ASSUME LifeInv, RowsInv, NEW p \in Callers, NEW t, NEW c, Committed(p, t, c),
         NEW q \in Callers \ {p}
  PROVE  Fits(tx[q])'
<1>1. PICK v : v = tx[q]
  OBVIOUS
<1>2. PICK w : w = Crossed(v, p)
  OBVIOUS
<1>3. Formed(v) /\ Fits(v) /\ RequestGood(v)
  BY <1>1 DEF RowsInv, LifeInv
<1>4. Passes(p, v, w) /\ tx'[q] = w
  BY <1>1, <1>2, <1>3, PassedBy DEF Committed
<1>5. cs'[c].counted = cs[c].counted
  BY AfterCommit
<1>6. CASE v.pc \in Holding
  <2>1. v \in Works /\ v.c # c /\ v.c \in ChangeSets
    BY <1>1, <1>3, <1>6 DEF Formed, Works, LifeInv, Exclusive, Committed, Holding
  <2>2. cs'[v.c] = cs[v.c]
    BY <2>1 DEF Committed
  <2>3. Fits(w) /\ w.c = v.c /\ w.pc = v.pc
    <3>1. AllOf(w) = AllOf(v)
      BY <1>4, <1>6 DEF Passes, AllOf
    <3> QED
      BY <1>3, <1>4, <1>6, <3>1 DEF Passes, Fits, Holding
  <2>4. Fits(w)'
    BY <1>6, <2>2, <2>3 DEF Fits, Holding
  <2> QED
    BY <1>4, <2>4 DEF Fits, Starts
<1>7. CASE v.pc \notin Holding
  <2>1. w = v
    BY <1>4, <1>7 DEF Passes
  <2>2. Fits(v)'
    <3>1. CASE v.pc \notin {"list", "lock"}
      BY <1>7, <3>1 DEF Fits, Holding
    <3>2. CASE v.pc \in {"list", "lock"}
      <4>1. v.c \in ChangeSets /\ v.pc \in Changing
        BY <1>3, <3>2 DEF RequestGood, Changing
      <4>2. Starts(v)
        BY <1>3, <3>2 DEF Fits
      <4>3. cs'[v.c] = cs[v.c] \/ v.c = c
        BY <4>1 DEF Committed
      <4>4. Starts(v)'
        <5>1. CASE v.op = "promote" /\ v.c = c
          <6>1. cs[c].status \in Effected
            BY <1>3, <4>1, <5>1 DEF RequestGood
          <6>2. ~(cs'[c].status = "released" /\ ~cs'[c].promoted)
            BY <6>1, AfterCommit DEF Effected, Operations
          <6> QED
            BY <4>2, <5>1, <6>2 DEF Starts
        <5>2. CASE v.op # "promote" \/ v.c # c
          BY <4>2, <4>3, <5>2 DEF Starts
        <5> QED
          BY <5>1, <5>2
      <4>5. cs'[v.c].counted = cs[v.c].counted
        BY <1>5, <4>3
      <4> QED
        BY <1>3, <1>7, <3>2, <4>4, <4>5 DEF Fits, Holding
    <3> QED
      BY <3>1, <3>2
  <2> QED
    BY <1>4, <2>1, <2>2 DEF Fits, Starts
<1> QED
  BY <1>6, <1>7

\* What the other transactions have established outlives a commit.
LEMMA CommitWorking ==
  ASSUME LifeInv, RowsInv, NEW p \in Callers, NEW t, NEW c, Committed(p, t, c),
         NEW q \in Callers \ {p}
  PROVE  Formed(tx[q])' /\ Working(tx[q])'
<1>1. PICK v : v = tx[q]
  OBVIOUS
<1>2. PICK w : w = Crossed(v, p)
  OBVIOUS
<1>3. Formed(v) /\ Working(v)
  BY <1>1 DEF RowsInv
<1>4. Passes(p, v, w) /\ tx'[q] = w
  BY <1>1, <1>2, <1>3, PassedBy DEF Committed
<1>5. CASE v.pc \notin Holding
  <2>1. w = v
    BY <1>4, <1>5 DEF Passes
  <2> QED
    BY <1>3, <1>4, <1>5, <2>1 DEF Formed, Working
<1>6. CASE v.pc \in Holding
  <2>1. /\ v \in Works /\ w \in Works /\ w.pc = v.pc /\ v.c \in ChangeSets
        /\ w.c = v.c /\ w.op = v.op /\ w.undo = v.undo /\ w.n = v.n /\ w.todo = v.todo
        /\ w.writes = v.writes
        /\ v.n \in Nat /\ v.n <= Len(Planned[v.c])
        /\ Recorded(v) /\ Covering(v) /\ Promoting(v) /\ Restoring(v)
    BY <1>1, <1>3, <1>4, <1>6 DEF Formed, Passes, Works, Working, RowsInv, Fits
  <2>2. DOMAIN v.writes \cap DOMAIN t.writes = {}
    BY <1>1, <1>6 DEF RowsInv, Apart, Committed, Holding
  <2>3. DOMAIN v.writes \subseteq Rows /\ v.writes \in Parts /\ w.writes \in Parts
    BY <2>1 DEF Works, Parts
  <2>4. \A r \in Rows \ DOMAIN t.writes : settings'[r] = settings[r]
    BY DEF Committed
  <2>5. \A r \in Rows \ DOMAIN t.writes : Now(w, r)' = Now(v, r)
    <3>1. DOMAIN settings = Rows /\ DOMAIN settings' = Rows
      BY DEF Committed, RowsInv, Settled
    <3> QED
      BY <2>1, <2>3, <2>4, <3>1 DEF Now, Over
  <2>6. Recorded(w)'
    <3> SUFFICES ASSUME w.op # "rollback", ~w.stale, NEW r \in DOMAIN w.writes
                 PROVE  \/ \E k \in DOMAIN w.undo : w.undo[k] = [row |-> r, value |-> settings'[r]]
                        \/ w.op = "promote" /\ r \in Overridden(w.c, w.n)
      BY DEF Recorded
    <3>1. ~v.stale /\ r \in DOMAIN v.writes /\ v.op # "rollback"
      BY <1>4, <1>6, <2>1 DEF Passes
    <3>2. settings'[r] = settings[r]
      BY <2>2, <2>3, <2>4, <3>1
    <3> QED
      BY <2>1, <3>1, <3>2 DEF Recorded
  <2>7. Covering(w)'
    BY <1>4, <1>6, <2>1 DEF Passes, Covering
  <2>8. Promoting(w)'
    <3> SUFFICES ASSUME w.op = "promote", Scope[w.c] = Tenant, NEW i \in ItemSet(w.c, w.n),
                        Do(i) = "put", i.kind # "own", Lone(w.c, w.n, i)
                 PROVE  /\ \/ <<i.key, Tenant>> \in Awaited(w.todo)
                           \/ /\ <<i.key, Tenant>> \in DOMAIN w.writes
                              /\ w.writes[<<i.key, Tenant>>] = i.value
                        /\ \A k \in DOMAIN Targets[w.c] :
                             \/ <<i.key, Targets[w.c][k]>> \in Awaited(w.todo) \cup w.crossed
                             \/ Now(w, <<i.key, Targets[w.c][k]>>)' = 0
      BY DEF Promoting
    <3>1. /\ v.op = "promote" /\ v.crossed \subseteq w.crossed
          /\ DOMAIN t.writes \subseteq w.crossed \cup Awaited(v.todo)
      BY <1>4, <1>6, <2>1 DEF Passes, Committed
    <3>2. /\ \/ <<i.key, Tenant>> \in Awaited(v.todo)
             \/ <<i.key, Tenant>> \in DOMAIN v.writes /\ v.writes[<<i.key, Tenant>>] = i.value
          /\ \A k \in DOMAIN Targets[v.c] :
               \/ <<i.key, Targets[v.c][k]>> \in Awaited(v.todo) \cup v.crossed
               \/ Now(v, <<i.key, Targets[v.c][k]>>) = 0
      BY <2>1, <3>1 DEF Promoting
    <3>3. ASSUME NEW k \in DOMAIN Targets[v.c]
          PROVE  \/ <<i.key, Targets[v.c][k]>> \in Awaited(w.todo) \cup w.crossed
                 \/ Now(w, <<i.key, Targets[v.c][k]>>)' = 0
      <4>1. i \in Items /\ Targets[v.c] \in Seq(Spaces)
        BY <2>1, WorkOfItems, PlanAssumption
      <4>2. <<i.key, Targets[v.c][k]>> \in Rows
        BY <4>1 DEF Items, Rows, Places
      <4>3. CASE <<i.key, Targets[v.c][k]>> \in DOMAIN t.writes
        BY <2>1, <3>1, <4>3
      <4>4. CASE <<i.key, Targets[v.c][k]>> \notin DOMAIN t.writes
        BY <2>1, <2>5, <3>1, <3>2, <4>2, <4>4
      <4> QED
        BY <4>3, <4>4
    <3> QED
      BY <2>1, <3>2, <3>3
  <2>9. Restoring(w)'
    <3> SUFFICES ASSUME w.op = "rollback", ~w.stale, ~Twice(w.undo), NEW k \in DOMAIN w.undo
                 PROVE  \/ w.undo[k].row \in Awaited(w.todo)
                        \/ Now(w, w.undo[k].row)' = w.undo[k].value
      BY DEF Restoring
    <3>1. ~v.stale /\ v.undo[k].row \notin DOMAIN t.writes
      BY <1>4, <1>6, <2>1 DEF Passes, Committed
    <3>2. v.undo[k].row \in Awaited(v.todo) \/ Now(v, v.undo[k].row) = v.undo[k].value
      BY <2>1, <3>1 DEF Restoring
    <3>3. v.undo[k].row \in Rows
      <4>1. v.undo \in Seq(Records)
        BY <2>1 DEF Works
      <4> QED
        BY <2>1, <4>1, ReplayOfRecords DEF Records
    <3> QED
      BY <2>1, <2>5, <3>1, <3>2, <3>3
  <2>10. Working(w)'
    BY <2>6, <2>7, <2>8, <2>9 DEF Working
  <2>11. Formed(w)
    BY <1>6, <2>1 DEF Formed, Holding
  <2> QED
    BY <1>4, <2>10, <2>11 DEF Formed, Working, Recorded, Covering, Promoting, Restoring, Now
<1> QED
  BY <1>5, <1>6

\* The change set has recorded what it has just written.
LEMMA CommitKept ==
  ASSUME LifeInv, RowsInv, NEW p \in Callers, Commit(p), NEW t, NEW c, Committed(p, t, c)
  PROVE  Kept(c)'
<1>1. /\ t = tx[p] /\ t.todo = <<>> /\ c = t.c /\ c \in ChangeSets /\ t \in Works
      /\ Fits(t) /\ t.pc \in Holding /\ Recorded(t) /\ Covering(t) /\ Kept(c)
      /\ t.n \in Nat /\ t.n <= Len(Planned[c])
  BY DEF Committed, Working, Holding, RowsInv, Works, Fits
<1>2. CASE t.op = "rollback"
  BY <1>2, AfterCommit DEF Kept, Effected
<1>3. CASE t.op # "rollback"
  <2>1. cs'[c].status = "released" /\ cs'[c].undo = t.undo /\ cs'[c].counted = cs[c].counted
    BY <1>3, AfterCommit DEF Operations
  <2>2. PICK old : old = [r \in DOMAIN t.writes |-> settings[r]]
    OBVIOUS
  <2>3. before'[c] = Over(before[c], old)
    BY <1>1, <1>3, <2>2 DEF Commit, RowsInv, Settled
  <2>4. /\ DOMAIN before'[c] = DOMAIN before[c] \cup DOMAIN t.writes
        /\ \A r \in DOMAIN before[c] : before'[c][r] = before[c][r]
        /\ \A r \in DOMAIN t.writes \ DOMAIN before[c] : before'[c][r] = settings[r]
    BY <2>2, <2>3 DEF Over
  <2>5. ~stale'[c] => ~stale[c] /\ ~t.stale
    BY <1>1 DEF Commit, RowsInv, Settled, Works
  <2>6. AllCounted(c)' => AllCounted(c) /\ t.n <= cs[c].counted
    <3>1. PICK e : e = [op |-> t.op, n |-> t.n]
      OBVIOUS
    <3>2. log[c] \in Seq([op : Operations, n : Nat]) /\ e \in [op : Operations, n : Nat]
      BY <1>1, <3>1 DEF LifeInv, Typed, Works
    <3>3. log'[c] = Append(log[c], e)
      BY <3>1 DEF Committed
    <3>4. /\ Len(log[c]) \in Nat /\ Len(log'[c]) = Len(log[c]) + 1
          /\ log'[c][Len(log[c]) + 1] = e
          /\ \A k \in 1..Len(log[c]) : log'[c][k] = log[c][k]
          /\ DOMAIN log[c] = 1..Len(log[c]) /\ DOMAIN log'[c] = 1..Len(log'[c])
      BY <3>2, <3>3, OneMore
    <3>5. DOMAIN log[c] \subseteq DOMAIN log'[c] /\ Len(log[c]) + 1 \in DOMAIN log'[c]
      BY <3>4
    <3> QED
      BY <2>1, <3>1, <3>4, <3>5 DEF AllCounted, Counted
  <2>7. CASE t.op \in {"full", "canary"}
    <3>1. DOMAIN before[c] = {} /\ cs[c].status = "approved"
      BY <1>1, <2>7, AfterCommit DEF Kept, Effected
    <3>2. ASSUME ~stale'[c], NEW r \in DOMAIN before'[c]
          PROVE  \E k \in DOMAIN t.undo : t.undo[k] = [row |-> r, value |-> before'[c][r]]
      <4>1. r \in DOMAIN t.writes /\ before'[c][r] = settings[r] /\ t.op # "promote"
        BY <2>4, <2>7, <3>1
      <4> QED
        BY <1>1, <1>3, <2>5, <3>2, <4>1 DEF Recorded
    <3>3. ASSUME ~stale'[c], cs'[c].canary
          PROVE  Overridden(c, cs'[c].counted) \subseteq DOMAIN before'[c]
      <4>1. t.op = "canary"
        BY <2>7, <3>3, AfterCommit
      <4>2. Overridden(c, t.n) \subseteq DOMAIN t.writes
        <5>1. Awaited(t.todo) = {}
          BY <1>1, AwaitedRows DEF Works
        <5> QED
          BY <1>1, <2>5, <3>3, <4>1, <5>1 DEF Covering
      <4>3. cs[c].counted <= t.n /\ cs[c].counted \in Nat
        BY <1>1, <4>1 DEF Fits, LifeInv, ChangeSetGood, Shape
      <4>4. ItemSet(c, cs[c].counted) \subseteq ItemSet(c, t.n)
        BY <1>1, <4>3 DEF ItemSet
      <4> QED
        BY <2>1, <2>4, <4>2, <4>4 DEF Overridden
    <3> QED
      BY <2>1, <3>2, <3>3 DEF Kept, Effected
  <2>8. CASE t.op = "promote"
    <3>1. /\ cs[c].status = "released" /\ ~cs[c].promoted /\ cs[c].canary /\ cs'[c].promoted
          /\ Extends(t.undo, cs[c].undo)
      BY <1>1, <2>8, AfterCommit DEF Fits
    <3>2. ASSUME ~stale'[c], AllCounted(c)', NEW r \in DOMAIN before'[c]
          PROVE  \E k \in DOMAIN t.undo : t.undo[k] = [row |-> r, value |-> before'[c][r]]
      <4>1. ~stale[c] /\ ~t.stale /\ AllCounted(c) /\ t.n <= cs[c].counted
        BY <2>5, <2>6, <3>2
      <4>2. CASE r \in DOMAIN before[c]
        BY <1>1, <2>4, <3>1, <4>1, <4>2 DEF Kept, Extends
      <4>3. CASE r \notin DOMAIN before[c]
        <5>1. r \in DOMAIN t.writes /\ before'[c][r] = settings[r]
          BY <2>4, <3>2, <4>3
        <5>2. r \notin Overridden(c, t.n)
          <6>1. cs[c].counted \in Nat
            BY <1>1 DEF LifeInv, ChangeSetGood, Shape
          <6>2. ItemSet(c, t.n) \subseteq ItemSet(c, cs[c].counted)
            BY <1>1, <4>1, <6>1 DEF ItemSet
          <6>3. Overridden(c, cs[c].counted) \subseteq DOMAIN before[c]
            BY <1>1, <3>1, <4>1 DEF Kept
          <6> QED
            BY <4>3, <6>2, <6>3 DEF Overridden
        <5> QED
          BY <1>1, <1>3, <4>1, <5>1, <5>2 DEF Recorded
      <4> QED
        BY <4>2, <4>3
    <3> QED
      BY <2>1, <3>1, <3>2 DEF Kept, Effected
  <2> QED
    BY <1>1, <1>3, <2>7, <2>8, AfterCommit DEF Operations
<1> QED
  BY <1>2, <1>3

\* A commit keeps the invariant.
LEMMA CommitRows ==
  ASSUME LifeInv, RowsInv, NEW p \in Callers, Commit(p)
  PROVE  RowsInv'
<1>1. PICK t, c : Committed(p, t, c)
  BY CommitShape
<1>2. c \in ChangeSets /\ c = tx[p].c /\ tx'[p] = Idle /\ p \in Callers
  BY <1>1 DEF Committed
<1>3. Settled'
  <2>1. cs'[c].undo \in Seq(Records)
    BY <1>1, AfterCommit
  <2>2. \A d \in ChangeSets \ {c} : cs'[d] = cs[d]
    BY <1>1 DEF Committed
  <2>3. settings' \in [Rows -> Int] /\ items' = items
    BY <1>1 DEF Committed
  <2>4. DOMAIN before' = ChangeSets
    BY DEF Commit, RowsInv, Settled
  <2>5. stale' \in [ChangeSets -> BOOLEAN]
    <3>1. tx[p].stale \in BOOLEAN
      BY <1>1 DEF Committed, Works
    <3> QED
      BY <3>1 DEF Commit, RowsInv, Settled
  <2> QED
    BY <2>1, <2>2, <2>3, <2>4, <2>5 DEF RowsInv, Settled
<1>4. ASSUME NEW q \in Callers PROVE (Formed(tx[q]) /\ Fits(tx[q]) /\ Working(tx[q]))'
  <2>1. CASE q = p
    BY <1>2, <2>1 DEF Idle, Formed, Fits, Working, Holding
  <2>2. CASE q # p
    <3>1. Fits(tx[q])'
      BY <1>1, <2>2, CommitFits
    <3>2. Formed(tx[q])' /\ Working(tx[q])'
      BY <1>1, <2>2, CommitWorking
    <3> QED
      BY <3>1, <3>2
  <2> QED
    BY <2>1, <2>2
<1>5. Apart'
  <2>1. ASSUME NEW q \in Callers, tx'[q].pc \in Holding
        PROVE  q # p /\ tx[q].pc \in Holding /\ tx'[q].writes = tx[q].writes
    <3>1. q # p
      BY <1>2, <2>1 DEF Idle, Holding
    <3>2. Passes(p, tx[q], tx'[q])
      BY <1>1, <3>1, PassedBy DEF Committed, RowsInv
    <3> QED
      BY <2>1, <3>1, <3>2 DEF Passes
  <2> QED
    BY <2>1 DEF RowsInv, Apart
<1>6. Kept(c)'
  BY <1>1, CommitKept
<1>7. ASSUME NEW d \in ChangeSets \ {c} PROVE Kept(d)'
  <2>1. cs'[d] = cs[d] /\ log'[d] = log[d]
    BY <1>1 DEF Committed
  <2>2. before'[d] = before[d] /\ stale'[d] = stale[d]
    BY <1>2 DEF Commit, RowsInv, Settled
  <2>3. Kept(d)
    BY DEF RowsInv
  <2> QED
    BY <2>1, <2>2, <2>3 DEF Kept, AllCounted, Counted
<1> QED
  BY <1>3, <1>4, <1>5, <1>6, <1>7 DEF RowsInv

\* Every step keeps the invariant.
LEMMA StepRows == LifeInv /\ RowsInv /\ [Next]_vars => RowsInv'
<1> SUFFICES ASSUME LifeInv, RowsInv, [Next]_vars PROVE RowsInv'
  OBVIOUS
<1>1. ASSUME NEW p \in Callers, Edit(p) PROVE RowsInv'
  BY <1>1, EditRows
<1>2. ASSUME NEW p \in Callers, Change(p) PROVE RowsInv'
  BY <1>2, CheckRows, LockRows, ReadRows, WriteRows, CommitRows, EditRows DEF Change
<1>3. ASSUME NEW c \in ChangeSets, Gate(c) PROVE RowsInv'
  BY <1>3, GateRows
<1>4. CASE UNCHANGED vars
  BY <1>4, EarlyRows DEF vars, RowsInv, Settled
<1> QED
  BY <1>1, <1>2, <1>3, <1>4 DEF Next

\* A step that commits an operation is the commit of its request.
LEMMA OnlyCommit ==
  ASSUME LifeInv, [Next]_vars, NEW p \in Callers, NEW op \in Operations, Commits(p, op)
  PROVE  Commit(p)
<1>1. PICK c : c = tx[p].c
  OBVIOUS
<1>2. tx[p].pc = "work" /\ log'[c] # log[c] /\ c \in ChangeSets
  BY <1>1 DEF Commits, LifeInv, RequestGood
<1>3. PICK q \in Callers : Commit(q)
  <2>1. log' # log
    BY <1>2
  <2> QED
    BY <2>1 DEF Next, vars, Edit, Change, Gate, AddItem, ListForSubmit, Unbind, InsertItem,
       Submit, Bind, Approve, AddRun, FinishRun, CheckRelease, CheckPromote, CheckRollback,
       ListItems, Lock, Read, Write, Abort
<1>4. tx[q].pc = "work" /\ tx[q].c = c
  <2>1. log' = [log EXCEPT ![tx[q].c] = Append(@, [op |-> tx[q].op, n |-> tx[q].n])]
    BY <1>3 DEF Commit
  <2>2. c \in DOMAIN log
    BY <1>2 DEF LifeInv, Typed
  <2>3. tx[q].c = c
    BY <1>2, <2>1, <2>2
  <2> QED
    BY <1>3, <2>3 DEF Commit, At
<1>5. q = p
  BY <1>1, <1>2, <1>4 DEF LifeInv, Exclusive, Holding
<1> QED
  BY <1>3, <1>5

\* The commit of a rollback.
LEMMA RestoredStep ==
  ASSUME LifeInv, RowsInv, [Next]_vars, NEW p \in Callers, NEW c, c = tx[p].c,
         Commits(p, "rollback"),
         tx[p].undo = cs[c].undo, ~Twice(cs[c].undo), ~stale[c], ~tx[p].stale,
         AllCounted(c), NEW r \in DOMAIN before[c]
  PROVE  settings'[r] = before[c][r]
<1>1. Commit(p)
  BY OnlyCommit DEF Operations
<1>2. PICK t, d : Committed(p, t, d)
  BY <1>1, CommitShape
<1>3. t = tx[p] /\ d = c /\ t.op = "rollback" /\ Restoring(t) /\ t.todo = <<>>
  BY <1>2 DEF Committed, Commits, Working, Holding
<1>4. cs[c].status = "released" /\ Kept(c) /\ c \in ChangeSets
  <2>1. Committed(p, t, c) /\ c \in ChangeSets
    BY <1>2, <1>3 DEF Committed
  <2>2. cs[c].status = "released"
    BY <1>3, <2>1, AfterCommit
  <2> QED
    BY <2>1, <2>2 DEF RowsInv
<1>5. PICK k \in DOMAIN cs[c].undo : cs[c].undo[k] = [row |-> r, value |-> before[c][r]]
  BY <1>4 DEF Kept
<1>6. k \in DOMAIN t.undo /\ t.undo[k].row = r /\ t.undo[k].value = before[c][r]
  BY <1>3, <1>5
<1>7. Awaited(t.todo) = {} /\ r \in Rows
  <2>1. t.todo \in Seq(Touches) /\ t.undo \in Seq(Records)
    BY <1>2 DEF Committed, Works
  <2> QED
    BY <1>3, <1>6, <2>1, AwaitedRows, ReplayOfRecords DEF Records
<1>8. Now(t, r) = before[c][r]
  BY <1>3, <1>6, <1>7 DEF Restoring
<1> QED
  BY <1>2, <1>7, <1>8 DEF Committed

\* A rollback puts every row its change set wrote back to what it was before, unless one
\* of the things happens that Restored names.
THEOREM RestoredHolds == Spec => Restored
<1>1. LifeInv /\ RowsInv /\ [Next]_vars =>
        [\A p \in Callers :
           LET c == tx[p].c IN
           /\ Commits(p, "rollback")
           /\ tx[p].undo = cs[c].undo /\ ~Twice(cs[c].undo)
           /\ ~stale[c] /\ ~tx[p].stale
           /\ \A k \in DOMAIN log[c] : Counted(c, log[c][k])
           => \A r \in DOMAIN before[c] : settings'[r] = before[c][r]]_vars
  BY RestoredStep DEF AllCounted
<1> QED
  BY <1>1, InitLife, StepLife, InitRows, StepRows, PTL DEF Spec, Restored

\* The commit of a promotion.
LEMMA PromotedStep ==
  ASSUME LifeInv, RowsInv, [Next]_vars, NEW p \in Callers, NEW c, c = tx[p].c,
         Commits(p, "promote"), Scope[c] = Tenant,
         NEW i \in ItemSet(c, tx[p].n), NEW k \in DOMAIN Targets[c],
         Do(i) = "put", i.kind # "own", Lone(c, tx[p].n, i),
         <<i.key, Targets[c][k]>> \notin tx[p].crossed
  PROVE  Effective(settings', i.key, Targets[c][k]) = i.value
<1>1. Commit(p)
  BY OnlyCommit DEF Operations
<1>2. PICK t, d : Committed(p, t, d)
  BY <1>1, CommitShape
<1>3. /\ t = tx[p] /\ d = c /\ t.op = "promote" /\ Promoting(t) /\ t.todo = <<>>
      /\ c \in ChangeSets /\ t.n \in Nat /\ t.n <= Len(Planned[c])
  BY <1>2 DEF Committed, Commits, Working, Holding, Works, Fits
<1>4. Awaited(t.todo) = {}
  BY <1>2, <1>3, AwaitedRows DEF Committed, Works
<1>5. /\ <<i.key, Tenant>> \in DOMAIN t.writes /\ t.writes[<<i.key, Tenant>>] = i.value
      /\ Now(t, <<i.key, Targets[c][k]>>) = 0
  <2>1. t.c = c /\ i \in ItemSet(t.c, t.n) /\ k \in DOMAIN Targets[t.c] /\ Lone(t.c, t.n, i)
    BY <1>2, <1>3 DEF Committed
  <2>2. <<i.key, Targets[c][k]>> \notin Awaited(t.todo) \cup t.crossed
    BY <1>3, <1>4
  <2> QED
    BY <1>3, <1>4, <2>1, <2>2 DEF Promoting
<1>6. <<i.key, Targets[c][k]>> \in Rows
  <2>1. i \in Items /\ Targets[c] \in Seq(Spaces)
    BY <1>3, WorkOfItems, PlanAssumption
  <2> QED
    BY <2>1 DEF Items, Rows, Places
<1>7. settings'[<<i.key, Tenant>>] = i.value /\ settings'[<<i.key, Targets[c][k]>>] = 0
  BY <1>2, <1>5, <1>6 DEF Committed
<1> QED
  BY <1>7 DEF Effective

\* The promotion of a tenant's change set leaves its canary spaces with the values its
\* items gave them.
THEOREM CanaryKeptHolds == Spec => CanaryKept
<1>1. LifeInv /\ RowsInv /\ [Next]_vars =>
        [\A p \in Callers :
           LET c == tx[p].c IN
           /\ Commits(p, "promote")
           /\ Scope[c] = Tenant
           => \A i \in ItemSet(c, tx[p].n) : \A k \in DOMAIN Targets[c] :
                /\ Do(i) = "put" /\ i.kind # "own"
                /\ \A j \in ItemSet(c, tx[p].n) : j.key = i.key => j = i
                /\ <<i.key, Targets[c][k]>> \notin tx[p].crossed
                => Effective(settings', i.key, Targets[c][k]) = i.value]_vars
  BY PromotedStep DEF Lone
<1> QED
  BY <1>1, InitLife, StepLife, InitRows, StepRows, PTL DEF Spec, CanaryKept
=============================================================================
