-------------------------- MODULE WriteLeaseProofs --------------------------
(* Proofs about the write lease, for any number of invocations, steps and  *)
(* resources.                                                              *)
EXTENDS WriteLease, TLAPS

\* Every variable keeps its type.
THEOREM TypeCorrect == Spec => []TypeOK
<1>1. Init => TypeOK
  BY DEF Init, TypeOK
<1>2. TypeOK /\ [Next]_vars => TypeOK'
  <2> SUFFICES ASSUME TypeOK, [Next]_vars
               PROVE  TypeOK'
    OBVIOUS
  <2>1. ASSUME NEW e \in Execs, NEW o \in Owners, NEW r \in Resources,
               Acquire(e, o, r)
        PROVE  TypeOK'
    <3>1. PICK g \in Grants :
             /\ lease' = [lease EXCEPT ![r] = [owner |-> o, left |-> g]]
             /\ exec' = [exec EXCEPT ![e] = [owner |-> o, res |-> r, left |-> g]]
      BY <2>1 DEF Acquire
    <3>2. [owner |-> o, left |-> g] \in Rows
      BY GrantsAssumption DEF Rows
    <3>3. [owner |-> o, res |-> r, left |-> g] \in Writers
      BY GrantsAssumption DEF Writers
    <3> QED
      BY <2>1, <3>1, <3>2, <3>3 DEF Acquire, TypeOK
  <2>2. ASSUME NEW e \in Execs, Finish(e)
        PROVE  TypeOK'
    BY <2>2 DEF Finish, DeleteRow, SameStep, TypeOK
  <2>3. ASSUME NEW e \in Execs, Abandon(e)
        PROVE  TypeOK'
    BY <2>3 DEF Abandon, TypeOK
  <2>4. ASSUME Tick
        PROVE  TypeOK'
    <3>1. lease' \in [Resources -> Rows \cup {NoLease}]
      <4> SUFFICES ASSUME NEW r \in Resources, lease[r] # NoLease
                   PROVE  [lease[r] EXCEPT !.left = Less(@)] \in Rows
        BY <2>4 DEF Tick, TypeOK
      <4>1. lease[r] \in Rows
        BY DEF TypeOK
      <4> QED
        BY <4>1 DEF Rows, Less
    <3>2. exec' \in [Execs -> Writers \cup {Idle}]
      <4> SUFFICES ASSUME NEW e \in Execs, Writing(e)
                   PROVE  [exec[e] EXCEPT !.left = Less(@)] \in Writers
        BY <2>4 DEF Tick, TypeOK
      <4>1. exec[e] \in Writers
        BY DEF TypeOK, Writing
      <4> QED
        BY <4>1 DEF Writers, Less
    <3> QED
      BY <2>4, <3>1, <3>2 DEF Tick, TypeOK
  <2>5. CASE UNCHANGED vars
    BY <2>5 DEF vars, TypeOK
  <2> QED
    BY <2>1, <2>2, <2>3, <2>4, <2>5 DEF Next
<1> QED
  BY <1>1, <1>2, PTL DEF Spec

-----------------------------------------------------------------------------
\* The row of a writer whose lease is not over excludes all others, so the two
\* properties are inductive together; only writers are robbed.
IInv ==
    /\ TypeOK /\ OneWriter /\ WriterCovered
    /\ \A e \in robbed : Writing(e)

\* Every step preserves the strengthening.
LEMMA IInvInductive ==
    ASSUME IInv, TypeOK', [Next]_vars
    PROVE  IInv'
<1> USE DEF IInv
<1>1. ASSUME NEW e \in Execs, NEW o \in Owners, NEW r \in Resources,
             Acquire(e, o, r)
      PROVE  IInv'
  <2>1. PICK g \in Grants :
           /\ lease' = [lease EXCEPT ![r] = [owner |-> o, left |-> g]]
           /\ exec' = [exec EXCEPT ![e] = [owner |-> o, res |-> r, left |-> g]]
    BY <1>1 DEF Acquire
  <2>2. exec[e] = Idle /\ Free(r) /\ robbed' = robbed
    BY <1>1 DEF Acquire
  <2>3. ASSUME NEW f \in Execs, Writing(f), ~Over(f)
        PROVE  exec[f].res # r /\ exec[f] \in Writers
    <3>1. exec[f] \in Writers
      BY <2>3 DEF TypeOK, Writing
    <3>2. /\ lease[exec[f].res] # NoLease
          /\ lease[exec[f].res].left = exec[f].left /\ exec[f].left # 0
      BY <2>3 DEF WriterCovered, Over
    <3> QED
      BY <2>2, <3>1, <3>2 DEF Free
  <2>4. Idle # [owner |-> o, res |-> r, left |-> g]
    BY DistinctAssumption, GrantsAssumption DEF Writers
  <2>5. NoLease # [owner |-> o, left |-> g]
    BY DistinctAssumption, GrantsAssumption DEF Rows
  <2>6. /\ exec'[e] = [owner |-> o, res |-> r, left |-> g] /\ Writing(e)'
        /\ \A f \in Execs : f # e => /\ exec'[f] = exec[f]
                                     /\ Writing(f)' = Writing(f) /\ Over(f)' = Over(f)
    BY <2>1, <2>2, <2>4 DEF TypeOK, Writing, Over
  <2>7. OneWriter'
    BY <2>3, <2>6 DEF OneWriter
  <2>8. WriterCovered'
    <3> SUFFICES ASSUME NEW f \in Execs, Writing(f)', ~Over(f)'
                 PROVE  /\ lease'[exec'[f].res] # NoLease
                        /\ lease'[exec'[f].res].owner = exec'[f].owner
                        /\ lease'[exec'[f].res].left = exec'[f].left
      BY DEF WriterCovered
    <3>1. CASE f = e
      BY <2>1, <2>5, <2>6, <3>1 DEF TypeOK
    <3>2. CASE f # e
      <4>1. Writing(f) /\ ~Over(f) /\ exec'[f] = exec[f]
        BY <2>6, <3>2
      <4>2. lease'[exec[f].res] = lease[exec[f].res]
        BY <2>1, <2>3, <4>1 DEF TypeOK, Writers
      <4> QED
        BY <4>1, <4>2 DEF WriterCovered
    <3> QED
      BY <3>1, <3>2
  <2>9. \A f \in robbed' : Writing(f)'
    BY <2>2, <2>6 DEF TypeOK
  <2> QED
    BY <2>7, <2>8, <2>9
<1>2. ASSUME NEW e \in Execs, Finish(e)
      PROVE  IInv'
  <2>1. exec' = [exec EXCEPT ![e] = Idle] /\ Writing(e)
    BY <1>2 DEF Finish
  <2>2. /\ robbed \ {e} \subseteq robbed' /\ e \notin robbed'
        /\ robbed' \subseteq robbed \cup SameStep(e)
    BY <1>2 DEF Finish
  <2>3. ASSUME NEW f \in Execs, Writing(f)'
        PROVE  /\ f # e /\ exec'[f] = exec[f] /\ Writing(f)
               /\ ~Over(f)' => ~Over(f)
    <3>1. f # e /\ exec'[f] = exec[f] /\ Writing(f)
      BY <2>1, <2>3 DEF TypeOK, Writing
    <3> QED
      BY <2>2, <3>1 DEF Over
  <2>4. OneWriter'
    BY <2>3 DEF OneWriter
  <2>5. ASSUME NEW f \in Execs, Writing(f)', ~Over(f)'
        PROVE  lease'[exec[f].res] = lease[exec[f].res]
    <3>1. f # e /\ Writing(f) /\ ~Over(f) /\ f \notin robbed'
      BY <2>3, <2>5 DEF Over
    <3>2. CASE Over(e)
      <4>1. f \notin SameStep(e)
        BY <1>2, <3>1, <3>2 DEF Finish
      <4>2. exec[f].res = exec[e].res => exec[f].owner # exec[e].owner
        BY <3>1, <4>1 DEF SameStep
      <4>3. lease[exec[f].res].owner = exec[f].owner
        BY <3>1 DEF WriterCovered
      <4> QED
        BY <1>2, <4>2, <4>3 DEF Finish, DeleteRow, TypeOK
    <3>3. CASE ~Over(e)
      <4>1. exec[f].res # exec[e].res
        BY <2>1, <3>1, <3>3 DEF OneWriter
      <4> QED
        BY <1>2, <4>1 DEF Finish, DeleteRow, TypeOK
    <3> QED
      BY <3>2, <3>3
  <2>6. WriterCovered'
    BY <2>3, <2>5 DEF WriterCovered
  <2>7. \A f \in robbed' : Writing(f)'
    BY <2>1, <2>2 DEF SameStep, TypeOK, Writing
  <2> QED
    BY <2>4, <2>6, <2>7
<1>3. ASSUME NEW e \in Execs, Abandon(e)
      PROVE  IInv'
  <2>1. ASSUME NEW f \in Execs, Writing(f)'
        PROVE  exec'[f] = exec[f] /\ Writing(f) /\ Over(f)' = Over(f)
    BY <1>3, <2>1 DEF Abandon, TypeOK, Writing, Over
  <2>2. lease' = lease /\ robbed' = robbed \ {e}
    BY <1>3 DEF Abandon
  <2>3. \A f \in robbed' : Writing(f)'
    BY <1>3, <2>2 DEF Abandon, TypeOK, Writing
  <2> QED
    BY <2>1, <2>2, <2>3 DEF OneWriter, WriterCovered
<1>4. ASSUME Tick
      PROVE  IInv'
  <2>1. ASSUME NEW f \in Execs
        PROVE  Writing(f)' = Writing(f)
    <3>1. CASE Writing(f)
      <4>1. exec[f] \in Writers
        BY <3>1 DEF TypeOK, Writing
      <4>2. exec'[f] \in Writers
        BY <1>4, <3>1, <4>1 DEF Tick, Writers, Less
      <4> QED
        BY <3>1, <4>2, DistinctAssumption DEF Writing
    <3>2. CASE ~Writing(f)
      BY <1>4, <3>2 DEF Tick, Writing
    <3> QED
      BY <3>1, <3>2
  <2>2. ASSUME NEW f \in Execs, Writing(f)
        PROVE  /\ exec[f] \in Writers /\ exec'[f].res = exec[f].res
               /\ exec'[f].owner = exec[f].owner /\ exec'[f].left = Less(exec[f].left)
               /\ ~Over(f)' => ~Over(f)
    <3>1. exec[f] \in Writers
      BY <2>2 DEF TypeOK, Writing
    <3>2. exec'[f] = [exec[f] EXCEPT !.left = Less(@)] /\ robbed' = robbed
      BY <1>4, <2>2 DEF Tick
    <3> QED
      BY <3>1, <3>2 DEF Writers, Over, Less
  <2>3. OneWriter'
    BY <2>1, <2>2 DEF OneWriter
  <2>4. ASSUME NEW f \in Execs, Writing(f)', ~Over(f)'
        PROVE  /\ lease'[exec'[f].res] # NoLease
               /\ lease'[exec'[f].res].owner = exec'[f].owner
               /\ lease'[exec'[f].res].left = exec'[f].left
    <3> DEFINE res == exec[f].res
    <3>1. /\ res \in Resources /\ lease[res] \in Rows
          /\ lease[res].owner = exec[f].owner /\ lease[res].left = exec[f].left
      BY <2>1, <2>2, <2>4 DEF WriterCovered, TypeOK, Writers
    <3>2. lease[res] # NoLease
      BY <3>1, DistinctAssumption
    <3>3. lease'[res] = [lease[res] EXCEPT !.left = Less(@)]
      BY <1>4, <3>1, <3>2 DEF Tick
    <3>4. /\ lease'[res] \in Rows /\ lease'[res].owner = lease[res].owner
          /\ lease'[res].left = Less(lease[res].left)
      BY <3>1, <3>3 DEF Rows, Less
    <3>5. lease'[res] # NoLease
      BY <3>4, DistinctAssumption
    <3> QED
      BY <2>1, <2>2, <2>4, <3>1, <3>4, <3>5
  <2>5. \A f \in robbed' : Writing(f)'
    BY <1>4, <2>1 DEF Tick, TypeOK
  <2> QED
    BY <2>3, <2>4, <2>5 DEF WriterCovered
<1>5. CASE UNCHANGED vars
  BY <1>5 DEF vars, OneWriter, WriterCovered, Writing, Over
<1> QED
  BY <1>1, <1>2, <1>3, <1>4, <1>5 DEF Next

\* No two invocations write a resource at once unless the lease of one of them is
\* over, however long tool functions run, whatever the clocks grant and wherever
\* workers die: a writer is alone until it outlives its lease or an invocation of its
\* own step, one whose own lease is over, deletes its row.
THEOREM LeaseExcludes == Spec => []OneWriter
<1>1. Init => IInv
  BY DEF Init, IInv, TypeOK, OneWriter, WriterCovered, Writing
<1>2. TypeOK' /\ IInv /\ [Next]_vars => IInv'
  BY IInvInductive
<1>3. IInv => OneWriter
  BY DEF IInv
<1> QED
  BY <1>1, <1>2, <1>3, TypeCorrect, PTL DEF Spec

-----------------------------------------------------------------------------
\* An unexpired row is never taken over, however long functions run: the upsert
\* of acquireWriteLease wins only over an expired row, and releaseWriteLease deletes
\* only a row of the step that has ended.
THEOREM NoTakeoverHolds == Spec => NoTakeover
<1> DEFINE Keeps(r) ==
      lease[r] # NoLease /\ lease[r].left > 0 =>
        \/ lease'[r] # NoLease /\ lease'[r].owner = lease[r].owner
                               /\ lease'[r].left <= lease[r].left
        \/ /\ lease'[r] = NoLease
           /\ \E e \in Execs : /\ Writing(e) /\ exec'[e] = Idle
                               /\ exec[e].res = r
                               /\ exec[e].owner = lease[r].owner
<1>1. ASSUME TypeOK, [Next]_vars, NEW r \in Resources PROVE Keeps(r)
  <2> SUFFICES ASSUME lease[r] # NoLease, lease[r].left > 0 PROVE Keeps(r)
    OBVIOUS
  <2>1. lease[r] \in Rows /\ lease[r].left \in Nat
    BY <1>1 DEF TypeOK, Rows
  <2>2. ASSUME NEW e \in Execs, NEW o \in Owners, NEW s \in Resources, Acquire(e, o, s)
        PROVE  Keeps(r)
    <3>1. s # r
      BY <2>1, <2>2 DEF Acquire, Free
    <3>2. lease'[r] = lease[r]
      BY <1>1, <2>2, <3>1 DEF Acquire, TypeOK
    <3> QED
      BY <2>1, <3>2
  <2>3. ASSUME NEW e \in Execs, Finish(e) PROVE Keeps(r)
    <3>1. CASE lease'[r] = lease[r]
      BY <2>1, <3>1
    <3>2. CASE lease'[r] # lease[r]
      <4>1. exec[e].res = r /\ lease[r].owner = exec[e].owner /\ lease'[r] = NoLease
        BY <1>1, <2>3, <3>2 DEF Finish, DeleteRow, TypeOK
      <4>2. Writing(e) /\ exec'[e] = Idle
        BY <1>1, <2>3 DEF Finish, TypeOK
      <4> QED
        BY <4>1, <4>2
    <3> QED
      BY <3>1, <3>2
  <2>4. ASSUME NEW e \in Execs, Abandon(e) PROVE Keeps(r)
    BY <2>1, <2>4 DEF Abandon
  <2>5. CASE Tick
    <3>1. lease'[r] = [lease[r] EXCEPT !.left = Less(@)]
      BY <2>5 DEF Tick
    <3>2. /\ lease'[r] \in Rows /\ lease'[r].owner = lease[r].owner
          /\ lease'[r].left = lease[r].left - 1
      BY <2>1, <3>1 DEF Rows, Less
    <3>3. lease'[r] # NoLease
      BY <3>2, DistinctAssumption
    <3> QED
      BY <2>1, <3>2, <3>3
  <2>6. CASE UNCHANGED vars
    BY <2>1, <2>6 DEF vars
  <2> QED
    BY <1>1, <2>2, <2>3, <2>4, <2>5, <2>6 DEF Next
<1>2. TypeOK /\ [Next]_vars =>
        [\A r \in Resources : Keeps(r)]_vars
  BY <1>1
<1> QED
  BY <1>2, TypeCorrect, PTL DEF Spec, NoTakeover
=============================================================================
