-------------------------- MODULE AuditTrailProofs --------------------------
(* Proofs about AuditTrail, for any number of requests, dispatchers, clocks  *)
(* and faults: the chain verifies at any time, no request is in it twice,    *)
(* and it implements AuditLedger.                                            *)
EXTENDS AuditTrail, TLAPS

USE SizesAssumption, ActorsAssumption, FreeAssumption, RequestsAssumption

\* Events are in the order of their times, and each links to the one before.
Ordered ==
    /\ \A i, j \in 1..Len(events) : i < j => events[i].ts < events[j].ts
    /\ \A i \in 1..Len(events) : events[i].prev = i - 1

\* Who has read the last event holds the lock, and the chain ends there still.
Holding ==
    \A a \in Actors :
        /\ tx[a].pc \in {"locked", "write"} => lock = a
        /\ tx[a].pc = "write" =>
             /\ tx[a].prev = Len(events)
             /\ \A i \in 1..Len(events) : events[i].ts < tx[a].ts

\* A request writes an event for itself only, and has none before it does.
Own ==
    \A q \in Requests :
        /\ tx[q].pc # "idle" => tx[q].req = q /\ way[q] \in {"read", "work"}
        /\ way[q] \in {"none", "fallback"} \/ tx[q].pc \in {"wait", "locked", "write"}
             => ~Audited(q)

\* A row exists only for a request that writes no event, a dispatcher works on
\* rows that exist, and a request with a row has only events of its row.
Rows ==
    /\ \A q \in Requests :
         way[q] \in {"none", "read", "work", "fallback"} => outbox[q] = "none"
    /\ \A d \in Dispatchers :
         /\ \A q \in claimed[d] : outbox[q] # "none"
         /\ tx[d].pc # "idle" => outbox[tx[d].req] # "none"
    /\ \A i \in 1..Len(events) : ~events[i].row => outbox[events[i].req] = "none"

Chain == TypeOK /\ Ordered /\ Holding
Inv == Chain /\ Own /\ Rows /\ AuditedOnce

LEMMA IdleType == IdleTx \in TxStates /\ IdleTx.pc = "idle"
  BY DEF IdleTx, TxStates

LEMMA TimesAreNat == TypeOK => \A i \in 1..Len(events) : events[i].ts \in Nat
<1> SUFFICES ASSUME TypeOK, NEW i \in 1..Len(events) PROVE events[i].ts \in Nat
  OBVIOUS
<1>1. events \in Seq(Events)
  BY DEF TypeOK
<1>2. events[i] \in Events
  BY <1>1
<1> QED BY <1>2 DEF Events

\* What the query by timestamp returns is the end of the chain.
LEMMA LastIsEnd == TypeOK /\ Ordered => LastInTime = Len(events)
<1> SUFFICES ASSUME TypeOK, Ordered PROVE LastInTime = Len(events)
  OBVIOUS
<1>1. CASE events = <<>>
  BY <1>1 DEF LastInTime
<1>2. CASE events # <<>>
  <2> DEFINE Last(i) == \A j \in 1..Len(events) : events[j].ts <= events[i].ts
  <2>1. Len(events) \in 1..Len(events)
    BY <1>2 DEF TypeOK
  <2>2. \A i \in 1..Len(events) : events[i].ts \in Nat
    BY TimesAreNat
  <2>3. Last(Len(events))
    BY <2>1, <2>2 DEF Ordered
  <2>4. \A i \in 1..Len(events) : Last(i) => i = Len(events)
    BY <2>1, <2>2 DEF Ordered
  <2>5. LastInTime = CHOOSE i \in 1..Len(events) : Last(i)
    BY <1>2 DEF LastInTime
  <2> QED BY <2>1, <2>3, <2>4, <2>5
<1> QED BY <1>1, <1>2

\* The time an actor chooses is a time, later than all events.
LEMMA TimeIsLater ==
  ASSUME TypeOK, Ordered, NEW a \in Actors, NEW t \in Times
  PROVE  TimeOf(a, t) \in Nat /\ \A i \in 1..Len(events) : events[i].ts < TimeOf(a, t)
<1>1. tx[a].ts \in Nat /\ t \in Nat
  BY DEF TypeOK, TxStates, Times
<1>2. \A i \in 1..Len(events) : events[i].ts \in Nat
  BY TimesAreNat
<1>3. LastInTime = Len(events) /\ Len(events) \in Nat
  BY LastIsEnd DEF TypeOK
<1>4. \A i \in 1..Len(events) : events[i].ts <= events[Len(events)].ts
  BY <1>2, <1>3 DEF Ordered
<1>5. CASE Len(events) = 0
  BY <1>1, <1>3, <1>5 DEF TimeOf
<1>6. CASE Len(events) # 0
  <2>1. events[Len(events)].ts \in Nat
    BY <1>2, <1>3, <1>6
  <2>2. TimeOf(a, t) \in Nat /\ TimeOf(a, t) > events[Len(events)].ts
    BY <1>1, <1>3, <1>6, <2>1 DEF TimeOf, Latest
  <2> QED BY <1>2, <1>4, <2>1, <2>2
<1> QED BY <1>5, <1>6

-----------------------------------------------------------------------------
\* Actions that change neither chain nor lock, nor take any actor to "locked" or
\* "write".
LEMMA QuietStep ==
  ASSUME Chain, UNCHANGED <<events, lock>>,
         tx' \in [Actors -> TxStates],
         \A a \in Actors : tx'[a].pc \in {"locked", "write"} => tx'[a] = tx[a]
  PROVE  Ordered' /\ Holding'
  BY DEF Chain, Ordered, Holding

\* Actions that free the lock of an actor who has ended.
LEMMA ReleaseStep ==
  ASSUME Chain, UNCHANGED events, NEW a \in Actors, Release(a),
         tx' \in [Actors -> TxStates], tx'[a].pc \notin {"locked", "write"},
         \A b \in Actors \ {a} : tx'[b] = tx[b]
  PROVE  Ordered' /\ Holding'
  BY DEF Chain, Ordered, Holding, Release

\* The append of an event by the holder of the lock.
LEMMA AppendStep ==
  ASSUME Chain, NEW a \in Actors, tx[a].pc = "write", Release(a),
         NEW e \in Events, e.ts = tx[a].ts, e.prev = tx[a].prev,
         events' = Append(events, e),
         tx' \in [Actors -> TxStates], tx'[a].pc \notin {"locked", "write"},
         \A b \in Actors \ {a} : tx'[b] = tx[b]
  PROVE  Ordered' /\ Holding'
<1>1. events \in Seq(Events)
  BY DEF Chain, TypeOK
<1>2. Len(events') = Len(events) + 1 /\ events'[Len(events) + 1] = e
      /\ \A i \in 1..Len(events) : events'[i] = events[i]
  BY <1>1
<1>3. \A i \in 1..Len(events) : events[i].ts < e.ts
  BY DEF Chain, Holding
<1>4. Ordered'
  BY <1>1, <1>2, <1>3 DEF Chain, Holding, Ordered
<1>5. \A b \in Actors \ {a} : tx[b].pc \notin {"locked", "write"}
  BY DEF Chain, Holding
<1> QED BY <1>4, <1>5 DEF Holding

LEMMA BeginType ==
  ASSUME TypeOK, NEW a \in Actors, NEW q \in Requests, Begin(a, q)
  PROVE  /\ tx' \in [Actors -> TxStates]
         /\ tx'[a].pc = "wait" /\ tx'[a].req = q
         /\ \A b \in Actors \ {a} : tx'[b] = tx[b]
  BY DEF Begin, TypeOK, TxStates, Times

LEMMA IdleTxType ==
  ASSUME TypeOK, NEW a \in Actors, tx' = [tx EXCEPT ![a] = IdleTx]
  PROVE  /\ tx' \in [Actors -> TxStates]
         /\ tx'[a].pc = "idle"
         /\ \A b \in Actors \ {a} : tx'[b] = tx[b]
  BY IdleType DEF TypeOK

LEMMA PcType ==
  ASSUME TypeOK, NEW a \in Actors, NEW pc \in {"locked", "ok", "error"},
         tx' = [tx EXCEPT ![a].pc = pc]
  PROVE  /\ tx' \in [Actors -> TxStates]
         /\ tx'[a].pc = pc /\ tx'[a].req = tx[a].req
         /\ \A b \in Actors \ {a} : tx'[b] = tx[b]
  BY DEF TypeOK, TxStates

LEMMA ReadType ==
  ASSUME Chain, NEW a \in Actors, Read(a)
  PROVE  /\ tx' \in [Actors -> TxStates]
         /\ tx'[a].pc = "write" /\ tx'[a].req = tx[a].req /\ tx'[a].prev = Len(events)
         /\ \A i \in 1..Len(events) : events[i].ts < tx'[a].ts
         /\ \A b \in Actors \ {a} : tx'[b] = tx[b]
<1>1. PICK t \in Times : tx' = [tx EXCEPT ![a] = [pc |-> "write", req |-> tx[a].req,
                                  ts |-> TimeOf(a, t), prev |-> LastInTime]]
  BY DEF Read
<1>2. LastInTime = Len(events) /\ Len(events) \in Nat
  BY LastIsEnd DEF Chain, TypeOK
<1>3. TimeOf(a, t) \in Nat /\ \A i \in 1..Len(events) : events[i].ts < TimeOf(a, t)
  BY TimeIsLater DEF Chain
<1>4. tx[a].req \in Requests /\ tx \in [Actors -> TxStates]
  BY DEF Chain, TypeOK, TxStates
<1>5. tx'[a] = [pc |-> "write", req |-> tx[a].req, ts |-> TimeOf(a, t), prev |-> LastInTime]
  BY <1>1, <1>4
<1>6. tx'[a] \in TxStates
  BY <1>2, <1>3, <1>4, <1>5 DEF TxStates
<1> QED BY <1>1, <1>2, <1>3, <1>4, <1>5, <1>6

Entry(a) == [ts |-> tx[a].ts, prev |-> tx[a].prev, req |-> tx[a].req, row |-> a \in Dispatchers]

LEMMA WriteType ==
  ASSUME TypeOK, NEW a \in Actors, Write(a)
  PROVE  /\ tx' \in [Actors -> TxStates]
         /\ tx'[a].pc \in {"ok", "error"} /\ tx'[a].req = tx[a].req
         /\ \A b \in Actors \ {a} : tx'[b] = tx[b]
         /\ Entry(a) \in Events
         /\ events' \in Seq(Events)
         /\ faults' \in 0..MaxFaults
<1>1. PICK pc \in {"ok", "error"} : tx' = [tx EXCEPT ![a].pc = pc]
  BY DEF Write
<1>2. Entry(a) \in Events
  BY DEF TypeOK, TxStates, Events, Entry
<1>3. events' \in Seq(Events)
  BY <1>2 DEF Write, TypeOK, Entry
<1>4. faults' \in 0..MaxFaults
  BY DEF Write, TypeOK
<1> QED BY <1>1, <1>2, <1>3, <1>4, PcType

\* The chain stays ordered and linked, whatever an actor does.
LEMMA ActorChain ==
  ASSUME Chain, NEW a \in Actors, Lock(a) \/ Read(a) \/ Write(a) \/ Fail(a)
  PROVE  Chain'
<1>0. TypeOK
  BY DEF Chain
<1>1. CASE Lock(a)
  <2>1. /\ tx' \in [Actors -> TxStates] /\ tx'[a].pc = "locked"
        /\ \A b \in Actors \ {a} : tx'[b] = tx[b]
    BY <1>0, <1>1, PcType DEF Lock
  <2>2. \A b \in Actors \ {a} : tx[b].pc \notin {"locked", "write"}
    BY <1>1 DEF Chain, Holding, Lock
  <2>3. Holding'
    BY <1>1, <2>1, <2>2 DEF Holding, Lock
  <2>4. TypeOK'
    BY <1>0, <1>1, <2>1 DEF TypeOK, Lock
  <2> QED BY <1>1, <2>3, <2>4 DEF Chain, Ordered, Lock
<1>2. CASE Read(a)
  <2>1. TypeOK'
    BY <1>0, <1>2, ReadType DEF TypeOK, Read
  <2>2. tx[a].pc = "locked" /\ lock = a
    BY <1>2 DEF Chain, Holding, Read
  <2>3. Holding'
    BY <1>2, <2>2, ReadType DEF Chain, Holding, Read
  <2> QED BY <1>2, <2>1, <2>3 DEF Chain, Ordered, Read
<1>3. CASE Write(a)
  <2>1. TypeOK'
    BY <1>0, <1>3, WriteType DEF TypeOK, Write, Release
  <2>2. tx[a].pc = "write" /\ Release(a)
    BY <1>3 DEF Write
  <2>3. CASE events' = events
    BY <1>0, <1>3, <2>1, <2>2, <2>3, WriteType, ReleaseStep DEF Chain
  <2>4. CASE events' = Append(events, Entry(a))
    <3>1. Entry(a).ts = tx[a].ts /\ Entry(a).prev = tx[a].prev
      BY DEF Entry
    <3> QED BY <1>0, <1>3, <2>1, <2>2, <2>4, <3>1, WriteType, AppendStep DEF Chain
  <2> QED BY <1>3, <2>3, <2>4 DEF Write, Entry
<1>4. CASE Fail(a)
  <2>1. /\ tx' \in [Actors -> TxStates] /\ tx'[a].pc = "error"
        /\ \A b \in Actors \ {a} : tx'[b] = tx[b]
    BY <1>0, <1>4, PcType DEF Fail
  <2>2. TypeOK'
    BY <1>0, <1>4, <2>1 DEF TypeOK, Fail, Release
  <2> QED BY <1>4, <2>1, <2>2, ReleaseStep DEF Fail, Chain
<1> QED BY <1>1, <1>2, <1>3, <1>4

LEMMA RequestChain ==
  ASSUME Chain, NEW q \in Requests, Commit(q) \/ Audit(q) \/ Ended(q) \/ Fallback(q)
  PROVE  Chain'
<1>0. TypeOK /\ q \in Actors
  BY DEF Chain, Actors
<1>1. CASE Commit(q)
  BY <1>1 DEF Commit, Chain, TypeOK, Ordered, Holding, Ways, RowStatuses
<1>2. CASE Audit(q)
  <2>1. /\ tx' \in [Actors -> TxStates] /\ tx'[q].pc = "wait"
        /\ \A b \in Actors \ {q} : tx'[b] = tx[b]
    BY <1>0, <1>2, BeginType DEF Audit
  <2>2. TypeOK'
    BY <1>0, <1>2, <2>1 DEF TypeOK, Audit, Ways
  <2> QED BY <1>2, <2>1, <2>2, QuietStep DEF Audit, Chain
<1>3. CASE Ended(q)
  <2>1. /\ tx' \in [Actors -> TxStates] /\ tx'[q].pc = "idle"
        /\ \A b \in Actors \ {q} : tx'[b] = tx[b]
    BY <1>0, <1>3, IdleTxType DEF Ended
  <2>2. TypeOK'
    BY <1>0, <1>3, <2>1 DEF TypeOK, Ended, Ways
  <2> QED BY <1>3, <2>1, <2>2, QuietStep DEF Ended, Chain
<1>4. CASE Fallback(q)
  <2>1. TypeOK'
    BY <1>0, <1>4 DEF Fallback, TypeOK, Ways, RowStatuses
  <2> QED BY <1>4, <2>1 DEF Fallback, Chain, Ordered, Holding
<1> QED BY <1>1, <1>2, <1>3, <1>4

LEMMA DispatcherChain ==
  ASSUME Chain, NEW d \in Dispatchers,
         \/ \E B \in SUBSET Requests : Claim(d, B)
         \/ \E q \in Requests : Dispatch(d, q)
         \/ Mark(d) \/ Die(d)
  PROVE  Chain'
<1>0. TypeOK /\ d \in Actors
  BY DEF Chain, Actors
<1>1. ASSUME NEW B \in SUBSET Requests, Claim(d, B) PROVE Chain'
  <2>1. TypeOK'
    BY <1>0, <1>1 DEF Claim, TypeOK, RowStatuses
  <2> QED BY <1>1, <2>1 DEF Claim, Chain, Ordered, Holding
<1>2. ASSUME NEW q \in Requests, Dispatch(d, q) PROVE Chain'
  <2>1. /\ tx' \in [Actors -> TxStates] /\ tx'[d].pc = "wait"
        /\ \A b \in Actors \ {d} : tx'[b] = tx[b]
    BY <1>0, <1>2, BeginType DEF Dispatch
  <2>2. TypeOK'
    BY <1>0, <1>2, <2>1 DEF TypeOK, Dispatch
  <2> QED BY <1>2, <2>1, <2>2, QuietStep DEF Dispatch, Chain
<1>3. CASE Mark(d)
  <2>1. /\ tx' \in [Actors -> TxStates] /\ tx'[d].pc = "idle"
        /\ \A b \in Actors \ {d} : tx'[b] = tx[b]
    BY <1>0, <1>3, IdleTxType DEF Mark
  <2>2. TypeOK'
    BY <1>0, <1>3, <2>1 DEF TypeOK, Mark, RowStatuses, TxStates
  <2> QED BY <1>3, <2>1, <2>2, QuietStep DEF Mark, Chain
<1>4. CASE Die(d)
  <2>1. /\ tx' \in [Actors -> TxStates] /\ tx'[d].pc = "idle"
        /\ \A b \in Actors \ {d} : tx'[b] = tx[b]
    BY <1>0, <1>4, IdleTxType DEF Die
  <2>2. TypeOK'
    BY <1>0, <1>4, <2>1 DEF TypeOK, Die, Release
  <2> QED BY <1>0, <1>4, <2>1, <2>2, ReleaseStep DEF Die, Chain
<1> QED BY <1>1, <1>2, <1>3, <1>4

LEMMA ChainInit == Init => Chain
<1> SUFFICES ASSUME Init PROVE Chain
  OBVIOUS
<1>1. TypeOK
  BY IdleType DEF Init, TypeOK, Ways, RowStatuses
<1> QED BY <1>1, IdleType DEF Init, Chain, Ordered, Holding

LEMMA ChainStep == Chain /\ [Next]_vars => Chain'
<1> SUFFICES ASSUME Chain, [Next]_vars PROVE Chain'
  OBVIOUS
<1>1. CASE UNCHANGED vars
  BY <1>1 DEF vars, Chain, TypeOK, Ordered, Holding
<1>2. CASE Next
  BY <1>2, ActorChain, RequestChain, DispatcherChain DEF Next
<1> QED BY <1>1, <1>2

-----------------------------------------------------------------------------
(* No request has two events.                                                *)

\* The event an actor is about to write is the first of its request.
LEMMA WritesFresh ==
  ASSUME Inv, NEW a \in Actors, tx[a].pc = "write",
         ~(a \in Dispatchers /\ HasRowEvent(tx[a].req))
  PROVE  ~Audited(tx[a].req)
<1>1. CASE a \in Requests
  BY <1>1 DEF Inv, Own
<1>2. CASE a \in Dispatchers
  <2>1. outbox[tx[a].req] # "none"
    BY <1>2 DEF Inv, Rows
  <2>2. ~HasRowEvent(tx[a].req)
    BY <1>2
  <2> QED BY <2>1, <2>2 DEF Inv, Rows, Audited, HasRowEvent
<1> QED BY <1>1, <1>2 DEF Actors

LEMMA WriteOnce ==
  ASSUME Inv, NEW a \in Actors, Write(a)
  PROVE  Own' /\ Rows' /\ AuditedOnce'
<1>0. TypeOK /\ tx[a].pc = "write" /\ way' = way /\ outbox' = outbox /\ claimed' = claimed
  BY DEF Inv, Chain, Write
<1>1. /\ tx'[a].pc \in {"ok", "error"} /\ tx'[a].req = tx[a].req
      /\ \A b \in Actors \ {a} : tx'[b] = tx[b]
  BY <1>0, WriteType
<1>2. CASE events' = events
  <2>1. Own'
    BY <1>0, <1>1, <1>2 DEF Inv, Own, Audited, Actors
  <2>2. Rows'
    BY <1>0, <1>1, <1>2 DEF Inv, Rows, Actors
  <2>3. AuditedOnce'
    BY <1>2 DEF Inv, AuditedOnce
  <2> QED BY <2>1, <2>2, <2>3
<1>3. CASE /\ ~(a \in Dispatchers /\ HasRowEvent(tx[a].req))
           /\ events' = Append(events, Entry(a))
  <2>0. ~Audited(tx[a].req)
    BY <1>0, <1>3, WritesFresh
  <2>1. /\ Len(events) \in Nat
        /\ Len(events') = Len(events) + 1
        /\ events'[Len(events) + 1] = Entry(a)
        /\ \A i \in 1..Len(events) : events'[i] = events[i]
    BY <1>0, <1>3 DEF TypeOK
  <2>2. Entry(a).req = tx[a].req /\ Entry(a).row = (a \in Dispatchers)
    BY DEF Entry
  <2>3. AuditedOnce'
    BY <2>0, <2>1, <2>2 DEF Inv, AuditedOnce, Audited
  <2>4. \A q \in Requests : Audited(q)' => Audited(q) \/ q = tx[a].req
    BY <2>1, <2>2 DEF Audited
  <2>5. a \in Requests => tx[a].req = a /\ way[a] \in {"read", "work"} /\ outbox[a] = "none"
    BY <1>0 DEF Inv, Own, Rows
  <2>6. a \in Dispatchers => outbox[tx[a].req] # "none"
    BY <1>0 DEF Inv, Rows
  <2>7. ASSUME NEW q \in Requests,
               way[q] \in {"none", "fallback"} \/ tx'[q].pc \in {"wait", "locked", "write"}
        PROVE  ~Audited(q)'
    <3>1. q # a
      BY <1>1, <2>5, <2>7 DEF Actors
    <3>2. tx'[q] = tx[q] /\ q \in Actors
      BY <1>1, <3>1 DEF Actors
    <3>3. ~Audited(q)
      BY <2>7, <3>2 DEF Inv, Own
    <3>4. outbox[q] = "none"
      <4>1. way[q] \in {"none", "fallback", "read", "work"}
        BY <2>7, <3>2 DEF Inv, Own
      <4> QED BY <4>1 DEF Inv, Rows
    <3>5. q # tx[a].req
      BY <2>5, <2>6, <3>1, <3>4 DEF Actors
    <3> QED BY <2>4, <3>3, <3>5
  <2>8. ASSUME NEW q \in Requests, tx'[q].pc # "idle"
        PROVE  tx'[q].req = q /\ way[q] \in {"read", "work"}
    BY <1>0, <1>1, <2>5, <2>8 DEF Inv, Own, Actors
  <2>9. Own'
    BY <1>0, <2>7, <2>8 DEF Own
  <2>10. Rows'
    <3>1. \A d \in Dispatchers : tx'[d].pc # "idle" => outbox[tx'[d].req] # "none"
      BY <1>0, <1>1, <2>6 DEF Inv, Rows, Actors
    <3>2. ASSUME NEW i \in 1..Len(events'), ~events'[i].row
          PROVE  outbox[events'[i].req] = "none"
      <4>1. CASE i \in 1..Len(events)
        <5>1. events'[i] = events[i]
          BY <4>1, <2>1
        <5> QED BY <3>2, <4>1, <5>1 DEF Inv, Rows
      <4>2. CASE i = Len(events) + 1
        <5>1. events'[i] = Entry(a)
          BY <4>2, <2>1
        <5>2. a \notin Dispatchers
          BY <3>2, <5>1, <2>2
        <5>3. outbox[tx[a].req] = "none"
          BY <5>2, <2>5 DEF Actors
        <5> QED BY <5>1, <5>3, <2>2
      <4> QED BY <4>1, <4>2, <2>1
    <3> QED BY <1>0, <3>1, <3>2 DEF Inv, Rows
  <2> QED BY <2>3, <2>9, <2>10
<1> QED BY <1>2, <1>3 DEF Write, Entry

LEMMA ActorOnce ==
  ASSUME Inv, NEW a \in Actors, Lock(a) \/ Read(a) \/ Fail(a)
  PROVE  Own' /\ Rows' /\ AuditedOnce'
<1>0. /\ TypeOK
      /\ UNCHANGED <<events, way, outbox, claimed>>
  BY DEF Inv, Chain, Lock, Read, Fail
<1>1. /\ tx'[a].req = tx[a].req /\ tx[a].pc # "idle"
      /\ tx'[a].pc \in {"wait", "locked", "write"} => tx[a].pc \in {"wait", "locked", "write"}
      /\ \A b \in Actors \ {a} : tx'[b] = tx[b]
  <2>1. CASE Lock(a)
    BY <1>0, <2>1, PcType DEF Lock
  <2>2. CASE Read(a)
    BY <2>2, ReadType DEF Inv, Read
  <2>3. CASE Fail(a)
    BY <1>0, <2>3, PcType DEF Fail
  <2> QED BY <2>1, <2>2, <2>3
<1>2. Own'
  BY <1>0, <1>1 DEF Inv, Own, Audited, Actors
<1>3. Rows'
  BY <1>0, <1>1 DEF Inv, Rows, Actors
<1> QED BY <1>0, <1>2, <1>3 DEF Inv, AuditedOnce

LEMMA RequestOnce ==
  ASSUME Inv, NEW q \in Requests, Commit(q) \/ Audit(q) \/ Ended(q) \/ Fallback(q)
  PROVE  Own' /\ Rows' /\ AuditedOnce'
<1>0. /\ TypeOK /\ q \in Actors
      /\ UNCHANGED <<events, claimed>>
      /\ AuditedOnce'
      /\ \A r \in Requests : Audited(r)' = Audited(r)
  BY DEF Inv, Chain, Actors, Commit, Audit, Ended, Fallback, AuditedOnce, Audited
<1>1. way \in [Requests -> Ways] /\ outbox \in [Requests -> RowStatuses]
  BY <1>0 DEF TypeOK
<1>2. \A i \in 1..Len(events) : events[i].req = q => Audited(q)
  BY DEF Audited
<1>3. CASE Commit(q)
  <2>1. /\ tx' = tx /\ way[q] = "none" /\ ~Audited(q)
        /\ way'[q] = "outbox" /\ outbox'[q] = "queued"
        /\ \A r \in Requests \ {q} : way'[r] = way[r] /\ outbox'[r] = outbox[r]
    BY <1>1, <1>3 DEF Commit, Inv, Own
  <2>2. \A i \in 1..Len(events) : events[i].req \in Requests \ {q}
    <3>1. events \in Seq(Events)
      BY <1>0 DEF TypeOK
    <3>2. \A i \in 1..Len(events) : events[i] \in Events
      BY <3>1
    <3> QED BY <1>2, <2>1, <3>2 DEF Events
  <2>3. tx[q].pc = "idle"
    BY <2>1 DEF Inv, Own
  <2>4. Own'
    BY <1>0, <2>1, <2>3 DEF Inv, Own
  <2>5. \A r \in Requests : outbox[r] # "none" => outbox'[r] # "none"
    BY <2>1
  <2>6. \A d \in Dispatchers : tx[d].req \in Requests /\ claimed[d] \subseteq Requests
    BY <1>0 DEF TypeOK, TxStates, Actors
  <2>7. Rows'
    BY <1>0, <2>1, <2>2, <2>5, <2>6 DEF Inv, Rows
  <2> QED BY <1>0, <2>4, <2>7
<1>4. CASE Audit(q)
  <2>1. /\ tx'[q].pc = "wait" /\ tx'[q].req = q
        /\ \A b \in Actors \ {q} : tx'[b] = tx[b]
    BY <1>0, <1>4, BeginType DEF Audit
  <2>2. /\ way[q] = "none" /\ outbox' = outbox /\ ~Audited(q) /\ outbox[q] = "none"
        /\ way'[q] \in {"read", "work"} /\ \A r \in Requests \ {q} : way'[r] = way[r]
    BY <1>1, <1>4 DEF Audit, Inv, Own, Rows
  <2>3. Own'
    BY <1>0, <2>1, <2>2 DEF Inv, Own, Actors
  <2>4. Rows'
    BY <1>0, <2>1, <2>2 DEF Inv, Rows, Actors
  <2> QED BY <1>0, <2>3, <2>4
<1>5. CASE Ended(q)
  <2>1. /\ tx'[q].pc = "idle"
        /\ \A b \in Actors \ {q} : tx'[b] = tx[b]
    BY <1>0, <1>5, IdleTxType DEF Ended
  <2>2. /\ way[q] \in {"read", "work"} /\ outbox' = outbox /\ outbox[q] = "none"
        /\ way'[q] \in {"fallback", "done"} /\ (way'[q] = "fallback" => ~Audited(q))
        /\ \A r \in Requests \ {q} : way'[r] = way[r]
    BY <1>1, <1>5 DEF Ended, Inv, Own, Rows
  <2>3. Own'
    BY <1>0, <2>1, <2>2 DEF Inv, Own, Actors
  <2>4. Rows'
    BY <1>0, <2>1, <2>2 DEF Inv, Rows, Actors
  <2> QED BY <1>0, <2>3, <2>4
<1>6. CASE Fallback(q)
  <2>1. /\ tx' = tx /\ way[q] = "fallback" /\ ~Audited(q) /\ way'[q] = "done"
        /\ outbox'[q] \in {outbox[q], "queued"}
        /\ \A r \in Requests \ {q} : way'[r] = way[r] /\ outbox'[r] = outbox[r]
    BY <1>1, <1>6 DEF Fallback, Inv, Own
  <2>2. \A i \in 1..Len(events) : events[i].req \in Requests \ {q}
    <3>1. events \in Seq(Events)
      BY <1>0 DEF TypeOK
    <3>2. \A i \in 1..Len(events) : events[i] \in Events
      BY <3>1
    <3> QED BY <1>2, <2>1, <3>2 DEF Events
  <2>3. tx[q].pc = "idle"
    BY <2>1 DEF Inv, Own
  <2>4. Own'
    BY <1>0, <2>1, <2>3 DEF Inv, Own
  <2>5. \A r \in Requests : outbox[r] # "none" => outbox'[r] # "none"
    BY <2>1
  <2>6. \A d \in Dispatchers : tx[d].req \in Requests /\ claimed[d] \subseteq Requests
    BY <1>0 DEF TypeOK, TxStates, Actors
  <2>7. Rows'
    BY <1>0, <2>1, <2>2, <2>5, <2>6 DEF Inv, Rows
  <2> QED BY <1>0, <2>4, <2>7
<1> QED BY <1>3, <1>4, <1>5, <1>6

LEMMA DispatcherOnce ==
  ASSUME Inv, NEW d \in Dispatchers,
         \/ \E B \in SUBSET Requests : Claim(d, B)
         \/ \E q \in Requests : Dispatch(d, q)
         \/ Mark(d) \/ Die(d)
  PROVE  Own' /\ Rows' /\ AuditedOnce'
<1>0. /\ TypeOK /\ d \in Actors /\ d \notin Requests
      /\ UNCHANGED <<events, way>>
      /\ AuditedOnce'
      /\ \A r \in Requests : Audited(r)' = Audited(r)
  BY DEF Inv, Chain, Actors, Claim, Dispatch, Mark, Die, AuditedOnce, Audited
<1>1. /\ outbox \in [Requests -> RowStatuses] /\ claimed \in [Dispatchers -> SUBSET Requests]
      /\ \A e \in Dispatchers : tx[e].req \in Requests
      /\ \A i \in 1..Len(events) : events[i].req \in Requests
  <2>1. events \in Seq(Events)
    BY <1>0 DEF TypeOK
  <2>2. \A i \in 1..Len(events) : events[i] \in Events
    BY <2>1
  <2> QED BY <1>0, <2>2 DEF TypeOK, TxStates, Actors, Events
<1>2. ASSUME NEW B \in SUBSET Requests, Claim(d, B) PROVE Own' /\ Rows'
  <2>1. \A q \in Requests : (outbox'[q] = "none") = (outbox[q] = "none")
    BY <1>1, <1>2 DEF Claim, Waiting
  <2>2. \A q \in claimed'[d] : outbox'[q] # "none"
    BY <1>1, <1>2 DEF Claim
  <2>3. \A e \in Dispatchers \ {d} : claimed'[e] = claimed[e]
    BY <1>1, <1>2 DEF Claim
  <2>4. tx' = tx
    BY <1>2 DEF Claim
  <2>5. Rows'
    BY <1>0, <1>1, <2>1, <2>2, <2>3, <2>4 DEF Inv, Rows
  <2> QED BY <1>0, <2>4, <2>5 DEF Inv, Own
<1>3. ASSUME NEW q \in Requests, Dispatch(d, q) PROVE Own' /\ Rows'
  <2>1. /\ tx'[d].req = q /\ \A b \in Actors \ {d} : tx'[b] = tx[b]
        /\ outbox[q] # "none" /\ outbox' = outbox /\ claimed' = claimed
    BY <1>0, <1>3, BeginType DEF Dispatch, Inv, Rows
  <2> QED BY <1>0, <2>1 DEF Inv, Own, Rows, Actors
<1>4. CASE Mark(d)
  <2>1. /\ tx'[d].pc = "idle" /\ \A b \in Actors \ {d} : tx'[b] = tx[b]
        /\ tx[d].pc # "idle"
    BY <1>0, <1>4, IdleTxType DEF Mark
  <2>2. \A q \in Requests : (outbox'[q] = "none") = (outbox[q] = "none")
    BY <1>1, <1>4, <2>1 DEF Mark, Inv, Rows
  <2>3. \A e \in Dispatchers : claimed'[e] \subseteq claimed[e]
    BY <1>1, <1>4 DEF Mark
  <2>4. Rows'
    BY <1>0, <1>1, <2>1, <2>2, <2>3 DEF Inv, Rows, Actors
  <2> QED BY <1>0, <2>1, <2>4 DEF Inv, Own, Actors
<1>5. CASE Die(d)
  <2>1. /\ tx'[d].pc = "idle" /\ \A b \in Actors \ {d} : tx'[b] = tx[b]
        /\ outbox' = outbox
    BY <1>0, <1>5, IdleTxType DEF Die
  <2>2. \A e \in Dispatchers : claimed'[e] \subseteq claimed[e]
    BY <1>1, <1>5 DEF Die
  <2>3. Rows'
    BY <1>0, <1>1, <2>1, <2>2 DEF Inv, Rows, Actors
  <2> QED BY <1>0, <2>1, <2>3 DEF Inv, Own, Actors
<1> QED BY <1>0, <1>2, <1>3, <1>4, <1>5

LEMMA InvInit == Init => Inv
<1> SUFFICES ASSUME Init PROVE Inv
  OBVIOUS
<1> QED BY ChainInit, IdleType DEF Init, Inv, Own, Rows, AuditedOnce, Audited, Actors

LEMMA InvStep == Inv /\ [Next]_vars => Inv'
<1> SUFFICES ASSUME Inv, [Next]_vars PROVE Inv'
  OBVIOUS
<1>1. Chain'
  BY ChainStep DEF Inv
<1>2. CASE UNCHANGED vars
  BY <1>1, <1>2 DEF vars, Inv, Own, Rows, AuditedOnce, Audited
<1>3. CASE Next
  <2>1. Own' /\ Rows' /\ AuditedOnce'
    BY <1>3, ActorOnce, WriteOnce, RequestOnce, DispatcherOnce DEF Next
  <2> QED BY <1>1, <2>1 DEF Inv
<1> QED BY <1>2, <1>3

-----------------------------------------------------------------------------
LEMMA InvHolds == Spec => []Inv
  BY InvInit, InvStep, PTL DEF Spec

\* The verification of the chain succeeds at any time, from any event on, whoever
\* appends to it and whatever the clocks show (GET /audit/verify).
THEOREM VerifiesHolds == Spec => []Verifies
<1>1. Inv => Verifies
  <2> SUFFICES ASSUME Inv PROVE Verifies
    OBVIOUS
  <2>1. \A i \in 1..Len(events) : events[i].ts \in Nat
    BY TimesAreNat DEF Inv, Chain
  <2>2. Len(events) \in Nat
    BY DEF Inv, Chain, TypeOK
  <2>3. ASSUME NEW i \in 1..Len(events) PROVE Earlier(i) = 1..(i - 1)
    BY <2>1, <2>2 DEF Earlier, Inv, Chain, Ordered
  <2>4. ASSUME NEW i \in 1..Len(events) PROVE events[i].prev = i - 1
    BY DEF Inv, Chain, Ordered
  <2>5. ASSUME NEW i \in 1..Len(events), NEW j \in 1..Len(events), events[j].ts = events[i].ts
        PROVE  j = i
    BY <2>1, <2>2, <2>5 DEF Inv, Chain, Ordered
  <2>6. ASSUME NEW i \in 1..Len(events), Earlier(i) = {} PROVE events[i].prev = 0
    <3>1. \A k \in Nat : ~(k \in 1..(i - 1))
      BY <2>3, <2>6
    <3>2. i = 1
      BY <3>1, <2>2
    <3> QED BY <3>2, <2>4
  <2>7. ASSUME NEW i \in 1..Len(events), Earlier(i) # {}
        PROVE  /\ events[i].prev \in Earlier(i)
               /\ \A j \in Earlier(i) : events[j].ts <= events[events[i].prev].ts
    <3>1. i - 1 \in 1..(i - 1) /\ events[i].prev = i - 1 /\ i - 1 \in 1..Len(events)
      BY <2>2, <2>3, <2>4, <2>7
    <3>2. \A j \in 1..(i - 1) : events[j].ts <= events[i - 1].ts
      BY <2>1, <2>2, <3>1 DEF Inv, Chain, Ordered
    <3> QED BY <2>3, <3>1, <3>2
  <2> QED BY <2>5, <2>6, <2>7 DEF Verifies
<1> QED BY <1>1, InvHolds, PTL

\* A request has at most one event in the chain, however answers are lost and rows
\* dispatched again (outboxRepo.ts, plugins/audit.ts).
THEOREM AuditedOnceHolds == Spec => []AuditedOnce
<1>1. Inv => AuditedOnce
  BY DEF Inv
<1> QED BY <1>1, InvHolds, PTL

\* Every step appends one entry the ledger allows, or leaves it alone.
LEMMA LedgerStep == Inv /\ [Next]_vars => [Ledger!Next]_events
<1> SUFFICES ASSUME Inv, [Next]_vars, events' # events PROVE Ledger!Next
  OBVIOUS
<1>1. PICK a \in Actors : Write(a)
  BY DEF Next, vars, Lock, Read, Fail, Commit, Audit, Ended, Fallback, Claim, Dispatch,
         Mark, Die
<1>2. /\ tx[a].pc = "write" /\ ~(a \in Dispatchers /\ HasRowEvent(tx[a].req))
      /\ events' = Append(events, Entry(a))
  BY <1>1 DEF Write, Entry
<1>3. ~Audited(tx[a].req)
  BY <1>2, WritesFresh
<1>4. Entry(a) \in Events
  BY <1>1, WriteType DEF Inv, Chain
<1>5. /\ Len(events) \in Nat
      /\ Len(events') = Len(events) + 1 /\ events'[Len(events')] = Entry(a)
  BY <1>2, <1>4 DEF Inv, Chain, TypeOK
<1>6. /\ \A i \in 1..Len(events) : events[i].ts < Entry(a).ts
      /\ Entry(a).prev = Len(events) /\ Entry(a).req = tx[a].req
  BY <1>2 DEF Inv, Chain, Holding, Entry
<1>7. Ledger!Add(Entry(a))
  BY <1>2, <1>3, <1>4, <1>6 DEF Ledger!Add, Ledger!Entries, Events, Audited
<1> QED BY <1>5, <1>7 DEF Ledger!Next

\* The trail implements the append-only, ordered and linked ledger.
THEOREM ImplementsLedger == Spec => KeepsLedger
<1>1. Init => Ledger!Init
  BY DEF Init, Ledger!Init
<1> QED BY <1>1, LedgerStep, InvHolds, PTL DEF Spec, KeepsLedger, Ledger!Spec
=============================================================================
