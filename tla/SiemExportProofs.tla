-------------------------- MODULE SiemExportProofs --------------------------
(* What holds of the export for any number of overlapping ticks, any batch   *)
(* size and any incidents: no event that was taken is lost, and the cursor   *)
(* leaves out only events that became visible late.                          *)
EXTENDS SiemExport, WellFoundedInduction, TLAPS

Ticks == [pc : PCs, rows : SUBSET Rows, mark : Nat, max : Nat]

Typed ==
    /\ events \in Seq(Times)
    /\ taken \in [Ids -> Nat]
    /\ cursor \in Nat
    /\ box \subseteq Rows
    /\ exp \in [Exporters -> Ticks]
    /\ seen \in Nat

\* A row of an event that has had at least as many rows.
Counted(r) == r.event \in Ids /\ r.n \in 1..taken[r.event]

\* What may happen to the n-th row of an event leaves the event where it is safe.
Safe(e, n) ==
    \/ e \in dlq \cup received \cup cleared \cup overtaken
    \/ \E r \in box : r.event = e /\ r.n > n

Explained(e) == taken[e] > 0 \/ e \in late

\* Every event before f was taken or appeared late.
Covered(f) == \A e \in Ids : events[e] < events[f] => Explained(e)

\* A cursor: nothing, or an event that was taken.
Reached(m) == m # 0 => m \in Ids /\ taken[m] > 0

TickGood(t) ==
    /\ t.pc = "select" => Reached(t.mark)
    /\ t.pc = "take" =>
         /\ t.rows # {} /\ t.mark \in Ids
         /\ taken[t.mark] > 0 \/ t.mark \in EventsOf(t.rows)
         /\ \A r \in t.rows :
              /\ r.event \in Ids /\ events[r.event] <= seen
              /\ \A e \in Ids : events[e] < events[r.event] =>
                   Explained(e) \/ e \in EventsOf(t.rows)
    /\ t.pc \in {"advance", "delete", "move"} => Reached(t.mark)
    /\ t.pc \in {"delete", "move", "audit", "fail", "unbox"} => \A r \in t.rows : Counted(r)
    /\ t.pc \in {"delete", "move", "audit"} => EventsOf(t.rows) \subseteq received
    /\ t.pc = "unbox" => \A r \in t.rows : r.event = t.mark => Safe(t.mark, r.n)

ExportInv ==
    /\ Typed
    /\ Reached(cursor)
    /\ \A r \in box : Counted(r)
    /\ \A e \in dlq : e \in Ids /\ taken[e] > 0
    /\ \A e, f \in Ids : events[e] % 2 = 0 /\ events[e] = events[f] => e = f
    /\ \A f \in Ids : taken[f] > 0 => Safe(f, 0) /\ Covered(f) /\ events[f] <= seen
    /\ \A x \in Exporters : TickGood(exp[x])

-----------------------------------------------------------------------------
LEMMA Least ==
  ASSUME NEW T \in SUBSET Nat, T # {}
  PROVE  \E n \in T : \A m \in T : n <= m
<1> DEFINE R == OpToRel(<, Nat)
<1>1. PICK n \in T : \A m \in T : <<m, n>> \notin R
  <2>1. IsWellFoundedOn(R, Nat)
    BY NatLessThanWellFounded
  <2> HIDE DEF R
  <2> QED
    BY <2>1, WFMin
<1>2. \A m \in T : ~(m < n)
  BY <1>1 DEF OpToRel
<1> QED
  BY <1>2

\* Some event of a batch is the last one.
LEMMA LastExists ==
  ASSUME NEW N \in Nat, NEW f \in [1..N -> Nat], NEW B \in SUBSET (1..N), B # {}
  PROVE  \E e \in B : \A g \in B : f[g] <= f[e]
<1> DEFINE NoLast(A) == \A e \in A : \E g \in A : f[g] > f[e]
           T == {n \in 0..N : \E A \in SUBSET (1..n) : A # {} /\ NoLast(A)}
<1>1. T = {}
  <2> SUFFICES ASSUME T # {} PROVE FALSE
    OBVIOUS
  <2>1. PICK n \in T : \A m \in T : n <= m
    <3>1. T \in SUBSET Nat
      OBVIOUS
    <3> HIDE DEF T
    <3> QED
      BY <3>1, Least
  <2>2. PICK A \in SUBSET (1..n) : A # {} /\ NoLast(A)
    BY <2>1
  <2>3. n # 0 /\ n \in 0..N /\ n - 1 \in 0..N /\ n - 1 \notin T
    <3>1. n \in 0..N
      BY <2>1
    <3>2. PICK a \in A : a \in 1..n
      BY <2>2
    <3>3. n - 1 \in 0..N /\ ~(n <= n - 1)
      BY <3>1, <3>2
    <3> HIDE DEF T
    <3> QED
      BY <2>1, <3>1, <3>2, <3>3
  <2>4. A \ {n} \in SUBSET (1..(n - 1))
    BY <2>2
  <2>5. A \ {n} = {} \/ ~NoLast(A \ {n})
    BY <2>3, <2>4
  <2>6. CASE A \ {n} = {}
    <3>1. PICK e \in A : e = n /\ e \in 1..N
      BY <2>2, <2>3, <2>6
    <3>2. PICK g \in A : f[g] > f[e]
      BY <2>2
    <3>3. g = e /\ f[e] \in Nat
      BY <2>6, <3>1, <3>2
    <3> QED
      BY <3>2, <3>3
  <2>7. CASE ~NoLast(A \ {n})
    <3>1. PICK e \in A \ {n} : \A g \in A \ {n} : ~(f[g] > f[e])
      BY <2>7
    <3>2. \A g \in A : f[g] \in Nat
      BY <2>2
    <3>3. PICK g \in A : f[g] > f[e]
      BY <2>2, <3>1
    <3>4. g = n
      BY <3>1, <3>3
    <3>5. PICK h \in A : f[h] > f[g]
      BY <2>2, <3>3
    <3> QED
      BY <3>1, <3>2, <3>3, <3>4, <3>5
  <2> QED
    BY <2>5, <2>6, <2>7
<1>2. ~NoLast(B)
  <2>1. N \in 0..N /\ N \notin T
    <3>1. N \in 0..N
      OBVIOUS
    <3> HIDE DEF T
    <3> QED
      BY <1>1, <3>1
  <2>2. \A A \in SUBSET (1..N) : A = {} \/ ~NoLast(A)
    <3> HIDE DEF NoLast
    <3> QED
      BY <2>1
  <2> QED
    BY <2>2
<1>3. PICK e \in B : \A g \in B : ~(f[g] > f[e])
  BY <1>2
<1>4. \A g \in B : f[g] \in Nat
  OBVIOUS
<1> QED
  BY <1>3, <1>4

LEMMA SequenceOfTimes ==
  ASSUME NEW s \in Seq(Times)
  PROVE  /\ Len(s) \in Nat
         /\ s \in [1..Len(s) -> Nat]
         /\ \A e \in 1..Len(s) : s[e] \in Times /\ s[e] \in Nat /\ s[e] > 1
<1>1. Len(s) \in Nat /\ s \in [1..Len(s) -> Times]
  OBVIOUS
<1>2. \A t \in Times : t \in Nat /\ t > 1
  BY SizesAssumption
<1> QED
  BY <1>1, <1>2

LEMMA LastOfBatch ==
  ASSUME Typed, NEW B \in SUBSET Ids, B # {}
  PROVE  /\ LastOf(B) \in B
         /\ \A f \in B : events[f] <= events[LastOf(B)]
<1>1. events \in [1..Len(events) -> Nat] /\ Len(events) \in Nat
  BY SequenceOfTimes DEF Typed
<1>2. \E e \in B : \A f \in B : events[f] <= events[e]
  BY <1>1, LastExists DEF Ids
<1> QED
  BY <1>2 DEF LastOf

LEMMA EventFacts ==
  ASSUME Typed, NEW e \in Ids
  PROVE  /\ events[e] \in Times /\ events[e] \in Nat /\ events[e] > 1
         /\ e \in Nat /\ e # 0 /\ taken[e] \in Nat
BY SequenceOfTimes DEF Typed, Ids

LEMMA MillisFacts ==
  ASSUME Typed, NEW m \in Nat, m # 0 => m \in Ids
  PROVE  /\ m = 0 => Millis(m) = 0
         /\ m # 0 => /\ Millis(m) \in Nat /\ Millis(m) <= events[m]
                     /\ Millis(m) = events[m] => events[m] % 2 = 0
<1>1. CASE m = 0
  BY <1>1 DEF Millis
<1>2. CASE m # 0
  <2>1. PICK k \in Nat : k = events[m]
    BY <1>2, EventFacts
  <2>2. k - (k % 2) \in Nat /\ k - (k % 2) <= k /\ (k - (k % 2) = k => k % 2 = 0)
    <3>1. k % 2 \in 0..1
      OBVIOUS
    <3>2. k = 0 => k % 2 = 0
      OBVIOUS
    <3> QED
      BY <3>1, <3>2
  <2> QED
    BY <1>2, <2>1, <2>2 DEF Millis
<1> QED
  BY <1>1, <1>2

-----------------------------------------------------------------------------
\* What most steps have in common: nothing is forgotten, and what is safe stays so.
Grows ==
    /\ Ids \subseteq Ids'
    /\ \A e \in Ids : events'[e] = events[e] /\ taken[e] <= taken'[e]
    /\ \A e \in Ids' \ Ids : taken'[e] = 0 /\ (events'[e] > seen \/ e \in late')
    /\ late \subseteq late' /\ received \subseteq received' /\ seen <= seen'
    /\ \A e \in Ids : \A n \in 0..taken[e] : Safe(e, n) => Safe(e, n)'

LEMMA Kept ==
  ASSUME ExportInv, Typed', Grows
  PROVE  /\ \A m \in Nat : Reached(m) => Reached(m)'
         /\ \A r \in Rows : Counted(r) => Counted(r)'
         /\ \A f \in Ids : Covered(f) /\ events[f] <= seen => Covered(f)'
         /\ \A t \in Ticks : TickGood(t) => TickGood(t)'
<1>1. \A e \in Ids' : events'[e] \in Nat /\ taken'[e] \in Nat
  BY SequenceOfTimes DEF Typed, Ids
<1>2. \A e \in Ids : events[e] \in Nat /\ taken[e] \in Nat
  BY EventFacts DEF ExportInv
<1>3. seen \in Nat /\ seen' \in Nat
  BY DEF ExportInv, Typed
<1>4. ASSUME NEW m \in Nat, Reached(m) PROVE Reached(m)'
  BY <1>1, <1>2, <1>4 DEF Reached, Grows
<1>5. ASSUME NEW r \in Rows, Counted(r) PROVE Counted(r)'
  BY <1>1, <1>2, <1>5 DEF Counted, Grows
<1>6. \A e \in Ids : Explained(e) => Explained(e)'
  BY <1>1, <1>2 DEF Explained, Grows
<1>7. ASSUME NEW f \in Ids, events[f] <= seen, NEW e \in Ids', events'[e] < events'[f]
      PROVE  (e \in Ids /\ events[e] < events[f]) \/ Explained(e)'
  BY <1>1, <1>2, <1>3, <1>7 DEF Grows, Explained
<1>8. ASSUME NEW f \in Ids, Covered(f), events[f] <= seen PROVE Covered(f)'
  BY <1>6, <1>7, <1>8 DEF Covered
<1>9. ASSUME NEW t \in Ticks, TickGood(t) PROVE TickGood(t)'
  <2>1. t.pc \in {"select", "advance", "delete", "move"} => Reached(t.mark)'
    BY <1>4, <1>9 DEF TickGood, Ticks
  <2>2. t.pc \in {"delete", "move", "audit", "fail", "unbox"} => \A r \in t.rows : Counted(r)'
    BY <1>5, <1>9 DEF TickGood, Ticks
  <2>3. ASSUME t.pc = "take"
        PROVE  /\ t.rows # {} /\ t.mark \in Ids'
               /\ taken'[t.mark] > 0 \/ t.mark \in EventsOf(t.rows)
               /\ \A r \in t.rows :
                    /\ r.event \in Ids' /\ events'[r.event] <= seen'
                    /\ \A e \in Ids' : events'[e] < events'[r.event] =>
                         Explained(e)' \/ e \in EventsOf(t.rows)
    <3>1. /\ t.rows # {} /\ t.mark \in Ids
          /\ taken[t.mark] > 0 \/ t.mark \in EventsOf(t.rows)
      BY <1>9, <2>3 DEF TickGood
    <3>2. /\ t.mark \in Ids' /\ (taken'[t.mark] > 0 \/ t.mark \in EventsOf(t.rows))
      BY <1>1, <1>2, <3>1 DEF Grows
    <3>3. ASSUME NEW r \in t.rows
          PROVE  /\ r.event \in Ids' /\ events'[r.event] <= seen'
                 /\ \A e \in Ids' : events'[e] < events'[r.event] =>
                      Explained(e)' \/ e \in EventsOf(t.rows)
      <4>1. /\ r.event \in Ids /\ events[r.event] <= seen
            /\ \A e \in Ids : events[e] < events[r.event] =>
                 Explained(e) \/ e \in EventsOf(t.rows)
        BY <1>9, <2>3 DEF TickGood
      <4>2. r.event \in Ids' /\ events'[r.event] <= seen'
        BY <1>1, <1>2, <1>3, <4>1 DEF Grows
      <4> QED
        BY <1>6, <1>7, <4>1, <4>2
    <3> QED
      BY <3>1, <3>2, <3>3
  <2>4. t.pc \in {"delete", "move", "audit"} => EventsOf(t.rows) \subseteq received'
    BY <1>9 DEF TickGood, Grows
  <2>5. ASSUME t.pc = "unbox", NEW r \in t.rows, r.event = t.mark PROVE Safe(t.mark, r.n)'
    <3>1. Counted(r) /\ Safe(t.mark, r.n)
      BY <1>9, <2>5 DEF TickGood
    <3>2. t.mark \in Ids /\ r.n \in 0..taken[t.mark]
      BY <2>5, <3>1, <1>2 DEF Counted
    <3> QED
      BY <3>1, <3>2 DEF Grows
  <2> QED
    BY <2>1, <2>2, <2>3, <2>4, <2>5 DEF TickGood
<1> QED
  BY <1>4, <1>5, <1>8, <1>9

\* A step keeps the invariant if it grows and what it changes is right.
LEMMA Suffices ==
  ASSUME ExportInv, Typed', Grows,
         Reached(cursor)',
         \A r \in box' : Counted(r)',
         \A e \in dlq' : e \in Ids' /\ taken'[e] > 0,
         \A e, f \in Ids' : events'[e] % 2 = 0 /\ events'[e] = events'[f] => e = f,
         \A f \in Ids : taken[f] = 0 /\ taken'[f] > 0 =>
           Safe(f, 0)' /\ Covered(f)' /\ events'[f] <= seen',
         \A y \in Exporters : exp'[y] = exp[y] \/ TickGood(exp[y])'
  PROVE  ExportInv'
<1>1. ASSUME NEW f \in Ids', taken'[f] > 0
      PROVE  Safe(f, 0)' /\ Covered(f)' /\ events'[f] <= seen'
  <2>1. f \in Ids /\ taken[f] \in Nat /\ taken'[f] \in Nat
    BY <1>1, EventFacts DEF ExportInv, Grows, Typed
  <2>2. CASE taken[f] = 0
    BY <1>1, <2>1, <2>2
  <2>3. CASE taken[f] > 0
    <3>1. Safe(f, 0) /\ Covered(f) /\ events[f] <= seen
      BY <2>1, <2>3 DEF ExportInv
    <3>2. Safe(f, 0)'
      BY <2>1, <3>1 DEF Grows
    <3>3. Covered(f)'
      BY <2>1, <3>1, Kept
    <3>4. events[f] \in Nat /\ seen \in Nat /\ seen' \in Nat
      BY <2>1, EventFacts DEF ExportInv, Typed
    <3> QED
      BY <2>1, <3>1, <3>2, <3>3, <3>4 DEF Grows
  <2> QED
    BY <2>1, <2>2, <2>3
<1>2. ASSUME NEW y \in Exporters PROVE TickGood(exp[y])'
  <2>1. CASE exp'[y] = exp[y]
    <3>1. PICK t \in Ticks : t = exp[y]
      BY DEF ExportInv, Typed
    <3>2. TickGood(t)
      BY <3>1 DEF ExportInv
    <3>3. TickGood(t)'
      BY <3>2, Kept
    <3> QED
      BY <2>1, <3>1, <3>3 DEF TickGood, Reached, Explained, Counted, Safe
  <2> QED
    BY <2>1
<1> QED
  BY <1>1, <1>2 DEF ExportInv


-----------------------------------------------------------------------------
\* Steps that publish no event grow if each row is kept or accounted for.
LEMMA GrowsIf ==
  ASSUME Typed, Typed', events' = events, late' = late,
         \A e \in Ids : taken[e] <= taken'[e],
         received \subseteq received', seen <= seen',
         \A e \in Ids : e \in dlq \cup received \cup cleared \cup overtaken =>
           \A n \in 0..taken[e] : Safe(e, n)',
         \A r \in box : \/ \E s \in box' : s.event = r.event /\ s.n >= r.n
                        \/ Safe(r.event, r.n)'
  PROVE  Grows
<1>1. Ids' = Ids
  BY DEF Ids
<1>2. ASSUME NEW e \in Ids, NEW n \in 0..taken[e], Safe(e, n) PROVE Safe(e, n)'
  <2>1. taken[e] \in Nat /\ n \in Nat
    BY EventFacts
  <2>2. CASE e \in dlq \cup received \cup cleared \cup overtaken
    BY <2>2
  <2>3. CASE \E r \in box : r.event = e /\ r.n > n
    <3>1. PICK r \in box : r.event = e /\ r.n > n
      BY <2>3
    <3>2. r.n \in Nat
      BY <3>1 DEF Typed, Rows
    <3>3. CASE \E s \in box' : s.event = r.event /\ s.n >= r.n
      <4>1. PICK s \in box' : s.event = r.event /\ s.n >= r.n
        BY <3>3
      <4>2. s.n \in Nat
        BY <4>1 DEF Typed, Rows
      <4> QED
        BY <2>1, <3>1, <3>2, <4>1, <4>2 DEF Safe
    <3>4. CASE Safe(r.event, r.n)'
      <4>1. CASE e \in dlq' \cup received' \cup cleared' \cup overtaken'
        BY <4>1 DEF Safe
      <4>2. CASE \E s \in box' : s.event = e /\ s.n > r.n
        <5>1. PICK s \in box' : s.event = e /\ s.n > r.n
          BY <4>2
        <5>2. s.n \in Nat
          BY <5>1 DEF Typed, Rows
        <5> QED
          BY <2>1, <3>1, <3>2, <5>1, <5>2 DEF Safe
      <4> QED
        BY <3>1, <3>4, <4>1, <4>2 DEF Safe
    <3> QED
      BY <3>1, <3>3, <3>4
  <2> QED
    BY <1>2, <2>2, <2>3 DEF Safe
<1> QED
  BY <1>1, <1>2 DEF Grows

\* A step that only moves ticks and the cursor.
LEMMA Quiet ==
  ASSUME ExportInv, Typed', Reached(cursor)',
         UNCHANGED <<events, taken, box, dlq, received, cleared, overtaken, late>>,
         seen <= seen',
         \A y \in Exporters : exp'[y] = exp[y] \/ TickGood(exp[y])'
  PROVE  ExportInv'
<1>1. \A e \in Ids : taken[e] \in Nat
  BY EventFacts DEF ExportInv
<1>2. \A r \in box : r.n \in Nat
  BY DEF ExportInv, Typed, Rows
<1>3. Grows
  <2>1. \A e \in Ids : e \in dlq \cup received \cup cleared \cup overtaken =>
          \A n \in 0..taken[e] : Safe(e, n)'
    BY DEF Safe
  <2>2. \A r \in box : \E s \in box' : s.event = r.event /\ s.n >= r.n
    BY <1>2
  <2>3. Typed
    BY DEF ExportInv
  <2> QED
    BY <1>1, <2>1, <2>2, <2>3, GrowsIf
<1>4. Ids' = Ids
  BY DEF Ids
<1>5. \A r \in box' : Counted(r)'
  BY <1>4 DEF ExportInv, Counted
<1>6. /\ \A e \in dlq' : e \in Ids' /\ taken'[e] > 0
      /\ \A e, f \in Ids' : events'[e] % 2 = 0 /\ events'[e] = events'[f] => e = f
  BY <1>4 DEF ExportInv
<1>7. \A f \in Ids : ~(taken[f] = 0 /\ taken'[f] > 0)
  BY <1>1
<1> QED
  BY <1>3, <1>5, <1>6, <1>7, Suffices

\* What one tick does leaves the others alone.
LEMMA OneTick ==
  ASSUME Typed, NEW x \in Exporters, NEW u \in Ticks, exp' = [exp EXCEPT ![x] = u], TickGood(u)'
  PROVE  /\ exp' \in [Exporters -> Ticks]
         /\ \A y \in Exporters : exp'[y] = exp[y] \/ TickGood(exp[y])'
<1>1. exp' \in [Exporters -> Ticks] /\ exp'[x] = u /\ \A y \in Exporters : y # x => exp'[y] = exp[y]
  BY DEF Typed
<1>2. TickGood(exp[x])'
  BY <1>1 DEF TickGood, Reached, Explained, Counted, Safe
<1> QED
  BY <1>1, <1>2

LEMMA IdleGood ==
  ASSUME NEW pc \in {"idle", "claim"}
  PROVE  [IdleTick EXCEPT !.pc = pc] \in Ticks /\ TickGood([IdleTick EXCEPT !.pc = pc])'
<1>1. [IdleTick EXCEPT !.pc = pc] = [pc |-> pc, rows |-> {}, mark |-> 0, max |-> MaxAttempts]
  BY DEF IdleTick
<1>2. MaxAttempts \in Nat
  BY SizesAssumption
<1> QED
  BY <1>1, <1>2 DEF Ticks, PCs, TickGood


-----------------------------------------------------------------------------
\* The rows of a tick that has nothing left to do.
LEMMA IdleExport ==
  ASSUME ExportInv, NEW x \in Exporters, NEW pc \in {"idle", "claim"},
         exp' = [exp EXCEPT ![x] = [IdleTick EXCEPT !.pc = pc]],
         UNCHANGED <<events, cursor, box, dlq, received, taken, cleared, overtaken, seen, late>>
  PROVE  ExportInv'
<1>1. PICK u \in Ticks : u = [IdleTick EXCEPT !.pc = pc] /\ TickGood(u)'
  BY IdleGood
<1>2. /\ exp' \in [Exporters -> Ticks]
      /\ \A y \in Exporters : exp'[y] = exp[y] \/ TickGood(exp[y])'
  BY <1>1, OneTick DEF ExportInv
<1>3. Typed' /\ Ids' = Ids
  BY <1>2 DEF ExportInv, Typed, Ids
<1>4. Reached(cursor)'
  BY <1>3 DEF ExportInv, Reached
<1>5. seen <= seen'
  BY DEF ExportInv, Typed
<1> QED
  BY <1>2, <1>3, <1>4, <1>5, Quiet

LEMMA StartStep ==
  ASSUME ExportInv, NEW x \in Exporters, Start(x)
  PROVE  ExportInv'
<1>1. PICK u : u = [IdleTick EXCEPT !.pc = "select", !.mark = cursor]
  OBVIOUS
<1>2. u = [pc |-> "select", rows |-> {}, mark |-> cursor, max |-> MaxAttempts]
  BY <1>1 DEF IdleTick
<1>3. u \in Ticks
  BY <1>2, SizesAssumption DEF Ticks, PCs, ExportInv, Typed
<1>4. Ids' = Ids
  BY DEF Start, Ids
<1>5. Reached(cursor)'
  BY <1>4 DEF ExportInv, Reached, Start
<1>6. TickGood(u)'
  BY <1>2, <1>5 DEF TickGood, Reached, Start
<1>7. /\ exp' \in [Exporters -> Ticks]
      /\ \A y \in Exporters : exp'[y] = exp[y] \/ TickGood(exp[y])'
  BY <1>1, <1>3, <1>6, OneTick DEF ExportInv, Start
<1>8. Typed' /\ seen <= seen'
  BY <1>4, <1>7 DEF ExportInv, Typed, Start
<1> QED
  BY <1>5, <1>7, <1>8, Quiet DEF Start

LEMMA AdvanceStep ==
  ASSUME ExportInv, NEW x \in Exporters, Advance(x)
  PROVE  ExportInv'
<1>1. PICK t \in Ticks : t = exp[x] /\ TickGood(t)
  BY DEF ExportInv, Typed
<1>2. PICK u : u = [t EXCEPT !.pc = IF t.pc = "advance" THEN "claim" ELSE "audit"]
  OBVIOUS
<1>3. /\ u \in Ticks /\ u.rows = t.rows /\ u.mark = t.mark
      /\ t.pc \in {"advance", "move"}
      /\ u.pc = IF t.pc = "advance" THEN "claim" ELSE "audit"
  BY <1>1, <1>2 DEF Advance, Ticks, PCs
<1>4. exp' = [exp EXCEPT ![x] = u]
  BY <1>1, <1>2 DEF Advance
<1>5. Ids' = Ids
  BY DEF Advance, Ids
<1>6. cursor' = t.mark /\ Reached(t.mark) /\ t.mark \in Nat
  BY <1>1, <1>3 DEF Advance, TickGood, Ticks
<1>7. Reached(cursor)'
  BY <1>5, <1>6 DEF Reached, Advance
<1>8. TickGood(u)'
  BY <1>1, <1>3, <1>5 DEF TickGood, Counted, Advance
<1>9. /\ exp' \in [Exporters -> Ticks]
      /\ \A y \in Exporters : exp'[y] = exp[y] \/ TickGood(exp[y])'
  BY <1>3, <1>4, <1>8, OneTick DEF ExportInv
<1>10. Typed' /\ seen <= seen'
  BY <1>5, <1>6, <1>9 DEF ExportInv, Typed, Advance
<1> QED
  BY <1>7, <1>9, <1>10, Quiet DEF Advance

LEMMA StopStep ==
  ASSUME ExportInv, NEW x \in Exporters, Stop(x) \/ Die(x)
  PROVE  ExportInv'
<1>1. IdleTick = [IdleTick EXCEPT !.pc = "idle"]
  BY DEF IdleTick
<1>2. exp' = [exp EXCEPT ![x] = [IdleTick EXCEPT !.pc = "idle"]]
  BY <1>1 DEF Stop, Die
<1> QED
  BY <1>2, IdleExport DEF Stop, Die

LEMMA StumbleStep ==
  ASSUME ExportInv, NEW x \in Exporters, Stumble(x)
  PROVE  ExportInv'
<1>1. PICK t \in Ticks : t = exp[x] /\ TickGood(t)
  BY DEF ExportInv, Typed
<1>2. PICK u : u = [t EXCEPT !.pc = "fail"]
  OBVIOUS
<1>3. u \in Ticks /\ u.rows = t.rows /\ t.pc \in {"delete", "move", "audit"} /\ u.pc = "fail"
  BY <1>1, <1>2 DEF Stumble, Ticks, PCs
<1>4. exp' = [exp EXCEPT ![x] = u]
  BY <1>1, <1>2 DEF Stumble
<1>5. Ids' = Ids
  BY DEF Stumble, Ids
<1>6. Reached(cursor)'
  BY <1>5 DEF ExportInv, Reached, Stumble
<1>7. TickGood(u)'
  BY <1>1, <1>3, <1>5 DEF TickGood, Counted, Stumble
<1>8. /\ exp' \in [Exporters -> Ticks]
      /\ \A y \in Exporters : exp'[y] = exp[y] \/ TickGood(exp[y])'
  BY <1>3, <1>4, <1>7, OneTick DEF ExportInv
<1>9. Typed' /\ seen <= seen'
  BY <1>5, <1>8 DEF ExportInv, Typed, Stumble
<1> QED
  BY <1>6, <1>8, <1>9, Quiet DEF Stumble


\* Whatever is not after the cursor was taken or appeared late.
LEMMA BeforeCursor ==
  ASSUME ExportInv, NEW m \in Nat, Reached(m), NEW e \in Ids,
         events[e] <= Millis(m) \/ e = m
  PROVE  Explained(e)
<1>1. events[e] \in Nat /\ events[e] > 1 /\ e # 0
  BY EventFacts DEF ExportInv
<1>2. CASE m = 0
  BY <1>1, <1>2, MillisFacts DEF ExportInv
<1>3. CASE e = m
  BY <1>1, <1>3 DEF Reached, Explained
<1>4. CASE m # 0 /\ e # m
  <2>1. m \in Ids /\ taken[m] > 0 /\ events[m] \in Nat
    BY <1>4, EventFacts DEF ExportInv, Reached
  <2>2. /\ Millis(m) \in Nat /\ Millis(m) <= events[m]
        /\ Millis(m) = events[m] => events[m] % 2 = 0
    BY <1>4, <2>1, MillisFacts DEF ExportInv
  <2>3. events[e] # events[m] \/ events[m] % 2 # 0
    BY <1>4, <2>1 DEF ExportInv
  <2>4. events[e] < events[m]
    BY <1>1, <1>4, <2>1, <2>2, <2>3
  <2> QED
    BY <2>1, <2>4 DEF ExportInv, Covered
<1> QED
  BY <1>2, <1>3, <1>4

LEMMA SelectStep ==
  ASSUME ExportInv, NEW x \in Exporters, NEW S \in SUBSET Ids, NEW B \in SUBSET Ids, Select(x, S, B)
  PROVE  ExportInv'
<1>1. CASE B = {}
  BY <1>1, IdleExport DEF Select
<1>2. CASE B # {}
  <2>1. PICK t \in Ticks : t = exp[x] /\ TickGood(t)
    BY DEF ExportInv, Typed
  <2>2. t.pc = "select" /\ Reached(t.mark) /\ t.mark \in Nat
    BY <2>1 DEF Select, TickGood, Ticks
  <2>3. PICK l \in B : l = LastOf(B) /\ \A f \in B : events[f] <= events[l]
    BY <1>2, LastOfBatch DEF ExportInv
  <2>4. PICK rows : rows = {[event |-> e, n |-> 0, tries |-> 0] : e \in B}
    OBVIOUS
  <2>5. rows \in SUBSET Rows /\ EventsOf(rows) = B /\ rows # {}
    <3>1. B \subseteq Nat
      BY DEF Ids
    <3>2. \A e \in B : [event |-> e, n |-> 0, tries |-> 0] \in Rows
      BY <3>1 DEF Rows
    <3>3. rows \in SUBSET Rows /\ rows # {}
      BY <1>2, <2>4, <3>2
    <3>4. \A r \in rows : r.event \in B
      BY <2>4
    <3>5. \A e \in B : \E r \in rows : r.event = e
      <4> SUFFICES ASSUME NEW e \in B PROVE \E r \in rows : r.event = e
        OBVIOUS
      <4>1. [event |-> e, n |-> 0, tries |-> 0] \in rows
        BY <2>4
      <4> QED
        BY <4>1
    <3> QED
      BY <3>3, <3>4, <3>5 DEF EventsOf
  <2>6. PICK u : u = [IdleTick EXCEPT !.pc = "take", !.mark = l, !.rows = rows]
    OBVIOUS
  <2>7. u = [pc |-> "take", rows |-> rows, mark |-> l, max |-> MaxAttempts]
    BY <2>6 DEF IdleTick
  <2>8. l \in Nat /\ l \in Ids /\ events[l] \in Nat /\ seen \in Nat
    BY EventFacts DEF ExportInv, Typed
  <2>9. u \in Ticks
    BY <2>5, <2>7, <2>8, SizesAssumption DEF Ticks, PCs
  <2>10. seen' \in Nat /\ seen <= seen' /\ events[l] <= seen'
    BY <1>2, <2>3, <2>8 DEF Select
  <2>11. exp' = [exp EXCEPT ![x] = u]
    BY <1>2, <2>3, <2>4, <2>6 DEF Select
  <2>12. ASSUME NEW b \in B, NEW e \in Ids, events[e] < events[b]
         PROVE  Explained(e) \/ e \in B
    <3>1. events[e] \in Nat /\ events[b] \in Nat
      BY EventFacts DEF ExportInv
    <3>2. CASE e \in S
      <4>1. IsBatch(B, S)
        BY DEF Select
      <4>2. e \in S \ B => events[b] <= events[e]
        BY <4>1 DEF IsBatch
      <4> QED
        BY <2>12, <3>1, <3>2, <4>2
    <3>3. CASE e \notin S
      <4>1. e = t.mark \/ ~(events[e] > Millis(t.mark))
        BY <2>1, <3>3 DEF Select
      <4>2. Millis(t.mark) \in Nat
        BY <2>2, MillisFacts DEF ExportInv, Reached
      <4>3. events[e] <= Millis(t.mark) \/ e = t.mark
        BY <3>1, <4>1, <4>2
      <4> QED
        BY <2>2, <4>3, BeforeCursor
    <3> QED
      BY <3>2, <3>3
  <2>13. Ids' = Ids /\ events' = events /\ taken' = taken /\ late' = late
    BY DEF Select, Ids
  <2>14. TickGood(u)'
    <3>1. ASSUME NEW r \in rows
          PROVE  /\ r.event \in Ids /\ events[r.event] <= seen'
                 /\ \A e \in Ids : events[e] < events[r.event] =>
                      Explained(e) \/ e \in EventsOf(rows)
      <4>1. r.event \in B
        BY <2>5 DEF EventsOf
      <4>2. events[r.event] \in Nat /\ events[r.event] <= events[l]
        BY <2>3, <4>1, EventFacts DEF ExportInv
      <4>3. events[r.event] <= seen'
        BY <2>8, <2>10, <4>2
      <4>4. \A e \in Ids : events[e] < events[r.event] => Explained(e) \/ e \in B
        BY <2>12, <4>1
      <4> QED
        BY <2>5, <4>1, <4>3, <4>4
    <3> QED
      BY <2>3, <2>5, <2>7, <2>8, <2>13, <3>1 DEF TickGood, Explained
  <2>15. /\ exp' \in [Exporters -> Ticks]
         /\ \A y \in Exporters : exp'[y] = exp[y] \/ TickGood(exp[y])'
    BY <2>9, <2>11, <2>14, OneTick DEF ExportInv
  <2>16. Typed' /\ Reached(cursor)'
    BY <2>10, <2>13, <2>15 DEF ExportInv, Typed, Reached, Select
  <2> QED
    <3>1. UNCHANGED <<events, taken, box, dlq, received, cleared, overtaken, late>>
      BY DEF Select
    <3> QED
      BY <2>10, <2>15, <2>16, <3>1, Quiet
<1> QED
  BY <1>1, <1>2


-----------------------------------------------------------------------------
\* After an insertion each of the events has a row, and no row has gone.
LEMMA InsertFacts ==
  ASSUME ExportInv, NEW E \in SUBSET Ids, Insert(E), events' = events
  PROVE  /\ box' \subseteq Rows /\ taken' \in [Ids -> Nat]
         /\ \A e \in Ids : taken[e] <= taken'[e]
         /\ box \subseteq box'
         /\ \A r \in box' : r \in box \/ (r.event \in E /\ r.n \in 1..taken'[r.event])
         /\ \A e \in E : taken'[e] > 0
         /\ \A e \in E : (\E r \in box : r.event = e)
                         \/ \E r \in box' : r.event = e /\ r.n = taken[e] + 1
         /\ \A e \in Ids : taken[e] = 0 /\ taken'[e] > 0 =>
              e \in E /\ \E r \in box' : r.event = e /\ r.n > 0
<1>1. PICK new \in SUBSET E :
        /\ new = {e \in E : \A r \in box : r.event # e}
        /\ box' = box \cup {[event |-> e, n |-> taken[e] + 1, tries |-> 0] : e \in new}
        /\ taken' = [e \in Ids |-> IF e \in new THEN taken[e] + 1 ELSE taken[e]]
  BY DEF Insert
<1>2. \A e \in Ids : taken[e] \in Nat /\ e \in Nat
  BY EventFacts DEF ExportInv
<1>3. \A e \in Ids : taken'[e] = IF e \in new THEN taken[e] + 1 ELSE taken[e]
  BY <1>1
<1>4. taken' \in [Ids -> Nat]
  BY <1>1, <1>2
<1>5. \A r \in box' : r \in box \/ \E e \in new : r = [event |-> e, n |-> taken[e] + 1, tries |-> 0]
  BY <1>1
<1>6. \A e \in new : \E r \in box' : r.event = e /\ r.n = taken[e] + 1
  <2> SUFFICES ASSUME NEW e \in new PROVE \E r \in box' : r.event = e /\ r.n = taken[e] + 1
    OBVIOUS
  <2>1. [event |-> e, n |-> taken[e] + 1, tries |-> 0] \in box'
    BY <1>1
  <2> QED
    BY <2>1
<1>7. box' \subseteq Rows
  <2>1. \A e \in Ids : [event |-> e, n |-> taken[e] + 1, tries |-> 0] \in Rows
    BY <1>2 DEF Rows
  <2> QED
    BY <1>5, <2>1 DEF ExportInv, Typed
<1>8. \A r \in box' : r \in box \/ (r.event \in E /\ r.n \in 1..taken'[r.event])
  BY <1>2, <1>3, <1>5
<1>9. ASSUME NEW e \in E PROVE taken'[e] > 0
  <2>1. CASE e \in new
    BY <1>2, <1>3, <2>1
  <2>2. CASE e \notin new
    <3>1. PICK r \in box : r.event = e
      BY <1>1, <2>2
    <3>2. r.n \in 1..taken[e]
      BY <3>1 DEF ExportInv, Counted
    <3> QED
      BY <1>2, <1>3, <2>2, <3>2
  <2> QED
    BY <2>1, <2>2
<1>10. \A e \in Ids : taken[e] <= taken'[e]
  BY <1>2, <1>3
<1>11. \A e \in Ids : taken[e] = 0 /\ taken'[e] > 0 => e \in new
  BY <1>2, <1>3
<1>12. \A e \in E : e \in new \/ \E r \in box : r.event = e
  BY <1>1
<1>13. \A e \in new : taken[e] \in Nat /\ e \in E
  BY <1>2
<1>14. \A e \in new : \E r \in box' : r.event = e /\ r.n > 0
  <2> SUFFICES ASSUME NEW e \in new PROVE \E r \in box' : r.event = e /\ r.n > 0
    OBVIOUS
  <2>1. PICK r \in box' : r.event = e /\ r.n = taken[e] + 1
    BY <1>6
  <2> QED
    BY <1>13, <2>1
<1>15. box \subseteq box'
  BY <1>1
<1> QED
  BY <1>4, <1>6, <1>7, <1>8, <1>9, <1>10, <1>11, <1>12, <1>13, <1>14, <1>15

LEMMA TakeStep ==
  ASSUME ExportInv, NEW x \in Exporters, NEW r \in exp[x].rows, Take(x, r)
  PROVE  ExportInv'
<1>1. PICK t \in Ticks : t = exp[x] /\ TickGood(t)
  BY DEF ExportInv, Typed
<1>2. /\ t.pc = "take" /\ r \in t.rows /\ r \in Rows
      /\ \A s \in t.rows : events[r.event] <= events[s.event]
  BY <1>1 DEF Take, IsNext, Ticks
<1>3. PICK e \in Ids : e = r.event /\ events[e] <= seen
  BY <1>1, <1>2 DEF TickGood
<1>4. UNCHANGED <<events, cursor, dlq, received, operator, cleared, overtaken, seen, late>>
  BY DEF Take
<1>5. Ids' = Ids
  BY <1>4 DEF Ids
<1>6. Insert({e})
  BY <1>3 DEF Take
<1>7. /\ box' \subseteq Rows /\ taken' \in [Ids -> Nat] /\ box \subseteq box'
      /\ \A f \in Ids : taken[f] <= taken'[f]
      /\ \A s \in box' : s \in box \/ (s.event = e /\ s.n \in 1..taken'[e])
      /\ taken'[e] > 0
      /\ \A f \in Ids : taken[f] = 0 /\ taken'[f] > 0 =>
           f = e /\ \E s \in box' : s.event = f /\ s.n > 0
  BY <1>4, <1>6, InsertFacts
<1>8. \A f \in Ids : taken[f] \in Nat /\ taken'[f] \in Nat /\ events[f] \in Nat
  BY <1>7, EventFacts DEF ExportInv
<1>9. PICK u : u = [t EXCEPT !.rows = @ \ {r}, !.pc = IF t.rows = {r} THEN "advance" ELSE "take"]
  OBVIOUS
<1>10. /\ u \in Ticks /\ u.rows = t.rows \ {r} /\ u.mark = t.mark
       /\ u.pc = IF t.rows = {r} THEN "advance" ELSE "take"
  BY <1>1, <1>9 DEF Ticks, PCs
<1>11. exp' = [exp EXCEPT ![x] = u]
  BY <1>1, <1>9 DEF Take
<1>12. \A f \in Ids : Explained(f) => Explained(f)'
  BY <1>4, <1>7, <1>8 DEF Explained
<1>13. \A f \in Ids : events[f] < events[e] => Explained(f)
  <2> SUFFICES ASSUME NEW f \in Ids, events[f] < events[e] PROVE Explained(f)
    OBVIOUS
  <2>1. Explained(f) \/ f \in EventsOf(t.rows)
    BY <1>1, <1>2, <1>3 DEF TickGood
  <2>2. f \notin EventsOf(t.rows)
    BY <1>2, <1>3, <1>8 DEF EventsOf
  <2> QED
    BY <2>1, <2>2
<1>14. TickGood(u)'
  <2>1. t.mark \in Ids /\ (taken[t.mark] > 0 \/ t.mark \in EventsOf(t.rows))
    BY <1>1, <1>2 DEF TickGood
  <2>2. \A f \in EventsOf(t.rows) : f = e \/ f \in EventsOf(u.rows)
    BY <1>3, <1>10 DEF EventsOf
  <2>3. taken'[t.mark] > 0 \/ t.mark \in EventsOf(u.rows)
    BY <1>7, <1>8, <2>1, <2>2
  <2>4. CASE t.rows = {r}
    <3>1. EventsOf(u.rows) = {}
      BY <1>10, <2>4 DEF EventsOf
    <3> QED
      BY <1>5, <1>10, <2>1, <2>3, <2>4, <3>1 DEF TickGood, Reached
  <2>5. CASE t.rows # {r}
    <3>1. u.rows # {}
      BY <1>2, <1>10, <2>5
    <3>2. ASSUME NEW s \in u.rows
          PROVE  /\ s.event \in Ids /\ events[s.event] <= seen
                 /\ \A f \in Ids : events[f] < events[s.event] =>
                      Explained(f)' \/ f \in EventsOf(u.rows)
      <4>1. s \in t.rows
        BY <1>10
      <4>2. /\ s.event \in Ids /\ events[s.event] <= seen
            /\ \A f \in Ids : events[f] < events[s.event] =>
                 Explained(f) \/ f \in EventsOf(t.rows)
        BY <1>1, <1>2, <4>1 DEF TickGood
      <4>3. Explained(e)'
        BY <1>7 DEF Explained
      <4> QED
        BY <1>12, <2>2, <4>2, <4>3
    <3> QED
      BY <1>4, <1>5, <1>10, <2>1, <2>3, <2>5, <3>1, <3>2 DEF TickGood
  <2> QED
    BY <2>4, <2>5
<1>15. /\ exp' \in [Exporters -> Ticks]
       /\ \A y \in Exporters : exp'[y] = exp[y] \/ TickGood(exp[y])'
  BY <1>10, <1>11, <1>14, OneTick DEF ExportInv
<1>16. Typed'
  BY <1>4, <1>5, <1>7, <1>15 DEF ExportInv, Typed
<1>17. Grows
  <2>1. \A f \in Ids : f \in dlq \cup received \cup cleared \cup overtaken =>
          \A n \in 0..taken[f] : Safe(f, n)'
    BY <1>4 DEF Safe
  <2>2. \A s \in box : \E w \in box' : w.event = s.event /\ w.n >= s.n
    BY <1>7 DEF Rows
  <2>3. Typed /\ received \subseteq received' /\ seen <= seen'
    BY <1>4 DEF ExportInv, Typed
  <2> QED
    BY <1>4, <1>7, <1>16, <2>1, <2>2, <2>3, GrowsIf
<1>18. Reached(cursor)'
  BY <1>4, <1>5, <1>7, <1>8 DEF ExportInv, Reached
<1>19. \A s \in box' : Counted(s)'
  <2> SUFFICES ASSUME NEW s \in box' PROVE Counted(s)'
    OBVIOUS
  <2>1. CASE s \in box
    <3>1. s.event \in Ids /\ s.n \in 1..taken[s.event]
      BY <2>1 DEF ExportInv, Counted
    <3> QED
      BY <1>5, <1>7, <1>8, <3>1 DEF Counted
  <2>2. CASE s \notin box
    BY <1>5, <1>7, <2>2 DEF Counted
  <2> QED
    BY <2>1, <2>2
<1>20. \A f \in dlq' : f \in Ids' /\ taken'[f] > 0
  BY <1>4, <1>5, <1>7, <1>8 DEF ExportInv
<1>21. \A f, g \in Ids' : events'[f] % 2 = 0 /\ events'[f] = events'[g] => f = g
  BY <1>4, <1>5 DEF ExportInv
<1>22. ASSUME NEW f \in Ids, taken[f] = 0 /\ taken'[f] > 0
       PROVE  Safe(f, 0)' /\ Covered(f)' /\ events'[f] <= seen'
  <2>1. f = e /\ \E s \in box' : s.event = f /\ s.n > 0
    BY <1>7, <1>22
  <2> QED
    BY <1>3, <1>4, <1>5, <1>12, <1>13, <2>1 DEF Safe, Covered
<1> QED
  BY <1>15, <1>16, <1>17, <1>18, <1>19, <1>20, <1>21, <1>22, Suffices


-----------------------------------------------------------------------------
\* A step that takes no event.
LEMMA Moves ==
  ASSUME ExportInv, Typed', Reached(cursor)',
         UNCHANGED <<events, taken, late, seen>>, received \subseteq received',
         \A e \in Ids : e \in dlq \cup received \cup cleared \cup overtaken =>
           \A n \in 0..taken[e] : Safe(e, n)',
         \A r \in box : \/ \E s \in box' : s.event = r.event /\ s.n >= r.n
                        \/ Safe(r.event, r.n)',
         \A r \in box' : Counted(r),
         \A e \in dlq' : e \in Ids /\ taken[e] > 0,
         \A y \in Exporters : exp'[y] = exp[y] \/ TickGood(exp[y])'
  PROVE  ExportInv'
<1>1. Ids' = Ids /\ Typed /\ \A e \in Ids : taken[e] \in Nat
  BY EventFacts DEF Ids, ExportInv
<1>2. seen <= seen' /\ \A e \in Ids : taken[e] <= taken'[e]
  BY <1>1 DEF Typed
<1>3. Grows
  BY <1>1, <1>2, GrowsIf
<1>4. \A r \in box' : Counted(r)'
  BY <1>1 DEF Counted
<1>5. /\ \A e \in dlq' : e \in Ids' /\ taken'[e] > 0
      /\ \A e, f \in Ids' : events'[e] % 2 = 0 /\ events'[e] = events'[f] => e = f
  BY <1>1 DEF ExportInv
<1>6. \A f \in Ids : ~(taken[f] = 0 /\ taken'[f] > 0)
  BY <1>1
<1> QED
  BY <1>3, <1>4, <1>5, <1>6, Suffices

LEMMA DeliverStep ==
  ASSUME ExportInv, NEW x \in Exporters, NEW B \in SUBSET box, Deliver(x, B)
  PROVE  ExportInv'
<1>1. B # {} /\ B \subseteq Rows /\ \A r \in B : Counted(r)
  BY DEF Deliver, Due, ExportInv, Typed
<1>2. EventsOf(B) \in SUBSET Ids /\ EventsOf(B) # {}
  BY <1>1 DEF EventsOf, Counted
<1>3. PICK l \in EventsOf(B) : l = LastOf(EventsOf(B))
  BY <1>2, LastOfBatch DEF ExportInv
<1>4. PICK pc \in {"delete", "fail"}, got \in BOOLEAN, max \in {1, MaxAttempts} :
        /\ (pc = "delete" => got) /\ (max = 1 /\ MaxAttempts > 1 => ~got)
        /\ received' = IF got THEN received \cup EventsOf(B) ELSE received
        /\ exp' = [exp EXCEPT ![x] = [pc |-> pc, rows |-> B, mark |-> LastOf(EventsOf(B)),
                                      max |-> max]]
  BY DEF Deliver
<1>5. PICK u : u = [pc |-> pc, rows |-> B, mark |-> l, max |-> max]
  OBVIOUS
<1>6. l \in Ids /\ l \in Nat
  BY <1>2, EventFacts DEF ExportInv
<1>7. u \in Ticks
  BY <1>1, <1>5, <1>6, SizesAssumption DEF Ticks, PCs
<1>8. UNCHANGED <<events, cursor, dlq, operator, taken, cleared, overtaken, seen, late>>
  BY DEF Deliver
<1>9. Ids' = Ids
  BY <1>8 DEF Ids
<1>10. taken[l] > 0
  <2>1. PICK r \in B : r.event = l
    BY DEF EventsOf
  <2>2. r.n \in 1..taken[l] /\ taken[l] \in Nat
    BY <1>1, <1>6, <2>1, EventFacts DEF ExportInv, Counted
  <2> QED
    BY <2>2
<1>11. TickGood(u)'
  BY <1>1, <1>4, <1>5, <1>6, <1>8, <1>9, <1>10 DEF TickGood, Reached, Counted
<1>12. /\ exp' \in [Exporters -> Ticks]
       /\ \A y \in Exporters : exp'[y] = exp[y] \/ TickGood(exp[y])'
  BY <1>3, <1>4, <1>5, <1>7, <1>11, OneTick DEF ExportInv
<1>13. box' = (box \ B) \cup {[r EXCEPT !.tries = @ + 1] : r \in B}
  BY DEF Deliver
<1>14. \A r \in B : /\ [r EXCEPT !.tries = @ + 1] \in Rows
                    /\ [r EXCEPT !.tries = @ + 1].event = r.event
                    /\ [r EXCEPT !.tries = @ + 1].n = r.n
  BY <1>1 DEF Rows
<1>15. \A s \in box' : s \in Rows /\ \E r \in box : s.event = r.event /\ s.n = r.n
  <2> SUFFICES ASSUME NEW s \in box'
               PROVE  s \in Rows /\ \E r \in box : s.event = r.event /\ s.n = r.n
    OBVIOUS
  <2>1. CASE s \in box
    BY <2>1 DEF ExportInv, Typed
  <2>2. CASE s \notin box
    <3>1. PICK r \in B : s = [r EXCEPT !.tries = @ + 1]
      BY <1>13, <2>2
    <3> QED
      BY <1>14, <3>1
  <2> QED
    BY <2>1, <2>2
<1>16. ASSUME NEW r \in box PROVE \E s \in box' : s.event = r.event /\ s.n >= r.n
  <2>1. r.n \in Nat
    BY DEF ExportInv, Typed, Rows
  <2>2. CASE r \in B
    <3>1. PICK s : s = [r EXCEPT !.tries = @ + 1]
      OBVIOUS
    <3>2. s \in box' /\ s.event = r.event /\ s.n = r.n
      BY <1>13, <1>14, <2>2, <3>1
    <3> QED
      BY <2>1, <3>2
  <2>3. CASE r \notin B
    BY <1>13, <2>1, <2>3
  <2> QED
    BY <2>2, <2>3
<1>17. Typed' /\ Reached(cursor)'
  BY <1>8, <1>9, <1>12, <1>15 DEF ExportInv, Typed, Reached
<1>18. received \subseteq received'
  BY <1>4
<1>19. \A e \in Ids : e \in dlq \cup received \cup cleared \cup overtaken =>
         \A n \in 0..taken[e] : Safe(e, n)'
  BY <1>8, <1>18 DEF Safe
<1>20. \A s \in box' : Counted(s)
  BY <1>15 DEF ExportInv, Counted
<1>21. \A e \in dlq' : e \in Ids /\ taken[e] > 0
  BY <1>8 DEF ExportInv
<1> QED
  BY <1>8, <1>12, <1>16, <1>17, <1>18, <1>19, <1>20, <1>21, Moves

LEMMA DeleteStep ==
  ASSUME ExportInv, NEW x \in Exporters, Delete(x)
  PROVE  ExportInv'
<1>1. PICK t \in Ticks : t = exp[x] /\ TickGood(t)
  BY DEF ExportInv, Typed
<1>2. t.pc = "delete" /\ EventsOf(t.rows) \subseteq received
  BY <1>1 DEF Delete, TickGood
<1>3. PICK u : u = [t EXCEPT !.pc = "move"]
  OBVIOUS
<1>4. u \in Ticks /\ u.rows = t.rows /\ u.mark = t.mark /\ u.pc = "move"
  BY <1>1, <1>3 DEF Ticks, PCs
<1>5. exp' = [exp EXCEPT ![x] = u]
  BY <1>1, <1>3 DEF Delete
<1>6. UNCHANGED <<events, cursor, dlq, received, taken, cleared, overtaken, seen, late>>
  BY DEF Delete
<1>7. Ids' = Ids
  BY <1>6 DEF Ids
<1>8. TickGood(u)'
  BY <1>1, <1>2, <1>4, <1>6, <1>7 DEF TickGood, Reached, Counted
<1>9. /\ exp' \in [Exporters -> Ticks]
      /\ \A y \in Exporters : exp'[y] = exp[y] \/ TickGood(exp[y])'
  BY <1>4, <1>5, <1>8, OneTick DEF ExportInv
<1>10. box' = Without(t.rows) /\ box' \subseteq box
  BY <1>1 DEF Delete, Without
<1>11. Typed' /\ Reached(cursor)'
  BY <1>6, <1>7, <1>9, <1>10 DEF ExportInv, Typed, Reached
<1>12. \A e \in Ids : e \in dlq \cup received \cup cleared \cup overtaken =>
         \A n \in 0..taken[e] : Safe(e, n)'
  BY <1>6 DEF Safe
<1>13. ASSUME NEW r \in box
       PROVE  (\E s \in box' : s.event = r.event /\ s.n >= r.n) \/ Safe(r.event, r.n)'
  <2>1. r.n \in Nat
    BY DEF ExportInv, Typed, Rows
  <2>2. CASE r \in box'
    BY <2>1, <2>2
  <2>3. CASE r \notin box'
    <3>1. \E s \in t.rows : s.event = r.event
      BY <1>10, <2>3 DEF Without
    <3>2. r.event \in received'
      BY <1>2, <1>6, <3>1 DEF EventsOf
    <3> QED
      BY <3>2 DEF Safe
  <2> QED
    BY <2>2, <2>3
<1>14. \A r \in box' : Counted(r)
  BY <1>10 DEF ExportInv
<1>15. \A e \in dlq' : e \in Ids /\ taken[e] > 0
  BY <1>6 DEF ExportInv
<1> QED
  BY <1>6, <1>9, <1>11, <1>12, <1>13, <1>14, <1>15, Moves


\* A tick that is done with a row that failed.
LEMMA NextFailedGood ==
  ASSUME ExportInv, NEW x \in Exporters, NEW r \in exp[x].rows, NextFailed(x, r),
         exp[x].pc \in {"fail", "unbox"}, UNCHANGED <<events, taken>>
  PROVE  /\ exp' \in [Exporters -> Ticks]
         /\ \A y \in Exporters : exp'[y] = exp[y] \/ TickGood(exp[y])'
<1>1. PICK t \in Ticks : t = exp[x] /\ TickGood(t)
  BY DEF ExportInv, Typed
<1>2. PICK u : u = [t EXCEPT !.rows = @ \ {r}, !.pc = IF t.rows = {r} THEN "auditfail" ELSE "fail"]
  OBVIOUS
<1>3. u \in Ticks /\ u.rows \subseteq t.rows /\ u.pc \in {"auditfail", "fail"}
  BY <1>1, <1>2 DEF Ticks, PCs
<1>4. exp' = [exp EXCEPT ![x] = u]
  BY <1>1, <1>2 DEF NextFailed
<1>5. \A s \in t.rows : Counted(s)
  BY <1>1 DEF TickGood
<1>6. Ids' = Ids
  BY DEF Ids
<1>7. TickGood(u)'
  BY <1>3, <1>5, <1>6 DEF TickGood, Counted
<1> QED
  BY <1>3, <1>4, <1>7, OneTick DEF ExportInv

\* A given-up row's event is a dead letter before the row leaves the outbox.
LEMMA GiveUpStep ==
  ASSUME ExportInv, NEW x \in Exporters, NEW r \in exp[x].rows, GiveUp(x, r)
  PROVE  ExportInv'
<1>1. PICK t \in Ticks : t = exp[x] /\ TickGood(t)
  BY DEF ExportInv, Typed
<1>2. t.pc = "fail" /\ r \in t.rows /\ \A s \in t.rows : Counted(s)
  BY <1>1 DEF GiveUp, TickGood
<1>3. UNCHANGED <<events, cursor, box, received, taken, cleared, overtaken, seen, late>>
  BY DEF GiveUp
<1>4. Ids' = Ids /\ Typed
  BY <1>3 DEF Ids, ExportInv
<1>5. /\ dlq' = dlq \/ dlq' = dlq \cup {r.event}
      /\ exp' \in [Exporters -> Ticks]
      /\ \A y \in Exporters : exp'[y] = exp[y] \/ TickGood(exp[y])'
  <2>1. CASE r.tries + 1 < t.max
    <3>1. NextFailed(x, r) /\ UNCHANGED dlq
      BY <1>1, <2>1 DEF GiveUp
    <3> QED
      BY <1>1, <1>2, <1>3, <3>1, NextFailedGood
  <2>2. CASE ~(r.tries + 1 < t.max)
    <3>1. dlq' = dlq \cup {r.event}
      BY <1>1, <2>2 DEF GiveUp
    <3>2. PICK u : u = [t EXCEPT !.pc = "unbox", !.mark = r.event]
      OBVIOUS
    <3>3. exp' = [exp EXCEPT ![x] = u]
      BY <1>1, <2>2, <3>2 DEF GiveUp
    <3>4. r.event \in Nat
      BY <1>2, <1>4, EventFacts DEF Counted
    <3>5. u \in Ticks /\ u.rows = t.rows /\ u.mark = r.event /\ u.pc = "unbox"
      BY <3>2, <3>4 DEF Ticks, PCs
    <3>6. \A n \in Nat : Safe(r.event, n)'
      BY <3>1 DEF Safe
    <3>7. \A s \in t.rows : s.n \in Nat
      BY DEF Ticks, Rows
    <3>8. TickGood(u)'
      BY <1>2, <1>3, <1>4, <3>5, <3>6, <3>7 DEF TickGood, Counted
    <3> QED
      BY <1>4, <3>1, <3>3, <3>5, <3>8, OneTick
  <2> QED
    BY <2>1, <2>2
<1>6. Typed' /\ Reached(cursor)'
  BY <1>3, <1>4, <1>5 DEF ExportInv, Typed, Reached
<1>7. \A e \in Ids : e \in dlq \cup received \cup cleared \cup overtaken =>
        \A n \in 0..taken[e] : Safe(e, n)'
  BY <1>3, <1>5 DEF Safe
<1>8. \A s \in box : \E w \in box' : w.event = s.event /\ w.n >= s.n
  <2>1. \A s \in box : s.n \in Nat
    BY DEF ExportInv, Typed, Rows
  <2> QED
    BY <1>3, <2>1
<1>9. \A s \in box' : Counted(s)
  BY <1>3 DEF ExportInv
<1>10. r.event \in Ids /\ taken[r.event] > 0
  <2>1. r.event \in Ids /\ r.n \in 1..taken[r.event]
    BY <1>2 DEF Counted
  <2>2. taken[r.event] \in Nat
    BY <1>4, <2>1, EventFacts
  <2> QED
    BY <2>1, <2>2
<1>11. \A e \in dlq' : e \in Ids /\ taken[e] > 0
  BY <1>5, <1>10 DEF ExportInv
<1> QED
  BY <1>3, <1>5, <1>6, <1>7, <1>8, <1>9, <1>11, Moves

\* A row leaves the outbox when its event is a dead letter, or was one and was requeued
\* with the old row (overtaken) or with a newer one.
LEMMA UnboxStep ==
  ASSUME ExportInv, NEW x \in Exporters, NEW r \in exp[x].rows, Unbox(x, r)
  PROVE  ExportInv'
<1>1. PICK t \in Ticks : t = exp[x] /\ TickGood(t)
  BY DEF ExportInv, Typed
<1>2. t.pc = "unbox" /\ r \in t.rows /\ Safe(r.event, r.n)
  BY <1>1 DEF Unbox, TickGood
<1>3. UNCHANGED <<events, cursor, dlq, received, taken, cleared, overtaken, seen, late>>
  BY DEF Unbox
<1>4. Ids' = Ids /\ Typed
  BY <1>3 DEF Ids, ExportInv
<1>5. /\ exp' \in [Exporters -> Ticks]
      /\ \A y \in Exporters : exp'[y] = exp[y] \/ TickGood(exp[y])'
  BY <1>1, <1>2, <1>3, NextFailedGood DEF Unbox
<1>6. /\ box' \subseteq box
      /\ \A s \in box : s \in box' \/ (s.event = r.event /\ s.n = r.n)
      /\ \A s \in box : s.n # r.n => s \in box'
  BY DEF Unbox, Without
<1>7. Typed' /\ Reached(cursor)'
  BY <1>3, <1>4, <1>5, <1>6 DEF ExportInv, Typed, Reached
<1>8. \A e \in Ids : e \in dlq \cup received \cup cleared \cup overtaken =>
        \A n \in 0..taken[e] : Safe(e, n)'
  BY <1>3 DEF Safe
<1>9. r.n \in Nat /\ \A s \in box : s.n \in Nat
  BY <1>1, <1>2, <1>4 DEF Ticks, Typed, Rows
<1>10. Safe(r.event, r.n)'
  <2>1. CASE r.event \in dlq \cup received \cup cleared \cup overtaken
    BY <1>3, <2>1 DEF Safe
  <2>2. CASE \E s \in box : s.event = r.event /\ s.n > r.n
    <3>1. PICK s \in box : s.event = r.event /\ s.n > r.n
      BY <2>2
    <3>2. s \in box'
      BY <1>6, <1>9, <3>1
    <3> QED
      BY <3>1, <3>2 DEF Safe
  <2> QED
    BY <1>2, <2>1, <2>2 DEF Safe
<1>11. \A s \in box : (\E w \in box' : w.event = s.event /\ w.n >= s.n) \/ Safe(s.event, s.n)'
  BY <1>6, <1>9, <1>10
<1>12. \A s \in box' : Counted(s)
  BY <1>6 DEF ExportInv
<1>13. \A e \in dlq' : e \in Ids /\ taken[e] > 0
  BY <1>3 DEF ExportInv
<1> QED
  BY <1>3, <1>5, <1>7, <1>8, <1>11, <1>12, <1>13, Moves


-----------------------------------------------------------------------------
LEMMA RequeueStep ==
  ASSUME ExportInv, Requeue
  PROVE  ExportInv'
<1>1. UNCHANGED <<events, cursor, received, exp, cleared, seen, late>> /\ dlq' = {}
  BY DEF Requeue
<1>2. Ids' = Ids /\ Typed
  BY <1>1 DEF Ids, ExportInv
<1>3. dlq \in SUBSET Ids /\ \A e \in dlq : taken[e] > 0
  BY DEF ExportInv
<1>4. /\ box' \subseteq Rows /\ taken' \in [Ids -> Nat] /\ box \subseteq box'
      /\ \A e \in Ids : taken[e] <= taken'[e]
      /\ \A s \in box' : s \in box \/ (s.event \in dlq /\ s.n \in 1..taken'[s.event])
      /\ \A e \in dlq : (\E s \in box : s.event = e)
                        \/ \E s \in box' : s.event = e /\ s.n = taken[e] + 1
      /\ \A e \in Ids : taken[e] = 0 /\ taken'[e] > 0 => e \in dlq
  BY <1>1, <1>3, InsertFacts DEF Requeue
<1>5. \A e \in Ids : taken[e] \in Nat /\ taken'[e] \in Nat
  BY <1>2, <1>4, EventFacts
<1>6. Typed'
  BY <1>1, <1>2, <1>4 DEF Typed
<1>7. overtaken' = overtaken \cup (dlq \cap EventsOf(box))
  BY DEF Requeue
<1>8. ASSUME NEW e \in Ids, e \in dlq \cup received \cup cleared \cup overtaken,
             NEW n \in 0..taken[e]
      PROVE  Safe(e, n)'
  <2>1. CASE e \in received \cup cleared \cup overtaken
    BY <1>1, <1>7, <2>1 DEF Safe
  <2>2. CASE e \in dlq /\ \E s \in box : s.event = e
    <3>1. e \in EventsOf(box)
      BY <2>2 DEF EventsOf
    <3> QED
      BY <1>7, <2>2, <3>1 DEF Safe
  <2>3. CASE e \in dlq /\ \E s \in box' : s.event = e /\ s.n = taken[e] + 1
    <3>1. PICK s \in box' : s.event = e /\ s.n = taken[e] + 1
      BY <2>3
    <3>2. s.n > n
      BY <1>5, <3>1
    <3> QED
      BY <3>1, <3>2 DEF Safe
  <2> QED
    BY <1>4, <1>8, <2>1, <2>2, <2>3
<1>9. \A s \in box : \E w \in box' : w.event = s.event /\ w.n >= s.n
  <2>1. \A s \in box : s.n \in Nat
    BY <1>2 DEF Typed, Rows
  <2> QED
    BY <1>4, <2>1
<1>10. Grows
  <2>1. received \subseteq received' /\ seen <= seen'
    BY <1>1, <1>2 DEF Typed
  <2> QED
    BY <1>1, <1>2, <1>4, <1>6, <1>8, <1>9, <2>1, GrowsIf
<1>11. Reached(cursor)'
  BY <1>1, <1>2, <1>4, <1>5 DEF ExportInv, Reached
<1>12. \A s \in box' : Counted(s)'
  <2> SUFFICES ASSUME NEW s \in box' PROVE Counted(s)'
    OBVIOUS
  <2>1. CASE s \in box
    <3>1. s.event \in Ids /\ s.n \in 1..taken[s.event]
      BY <2>1 DEF ExportInv, Counted
    <3> QED
      BY <1>2, <1>4, <1>5, <3>1 DEF Counted
  <2>2. CASE s \notin box
    BY <1>2, <1>3, <1>4, <2>2 DEF Counted
  <2> QED
    BY <2>1, <2>2
<1>13. \A e \in dlq' : e \in Ids' /\ taken'[e] > 0
  BY <1>1
<1>14. \A e, f \in Ids' : events'[e] % 2 = 0 /\ events'[e] = events'[f] => e = f
  BY <1>1, <1>2 DEF ExportInv
<1>15. \A f \in Ids : ~(taken[f] = 0 /\ taken'[f] > 0)
  BY <1>3, <1>4, <1>5
<1>16. \A y \in Exporters : exp'[y] = exp[y]
  BY <1>1
<1> QED
  BY <1>6, <1>10, <1>11, <1>12, <1>13, <1>14, <1>15, <1>16, Suffices

\* Rows and dead letters that operators clear count as accounted for.
LEMMA OperatorStep ==
  ASSUME ExportInv, ClearDlq \/ Backfill
  PROVE  ExportInv'
<1>1. UNCHANGED <<events, received, exp, taken, overtaken, seen, late>>
  BY DEF ClearDlq, Backfill
<1>2. Ids' = Ids /\ Typed
  BY <1>1 DEF Ids, ExportInv
<1>3. \/ box' = box /\ dlq' = {} /\ cleared' = cleared \cup dlq /\ cursor' = cursor
      \/ box' = {} /\ dlq' = dlq /\ cleared' = cleared \cup EventsOf(box) /\ cursor' = cursor
      \/ box' = box /\ dlq' = dlq /\ cleared' = cleared /\ cursor' = 0
  BY DEF ClearDlq, Backfill
<1>4. Typed' /\ Reached(cursor)'
  BY <1>1, <1>2, <1>3 DEF ExportInv, Typed, Reached
<1>5. \A e \in Ids : e \in dlq \cup received \cup cleared \cup overtaken =>
        \A n \in 0..taken[e] : Safe(e, n)'
  BY <1>1, <1>3 DEF Safe
<1>6. ASSUME NEW s \in box
      PROVE  (\E w \in box' : w.event = s.event /\ w.n >= s.n) \/ Safe(s.event, s.n)'
  <2>1. s.n \in Nat /\ s.event \in EventsOf(box)
    BY <1>2 DEF Typed, Rows, EventsOf
  <2> QED
    BY <1>3, <2>1 DEF Safe
<1>7. \A s \in box' : Counted(s)
  BY <1>3 DEF ExportInv
<1>8. \A e \in dlq' : e \in Ids /\ taken[e] > 0
  BY <1>3 DEF ExportInv
<1>9. \A y \in Exporters : exp'[y] = exp[y]
  BY <1>1
<1>10. received \subseteq received'
  BY <1>1
<1> QED
  BY <1>1, <1>4, <1>5, <1>6, <1>7, <1>8, <1>9, <1>10, Moves


-----------------------------------------------------------------------------
LEMMA AppendFacts ==
  ASSUME NEW S, NEW s \in Seq(S), NEW e \in S
  PROVE  /\ Append(s, e) \in Seq(S)
         /\ Len(s) \in Nat /\ Len(Append(s, e)) = Len(s) + 1
         /\ Append(s, e)[Len(s) + 1] = e
         /\ \A k \in 1..Len(s) : Append(s, e)[k] = s[k]
OBVIOUS

LEMMA FunctionAsSequence ==
  ASSUME NEW N \in Nat, NEW f \in [1..N -> Nat]
  PROVE  f \in Seq(Nat) /\ Len(f) = N
OBVIOUS

\* A new event has no row, and is late if a tick has read past its time.
LEMMA PublishStep ==
  ASSUME ExportInv, NEW t \in Times, Publish(t),
         UNCHANGED <<cursor, box, dlq, received, cleared, overtaken, seen>>,
         exp' \in [Exporters -> Ticks],
         \A y \in Exporters : exp'[y] = exp[y] \/ TickGood(exp[y])'
  PROVE  ExportInv'
<1>1. PICK N \in Nat : N = Len(events) /\ Ids = 1..N
  BY SequenceOfTimes DEF ExportInv, Typed, Ids
<1>2. /\ events' \in Seq(Times) /\ Len(events') = N + 1
      /\ events'[N + 1] = t /\ \A e \in Ids : events'[e] = events[e]
  BY <1>1, AppendFacts DEF Publish, ExportInv, Typed
<1>3. taken \in Seq(Nat) /\ Len(taken) = N
  BY <1>1, FunctionAsSequence DEF ExportInv, Typed
<1>4. /\ taken' \in Seq(Nat) /\ Len(taken') = N + 1
      /\ taken'[N + 1] = 0 /\ \A e \in Ids : taken'[e] = taken[e]
  BY <1>1, <1>3, AppendFacts DEF Publish
<1>5. Ids' = 1..(N + 1)
  BY <1>2 DEF Ids
<1>6. Ids \subseteq Ids' /\ \A e \in Ids' : e \in Ids \/ e = N + 1
  BY <1>1, <1>5
<1>7. taken' \in [Ids' -> Nat]
  BY <1>4, <1>5
<1>8. Typed'
  BY <1>2, <1>7 DEF ExportInv, Typed
<1>9. \A e \in Ids : events[e] \in Nat /\ taken[e] \in Nat
  BY EventFacts DEF ExportInv
<1>10. t \in Nat /\ seen \in Nat
  BY SizesAssumption DEF ExportInv, Typed
<1>11. /\ t % 2 = 0 => \A e \in Ids : events[e] % 2 = 0 => events[e] < t
       /\ late' = IF t <= seen THEN late \cup {N + 1} ELSE late
  BY <1>1 DEF Publish
<1>12. Grows
  <2>1. \A e \in Ids' \ Ids : taken'[e] = 0 /\ (events'[e] > seen \/ e \in late')
    BY <1>2, <1>4, <1>6, <1>10, <1>11
  <2>2. late \subseteq late' /\ received \subseteq received' /\ seen <= seen'
    BY <1>10, <1>11
  <2>3. \A e \in Ids : \A n \in 0..taken[e] : Safe(e, n) => Safe(e, n)'
    BY DEF Safe
  <2>4. \A e \in Ids : events'[e] = events[e] /\ taken[e] <= taken'[e]
    BY <1>2, <1>4, <1>9
  <2> QED
    BY <1>6, <2>1, <2>2, <2>3, <2>4 DEF Grows
<1>13. Reached(cursor)'
  BY <1>4, <1>6 DEF ExportInv, Reached
<1>14. \A r \in box' : Counted(r)'
  BY <1>4, <1>6 DEF ExportInv, Counted
<1>15. \A e \in dlq' : e \in Ids' /\ taken'[e] > 0
  BY <1>4, <1>6 DEF ExportInv
<1>16. ASSUME NEW e \in Ids', NEW f \in Ids', events'[e] % 2 = 0, events'[e] = events'[f]
       PROVE  e = f
  <2>1. CASE e \in Ids /\ f \in Ids
    BY <1>2, <1>16, <2>1 DEF ExportInv
  <2>2. CASE e \in Ids /\ f = N + 1
    <3>1. events[e] = t /\ events[e] % 2 = 0
      BY <1>2, <1>16, <2>2
    <3>2. events[e] < t
      BY <1>11, <2>2, <3>1
    <3> QED
      BY <1>10, <3>1, <3>2
  <2>3. CASE f \in Ids /\ e = N + 1
    <3>1. events[f] = t /\ events[f] % 2 = 0
      BY <1>2, <1>16, <2>3
    <3>2. events[f] < t
      BY <1>11, <2>3, <3>1
    <3> QED
      BY <1>10, <3>1, <3>2
  <2> QED
    BY <1>6, <2>1, <2>2, <2>3
<1>17. \A f \in Ids : ~(taken[f] = 0 /\ taken'[f] > 0)
  BY <1>4, <1>9
<1> QED
  BY <1>8, <1>12, <1>13, <1>14, <1>15, <1>16, <1>17, Suffices

LEMMA CommitStep ==
  ASSUME ExportInv, Commit
  PROVE  ExportInv'
<1>1. PICK t \in Times : Publish(t)
  BY DEF Commit
<1> QED
  BY <1>1, PublishStep DEF Commit, ExportInv, Typed

LEMMA AuditStep ==
  ASSUME ExportInv, NEW x \in Exporters, Audit(x)
  PROVE  ExportInv'
<1>1. IdleTick = [IdleTick EXCEPT !.pc = "idle"]
  BY DEF IdleTick
<1>2. PICK pc \in {"idle", "claim"} : exp' = [exp EXCEPT ![x] = [IdleTick EXCEPT !.pc = pc]]
  BY <1>1 DEF Audit
<1>3. CASE UNCHANGED <<events, taken, late>>
  BY <1>2, <1>3, IdleExport DEF Audit
<1>4. CASE \E t \in {k \in Times : k % 2 = 1} : Publish(t)
  <2>1. PICK t \in Times : Publish(t)
    BY <1>4
  <2>2. PICK u \in Ticks : u = [IdleTick EXCEPT !.pc = pc] /\ TickGood(u)'
    BY IdleGood
  <2>3. /\ exp' \in [Exporters -> Ticks]
        /\ \A y \in Exporters : exp'[y] = exp[y] \/ TickGood(exp[y])'
    BY <1>2, <2>2, OneTick DEF ExportInv
  <2> QED
    BY <2>1, <2>3, PublishStep DEF Audit
<1> QED
  BY <1>3, <1>4 DEF Audit

LEMMA InitExport == Init => ExportInv
<1> SUFFICES ASSUME Init PROVE ExportInv
  OBVIOUS
<1>1. events = <<>> /\ taken = <<>> /\ Ids = {}
  BY DEF Init, Ids
<1>2. events \in Seq(Times) /\ taken \in [Ids -> Nat]
  BY <1>1
<1>3. IdleTick \in Ticks /\ TickGood(IdleTick)
  BY SizesAssumption DEF IdleTick, Ticks, PCs, TickGood
<1>4. exp \in [Exporters -> Ticks] /\ \A x \in Exporters : exp[x] = IdleTick
  BY <1>3 DEF Init
<1>5. Typed
  BY <1>2, <1>4 DEF Typed, Init
<1>6. \A x \in Exporters : TickGood(exp[x])
  BY <1>3, <1>4
<1> QED
  BY <1>1, <1>5, <1>6 DEF ExportInv, Reached, Init

LEMMA StepExport == ExportInv /\ [Next]_vars => ExportInv'
<1> SUFFICES ASSUME ExportInv, [Next]_vars PROVE ExportInv'
  OBVIOUS
<1>1. CASE Commit
  BY <1>1, CommitStep
<1>2. ASSUME NEW x \in Exporters,
             Start(x) \/ Advance(x) \/ Stop(x) \/ Delete(x) \/ Audit(x) \/ Stumble(x) \/ Die(x)
      PROVE  ExportInv'
  BY <1>2, StartStep, AdvanceStep, StopStep, DeleteStep, AuditStep, StumbleStep
<1>3. ASSUME NEW x \in Exporters, NEW S \in SUBSET Ids, NEW B \in SUBSET Ids, Select(x, S, B)
      PROVE  ExportInv'
  BY <1>3, SelectStep
<1>4. ASSUME NEW x \in Exporters, NEW B \in SUBSET box, Deliver(x, B)
      PROVE  ExportInv'
  BY <1>4, DeliverStep
<1>5. ASSUME NEW x \in Exporters, NEW r \in exp[x].rows,
             Take(x, r) \/ GiveUp(x, r) \/ Unbox(x, r)
      PROVE  ExportInv'
  BY <1>5, TakeStep, GiveUpStep, UnboxStep
<1>6. CASE Requeue \/ ClearDlq \/ Backfill
  BY <1>6, RequeueStep, OperatorStep
<1>7. CASE UNCHANGED vars
  <2>1. Ids' = Ids /\ UNCHANGED <<events, taken, cursor, box, dlq, received, exp, cleared,
                                  overtaken, seen, late>>
    BY <1>7 DEF vars, Ids
  <2>2. Typed' /\ Reached(cursor)' /\ seen <= seen'
    BY <2>1 DEF ExportInv, Typed, Reached
  <2> QED
    BY <2>1, <2>2, Quiet
<1> QED
  BY <1>1, <1>2, <1>3, <1>4, <1>5, <1>6, <1>7 DEF Next

\* The invariant from which the two properties below follow.
THEOREM ExportInvHolds == Spec => []ExportInv
BY InitExport, StepExport, PTL DEF Spec

-----------------------------------------------------------------------------
\* However ticks of the export overlap, fail and die, and whatever operators requeue,
\* clear and fill again, an event that was taken from the audit events stays accounted
\* for (processDestination and markFailure of siemWebhook.ts).
THEOREM NotLostHolds == Spec => []NotLost
<1>1. ExportInv => NotLost
  BY DEF ExportInv, NotLost, Safe
<1> QED
  BY <1>1, ExportInvHolds, PTL

\* The cursor only passes over events that became visible after a tick had read past
\* their time, although overlapping ticks and backfills move it back and forth
\* (setCursor of siemWebhook.ts).
THEOREM SkippedHolds == Spec => []OnlyLateSkipped
<1>1. ExportInv => OnlyLateSkipped
  <2> SUFFICES ASSUME ExportInv, NEW e \in Ids, events[e] < Millis(cursor)
               PROVE  taken[e] > 0 \/ e \in late
    BY DEF OnlyLateSkipped
  <2>1. cursor \in Nat /\ Reached(cursor)
    BY DEF ExportInv, Typed
  <2>2. events[e] \in Nat
    BY EventFacts DEF ExportInv
  <2>3. Millis(cursor) \in Nat
    BY <2>1, MillisFacts DEF ExportInv, Reached
  <2>4. events[e] <= Millis(cursor)
    BY <2>2, <2>3
  <2> QED
    BY <2>1, <2>4, BeforeCursor DEF Explained
<1> QED
  BY <1>1, ExportInvHolds, PTL
=============================================================================
