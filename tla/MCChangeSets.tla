---------------------------- MODULE MCChangeSets ----------------------------
(* Instances of ChangeSets for TLC. *)
EXTENDS ChangeSets

CONSTANTS c1, c2, p1, p2, u1, u2, s1, T, k1, k2

Item(kind, key, value, place, need, evals) ==
  [kind |-> kind, key |-> key, value |-> value, place |-> place,
   need |-> need, evals |-> evals]

\* c1 routes a purpose and sets an artifact policy of the space s1; c2 disables
\* the routing. Both can be released to s1 first, c1 without the artifact policy.
Plans ==
  (c1 :> <<Item("set", k1, 2, T, 2, TRUE), Item("own", k2, 3, s1, 1, FALSE)>>)
    @@ (c2 :> <<Item("off", k1, 1, T, 2, TRUE)>>)

TenantScope == [c \in ChangeSets |-> T]
OneTarget == [c \in ChangeSets |-> <<s1>>]

\* A routing policy of the tenant, nothing else.
Start == [r \in Rows |-> IF r = <<k1, T>> THEN 1 ELSE 0]

\* c2 has been submitted, approved and evaluated, a state Spec reaches.
Prepared(c) ==
  LET n == Len(Planned[c]) IN
  /\ cs = [d \in ChangeSets |-> IF d # c THEN Draft
             ELSE [Submitted(Draft, c, n) EXCEPT !.status = "approved", !.approvals = Subjects]]
  /\ items = [d \in ChangeSets |-> IF d = c THEN n ELSE 0]
  /\ bound = [d \in ChangeSets |-> d = c]
  /\ runs = [d \in ChangeSets |-> IF d = c THEN <<"passed">> ELSE <<>>]

StartedInit ==
  /\ Prepared(c2)
  /\ binds = 0
  /\ settings = Initial
  /\ tx = [p \in Callers |-> Idle]
  /\ log = [c \in ChangeSets |-> <<>>]
  /\ before = [c \in ChangeSets |-> <<>>]
  /\ stale = [c \in ChangeSets |-> FALSE]

StartedSpec == StartedInit /\ [][Next]_vars

Symmetry == Permutations(Callers) \cup Permutations(Subjects)
=============================================================================
