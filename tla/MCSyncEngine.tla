---------------------------- MODULE MCSyncEngine ----------------------------
(* Instances of SyncEngine for TLC. *)
EXTENDS SyncEngine, TLC

CONSTANTS q1, q2, r1, c1

\* All operations are of one client and patch one record.
OneRecord == [o \in Ops |-> r1]
OneClient == [o \in Ops |-> c1]

Symmetry == Permutations(Requests)
=============================================================================
