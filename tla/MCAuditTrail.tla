---------------------------- MODULE MCAuditTrail ----------------------------
(* The audit trail for TLC: two requests, two dispatchers. *)
EXTENDS AuditTrail

CONSTANTS q1, q2, d1, d2
=============================================================================
