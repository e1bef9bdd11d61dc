---------------------------- MODULE AuditLedger ----------------------------
(* What the audit trail of a tenant promises: events are only appended, each *)
(* later than all before it and linked to the one before it, and no request  *)
(* is in it twice.                                                           *)
EXTENDS Naturals, Sequences

CONSTANT Requests

VARIABLE ledger

Entries == [ts : Nat, prev : Nat, req : Requests, row : BOOLEAN]

Init == ledger = <<>>

Add(e) ==
    /\ e \in Entries
    /\ \A i \in 1..Len(ledger) : ledger[i].ts < e.ts /\ ledger[i].req # e.req
    /\ e.prev = Len(ledger)
    /\ ledger' = Append(ledger, e)

Next == Len(ledger') = Len(ledger) + 1 /\ Add(ledger'[Len(ledger')])

Spec == Init /\ [][Next]_ledger
=============================================================================
