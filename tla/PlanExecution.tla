---------------------------- MODULE PlanExecution ----------------------------
(* What executing a plan promises, without queue, workers or statuses: the *)
(* effects of the steps happen in the order of the plan; a step that fails *)
(* may be tried again, but not once a later step has taken effect; and a   *)
(* risky step takes effect only after an operator has asked for this step. *)
(* It may end anywhere (a step fails for good, the run is canceled, the    *)
(* budget is spent).  The order holds until the plan is let loose; that a  *)
(* risky step has been asked for, always.                                  *)
EXTENDS Naturals

CONSTANTS
    Plan,    \* the steps: 1..n
    Risky,   \* those that need an approval
    Tries    \* how often the effect of each step may happen

VARIABLES
    effects,  \* how often each step's effect has happened
    granted,  \* the risky steps an operator has asked for: approved or continued
    loose     \* the order of the plan is no longer promised

vars == <<effects, granted, loose>>

Init ==
    /\ effects = [s \in Plan |-> 0]
    /\ granted = {}
    /\ loose = FALSE

\* The steps before s have taken effect, and none after it.
Current(s) == \A t \in Plan : IF t < s THEN effects[t] > 0 ELSE t > s => effects[t] = 0

\* An operator approves the next step; a plan that is loose has no next one.
Approve(s) ==
    /\ s \in Risky
    /\ loose' \in {loose, TRUE}
    /\ loose' \/ (Current(s) /\ effects[s] = 0)
    /\ granted' = granted \cup {s}
    /\ UNCHANGED effects

\* The effect of the next step happens, or that of the last one once more.
Execute(s) ==
    /\ loose \/ (Current(s) /\ effects[s] < Tries[s])
    /\ s \in Risky => s \in granted
    /\ effects' = [effects EXCEPT ![s] = @ + 1]
    /\ UNCHANGED <<granted, loose>>

Loosen == loose' = TRUE /\ UNCHANGED <<effects, granted>>

Next == Loosen \/ \E s \in Plan : Approve(s) \/ Execute(s)

Spec == Init /\ [][Next]_vars
=============================================================================
