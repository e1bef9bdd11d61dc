------------------------- MODULE MCWorkflowExecution -------------------------
EXTENDS WorkflowExecution, TLC
Symmetry == Permutations(Workers)
=============================================================================
