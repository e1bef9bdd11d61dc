---------------------------- MODULE MCSiemExport ----------------------------
(* The export for TLC: two ticks at a time. *)
EXTENDS SiemExport, TLC

CONSTANTS x1, x2

Symmetry == Permutations(Exporters)
=============================================================================
