--------------------------- MODULE MCScanRegistry ---------------------------
(* Small instances of ScanRegistry for TLC.                                *)
EXTENDS ScanRegistry, TLC

Symmetry == Permutations(Handlers)
=============================================================================
