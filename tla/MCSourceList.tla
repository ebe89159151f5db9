---------------------------- MODULE MCSourceList ----------------------------
(* Small instances of SourceList for TLC.                                  *)
EXTENDS SourceList, TLC

Symmetry == Permutations(Requests) \cup Permutations(Versions)
=============================================================================
