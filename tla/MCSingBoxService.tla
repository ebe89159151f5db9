-------------------------- MODULE MCSingBoxService --------------------------
(* Small instances of SingBoxService for TLC.                              *)
EXTENDS SingBoxService, TLC

Symmetry == Permutations(Requests) \cup Permutations(Rules)
=============================================================================
