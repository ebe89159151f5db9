---------------------------- MODULE MCCachedPage ----------------------------
(* Small instances of CachedPage for TLC.                                  *)
EXTENDS CachedPage, TLC

Symmetry == Permutations(StateBlocks)
=============================================================================
