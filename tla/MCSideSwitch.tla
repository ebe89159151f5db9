---------------------------- MODULE MCSideSwitch ----------------------------
(* Small instances of SideSwitch for TLC.                                  *)
EXTENDS SideSwitch, TLC

Symmetry == Permutations(Handlers) \cup Permutations(Rules)
=============================================================================
