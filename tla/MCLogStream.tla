---------------------------- MODULE MCLogStream ----------------------------
(* LogStream on small instances. *)
EXTENDS LogStream, TLC

Symmetry == Permutations(Clients)
=============================================================================
