----------------------------- MODULE MCStatSync -----------------------------
(* StatSync on small instances; the .cfg files choose the operations. *)
EXTENDS StatSync, TLC

Symmetric == Permutations(Sessions)
=============================================================================
