-------------------------------- MODULE MCGraph --------------------------------
(* ArchGraph on small instances: what the runs give its constants.          *)
EXTENDS ArchGraph, TLC

Symmetry == Permutations(Caller) \cup Permutations(Key)
=============================================================================
