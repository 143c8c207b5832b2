--------------------------------- MODULE MCCost --------------------------------
(* CostReasoning on small instances.                                        *)
EXTENDS CostReasoning, TLC

Symmetry == Permutations(Caller)
=============================================================================
