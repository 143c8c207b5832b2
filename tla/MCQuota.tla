-------------------------------- MODULE MCQuota --------------------------------
(* RecommenderQuota on a small instance: a backoff of two steps in a day of  *)
(* three ticks, so that the long one meets the daily reset.                  *)
EXTENDS RecommenderQuota, TLC

MCBackoffs == <<1, 2>>
Symmetry == Permutations(Iterator)
=============================================================================
