------------------------------- MODULE MCPrComment -------------------------------
(* Instances of PrComment for TLC: ids 4 and 5 do not fit, and the last comments  *)
(* are beyond the first page.                                                     *)
EXTENDS PrComment, TLC

Symmetry == Permutations(Builds)
================================================================================
