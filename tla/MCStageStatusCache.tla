--------------------------- MODULE MCStageStatusCache ---------------------------
(* Instances of StageStatusCache for TLC.                                        *)
EXTENDS StageStatusCache, TLC

(* Branches, ids, commits and workspaces are interchangeable; Nested breaks the  *)
(* symmetry of ids, so only the other three are permuted.                        *)
Symmetry == Permutations(Branches) \cup Permutations(Commits) \cup Permutations(Workspaces)
================================================================================
