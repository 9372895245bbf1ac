------------------------------ MODULE MCGithubNotify ------------------------------
(* Instances of GithubNotify for TLC. Each block asks for at most three new check  *)
(* runs.                                                                           *)
EXTENDS GithubNotify, TLC

Symmetry == Permutations(Blocks) \cup Permutations(Names)

ASSUME EnoughRuns == MaxRuns >= 3 * Cardinality(Blocks)
================================================================================
