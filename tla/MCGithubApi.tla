------------------------------- MODULE MCGithubApi -------------------------------
(* Instances of GithubApi for TLC.                                                *)
EXTENDS GithubApi, TLC

Symmetry == Permutations(Branches) \cup Permutations(Pages) \cup Permutations(Tags)
================================================================================
