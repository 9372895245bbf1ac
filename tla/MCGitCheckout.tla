----------------------------- MODULE MCGitCheckout -----------------------------
(* Instances of GitCheckout for TLC.                                             *)
EXTENDS GitCheckout, TLC

(* Builds and lanes are interchangeable: a lane's build is chosen in Init.       *)
Symmetry == Permutations(Builds) \cup Permutations(Lanes)

(* A second build of a branch can skip what the first has run; with a pull       *)
(* request, where every step has more outcomes, a build skips what it ran.       *)
MCMaxSteps == [branch |-> 4, pr |-> 3]

(* A user's build of a branch skips nothing: of the builds that skip there, the  *)
(* ones that a push starts.                                                      *)
MCStartedBy == [branch |-> {"trusted"}, pr |-> Causes]
================================================================================
