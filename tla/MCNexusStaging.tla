----------------------------- MODULE MCNexusStaging -----------------------------
(* Instances of NexusStaging for TLC: "apm" is a prefix of "apmagent", and c1    *)
(* and c2 release one of each.                                                   *)
EXTENDS NexusStaging, TLC

CONSTANTS c1, c2

Symmetry == Permutations(Repos)

TheGroups     == {"apm", "apmagent"}
TheGroupOf    == [c \in Clients |-> IF c = c1 THEN "apm" ELSE "apmagent"]
TheStartsWith == [apm |-> {"apm", "apmagent"}, apmagent |-> {"apmagent"}]
TheArtifactOf == [c \in Clients |-> "tracer"]
================================================================================
