------------------------------- MODULE MCNotifyBuild -------------------------------
(* Instances of NotifyBuild for TLC: two builds, which meet on one node.   *)
EXTENDS NotifyBuild

Default == [aggregate |-> TRUE, prComment |-> TRUE, flaky |-> TRUE, titled |-> FALSE, check |-> TRUE]
Separate == [Default EXCEPT !.aggregate = FALSE, !.flaky = FALSE]
Titled == [Default EXCEPT !.titled = TRUE]
Silent == [Default EXCEPT !.prComment = FALSE, !.check = FALSE]

MCRequests == {Default, Separate, Titled, Silent}
====================================================================================
