------------------------------- MODULE GithubNotify -------------------------------
(* vars/withGithubNotify.groovy: a block that shows GitHub how it began and how it *)
(* ended, either with commit statuses (withGithubStatus) or with a check run       *)
(* (withGithubCheck, githubCheck). Any failure of the first or of the success      *)
(* notification is caught like one of the block, and the failure notification      *)
(* follows. Blocks of several builds or branches share the commit, and may share a *)
(* name; blocks of different commits have nothing in common.                       *)
EXTENDS Naturals, FiniteSets

CONSTANTS
    Blocks,       \* executions of withGithubNotify
    Names,        \* contexts, or check names, of one commit
    Tries,        \* 2 in the code: numberOfRetries of a status
    PageSize,     \* 30 at GitHub: a list shows no more check runs of a commit
    MaxRuns       \* a bound on the check runs that GitHub is asked to create

ASSUME NotifyAssumption == Tries \in Nat \ {0} /\ {PageSize, MaxRuns} \subseteq Nat

VARIABLES
    block,        \* each execution: its arguments and how far it is
    status,       \* GitHub's commit status of each name
    runs          \* GitHub's check runs, by id

vars == <<block, status, runs>>

Values == {"begun", "success", "failure"}    \* PENDING or neutral; SUCCESS; FAILURE
Places == {"start", "post", "token", "lookup", "send", "body", "returned", "threw", "killed"}
Ids == 1..MaxRuns                            \* GitHub's ids, in the order of creation

BlockStates ==
    [name : Names,
     check : BOOLEAN,                        \* check runs, not statuses
     ignore : BOOLEAN,                       \* ignoreGitHubFailures, of statuses only
     at : Places,
     shows : Values,                         \* the current or last notification
     i : 0..Tries,                           \* notifyMap's counter
     found : 0..MaxRuns,                     \* checkRunId, 0 for none
     body : {"unrun", "passed", "failed"},
     missed : BOOLEAN,                       \* some lookup of check runs failed
     lost : BOOLEAN]                         \* the last notification failed

Nobody == [value |-> "none"]                 \* no status, no run
Shown == [value : Values, by : Blocks, name : Names]

Init ==
    /\ block \in [Blocks ->
           [name : Names, check : BOOLEAN, ignore : BOOLEAN, at : {"start"}, shows : {"begun"},
            i : {0}, found : {0}, body : {"unrun"}, missed : {FALSE}, lost : {FALSE}]]
    /\ \A b \in Blocks : block[b].check => ~block[b].ignore
    /\ status = [x \in Names |-> Nobody]
    /\ runs = [r \in Ids |-> Nobody]

Become(b, new) == block' = [block EXCEPT ![b] = new]
Live(b) == block[b].at \notin {"returned", "threw", "killed"}
Written(b) == [value |-> block[b].shows, by |-> b, name |-> block[b].name]
Created == {r \in Ids : runs[r] # Nobody}
RunsOf(x) == {r \in Created : runs[r].name = x}

(* withGithubNotify takes check runs if GITHUB_CHECK is true and it knows the      *)
(* commit, and statuses otherwise.                                                 *)
First(b) == IF block[b].check THEN "token" ELSE "post"

(* Without a context, or with a tab it does not know, the step is an error before  *)
(* the try.                                                                        *)
Start(b) ==
    /\ block[b].at = "start"
    /\ \E at \in {First(b), "threw"} : Become(b, [block[b] EXCEPT !.at = at])
    /\ UNCHANGED <<status, runs>>

(* Where the block goes after a notification that returned, and after one that     *)
(* threw: the catch clause notifies of the failure, and throws in the end.         *)
AfterSent(value) ==
    CASE value = "begun" -> "body" [] value = "success" -> "returned" [] value = "failure" -> "threw"

CaughtAgain(b) ==
    Become(b, [block[b] EXCEPT !.at = First(b), !.shows = "failure", !.i = 0, !.lost = TRUE])

Thrown(b) ==
    Become(b, [block[b] EXCEPT !.at = IF block[b].shows = "failure" THEN "threw" ELSE First(b),
                               !.shows = "failure", !.i = 0, !.lost = TRUE])

Returned(b, isLost) ==
    Become(b, [block[b] EXCEPT !.at = AfterSent(block[b].shows), !.i = 0, !.lost = isLost])

(* githubNotify sets the status.                                                   *)
SetStatus(b) == status' = [status EXCEPT ![block[b].name] = Written(b)]

StatusSent(b) ==
    /\ block[b].at = "post"
    /\ SetStatus(b)
    /\ Returned(b, FALSE)
    /\ UNCHANGED runs

NeverIgnored(b) ==
    /\ block[b].at = "post"
    /\ SetStatus(b) \/ UNCHANGED status
    /\ IF block[b].i + 1 < Tries THEN Become(b, [block[b] EXCEPT !.i = block[b].i + 1])
       ELSE Thrown(b)
    /\ UNCHANGED runs

(* It throws, and GitHub may have set the status: again while retry has tries      *)
(* left; then the failure is swallowed if GitHub's failures are ignored.           *)
StatusFails(b) ==
    /\ block[b].at = "post"
    /\ SetStatus(b) \/ UNCHANGED status
    /\ IF block[b].i + 1 < Tries THEN Become(b, [block[b] EXCEPT !.i = block[b].i + 1])
       ELSE IF block[b].ignore THEN Returned(b, TRUE) ELSE Thrown(b)
    /\ UNCHANGED runs

(* githubAppToken, and its failure: no secret in the vault, no token from GitHub.  *)
GetsToken(b) ==
    /\ block[b].at = "token"
    /\ Become(b, [block[b] EXCEPT !.at = "lookup"])
    /\ UNCHANGED <<status, runs>>

NoToken(b) ==
    /\ block[b].at = "token"
    /\ Thrown(b)
    /\ UNCHANGED <<status, runs>>

ForgetsToLook(b) ==
    /\ block[b].at = "lookup"
    /\ Become(b, [block[b] EXCEPT !.at = "send", !.found = 0])
    /\ UNCHANGED <<status, runs>>

(* The runs that may be on the first page of GitHub's list of those of the commit. *)
Pages ==
    IF Cardinality(Created) <= PageSize THEN {Created}
    ELSE {page \in SUBSET Created : Cardinality(page) = PageSize}

(* getPreviousCheckNameRunIdIfExists: the first run of the name on the first page, *)
(* whose order is GitHub's; a run that is on another page is taken for none.       *)
FoundOn(page, x) ==
    LET seen == page \cap RunsOf(x) IN IF seen = {} THEN {0} ELSE seen

Lookup(b) ==
    /\ block[b].at = "lookup"
    /\ \E page \in Pages : \E r \in FoundOn(page, block[b].name) :
           Become(b, [block[b] EXCEPT !.at = "send", !.found = r])
    /\ UNCHANGED <<status, runs>>

(* Its exception is caught, and taken for no run.                                  *)
LookupFails(b) ==
    /\ block[b].at = "lookup"
    /\ Become(b, [block[b] EXCEPT !.at = "send", !.found = 0, !.missed = TRUE])
    /\ UNCHANGED <<status, runs>>

(* setCheckName: a PATCH of the run that was found, or a POST of a new one.        *)
SetCheckName(b) ==
    \E r \in Ids :
        /\ IF block[b].found # 0 THEN r = block[b].found
           ELSE runs[r] = Nobody /\ \A id \in 1..(r - 1) : runs[id] # Nobody
        /\ runs' = [runs EXCEPT ![r] = Written(b)]

CheckSent(b) ==
    /\ block[b].at = "send"
    /\ SetCheckName(b)
    /\ Returned(b, FALSE)
    /\ UNCHANGED status

(* The request fails, perhaps after GitHub did what it asked for.                  *)
CheckFails(b) ==
    /\ block[b].at = "send"
    /\ SetCheckName(b) \/ UNCHANGED runs
    /\ Thrown(b)
    /\ UNCHANGED status

BodyPasses(b) ==
    /\ block[b].at = "body"
    /\ Become(b, [block[b] EXCEPT !.at = First(b), !.shows = "success", !.body = "passed"])
    /\ UNCHANGED <<status, runs>>

SuccessInFinally(b) ==
    /\ block[b].at = "body"
    /\ Become(b, [block[b] EXCEPT !.at = First(b), !.shows = "success", !.body = "failed"])
    /\ UNCHANGED <<status, runs>>

NotCaught(b) ==
    /\ block[b].at = "body"
    /\ Become(b, [block[b] EXCEPT !.at = "threw", !.body = "failed"])
    /\ UNCHANGED <<status, runs>>

(* The body throws, or the build is interrupted in it.                             *)
BodyFails(b) ==
    /\ block[b].at = "body"
    /\ Become(b, [block[b] EXCEPT !.at = First(b), !.shows = "failure", !.body = "failed"])
    /\ UNCHANGED <<status, runs>>

(* The build is killed: no catch clause runs.                                      *)
Kill(b) ==
    /\ Live(b)
    /\ Become(b, [block[b] EXCEPT !.at = "killed"])
    /\ UNCHANGED <<status, runs>>

Terminated == (\A b \in Blocks : ~Live(b)) /\ UNCHANGED vars

Proceed(b) ==
    \/ Start(b) \/ BodyPasses(b) \/ BodyFails(b)
    \/ StatusSent(b) \/ StatusFails(b)
    \/ GetsToken(b) \/ NoToken(b) \/ Lookup(b) \/ LookupFails(b) \/ CheckSent(b) \/ CheckFails(b)

Next == (\E b \in Blocks : Proceed(b) \/ Kill(b)) \/ Terminated

Spec == Init /\ [][Next]_vars

(* A build that is not killed goes on; which way GitHub answers is not promised.   *)
FairSpec == Spec /\ \A b \in Blocks : WF_vars(Proceed(b))
--------------------------------------------------------------------------------
TypeOK ==
    /\ block \in [Blocks -> BlockStates]
    /\ status \in [Names -> Shown \cup {Nobody}]
    /\ runs \in [Ids -> Shown \cup {Nobody}]
    /\ \A b \in Blocks : block[b].at = "body" => block[b].body = "unrun"

(* A success that GitHub shows, as a status or as a check run, was written by a    *)
(* block of that name whose body passed: retries, catch clauses and other blocks   *)
(* of the name make none up.                                                       *)
SuccessIsEarned ==
    \A s \in {status[x] : x \in Names} \cup {runs[r] : r \in Ids} :
        s # Nobody /\ s.value = "success" =>
            block[s.by].body = "passed" /\ block[s.by].name = s.name

(* With ignoreGitHubFailures, "Whether to ignore when the GitHub integration       *)
(* failed", GitHub decides nothing: the body runs, and the step throws only when   *)
(* the body does (or when an argument was wrong).                                  *)
IgnoredFailuresAreHarmless ==
    \A b \in Blocks : block[b].ignore =>
        /\ block[b].at = "returned" => block[b].body = "passed"
        /\ block[b].at = "threw" => block[b].body # "passed"
        /\ block[b].shows # "begun" => block[b].body # "unrun"

(* The status that a block left when it ended is that of its end, unless GitHub    *)
(* refused it: no PENDING of its own stays.                                        *)
LastStatusIsOutcome ==
    \A b \in Blocks :
        LET s == status[block[b].name] IN
        s # Nobody /\ s.by = b /\ ~block[b].lost =>
            /\ block[b].at = "returned" => s.value = "success"
            /\ block[b].at = "threw" => s.value = "failure"

(* b is the only block that uses check runs of its name, its lookups succeeded, and *)
(* the check runs of the commit, of whatever name, still fit the page they read.   *)
Undisturbed(b) ==
    /\ block[b].check /\ ~block[b].missed
    /\ Cardinality(Created) <= PageSize
    /\ \A o \in Blocks \ {b} : block[o].check => block[o].name # block[b].name

(* Such a block has one check run, even if the one that created it was told that   *)
(* it failed, and the run shows in the end how the block ended, unless GitHub      *)
(* refused that.                                                                   *)
OneRunShowsOutcome ==
    \A b \in Blocks : Undisturbed(b) =>
        LET shown == {runs[r].value : r \in RunsOf(block[b].name)} IN
        /\ Cardinality(RunsOf(block[b].name)) <= 1
        /\ block[b].at = "returned" => shown = {"success"}
        /\ block[b].at = "threw" /\ block[b].shows = "failure" /\ ~block[b].lost =>
               shown = {"failure"}

(* Every block comes to its end, however often GitHub fails.                       *)
BlockEnds == \A b \in Blocks : <>~Live(b)
================================================================================
