-------------------------------- MODULE NotifyBuild --------------------------------
(* vars/notifyBuildResult.groovy with src/co/elastic/NotificationManager.groovy: what *)
(* a build tells the world when it is over. The notifications are sent one after     *)
(* the other, most of them inside a catchError of their own and all of them inside   *)
(* another; several builds of a pull request do so at the same time, each on a node   *)
(* that it has for itself and whose workspace it finds as the one before left it.     *)
EXTENDS FiniteSets, BuildData

CONSTANTS
    Builds,       \* the builds of one pull request, by number, from 1 on
    Nodes,        \* the nodes that have the label of the step
    Requests,     \* the arguments with which builds call the step
    Unreliable,   \* the files for which Blue Ocean may not give a good answer
    MaxFaults,    \* a bound on the answers to one build that are not good
    MaxFlaky,     \* a bound on the flaky tests of a build that have no issue
    MaxIssues,    \* 3 in the code
    IssueTries    \* 2 in the code: the tries to create an issue

ASSUME BuildNotifyAssumption ==
    /\ Builds \subseteq Nat \ {0} /\ "none" \notin Nodes
    /\ Unreliable \subseteq Asked
    /\ {MaxFaults, MaxFlaky, MaxIssues, IssueTries} \subseteq Nat /\ IssueTries > 0
    /\ Requests \subseteq [aggregate : BOOLEAN,     \* aggregateComments
                           prComment : BOOLEAN,
                           flaky : BOOLEAN,         \* analyzeFlakey, and a jobName
                           titled : BOOLEAN,        \* githubTitle is among the arguments
                           check : BOOLEAN]         \* env.GITHUB_CHECK

VARIABLES
    build,        \* each build: where in the step it is
    comment,      \* the comment that comment.id stands for, or NoComment
    check,        \* the check ".Status": the build that set it, or 0
    workspace     \* each node: the files of its workspace

notifyVars == <<build, comment, check, workspace>>

NotifyPlaces == {"building", "secret", "collect", "report", "analyze", "flaky", "commands",
           "comment", "check", "issue", "telemetry", "clean", "done", "threw"}
Notes == {"report", "blank", "flaky", "commands"}   \* "blank": "", for want of a report
NoComment == [by |-> 0, parts |-> {}]

BuildStates ==
    [at : NotifyPlaces, node : Nodes \cup {"none"}, ask : Requests,
     stale : BOOLEAN,                   \* a file that was read is of an earlier build
     faulty : BOOLEAN,                  \* an answer of Blue Ocean was empty or cut off
     notes : SUBSET Notes,              \* notifications
     flaky : 0..MaxFlaky,               \* the flaky tests still to be looked at
     tries : 0..IssueTries,             \* to create the issue of the next one
     counted : 0..MaxIssues,            \* numberOfCreatedtedIssues
     outer : BOOLEAN,                   \* the catchError around all notifications caught
     left : BOOLEAN]                    \* deleteDir failed

New(ask) ==
    [at |-> "building", node |-> "none", ask |-> ask,
     stale |-> FALSE, faulty |-> FALSE, notes |-> {}, flaky |-> 0, tries |-> 0,
     counted |-> 0, outer |-> FALSE, left |-> FALSE]

NotifyInit ==
    /\ build \in [Builds -> {New(ask) : ask \in Requests}]
    /\ comment = NoComment /\ check = 0
    /\ workspace = [n \in Nodes |-> NoFiles]

At(b, place) == build[b].at = place
BuildBecomes(b, new) == build' = [build EXCEPT ![b] = new]
Goes(b, place) == BuildBecomes(b, [build[b] EXCEPT !.at = place])
LastNoted(b, note, place) ==
    BuildBecomes(b, [build[b] EXCEPT !.at = place, !.notes = {note}])

Noted(b, note, place) ==
    BuildBecomes(b, [build[b] EXCEPT !.at = place, !.notes = @ \cup {note}])

NobodyCatches(b) == BuildBecomes(b, [build[b] EXCEPT !.at = "threw", !.node = "none"])

(* An exception that no catchError of its own stops: the catchError around all       *)
(* notifications does, and what comes after them is done.                           *)
OuterCatches(b) == BuildBecomes(b, [build[b] EXCEPT !.at = "telemetry", !.outer = TRUE])

Free(n) == \A b \in Builds : build[b].node # n

(* node(): a workspace that no other build uses.                                    *)
Begin(b, n) ==
    /\ At(b, "building") /\ Free(n)
    /\ BuildBecomes(b, [build[b] EXCEPT !.at = "secret", !.node = n])
    /\ UNCHANGED <<comment, check, workspace>>

(* The URL of Elasticsearch is read from the vault before any catchError.           *)
ReadSecret(b) ==
    /\ At(b, "secret")
    /\ \/ Goes(b, "collect")
       \/ BuildBecomes(b, [build[b] EXCEPT !.at = "threw", !.node = "none"])
    /\ UNCHANGED <<comment, check, workspace>>

AnswersPossible ==
    {[f \in Asked |-> IF f \in Unreliable THEN given[f] ELSE "good"] :
        given \in {answer \in [Unreliable -> Answers] :
            /\ Cardinality({f \in Unreliable : answer[f] # "good"}) <= MaxFaults
            /\ \A f \in Unreliable \ {"testsErrors"} : answer[f] # "noTests"}}

(* getBuildInfoJsonFiles, which times out after it read some of the files, or all    *)
(* of them. githubTitle is no variable: copying it into data throws.                *)
AfterCollect(ask) == IF ask.titled THEN "telemetry" ELSE "report"

Collect(b) ==
    /\ At(b, "collect")
    /\ \E answer \in AnswersPossible :
       \E files \in {Collected(workspace[build[b].node], answer)} :
          /\ workspace' = [workspace EXCEPT ![build[b].node] = files]
          /\ \E n \in Readable(files), flaky \in 0..MaxFlaky :
             /\ flaky > 0 => n >= 4 /\ files["testsErrors"].form = "good"
             /\ BuildBecomes(b, [build[b] EXCEPT
                    !.at = AfterCollect(build[b].ask), !.outer = build[b].ask.titled,
                    !.flaky = flaky,
                    !.stale = \E i \in 1..n : ~files[ReadOrder[i]].own,
                    !.faulty = \E f \in Asked : answer[f] \in {"empty", "cut"}])
    /\ UNCHANGED <<comment, check>>

CollectFails(b) ==
    /\ At(b, "collect") /\ OuterCatches(b)
    /\ UNCHANGED <<comment, check, workspace>>

(* A comment that is not aggregated has the same file, comment.id, as all others of   *)
(* the step: githubPrComment edits the comment that is there. It may fail.           *)
CommentsNow(b, parts) ==
    IF build[b].ask.aggregate
    THEN UNCHANGED comment
    ELSE comment' = [by |-> b, parts |-> parts] \/ UNCHANGED comment

(* notifyEmail, addGitHubCustomComment and createGitHubComment: the errors of the     *)
(* first two, and of the report and its comment, are caught inside. A report whose     *)
(* template fails, here and once more in notifyPR, is "": that is noted all the same.  *)
Report(b) ==
    /\ At(b, "report")
    /\ IF build[b].ask.prComment
       THEN \E text \in {"report", "blank"} :
                Noted(b, text, "analyze") /\ CommentsNow(b, {text})
       ELSE Goes(b, "analyze") /\ UNCHANGED comment
    /\ UNCHANGED <<check, workspace>>

(* analyzeFlaky. Of an aborted build, or with a query or a template that fails,        *)
(* nothing is noted.                                                                *)
Analyze(b) ==
    /\ At(b, "analyze")
    /\ \/ build[b].ask.flaky /\ Goes(b, "flaky")
       \/ Goes(b, "commands")
    /\ UNCHANGED <<comment, check, workspace>>

(* createFlakyIssue: one more issue for the next test, unless there are enough.      *)
CreateIssue(b) ==
    /\ At(b, "flaky") /\ build[b].flaky > 0 /\ build[b].counted < MaxIssues
    /\ BuildBecomes(b, [build[b] EXCEPT !.flaky = @ - 1, !.tries = 0, !.counted = @ + 1])
    /\ UNCHANGED <<comment, check, workspace>>

(* The next try, or the next test: whether there is an issue is not known.           *)
CreateIssueFails(b) ==
    /\ At(b, "flaky") /\ build[b].flaky > 0 /\ build[b].counted < MaxIssues
    /\ LET last == build[b].tries + 1 = IssueTries
       IN BuildBecomes(b, [build[b] EXCEPT
              !.flaky = IF last THEN @ - 1 ELSE @,
              !.tries = IF last THEN 0 ELSE @ + 1])
    /\ UNCHANGED <<comment, check, workspace>>

EnoughIssues(b) ==
    /\ At(b, "flaky") /\ build[b].flaky > 0 /\ build[b].counted = MaxIssues
    /\ BuildBecomes(b, [build[b] EXCEPT !.flaky = @ - 1])
    /\ UNCHANGED <<comment, check, workspace>>

(* The summary has a comment file of its own, flaky.id; archiving it may throw.      *)
FlakySummary(b) ==
    /\ At(b, "flaky") /\ build[b].flaky = 0
    /\ Noted(b, "flaky", "commands") \/ Goes(b, "commands")
    /\ UNCHANGED <<comment, check, workspace>>

(* notifyGitHubCommandsInPR, and notifySlack, whose errors are caught.               *)
Commands(b) ==
    /\ At(b, "commands")
    /\ IF build[b].ask.prComment
       THEN /\ Noted(b, "commands", "comment") \/ Goes(b, "comment")
            /\ CommentsNow(b, {"commands"})
       ELSE Goes(b, "comment") /\ UNCHANGED comment
    /\ UNCHANGED <<check, workspace>>

(* aggregateGitHubComments and aggregateGitHubCheck. notifyIfNewBuildNotRunning reads  *)
(* nextBuild, which nothing defines outside the tests: the exception is caught and     *)
(* the notification sent. An exception of these two steps reaches the outer catch.     *)
Aggregates(b) == build[b].ask.aggregate /\ build[b].notes # {}

AggregateComments(b) ==
    /\ At(b, "comment")
    /\ IF Aggregates(b)
       THEN LET new == [by |-> b, parts |-> build[b].notes]
            IN \/ comment' = new /\ Goes(b, "check")
               \/ comment' \in {comment, new} /\ OuterCatches(b)
       ELSE UNCHANGED comment /\ Goes(b, "check")
    /\ UNCHANGED <<check, workspace>>

AggregateCheck(b) ==
    /\ At(b, "check")
    /\ IF Aggregates(b) /\ build[b].ask.check
       THEN \/ check' = b /\ Goes(b, "issue")
            \/ check' \in {check, b} /\ OuterCatches(b)
       ELSE UNCHANGED check /\ Goes(b, "issue")
    /\ UNCHANGED <<comment, workspace>>

(* createGitHubIssue, all of it caught.                                             *)
BuildIssue(b) ==
    /\ At(b, "issue") /\ Goes(b, "telemetry")
    /\ UNCHANGED <<comment, check, workspace>>

(* Telemetry, the coverage and the benchmarks, each in a catchError.                 *)
Telemetry(b) ==
    /\ At(b, "telemetry") /\ Goes(b, "clean")
    /\ UNCHANGED <<comment, check, workspace>>

CleanUnlessCaught(b) ==
    /\ At(b, "clean")
    /\ BuildBecomes(b, [New(build[b].ask) EXCEPT !.at = "done", !.notes = build[b].notes])
    /\ workspace' = [workspace EXCEPT ![build[b].node] =
                         IF build[b].outer THEN Left(@) ELSE NoFiles]
    /\ UNCHANGED <<comment, check>>

(* deleteDir, in a catchError as well. The variables of the step are gone.            *)
Clean(b) ==
    /\ At(b, "clean")
    /\ \E fails \in BOOLEAN :
       /\ BuildBecomes(b, [New(build[b].ask) EXCEPT
                         !.at = "done", !.notes = build[b].notes, !.left = fails])
       /\ workspace' = [workspace EXCEPT ![build[b].node] =
                            IF fails THEN Left(@) ELSE NoFiles]
    /\ UNCHANGED <<comment, check>>

Step(b) ==
    \/ \E n \in Nodes : Begin(b, n)
    \/ ReadSecret(b)
    \/ Collect(b) \/ CollectFails(b)
    \/ Report(b) \/ Analyze(b)
    \/ CreateIssue(b) \/ CreateIssueFails(b)
    \/ EnoughIssues(b) \/ FlakySummary(b) \/ Commands(b)
    \/ AggregateComments(b) \/ AggregateCheck(b) \/ BuildIssue(b)
    \/ Telemetry(b) \/ Clean(b)

NotifyNext == \E b \in Builds : Step(b)

NotifySpec == NotifyInit /\ [][NotifyNext]_notifyVars

(* The variables keep their types.                                                  *)
NotifyTypeOK ==
    /\ build \in [Builds -> BuildStates]
    /\ comment \in [by : Builds \cup {0}, parts : SUBSET Notes]
    /\ check \in Builds \cup {0}
    /\ workspace \in [Nodes -> [Files -> Contents]]

SomebodyLeft == \E b \in Builds : build[b].left

(* A build reports of itself: a file of an earlier build is read only after a         *)
(* deleteDir failed, which notifyBuildResult catches.                                *)
ReportsItself == \A b \in Builds : build[b].stale => SomebodyLeft

(* Whichever requests fail, as long as what came is whole the five files can be read  *)
(* and both reports are JSON: the defaults of generate-build-data.sh see to it.       *)
DefaultsHold ==
    \A b \in Builds :
        LET files == workspace[build[b].node]
        IN (build[b].at \in {"report", "clean"} /\ ~build[b].outer
            /\ ~build[b].faulty /\ ~SomebodyLeft)
           => /\ 5 \in Readable(files)
              /\ IsJson(files["report"]) /\ IsJson(files["ciBuild"])

(* The aggregated comment of a build shows all that was noted, whichever of the        *)
(* notifications before it failed; where a report was asked for it is among that,      *)
(* unless its template failed, in whose place a comment has an empty text.            *)
CommentIsComplete ==
    \A b \in Builds :
        (comment.by = b /\ build[b].ask.aggregate)
        => /\ comment.parts = build[b].notes
           /\ build[b].ask.prComment => {"report", "blank"} \cap comment.parts # {}

(* Once anything was told to anybody the step does not throw: no notification can     *)
(* fail the build.                                                                  *)
NoNotificationThrows ==
    \A b \in Builds :
        At(b, "threw") => comment.by # b /\ check # b /\ build[b].counted = 0
====================================================================================
