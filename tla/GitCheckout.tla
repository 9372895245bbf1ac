------------------------------ MODULE GitCheckout ------------------------------
(* vars/gitCheckout.groovy with githubEnv and githubPrCheckApproved, the stages  *)
(* that are cached under the GIT_BASE_COMMIT it exports (module StageMemo), and  *)
(* withGitRelease with setup-git-release.sh and gitCreateTag, which read it too. *)
(* The builds are those of one job of a multibranch pipeline, for a branch or    *)
(* for a pull request. Jenkins chooses a build's revision when it starts; the    *)
(* branches of the build (lanes here) share its environment, and have work trees *)
(* of their own. Others push, review, and hold a second repository.              *)
EXTENDS Naturals

CONSTANTS
    Builds, Lanes,
    MaxCommits,   \* bound: commits that are pushed and merges that are made, together
    MaxSteps,     \* bound: checkouts, stages and releases of all lanes, by the kind of job
    StartedBy     \* bound: what may start a build, by the kind of job

Jobs == {"branch", "pr"}
Causes == {"user", "trusted", "checked"}

ASSUME CheckoutAssumption ==
    MaxCommits \in Nat \ {0} /\ MaxSteps \in [Jobs -> Nat] /\ StartedBy \in [Jobs -> SUBSET Causes]

VARIABLES
    job,          \* what the job is for: a branch or a pull request
    head,         \* the number of its latest commit on GitHub
    build,        \* revision, cause, environment, cached answer, aborts
    lane,         \* where each lane is, in which build, and its work tree
    steps,        \* how many steps the lanes have begun
    tags,         \* the tags on GitHub, named after the builds
    ran,          \* history: the commits on which the stage succeeded
    request, phase, memo   \* the cached stage, see StageMemo

gitVars == <<job, head, build, lane, steps, tags, ran, request, phase, memo>>
stages == <<request, phase, memo, ran>>
github == <<job, head>>

Repos   == {"own", "other"}
Unset   == <<"null", 0>>               \* how an unset variable reads; no revision, no ref
(* The n-th commit of the branch, or of the pull request: then it is what is     *)
(* built, whether Jenkins merges it with the target branch or not.               *)
Own     == {<<"own", n>> : n \in 1..MaxCommits}
Merge(n) == <<"own", MaxCommits + n>>  \* a commit that a lane makes for a mergeTarget
Merges  == {Merge(n) : n \in 1..MaxCommits}
Foreign == <<"other", 1>>              \* what the second repository is checked out at
ForeignPr == <<"other", 2>>            \* its pull request of the same number, if it has one
Shas    == Own \cup Merges \cup {Foreign, ForeignPr, Unset}

Memo == INSTANCE StageMemo WITH Clients <- Lanes, Stages <- Shas

InCheckout == {"refs", "env", "check", "sleep"}
InRelease  == {"tag", "push", "rollback", "undo"}
LanePlaces == {"out", "failed", "stopped"} \cup InCheckout \cup InRelease

BuildStates ==
    [rev : Own \cup {Unset}, cause : Causes, url : Repos \cup {"none"}, base : Shas,
     reviews : {"unread", "yes", "no"}, aborts : 0..2,
     seen : SUBSET Shas]    \* history: what it checked out, or fetched as its pull request

LaneStates ==
    [at : LanePlaces, of : Builds, repo : Repos \cup {"none"}, commit : Shas, ref : Shas,
     upstream : BOOLEAN, tag : Shas]

IsPR == job = "pr"
B(l) == build[lane[l].of]

GitInit ==
    /\ job \in Jobs
    /\ head = 1
    /\ build = [b \in Builds |-> [rev |-> Unset, cause |-> "checked", url |-> "none", base |-> Unset,
                                 reviews |-> "unread", aborts |-> 0, seen |-> {}]]
    /\ lane \in [Lanes -> {[at |-> "out", of |-> b, repo |-> "none", commit |-> Unset, ref |-> Unset,
                            upstream |-> FALSE, tag |-> Unset] : b \in Builds}]
    /\ steps = 0
    /\ tags = {}
    /\ ran = {}
    /\ request = [l \in Lanes |-> [stage |-> Unset, insists |-> FALSE]]
    /\ Memo!Init

LaneBecomes(l, new) == lane' = [lane EXCEPT ![l] = new]
Goto(l, place) == lane' = [lane EXCEPT ![l].at = place]
Export(l, env) == build' = [build EXCEPT ![lane[l].of] = env]

(* doStop() interrupts what the lanes of the build are at; the code counts on    *)
(* the second one (githubPrCheckApproved.groovy:67).                             *)
Alive(l) == B(l).rev # Unset /\ B(l).aborts < 2

(* A lane that is between two steps of its pipeline begins another.              *)
Begins(l, from) ==
    /\ Alive(l) /\ lane[l].at \in from /\ phase[l] \in Memo!Idle
    /\ steps < MaxSteps[job]
    /\ steps' = steps + 1

LaneAt(l, place) == Alive(l) /\ lane[l].at = place /\ UNCHANGED steps

(* The build starts, for the latest commit: by a user, who insists on every      *)
(* stage; by an allowed comment or another job; or by a push or its own job.     *)
Start(b, cause) ==
    /\ build[b].rev = Unset /\ cause \in StartedBy[job] /\ (cause = "checked" => IsPR)
    /\ \E l \in Lanes : lane[l].of = b
    /\ build' = [build EXCEPT ![b].rev = <<"own", head>>, ![b].cause = cause]
    /\ lane' = [l \in Lanes |-> IF lane[l].of = b THEN [lane[l] EXCEPT !.commit = <<"own", head>>]
                                                  ELSE lane[l]]
    /\ UNCHANGED <<github, steps, tags, stages>>
--------------------------------------------------------------------------------
(* A repo that is given as an argument sets an unset GIT_URL, whatever is        *)
(* checked out then.                                                             *)
UrlGiven(l, arg) == IF B(l).url = "none" THEN arg ELSE B(l).url

(* What the ways of gitCheckout have in common; a pipeline may try again after a *)
(* failure. The directory is empty, or its .git stays.                           *)
CheckedOut(l, repo, commit, arg) ==
    /\ Begins(l, {"out", "failed"})
    /\ \E old \in {[lane[l] EXCEPT !.upstream = FALSE, !.tag = Unset], lane[l]} :
          LaneBecomes(l, [old EXCEPT !.at = "refs", !.repo = repo, !.commit = commit])
    /\ Export(l, [B(l) EXCEPT !.url = UrlGiven(l, arg), !.seen = @ \cup {commit}])
    /\ UNCHANGED <<github, tags, stages>>

(* checkout scm: the revision of the build, whatever was pushed since.           *)
CheckoutScm(l) == CheckedOut(l, "own", B(l).rev, "none")

(* The branch as it is now, or a new merge of it into the mergeTarget, which     *)
(* takes the place of a push in the bound.                                       *)
Unmade(n) == \A b \in Builds : Merge(n) \notin build[b].seen
Latest == {<<"own", head>>} \cup {Merge(n) : n \in {m \in head + 1..MaxCommits : Unmade(m)}}

(* With shallow, depth, reference, mergeTarget, mergeRemote, credentialsId or    *)
(* repo, and no branch: the job's own scm without its extensions, and so without *)
(* its revision. A repo does not change what is checked out.                     *)
CheckoutCustomised(l) ==
    \E commit \in Latest, arg \in Repos \cup {"none"} : CheckedOut(l, "own", commit, arg)

(* With branch, repo and credentialsId: that branch, here of the job or of the   *)
(* other repository.                                                             *)
CheckoutBranch(l) ==
    \E repo \in Repos :
        \E commit \in IF repo = "own" THEN Latest ELSE {Foreign} :
            CheckedOut(l, repo, commit, repo)

(* With a branch, and without repo or credentialsId: an error.                   *)
CheckoutRefused(l) ==
    /\ Begins(l, {"out", "failed"})
    /\ \E arg \in Repos \cup {"none"} : Export(l, [B(l) EXCEPT !.url = UrlGiven(l, arg)])
    /\ Goto(l, "failed")
    /\ UNCHANGED <<github, tags, stages>>

(* setGitRepoEnvironment: GIT_URL, and so ORG_NAME and REPO_NAME, are those of   *)
(* the first checkout of the build.                                              *)
UrlOf(l) == IF B(l).url = "none" THEN lane[l].repo ELSE B(l).url

(* What refs/pull/N/head is at GitHub, in the repository of GIT_URL.             *)
PullRefs(repo) == IF repo = "own" THEN {<<"own", head>>} ELSE {ForeignPr, Unset}

(* fetchPullRefs: the pull request as it is now.                                 *)
Refs(l) ==
    /\ LaneAt(l, "refs")
    /\ \E ref \in IF IsPR THEN PullRefs(UrlOf(l)) ELSE {Unset} :
          /\ LaneBecomes(l, [lane[l] EXCEPT !.at = "env", !.ref = ref])
          /\ Export(l, [B(l) EXCEPT !.url = UrlOf(l), !.seen = @ \cup ({ref} \ {Unset})])
    /\ UNCHANGED <<github, tags, stages>>

(* A user's, an allowed commenter's or another job's build is not checked, and   *)
(* without a pull request there is nothing to check.                             *)
Unchecked(l) == B(l).cause # "checked"

(* Mutant: the branch as it is on GitHub, like the pull request.                 *)
BaseOnGithub(l) == IF IsPR THEN lane[l].ref ELSE <<"own", head>>

(* getBaseCommit: of a pull request its fetched head, of a branch what HEAD is.  *)
BaseCommit(l) == IF IsPR THEN lane[l].ref ELSE lane[l].commit

(* githubEnv: GIT_BASE_COMMIT is that of the latest checkout, of any lane.       *)
Env(l) ==
    /\ LaneAt(l, "env")
    /\ BaseCommit(l) # Unset
    /\ Export(l, [B(l) EXCEPT !.base = BaseCommit(l)])
    /\ LaneBecomes(l, [lane[l] EXCEPT !.at = IF Unchecked(l) THEN "out" ELSE "check", !.ref = Unset])
    /\ UNCHANGED <<github, tags, stages>>

(* githubPrCheckApproved: the author, reviews and permissions make the pull      *)
(* request an approved one or not at this time; githubApiCall's cache gives the  *)
(* same answer as long as the build lives.                                       *)
Approves(l) ==
    /\ LaneAt(l, "check") /\ B(l).reviews # "no"
    /\ Export(l, [B(l) EXCEPT !.reviews = "yes"])
    /\ Goto(l, "out")
    /\ UNCHANGED <<github, tags, stages>>

(* abortBuild: whatever is not waiting in a step may miss it.                    *)
Aborts(l) ==
    /\ LaneAt(l, "check") /\ B(l).reviews # "yes"
    /\ Export(l, [B(l) EXCEPT !.reviews = "no", !.aborts = 1])
    /\ Goto(l, "sleep")
    /\ UNCHANGED <<github, tags, stages>>

(* Mutant: it is aborted once.                                                   *)
GoOn(l) ==
    /\ LaneAt(l, "sleep")
    /\ Goto(l, "out")
    /\ UNCHANGED <<github, build, tags, stages>>

(* sleep 5, abortBuild again, and the result is not looked at.                   *)
AbortAgain(l) ==
    /\ LaneAt(l, "sleep")
    /\ Export(l, [B(l) EXCEPT !.aborts = 2])
    /\ Goto(l, "out")
    /\ UNCHANGED <<github, tags, stages>>

(* A command on the agent or a request fails: the step throws.                   *)
CheckoutFails(l) ==
    /\ lane[l].at \in {"refs", "env", "check"} /\ LaneAt(l, lane[l].at)
    /\ LaneBecomes(l, [lane[l] EXCEPT !.at = "failed", !.ref = Unset])
    /\ UNCHANGED <<github, build, tags, stages>>

Interrupt(l) ==
    /\ B(l).aborts > 0 /\ lane[l].at # "stopped"
    /\ LaneBecomes(l, [lane[l] EXCEPT !.at = "stopped", !.ref = Unset])
    /\ UNCHANGED <<github, build, steps, tags, stages>>
--------------------------------------------------------------------------------
(* stageStatusCache in the lane: it asks with GIT_BASE_COMMIT as it is then, and *)
(* runs its body in the work tree.                                               *)
AskStage(l) ==
    /\ Begins(l, {"out"})
    /\ Memo!Ask(l)
    /\ request'[l] = [stage |-> B(l).base, insists |-> B(l).cause = "user"]
    /\ UNCHANGED <<github, build, lane, tags, ran>>

RunStage(l) ==
    /\ LaneAt(l, "out") /\ Memo!Run(l)
    /\ ran' = ran \cup {lane[l].commit}
    /\ UNCHANGED <<github, build, lane, tags>>

GoOnStage(l) ==
    /\ LaneAt(l, "out") /\ (Memo!Skip(l) \/ Memo!Finish(l) \/ Memo!Fail(l))
    /\ UNCHANGED <<github, build, lane, tags, ran>>
--------------------------------------------------------------------------------
(* A reset finds the commits of the work tree's repository and of that of        *)
(* GIT_URL; a merge only where it was made, and there it is still checked out.   *)
InTree(l, commit) ==
    /\ commit[1] \in {lane[l].repo, B(l).url}
    /\ commit \in Merges => commit = lane[l].commit

(* Mutant: what was pulled stays.                                                *)
Pulled(l) == IF B(l).url = "own" THEN <<"own", head>> ELSE Foreign

(* The script ends with: git reset --hard "${GIT_BASE_COMMIT}".                  *)
Released(l) == B(l).base

(* withGitRelease { gitCreateTag() }, an error without GIT_BASE_COMMIT. Its       *)
(* setup-git-release.sh: fetch, check out BRANCH_NAME, which is a branch only    *)
(* where the job is for one, add the remote upstream, pull, reset.               *)
Setup(l) ==
    /\ Begins(l, {"out"}) /\ B(l).base # Unset
    /\ ~IsPR /\ lane[l].repo # "none" /\ ~lane[l].upstream /\ InTree(l, B(l).base)
    /\ LaneBecomes(l, [lane[l] EXCEPT !.at = "tag", !.commit = Released(l)])
    /\ UNCHANGED <<github, build, tags, stages>>

(* What it leaves in the work tree then does not matter: see Rollback.           *)
SetupFails(l) ==
    /\ Begins(l, {"out"}) /\ B(l).base # Unset
    /\ Goto(l, "undo")
    /\ UNCHANGED <<github, build, tags, stages>>

(* git tag: the name is that of the build, which may be there already.           *)
Tag(l) ==
    /\ LaneAt(l, "tag")
    /\ lane[l].tag = Unset
    /\ LaneBecomes(l, [lane[l] EXCEPT !.at = "push", !.tag = lane[l].commit])
    /\ UNCHANGED <<github, build, tags, stages>>

(* git push --tags, to the repository of GIT_URL; GitHub refuses to move a tag.  *)
Pushed(l) == [build |-> lane[l].of, repo |-> B(l).url, commit |-> lane[l].tag]
Taken(l) == \E t \in tags : t.build = lane[l].of /\ t.repo = B(l).url

PushTag(l) ==
    /\ LaneAt(l, "push") /\ ~Taken(l)
    /\ tags' = tags \cup {Pushed(l)}
    /\ Goto(l, "rollback")
    /\ UNCHANGED <<github, build, stages>>

(* A command of the release fails; a push may have had its effect.               *)
ReleaseFails(l) ==
    /\ lane[l].at \in {"tag", "push"} /\ LaneAt(l, lane[l].at)
    /\ Goto(l, "undo")
    /\ UNCHANGED <<github, build, tags, stages>>

(* finally: both remotes get a URL without credentials, so that upstream exists  *)
(* from now on, added or not. After a failure the step throws.                   *)
Rollback(l) ==
    /\ lane[l].at \in {"rollback", "undo"} /\ LaneAt(l, lane[l].at)
    /\ LaneBecomes(l, [lane[l] EXCEPT !.at = IF @ = "undo" THEN "failed" ELSE "out",
                                      !.upstream = TRUE])
    /\ UNCHANGED <<github, build, tags, stages>>
--------------------------------------------------------------------------------
Push ==
    /\ head < MaxCommits /\ Unmade(head + 1)
    /\ head' = head + 1
    /\ UNCHANGED <<job, build, lane, steps, tags, stages>>

GitTerminated ==
    /\ \A l \in Lanes :
          \/ lane[l].at = "stopped"
          \/ lane[l].at \in {"out", "failed"} /\ phase[l] \in Memo!Idle /\ steps = MaxSteps[job]
    /\ UNCHANGED gitVars

LaneStep(l) ==
    \/ CheckoutScm(l) \/ CheckoutCustomised(l) \/ CheckoutBranch(l) \/ CheckoutRefused(l)
    \/ Refs(l) \/ Env(l) \/ Approves(l) \/ Aborts(l) \/ AbortAgain(l) \/ CheckoutFails(l)
    \/ AskStage(l) \/ RunStage(l) \/ GoOnStage(l)
    \/ Setup(l) \/ SetupFails(l) \/ Tag(l) \/ PushTag(l) \/ ReleaseFails(l) \/ Rollback(l)
    \/ Interrupt(l)

GitNext ==
    \/ \E b \in Builds, cause \in Causes : Start(b, cause)
    \/ \E l \in Lanes : LaneStep(l)
    \/ Push \/ GitTerminated

GitSpec == GitInit /\ [][GitNext]_gitVars
--------------------------------------------------------------------------------
GitTypeOK ==
    /\ job \in Jobs /\ head \in 1..MaxCommits
    /\ build \in [Builds -> BuildStates]
    /\ lane \in [Lanes -> LaneStates]
    /\ steps \in 0..MaxSteps[job]
    /\ tags \subseteq [build : Builds, repo : Repos, commit : Shas]
    /\ ran \subseteq Shas
    /\ request \in [Lanes -> Memo!Requests] /\ memo \subseteq Shas
    /\ phase \in [Lanes -> Memo!Idle \cup {"asked", "ran"}]

(* A build may mislead others about a commit that it has seen when it has seen   *)
(* another one than its revision, since a push, a merge or another repository    *)
(* came in between: for a pull request, because GIT_BASE_COMMIT is what was      *)
(* fetched and not what was checked out (githubEnv.groovy:38); for a branch,     *)
(* because it is that of the latest checkout in any of several lanes.            *)
Alone(b) == \A l, o \in Lanes : lane[l].of = b /\ lane[o].of = b => l = o
Misleads(b) == (IsPR \/ ~Alone(b)) /\ ~(build[b].seen \subseteq {build[b].rev})
Misled(commit) == \E b \in Builds : Misleads(b) /\ commit \in build[b].seen

(* A lane skips its stage only if the stage succeeded on the commit that is in   *)
(* its work tree, in whichever build and lane: unless somebody was misled about  *)
(* the commit that it asks for, or it asks before any checkout                   *)
(* (stageStatusCache.groovy:31).                                                 *)
SkippedWasRun ==
    [][\A l \in Lanes :
          phase'[l] = "skipped" /\ phase[l] # "skipped"
          /\ request[l].stage # Unset /\ ~Misled(request[l].stage)
          => lane[l].commit \in ran]_gitVars

(* A tag is at a commit that the build which pushed it had checked out, however  *)
(* the branch moved meanwhile ("to avoid commit injection",                      *)
(* setup-git-release.sh:70).                                                     *)
TagIsBuilt == \A t \in tags : t.commit \in build[t.build].seen

(* A lane of an unapproved pull request does not get past its checkout: who      *)
(* does was trusted or approved by the first answer that the build got, or has   *)
(* nothing left but to be stopped.                                               *)
UnapprovedStops ==
    \A l \in Lanes :
        /\ lane[l].at \in {"out"} \cup InRelease /\ lane[l].repo # "none"
        /\ ~Unchecked(l)
        => B(l).reviews = "yes" \/ B(l).aborts = 2
================================================================================
