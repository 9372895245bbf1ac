# A TLA+ verification project for apm-pipeline-library

The repository is a Jenkins shared library: 218 Groovy steps under `vars/`, a few classes
under `src/co/elastic/`, and the scripts and GitHub actions that go with them. A pipeline
calls the steps; a step runs in the Jenkins controller, a command of it (`sh`, `bat`) on an
agent. Steps of many builds, and of parallel branches of one build, run at the same time,
and most of them talk to something that fails, answers late or is shared: GitHub, a Vault, a
Nexus server, a Google bucket, Blue Ocean, Docker, an agent's HOME and workspaces. The GitHub actions
run in the workflows of other repositories: steps of jobs that GitHub schedules, cancels and runs again.

Nothing here is about what a step prints. The models keep the control of the steps (every
guard, early return, `try`, `catch`, `finally` and retry, in their order), make each remote call
a step of its own that may fail with or without its effect, and interleave the actors.

Paths are relative to the root of the repository; `vars/x.groovy:n` is line n.

## 1. Inventory

| part | its state | its operations | talks to | what is hard | what makes it correct |
|---|---|---|---|---|---|
| **stage status cache** `stageStatusCache`, `retryWithSleep`, `isUserTrigger`, `googleStorageUploadExt` | one status file per stage and commit, in the bucket and in workspaces | look up, run or skip the body, save and upload | bucket, workspace shared by branches | a saved file whose upload failed; `deleteDir` and other branches between two steps; `GIT_BASE_COMMIT` not exported | no skip without a success for that commit; what returned is published |
| **Nexus staging** `nexus*Staging*`, `src/co/elastic/Nexus.groovy` | staging repositories of a server | create, find, upload, close, release, drop | Nexus | 5xx after the effect; waits without bound; activity that lags; builds with similar group ids | what a step returns is true of the server |
| **GitHub notifications** `withGithubNotify`, `withGithubStatus`, `withGithubCheck`, `githubCheck` | commit statuses, check runs | begin, success, failure, with retries and lookups | GitHub, a body | a failure of a notification is caught like one of the body; two builds of one commit | a success that is shown was earned; an ignored failure changes nothing |
| **pull request comment** `githubPrComment`, `githubPrLatestComment` | a comment, its id in an artifact | look up, edit, add, save | GitHub, artifacts of builds | ids of 32 bits, stale ids, one page of comments, parallel builds | one comment; never somebody else's |
| **GitHub REST client** `githubApiCall`, `githubReleaseCreate`, `githubReleasePublish`, readers | a cache that lives as long as the build | read, create, publish | GitHub | the key is token and URL, also for a POST | a fresh read is fresh; what was created exists |
| **agent services** `filebeat`, `metricbeat`, `withKindEnv` | containers, a cluster, a file with a container id | start, wait, stop, archive; install, set up, delete | Docker of an agent that builds share | killed builds, stale files, a failure in every clause | what was started is stopped, and archived as asked |
| **workflow runs** `githubWorkflowRun`, `gh` | runs of a workflow, an argument map | trigger, list, view, poll | GitHub | runs of others between one's own; queued runs; a map used twice | the run returned is the call's own, and over |
| **build notifications** `notifyBuildResult`, `NotificationManager`, `getBuildInfoJsonFiles`, `generate-build-data.sh` | the workspace of a notification node, a comment, a check, issues | collect, report, analyse, comment, check, telemetry, clean up | Blue Ocean, Elasticsearch, GitHub, Slack, mail | every request may fail, be empty or cut off; most clauses catch; younger builds | no notification fails the build; the report is of this build and is JSON |
| **credential and tool environments** `withSecretVault`, `withAWSEnv`, `withNpmrc`, ... (26 steps) | files with secrets in HOME, workspace or tmp | install, read the secret, write, log in, body, clean up | Vault, agents shared by branches | nesting, failures before and inside the `try`, two branches with one HOME | nothing stays behind; the body has its secrets; no error is lost |
| **workflow notifications and snapshots** `.github/actions`: `notify-build-status`, `check-dependent-jobs`, `slack-message`, `snapshoty`, `snapshoty-simple` | jobs, their results per attempt, the environment of a container | upload snapshots, combine results, prepare and post a message | GitHub, Slack, Docker, the snapshot bucket | cancelled runs, jobs carried over into a second attempt, a notification that fails itself, names of variables that collide | a green message is earned, a red job is told, the container gets the documented variables |
| **git checkout and release** `gitCheckout`, `githubEnv`, `githubPrCheckApproved`, `withGitRelease`, `gitCreateTag` | work trees, the environment of a build, tags | check out, fetch the pull requests, export, check the approval, reset and tag, push | git, GitHub | pushes between a build's start, its fetch and its release; parallel branches and a second repository over one environment; an abort that comes late | what is skipped was run on what is checked out, what is tagged was checked out, an unapproved change stops |
| Beats stage selection `beatsStages`, `beatsWhen`, `isGitRegionMatch`, `getGitMatchingGroup` | none | decide which stages run | git log, labels, comments | patterns, exclusions, the order of conditions | the selection is that of the documentation |
| matrix `matrix`, `axis`, `src/co/elastic/matrix` | a map of results | generate tasks, run them, collect | parallel branches | excludes, results of parallel tasks in one map | every combination once, every result kept |
| versions `bumpUtils`, `artifactsApi`, `findOldestSupportedVersion`, `getBranchesFromAliases` | none | order and select versions | artifacts API | missing and malformed versions | the selected version is the one described |
| stash, Docker images, build life cycle | bucket, registries, builds | store and take out; push; abort the earlier builds | bucket, registry, Jenkins | repeated tags, a build that aborts while it is aborted | nothing is taken out that was not stored |

`PROJECT.json` lists every component with its files, those that are not modelled too.

How they interact. `githubPrComment`, `withGithubCheck` and `githubCreateIssue` are called by
`notifyBuildResult` and use `githubApiCall`; `retryWithSleep` is below nearly all of them;
`getVaultSecret` is below the credential steps, which pipelines nest around everything else.
`gitCheckout` exports the `GIT_BASE_COMMIT` that `stageStatusCache` and
`withGitRelease` read: GitCheckout composes the three, with the cache in its abstract form StageMemo, which StageStatusCache is shown to implement. Steps of different builds meet only in the outside: in GitHub, the bucket, Nexus, Docker and the
workspaces. Branches of one build also share script fields (the cache of `githubApiCall`). The GitHub actions
meet in a workflow run: `snapshoty-simple` calls `snapshoty`, whose outcome is the `job.status` that `notify-build-status` passes
on to `slack-message`, and the results of jobs are what `check-dependent-jobs` combines.

Hazards, each at its line and with the properties about it, are in `PROJECT.json`.

## 2. Modules

| module | models | by |
|---|---|---|
| StageStatusCache | `stageStatusCache.groovy` and what it calls | branches × workspaces × the bucket |
| StageMemo | what it promises: a memory of successful stages | abstract, also part of GitCheckout |
| StageStatusCacheProofs | theorems about StageStatusCache | |
| GitCheckout | `gitCheckout`, `githubEnv`, `githubPrCheckApproved`, `withGitRelease`, with StageMemo for the stages | builds of one job × their lanes |
| NexusStaging | the seven Nexus steps and the server they expect | clients × repositories |
| NexusStagingProofs | theorems about NexusStaging | |
| GithubNotify | `withGithubNotify` over statuses or check runs | blocks × names |
| GithubNotifyProofs | theorems about GithubNotify, NotifyBuild and BuildData | |
| PrComment | `githubPrComment` | builds of one pull request |
| PrCommentProofs | theorems about PrComment and GithubApi | |
| GithubApi | `githubApiCall` and its callers | branches of one build |
| AgentEnv | `filebeat { withKindEnv { } }` | builds, one after the other, on one agent |
| AgentEnvProofs | theorems about AgentEnv | |
| WorkflowRun | `githubWorkflowRun` | calls × the runs of a workflow |
| WorkflowRunProofs | theorems about WorkflowRun and GitCheckout | |
| BuildData | `generate-build-data.sh`, as functions | pure |
| NotifyBuild | `notifyBuildResult`, `NotificationManager`, on BuildData | builds × nodes |
| CredentialScopes | 26 `with...` steps as shapes of one life cycle | branches × agents |
| CredentialScopesProofs | theorems about CredentialScopes | |
| SnapshotyArgs | the options that `snapshoty/index.js` gives to docker, as functions | pure |
| BuildStatus | a workflow run: `snapshoty-simple`, `notify-build-status`, `check-dependent-jobs`, on SnapshotyArgs | jobs × attempts |
| BuildStatusProofs | theorems about BuildStatus and SnapshotyArgs | |
| MC... | instances for TLC | |

Three modules of proofs extend two components each. The names of these have a prefix where they would clash, so that in
GithubApi, GitCheckout and NotifyBuild the specification is ApiSpec, GitSpec and NotifySpec, with ApiInit, ApiNext and so on.

How to read them. A variable is a function from the actors to a record that says how far each
one is: the field `at` is the program counter, and the actions are the code between two points at
which somebody else can act (a remote call, a command on the agent). Other variables are the
outside: what GitHub, Docker, the bucket or a workspace holds. A remote call has up to three
outcomes: done; failed; failed after it took effect. `PROJECT.json` maps every definition to its lines.
Some fields are histories, kept for the properties only: `failed`, `lost`, `missed`, `trouble`,
`stale`, `since`, `entered`, `own`.

An operator that stands before another one of the same parameters, and is not used, is a plausible
mistake in that other one (`SuccessInFinally` before `BodyFails`, `PollForever` before `Poll`): put in its
place it violates the property it is paired with in `PROJECT.json`. They show that a property can fail.

What each one leaves out:

* **StageStatusCache**: a key is a pair of stage and commit; encoding is left out, but a stage
  name with a slash (`Nested`) is stored below a directory and never found by the lookup, as in the code.
* **GitCheckout**: a commit is a repository and a number: in the order of the pushes, or of a merge. What Jenkins itself merges for a pull request counts as the pull request's commit; the merge
  that a lane makes for a `mergeTarget` is a commit of its own. `gitCheckout` has four ways: the job's scm (`CheckoutScm`), pinned to the build's revision; the job's scm customised
  (`CheckoutCustomised`), whose extensions are replaced, so that it gets the head of that moment or a merge of it; a branch of some repository (`CheckoutBranch`: the job's own branch or one of
  a second repository); and an error (`CheckoutRefused`). A `repo` argument sets an unset `GIT_URL` in each of them, whatever is checked out then. A lane is a branch
  of a build; it has one work tree, and one stage to ask for; after a step that threw it can only check out again. Whether the pull request is approved is GitHub's answer at the build's first
  question. Left out: `GIT_SHA`, `GIT_COMMIT` and `GIT_BUILD_CAUSE`, which no other model reads, the optional status "CI-approved contributor", other local tags, which `git push --tags` pushes too, and Windows.
* **NexusStaging**: contents of artifacts; the seconds between polls. The server is modelled as the steps
  expect it: closing and appearing take time, any request may be answered 5xx.
* **GithubNotify**: texts; a block has one name, the commit and context together. The check runs of the commit, of whatever name, come in pages, of which the lookup reads one
  (`githubCheck.groovy:65`; 30 runs at GitHub, `PageSize` here), in an order that is GitHub's.
* **PrComment**: integers are 32-bit, scaled down to `MaxInt`; an id is converted with `AsInteger` where the code says `as Integer`.
* **GithubApi**: a page is the number of its changes, so that older and newer can be told apart.
* **AgentEnv**: metricbeat has the life of filebeat and is mapped to the same actions.
* **NotifyBuild**: a file is its form (good, empty, cut, default...) and whose it is. A report is a text, or the empty one that is left when its template failed
  (`NotificationManager.groovy:395`), in notifyPR's second try too; that is noted and aggregated like any other (`"blank"`).
* **CredentialScopes**: a step is a record (`Shapes`) with what distinguishes it: where its file
  is, which answers of the Vault it accepts, what it tries again, whether the write is inside its
  `try`, and how its `finally` clause cleans up. The code of one generic step interprets the record.
  Windows and the variants with other arguments are left out.
* **SnapshotyArgs**: a name is the sequence of its prefixes and the rest, which is all that `startsWith` and `replace` see.
* **BuildStatus**: a payload is its status, colour, commit and attempt (colour and commit show what the code puts together; no property reads them); the other outputs, the texts, the masks of the log and the
  credentials of the steps are left out, and so is the message of `snapshoty-simple` to the bots' channel, on which nothing depends.
  A job is the one of `notify-build-status/README.md`: steps of its own, the snapshots, then the notification with `if: always()`.
  A job's matrix, and steps after the notification, are left out. The runner and GitHub are modelled from their documented behaviour.

## 3. Runs

| run | instance | shows |
|---|---|---|
| stage_cache | 2 branches, 2 stages (one nested), 2 commits, 1 workspace, 2 tries, 2 calls each, `GIT_BASE_COMMIT` exported | FilesAreEarned, OkIsPublished, ImplementsMemo (refinement of StageMemo) |
| git_checkout | 2 lanes of 1 or 2 builds, 2 commits and merges in all, a second repository, 4 steps in all for a branch, whose builds a push starts, and 3 for a pull request, whose builds anything starts | SkippedWasRun (an action property), TagIsBuilt, UnapprovedStops |
| nexus_staging | 2 clients of which one's group is a prefix of the other's, 2 ids, 2 tries, 2 steps each | CreatedIsOwn, UploadIsComplete, ClosedWhenOk, StepEnds |
| github_notify | 2 blocks, 1 or 2 names, 2 tries, 6 run ids, a page of 2 | SuccessIsEarned, IgnoredFailuresAreHarmless, LastStatusIsOutcome, OneRunShowsOutcome, BlockEnds |
| pr_comment | 3 builds, ids to 5 with `MaxInt` 3, page of 3, 1 comment of somebody else | OneComment, SavedIsMine, EditsOwnComments |
| github_api | 2 branches, a page, 2 tags, 2 changes, 2 releases | UncachedIsFresh, CacheNeverGoesBack |
| github_api_release | 1 branch | violation of CreatedIsForItsTag |
| agent_env | 3 builds, 3 tries | NoClusterLeft, BeatIsStopped, ArchivedAsAsked, BuildEnds |
| workflow_run | 2 calls, 2 maps, a list of 2, ids to 2, 1 run of others | RunIsOwn, CallEnds |
| notify_build | 2 builds on one node, 4 kinds of arguments, 1 bad answer among 2 files, 2 flaky tests, cap of 1 issue | ReportsItself, DefaultsHold, CommentIsComplete, NoNotificationThrows |
| credential_scopes | 2 branches on one agent, each in one of 13 nests that contain all steps | EnteredIsCleaned, BodyHasItsFile, ErrorsArePassedOn, BodyHasItsSecrets |
| build_status | 2 jobs of 1 snapshot and Status, 2 attempts, 2 troubles, 3 setups | GoodNewsIsEarned, VerdictIsCombined, NoSilentGreen, SnapshotGetsItsEnv, FailureIsTold |

Why the bounds are enough. Everything that goes wrong between two actors needs two of them; the third build of
`pr_comment` and `agent_env` is the one that finds what the first two left. Two tries show the first, the last
and one in between failing (3 in `agent_env`, because the failure count of `setupKind` is compared with 2).
Integers and pages are scaled so that the run passes the limit: ids above `MaxInt`, comments and check runs
beyond the page, a run beyond the list, more flaky tests than issues. A step of `git_checkout` is a whole
checkout, stage or release; four are a checkout and a stage in each of two builds, or two checkouts and a
stage in each of two lanes; three are a checkout in each of two lanes and a stage, or a checkout, a stage and
the same stage again, and keep the run short where a pull request's checkout has more outcomes. A user's build
differs from another only in that it skips nothing, which `stage_cache` shows with all its hazards, and here
the builds of a pull request do. The second commit is the push that comes between, or the merge that is made.
Two attempts let a job's success be carried over into an attempt in which it does not run; two troubles are
one that turns a job red and one that hits its notification. The setups differ in event, channel, status input
and environment, of which one makes docker refuse the options. Deadlock is checked except in `notify_build`
and `credential_scopes`, where every actor runs once and stops; the other modules have a `Terminated` step.
Symmetry is used in runs without liveness, over branches, builds, lanes or commits that no property names. A
module's `TypeOK` describes its variables; it is part of the invariant that is proved, and not among the
properties of a run.

Fairness. Only steps of Jenkins are fair: a branch whose next step is ready is scheduled (`WF` of
each actor's `Proceed`, `Step`, `Send`). In `NexusStaging` the server's own progress is fair too: without
it the two waits without bound (see below) never end, and the property says so ("when the server
answers in the end"). In `BuildStatus` the runner goes on
with a job that it began (`WF` of each job's `Step`: a step that hangs is ended by GitHub's timeout for jobs, which is a failure). No step of the environment is promised elsewhere: not a run of GitHub completing, not a
release of the workspace, not an error. A killed build does not end; `BuildEnds` excludes it.

## 4. Findings

A disagreement of the code with its own words is shown by a run that ends in a counterexample:

* `githubReleaseCreate.groovy:80` (github_api_release): a second release in one build is answered from the cache with
  the first and never created.

Others were met while modelling. The models contain them (a property excludes the case, or none
forbids it), or they are arguments and lines outside of the models:

* `nexusCreateStagingRepository.groovy:86`: the loop that waits for the new repository never counts its attempts.
* `nexusReleaseStagingRepository.groovy:63`: the branch for 5xx answers calls a method that `Nexus` does not have.
* `nexusUploadStagingArtifact.groovy:36`: the group id is used as the artifact id (`PathArtifact`).
* `nexusCloseStagingRepository.groovy:87`: the last close activity may be that of an earlier close.
* `stageStatusCache.groovy:31`: without `GIT_BASE_COMMIT` the key is that of the string "null" for every
  commit; SkipIsSound (proved, not among a run's properties: in the run ImplementsMemo says more) and the refinement are about builds in which it is exported.
  In GitCheckout it is a lane that asks before its build has checked out, which SkippedWasRun excepts.
* `githubEnv.groovy:39`: on a pull request `GIT_BASE_COMMIT` is the head that was fetched, not the one that Jenkins checked out. With a push between the two, the stages of the build are
  saved for a commit on which they never ran, and the build of that commit skips them, although the stage cache skips "when we know that we executed that stage for that commit" (`stageStatusCache.txt:2`).
  SkippedWasRun excepts the commits that such a build saw (`Misleads`); without that it is violated.
* `githubEnv.groovy:66`, `gitCheckout.groovy:47`: `GIT_URL` (and so `ORG_NAME`, `REPO_NAME`) stay those of the first checkout of a build, or of the first `repo` argument, and `GIT_BASE_COMMIT` is overwritten by every
  checkout, of any parallel branch. With two repositories refs are fetched and tags pushed for one and the commit is that of the other; on branches the doc has `GIT_BASE_COMMIT` "the same as GIT_COMMIT and GIT_SHA", which are set once.
* `gitCheckout.groovy:85`: with any of `shallow`, `depth`, `reference`, `mergeTarget`, `mergeRemote`, `repo` and `credentialsId`, and no `branch`, the extensions of the job's scm are replaced, and with them the build's revision is lost:
  what is checked out is the branch's head of that moment. After a push two parallel branches of a build have different commits and one `GIT_BASE_COMMIT`, so that one may skip a stage that never ran on what it has;
  SkippedWasRun excepts the commits that a build of several lanes saw beside its revision. A release is of what was checked out, which TagIsBuilt says, and need not be of the build's revision.
* `githubCheck.groovy:65`: the lookup reads one page of the check runs of a commit. With more of them it may not find its own, and a second run of the name is created (OneRunShowsOutcome excepts that).
* `NotificationManager.groovy:395`: a template that fails (`snapshotyUrl` does without `GIT_BASE_COMMIT`) leaves an empty report, and the aggregated comment is sent with an empty text in its place.
* `withGitRelease.groovy:53`: the roll-back sets `remote.upstream.url`, so that a remote `upstream` exists in the work tree from then on, even if the script failed before it added it: a second `withGitRelease` there
  always fails at `git remote add upstream` (`setup-git-release.sh:55`), a retry too.
* `githubPrCheckApproved.groovy:71`: `gitCheckout` ignores the answer, so between the second abort and its effect an unapproved build goes on (UnapprovedStops counts it as stopped).
* `withKindEnv.groovy:55`: the first two failures of the cluster set-up are swallowed, so the retry around it never
  tries again and the body runs without a cluster, although line 48 wants resilience "when setup does not work the very first time".
* `NotificationManager.groovy:91`: an issue whose creation failed after its effect is created again and not
  counted.
* `NotificationManager.groovy:251,272`: comments that are not aggregated share the file `comment.id`.
* `notifyBuildResult.groovy:221`: `nextBuild` is defined nowhere, so the guard that
  leaves the comment to a younger build always lets the older build write.
* `notifyBuildResult.groovy:88`: `githubTitle` as an argument leads to a variable that does not exist, and to
  no notification at all.
* The documentation of `notifyBuildResult` names `notifyCoverageComment` and `notifyGoBenchmarkComment`; the code reads `coverageComment` and `goBenchmarkComment`.
* `withGCPEnv.groovy:71`: the clean-up looks into `${WORKSPACE}@${tmp}`, two paths in one, so the key file stays
  (EnteredIsCleaned excepts it).
* `withHubCredentials.groovy:27,32`: the default of `credentialsId` is computed and not used; the clean-up deletes all of `~/.config`.
* Steps that write into HOME (`withNpmrc`, `withAzureCredentials`, `withHubCredentials`, `rubygemsLogin`) are safe in parallel
  branches on one agent only under `withGoEnv` or `withNodeJSEnv`, which set HOME to the workspace: the first to leave removes the
  other's file, and between the check and the `rm` of the other the `rm` fails (BodyHasItsFile and ErrorsArePassedOn state what does hold).
* `notify-build-status/action.yml:37`: the status of a job is read when its message is prepared. A job that is cancelled, or whose Slack step fails, after that
  has a message with the earlier status. GoodNewsIsEarned speaks of the snapshots, which stand.
* `notify-build-status/action.yml:37`: a status input that is the output of a skipped step is empty; `checkEnvVar` refuses it (`main.ts:88`), and the job turns red without a message.
* `check-dependent-jobs/action.yml:20`: when the check itself fails, the notification after it has no `if` and is skipped (FailureIsTold is about the other jobs).
* `snapshoty/index.js:46`: the variable `SNAPSHOTY_` alone becomes an option without a name, which docker refuses.

## 5. Proofs

A proof is for every value of the constants: any number of branches, stages, commits, workspaces and
tries (StageStatusCacheProofs), of builds and tries (AgentEnvProofs), of clients, repositories and files' names (NexusStagingProofs),
of blocks, names and check runs, of builds, nodes and bad answers (GithubNotifyProofs), of builds and comments, whatever the sizes of a page and of an integer,
of branches, pages and changes (PrCommentProofs), of calls, maps and runs, of commits, builds and lanes (WorkflowRunProofs), of jobs, snapshots and attempts (BuildStatusProofs), any branches, agents and
nests of steps of any shapes (CredentialScopesProofs). The assumptions on the
constants are the `ASSUME`s of the modules, nothing else. They say that the bounds are numbers, and what follows from how things are named: builds have numbers
from 1 on, so that 0 is none of them; `"none"` is no node; the URL of a page is that of no release.

In each module `IInv` is the inductive invariant (`FreshInv` for GithubApi, `GitInv` for GitCheckout, `NInv` for NotifyBuild). One lemma shows it of the initial states, others of the steps, with one named step per
action; the theorems follow from it. The text below says what `IInv` adds to the properties and why they need it.

**StageStatusCacheProofs**. FilesAreEarned and SkipIsSound are not inductive: a step that writes a file, or skips, must
know that its call is entitled to. `IInv` adds

* ShasAreSeen: a build sees its own commit's sha, or none, so that a key other than the one of "null" names one commit;
* SavingIsEarned: a call that writes, uploads or has returned did run its body to success;
* TriesLeft: a call that goes on has a try left, from which the types of the counters follow.

| theorem | says |
|---|---|
| TypeCorrect | `Spec => []TypeOK` |
| EarnedFiles | every status file for a commit, in the bucket or a workspace, was left by a success |
| SoundSkips | a skip with `GIT_BASE_COMMIT` set is that of a stage that succeeded for the commit |
| PublishedOk | a call that returned after its body has published: nothing deletes from the bucket (needs `IInv` and that only the last upload makes a call "ok") |
| Refinement | among builds with `GIT_BASE_COMMIT`, every step of StageStatusCache is a step of StageMemo or a stutter: `phase` is computed from the program counter, `memo` is `succeeded` |

**AgentEnvProofs**. The properties speak of ended builds; `IInv` says what holds on the way there:

* TriesCounted: in its catch clause the failures of `setupKind` are one ahead of the tries of the retry around it;
* FileIsOwn: a saved file names this build's container until the next build begins (the first build's leftovers are over-written, not read);
* ClusterGone: past `withKindEnv` the cluster is deleted or an exception is on its way;
* BeatGone: once `stop` has called Docker the container is gone.

| theorem | says |
|---|---|
| TypeCorrect, LeavesNoCluster, StopsItsBeat, ArchivesAsAsked | `Spec =>` always TypeOK, NoClusterLeft, BeatIsStopped, ArchivedAsAsked |

**CredentialScopesProofs**. The nests are sequences of any length over `Shapes` in which every file has a clean-up; one
induction step covers them all, since a branch is at one depth of its nest at a time. `IInv` is TypeOK and, for each branch,

* DepthOK: on the way in all steps outside the current depth are entered, and no others; an ended branch is at depth 0;
* Removed: a file with the branch's mark belongs to a step not entered, to `withGCPEnv`, or to a step still around it: EnteredIsCleaned with the depth added;
* ErrorsKept: trouble keeps `failed` set; `failed` without trouble means that some file is in a shared HOME, because a file in the branch's own place
  is still there between the look and the removal.

A branch writes no name but its own (`FilesOK`), and other branches write none in its own places: `OthersKeep` is the non-interference of branches. `Inwards` and `OutwardsOK`
cover the two ways a branch moves in its nest, and every action is an instance of one of them.

BodyHasItsFile needs an invariant of its own beside `IInv`, `Written`: on the way in and in the body, the files of the steps that were entered
are there and are the branch's, and in the body every step is entered. Its induction uses that a branch overwrites a file only with its own name and that
nobody else writes into the branch's own places. BodyHasItsSecrets needs `Informed`: on the way in, every step outside the current one that
asks for a secret has an answer that suffices, and so has the current one past its reading. `Throws` leaves the nest at once, so nothing is left to show (`ThrowsOutside` and the
lemmas beside it).

| theorem | says |
|---|---|
| TypeCorrect, CleansWhatWasEntered, PassesErrorsOn, BodyFindsItsFiles, BodyGetsItsSecrets | `Spec =>` always TypeOK, EnteredIsCleaned, ErrorsArePassedOn, BodyHasItsFile, BodyHasItsSecrets |

**NexusStagingProofs**. What a step returns is about a server that others use meanwhile. `IInv` says

* ReposOK: only an open repository is being closed, and a close that the activity shows as ended did end;
* ClientsOK: what a client knows between two requests: `create` has a repository of its own from the moment the list named it, `upload` has put all
  the files before the one it is at, a returned `close` saw the close end; no step has more tries than it may.

`Keeps` is what makes this stable: whoever acts, a repository never loses its creator, its being there, its files, or being closed
(`StaysTrue`).

| theorem | says |
|---|---|
| TypeCorrect, OwnCreates, CompleteUploads, TrueCloses | `Spec =>` always TypeOK, CreatedIsOwn, UploadIsComplete, ClosedWhenOk |

**GithubNotifyProofs**. A success that was sent may take effect after its sender was told that it failed. `IInv` says

* BlocksOK: where a block is decides what it has shown, and what it has shown decides how far its body is; where failures are ignored, showing a failure means the body failed;
* StatusOK, RunsOK: what GitHub shows under a name is of a block of that name that has begun, and a success of one whose body passed;
* OwnRuns: an undisturbed block (nobody else uses its name, and the check runs of the commit fit the page) has at most one check run, the one it found. The runs of a commit never get fewer, so that a
  block that is undisturbed was so at its lookup.

| theorem | says |
|---|---|
| TypeCorrect, EarnedSuccess, IgnoredAreHarmless, LastIsOutcome, OneRun | `Spec =>` always TypeOK, SuccessIsEarned, IgnoredFailuresAreHarmless, LastStatusIsOutcome, OneRunShowsOutcome |

Of NotifyBuild, `NInv` says beside the types

* NodesOK: a build that is in the step has a node, which no other build has; `left` is set by the last thing a build does, so that SomebodyLeft stays true;
* WorkspacesOK: while no `deleteDir` failed, a workspace is empty until the build at its node has collected. This is why a file that is read is the build's
  own, and why the data can be shown to start from nothing;
* DataOK: from then on, with whole answers, the five files can be read and both reports are JSON;
* CommentsOK: after the report it, or the empty text in its place, is among the notes if comments were asked for; an aggregated comment of a build is only there once the build is past it, and shows the notes;
* SilenceOK: a build that can still throw, or has, has not commented, checked or counted.

The first two concern several builds, and `BuildStep` is the non-interference: a build writes to its own workspace, and the comment or the check is left or becomes its own.
Every action is an instance of `BuildStep`. The functions of BuildData have lemmas of their own: `CollectedType`,
`OwnData` (in an empty workspace every file is this build's, whatever was answered) and `WholeFromScratch` (there, answers that are not empty or cut off
make every file JSON, whichever requests fail).

| theorem | says |
|---|---|
| NotificationInvariant | `NotifySpec => []NInv`, with it NotifyTypeOK |
| BuildsReportThemselves, DefaultsAlwaysHold, CommentsAreComplete, NotificationsDoNotThrow | `NotifySpec =>` always ReportsItself, DefaultsHold, CommentIsComplete, NoNotificationThrows |

**PrCommentProofs**. Ids and the page are numbers, and the conversion to 32 bits is part of the argument (`Converted`: the result is the id, or negative). `IInv` says

* CommentsOK: GitHub's ids ascend and are never used again, so that an id names one comment or none;
* AloneOK: of two builds that run at the same time both know that they are disturbed;
* OneOK: without disturbance, ids above `MaxInt` and full pages, the marked comment is the one that the artifact names while nobody runs, and the one
  that the running build holds after its lookup.

| theorem | says |
|---|---|
| TypeCorrect, OthersAreSafe, SavesItsOwn, OneForAll | `Spec =>` always TypeOK, EditsOwnComments, SavedIsMine, OneComment |

Of GithubApi, `FreshInv` says beside the types

* PagesCached: what is cached for a page is no newer than the page, so that storing what GitHub answers now never goes back;
* ReadsOK: a read began when the page was no newer than it is, and one with `noCache` was answered no older than that.

CacheNeverGoesBack is an action property, and follows from PagesCached for every kind of step; what a create or a publish stores is under another URL.

| theorem | says |
|---|---|
| ReadsAreFresh | `ApiSpec => []UncachedIsFresh` |
| CacheOnlyAdvances | `ApiSpec => CacheNeverGoesBack` |

**WorkflowRunProofs**. A call looks for the lookup id that the first call with its map wrote into the map. `IInv` says

* LookupIdsOK, RunsOK: the id in a map is that of a call with the map, and a run that shows an id was triggered with its map;
* CallsOK: a call looks for the id of its own map, in a list of runs that there are, and polls a run that was triggered with its map.

| theorem | says |
|---|---|
| TypeCorrect, OwnRun | `Spec =>` always TypeOK, RunIsOwn |

Of GitCheckout, `GitInv` says beside the types

* BuildsOK: GIT_BASE_COMMIT is a commit that the build has seen (checked out, or fetched as its pull request), and is not exported before GIT_URL is;
* LanesOK: a work tree holds the build's revision or a commit that the build has seen, and so has what is about to be tagged; past its own checkout a lane was
  trusted, or approved, or has an abort coming;
* AgreesOK: from its export until its next checkout, the only lane of a build for a branch has in its work tree what GIT_BASE_COMMIT names;
* AskedOK: a lane that asked for a stage did so for a commit that its build has seen, and, if it is such a lane, for that in its work tree, which it still has;
* TagsOK: a tag is at a commit that its build has seen;
* MemoOK: what is remembered ran on the commit that it stands for, unless a build was misled about it.

SkippedWasRun relates a work tree to an environment that another lane may have written, and to a memory that another build did. The lane's commit is the one that it asked for
(`AskedIsThere`): by AskedOK, or because a build that is not misled has seen nothing but its revision. `MisledStays`: what a build has seen it has seen for ever, and its revision is chosen before it sees anything.

| theorem | says |
|---|---|
| CheckoutTypeCorrect, TagsAreBuilt, SkipsWhatRan, UnapprovedAreStopped | `GitSpec =>` always GitTypeOK, TagIsBuilt, SkippedWasRun, UnapprovedStops |

**BuildStatusProofs**. A message is sent in one step and is read in a later attempt, so `IInv` ties each job's record to the attempt:

* JobsOK: a prepared payload is of this attempt, and its success is that of an upload; the verdict of Status is that of all results, which are there when it is formed;
* ResultsKept, ResultsEarned: a job has a result in this attempt when, and only when, it is over; a carried-over success is that of an upload in an earlier attempt;
* SlackOK: what was told of an attempt stays true of it.

ContainerEnvironment is about the functions of SnapshotyArgs: of the options, the last one of a name decides (`LastDecides`), and the container gets the documented variables, for any environment.

| theorem | says |
|---|---|
| TypeCorrect, GoodNews, CombinedVerdict, SilentGreen, ContainerEnvironment | `Spec =>` always TypeOK, GoodNewsIsEarned, VerdictIsCombined, NoSilentGreen, SnapshotGetsItsEnv |

Every invariant and every action property of the runs is proved. Only model-checked is liveness (BlockEnds, BuildEnds, CallEnds,
FailureIsTold and StepEnds): fairness and ENABLED are beyond the prover.

## 6. Plan

Done: the modules above. Next, in this order:

1. **BeatsSelection** (pure): `beatsWhen`, `beatsStages`, `isGitRegionMatch`, `getGitMatchingGroup` as functions of a change set, labels and
   comments, against a reference definition over all small change sets.
2. **Matrix**: the task generator as a product with exclusions, and the results of parallel tasks written to one map.
3. **Versions** (pure): selection from small sets of versions.
4. **Stash and DockerPublish**: on the bucket of StageStatusCache; a repeated upload.
5. **BuildAbort**: `cancelPreviousRunningBuilds` against builds in NotifyBuild.

Abstract specifications worth stating: a register per name for GithubNotify (the last writer's outcome), an idempotent
create for NexusStaging, one comment per pull request for PrComment. Pure modules share one run each over enumerated inputs.

Theorems to come: the abstract specifications above as refinements, each from the invariant that is there.

## 7. Not modelled

Conversions of reports and coverage, the release manager, end-to-end pipelines, node labels and lookups of one value, `pytest_otel`,
the other composite GitHub actions, updatecli and the local Jenkins: each is a straight sequence of commands or a function of its arguments with
no state between calls, or it is configuration. `PROJECT.json` has the reason for each.
